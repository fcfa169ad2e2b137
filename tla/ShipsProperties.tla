-------------------------- MODULE ShipsProperties --------------------------
(***************************************************************************)
(* What the users of send and receive rely on: a blueprint arrives whole,  *)
(* under its name, in its hangar, can be shared again from there, and      *)
(* nothing else on the disk changes.                                       *)
(***************************************************************************)
EXTENDS Ships

CraftMetadata ==
    [name : Name, ksp_version : SUBSET Name, ship_type : {"Vab", "Sph", "Unknown"},
     generation : {"Ksp1", "Ksp2"}]

(* Type correctness. *)
TypeOK ==
    /\ plan \in [Proc -> Plan]
    /\ DOMAIN before = Host /\ DOMAIN files = Host
    /\ \A h \in Host : IsDisk(before[h]) /\ IsDisk(files[h])
    /\ state \in [Proc -> Running \cup Results]
    /\ path \in [Proc -> Path]
    /\ bytes \in [Proc -> Seq(Char)]
    /\ meta \in [Proc -> SUBSET CraftMetadata]
    /\ pos \in [Proc -> Nat] /\ \A p \in Proc : pos[p] <= Len(bytes[p])
    /\ peer \in [Receivers -> SUBSET Senders]

(* The receivers that have created the file f of a computer. *)
Writers(h, f) == {r \in Receivers : plan[r].host = h /\ f # <<>> /\ path[r] = f}

(* A file that no receiver has created is as it was, and none disappears.  *)
(* One that a single receiver has created holds what this one has written. *)
(* If several create the same file, none of them waiting for the others,   *)
(* what stands at each place is what one of them received for this place,  *)
(* or a NUL.  (receiver.rs:168-173, 213-238)                               *)
OnlyWhatWasReceived ==
    \A h \in Host :
      /\ DOMAIN before[h] \subseteq DOMAIN files[h]
      /\ \A f \in DOMAIN files[h] :
           /\ Writers(h, f) = {} =>
                f \in DOMAIN before[h] /\ files[h][f] = before[h][f]
           /\ \A r \in Writers(h, f) :
                Writers(h, f) = {r} => files[h][f] = SubSeq(bytes[r], 1, pos[r])
           /\ Writers(h, f) # {} =>
                \A i \in DOMAIN files[h][f] :
                  \/ files[h][f][i] = "NUL"
                  \/ \E r \in Writers(h, f) :
                       i <= pos[r] /\ files[h][f][i] = bytes[r][i]

(* From disk to disk: if no receiver has written the file that was shared, *)
(* and one alone the file that was saved, the second is the first once     *)
(* "Saved" is reported.  A file may well be read while it is saved: what   *)
(* is shared then has a valid digest and is not a craft file.              *)
(* (craft/mod.rs:27-42, receiver.rs:168-180)                               *)
ArrivesWhole ==
    \A r \in Receivers : \A s \in peer[r] :
      /\ state[r] = "Saved"
      /\ Writers(plan[s].host, path[s]) = {}
      /\ Writers(plan[r].host, path[r]) = {r}
      => files[plan[r].host][path[r]] = before[plan[s].host][path[s]]

(* A name that is a file name as it stands. *)
Plain(name) ==
    /\ name # <<>>
    /\ \A i \in DOMAIN name : name[i] \notin Reserved
    /\ name[1] \notin Blank
    /\ Last(name) \notin Blank \cup {".", ".craft"}

Saving(r) == path[r] # <<>>

(* A plain name is the stem of the file, dots and all: blueprints of       *)
(* different plain names never overwrite each other.                       *)
(* (receiver.rs:213-216)                                                   *)
KeepsItsName ==
    \A r \in Receivers : \A m \in meta[r] :
      Saving(r) /\ Plain(m.name) => FileStem(Last(path[r])) = m.name

(* What lands in the install is what is shared from there by its name and  *)
(* hangar, and nothing else is, unless that hangar holds a twin: a file of *)
(* the same name but for the case of letters, of which the directory       *)
(* decides which one is found.  By the name alone a twin in VAB also hides *)
(* what is in SPH.  (receiver.rs:203-218, detector.rs:28-43)               *)
Install(p) == UnwrapOr(DetectKspInstall(p), <<>>)
HangarOf(p, f) == IF Front(f) = SphDir(Install(p)) THEN "Sph" ELSE "Vab"

TwinIn(dir, r, name) ==
    \E f \in DOMAIN Disk(r) \ {path[r]} :
      Front(f) = dir /\ EqIgnoreCase(FileStem(Last(f)), name)

FoundAgain ==
    \A r \in Receivers : \A m \in meta[r] :
      Saving(r) /\ Plain(m.name) /\ plan[r].out = None =>
        LET hangar == HangarOf(r, path[r])
            found(ship) == FindBlueprint(r, Install(r), m.name, ship)
            twin(dir) == TwinIn(dir, r, m.name)
        IN /\ path[r] \in found(Some(hangar))
           /\ found(Some(hangar)) = {path[r]} \/ twin(Front(path[r]))
           /\ \/ found(None) = {path[r]} \/ twin(Front(path[r]))
              \/ hangar = "Sph" /\ twin(VabDir(Install(r)))

(* A blueprint whose header names no hangar goes from the hangar of one    *)
(* install to the same hangar of the other, provided that the path it is   *)
(* shared by names this hangar, and nothing above it is called like one.   *)
(* A blueprint found by its name has its whole path.  A local file has the *)
(* path that was typed: from within SPH, by its file name alone, it is     *)
(* saved in VAB.  (cli.rs:440-447, craft/mod.rs:33-35, 51-62,              *)
(* receiver.rs:207-211)                                                    *)
HangarKept ==
    \A r \in Receivers : \A s \in peer[r] :
      /\ Saving(r)
      /\ plan[r].out = None
      /\ ParseMetadata(bytes[s], Given(s)).ship_type = "Unknown"
      /\ Front(path[s]) \in {VabDir(Install(s)), SphDir(Install(s))}
      /\ Len(Given(s)) > 1
      /\ \A i \in 1..(Len(Given(s)) - 2) : ShipNamed(Some(Given(s)[i])) = "Unknown"
      => HangarOf(r, path[r]) = HangarOf(s, path[s])
=============================================================================
