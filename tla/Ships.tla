-------------------------------- MODULE Ships --------------------------------
(***************************************************************************)
(* The craft files of several computers and the runs of send and receive   *)
(* that read and write them: resolve_craft_target (src/cli.rs),            *)
(* KspInstall::find_blueprint (src/ksp/detector.rs), CraftFile::load       *)
(* (src/craft/mod.rs), and resolve_target_path and the saving of the file  *)
(* at the end of run_session (src/engine/receiver.rs; quic.rs has the same *)
(* lines).                                                                 *)
(*                                                                         *)
(* Files are read and written piece by piece, with no lock and no          *)
(* temporary file, so runs on one computer meet each other half way.  What *)
(* happens on the connection is module Session: here a session gives the   *)
(* receiver what the sender has loaded, or fails.                          *)
(***************************************************************************)
EXTENDS CraftText

CONSTANTS
    Char,                \* the characters of names and files
    Senders, Receivers,  \* runs of "send" and of "receive"
    Host,                \* computers
    Plans,               \* the command lines considered, one function each
    Disks,               \* the disks considered at the start
    HomeRoots,           \* candidate install roots below home, in their order
    Installs,            \* of each computer, the roots with a Ships directory
    Faults               \* the faults that may happen

Proc == Senders \cup Receivers

(* Names, and paths of them. *)
Name == Seq(Char)
Component == {name \in Name : name # <<>> /\ ~Contains(name, "/")}
Path == Seq(Component)

(* A run: on which computer and in which directory, its KSP_ROOT, send's   *)
(* target, split at its separators, and --ship, receive's --out.  (An      *)
(* absolute target is one that is typed in the root directory.)            *)
Plan == [host : Host, cwd : Path, env : SUBSET Path, target : Path,
         ship : SUBSET {"Vab", "Sph"}, out : SUBSET Path]

(* What the disk of a computer holds: a function from paths to texts. *)
IsDisk(disk) ==
    \A f \in DOMAIN disk : f \in Path \ {<<>>} /\ disk[f] \in Seq(Char)

(* What the program itself puts into names, paths and files. *)
Words == {"_", "blueprint", ".craft", "Ships", "VAB", "SPH", "NUL"}

ASSUME ShipsAssumption ==
    /\ Words \subseteq Char
    /\ Senders \cap Receivers = {}
    /\ Plans \subseteq [Proc -> Plan]
    /\ \A disks \in Disks : DOMAIN disks = Host /\ \A h \in Host : IsDisk(disks[h])
    /\ HomeRoots \in Seq(Path)
    /\ Faults \subseteq {"crash", "disk", "net"}

VARIABLES
    plan,   \* the command lines, fixed at the start
    before, \* what the disk of each computer held at the start
    files,  \* what it holds
    state,  \* where each run is, or its result
    path,   \* the file it reads or writes, once known
    bytes,  \* sender: what it has read; receiver: what it has received
    meta,   \* the metadata of bytes, once loaded or received
    pos,    \* how far it has read or written
    peer    \* receiver: the sender it has received from, if any

vars == <<plan, before, files, state, path, bytes, meta, pos, peer>>
inputs == <<plan, before>>

Results ==
    {"KspNotFound", "CraftNotFound", "InvalidCraft", "Lost", "IoError",
     "Crashed", "Sent", "Saved"}
Running == {"start", "reading", "sharing", "waiting", "received", "writing"}

Init ==
    /\ plan \in Plans
    /\ before \in Disks
    /\ files = before
    /\ state = [p \in Proc |-> "start"]
    /\ path = [p \in Proc |-> <<>>]
    /\ bytes = [p \in Proc |-> <<>>]
    /\ meta = [p \in Proc |-> None]
    /\ pos = [p \in Proc |-> 0]
    /\ peer = [r \in Receivers |-> None]

Goto(p, next) == state' = [state EXCEPT ![p] = next]
Disk(p) == files[plan[p].host]

-----------------------------------------------------------------------------
(* The install. *)

CandidateInstallRoots(p) ==
    IF plan[p].env = None THEN HomeRoots
    ELSE <<UnwrapOr(plan[p].env, <<>>)>> \o HomeRoots

(* detect_ksp_install: the first candidate with a Ships directory. *)
DetectKspInstall(p) ==
    LET roots == CandidateInstallRoots(p)
        i == SelectInSeq(roots, LAMBDA root : root \in Installs[plan[p].host])
    IN IF i = 0 THEN None ELSE Some(roots[i])

VabDir(root) == root \o <<<<"Ships">>, <<"VAB">>>>
SphDir(root) == root \o <<<<"Ships">>, <<"SPH">>>>

(* list_blueprints: the craft files of a hangar. *)
Collect(p, dir) ==
    {f \in DOMAIN Disk(p) :
       /\ Front(f) = dir
       /\ HasExtension(Last(f)) /\ Last(Last(f)) \in {".craft", ".CRAFT"}}

(* find_blueprint, of a name with or without ".craft".  The list is sorted *)
(* by name, and stable: of two files whose names differ in case only, one  *)
(* in VAB comes before one in SPH; within a hangar the order is that of    *)
(* the directory.  A seeded fault takes any extension off the name.        *)
FindBlueprintStem(p, root, name, ship) ==
    LET want == UpTo(Trim(name), {"."})
    IN {f \in Collect(p, VabDir(root)) \cup Collect(p, SphDir(root)) :
          EqIgnoreCase(FileStem(Last(f)), want)}

FindBlueprint(p, root, name, ship) ==
    LET want == TrimEnd(Trim(name), {".craft"})
        named(dir) == {f \in Collect(p, dir) : EqIgnoreCase(FileStem(Last(f)), want)}
        vab == IF ship \subseteq {"Vab"} THEN named(VabDir(root)) ELSE {}
        sph == IF ship \subseteq {"Sph"} THEN named(SphDir(root)) ELSE {}
    IN IF vab # {} THEN vab ELSE sph

-----------------------------------------------------------------------------
(* send: cmd_send, up to the session. *)

(* The file that the target denotes where it was typed, if there is one. *)
Local(s) == plan[s].cwd \o plan[s].target
IsLocal(s) == plan[s].target # <<>> /\ Local(s) \in DOMAIN Disk(s)

(* What the target finds in the install.  No blueprint has a name with a   *)
(* separator.                                                              *)
Blueprints(s) ==
    IF Len(plan[s].target) # 1 THEN {}
    ELSE FindBlueprint(s, UnwrapOr(DetectKspInstall(s), <<>>),
                       plan[s].target[1], plan[s].ship)

(* resolve_craft_target.  path is the file on the disk. *)
Resolve(s) ==
    /\ state[s] = "start"
    /\ \/ /\ IsLocal(s)
          /\ path' = [path EXCEPT ![s] = Local(s)]
          /\ Goto(s, "reading")
       \/ /\ ~IsLocal(s)
          /\ DetectKspInstall(s) # None
          /\ \E f \in Blueprints(s) : path' = [path EXCEPT ![s] = f]
          /\ Goto(s, "reading")
       \/ /\ ~IsLocal(s)
          /\ DetectKspInstall(s) = None \/ Blueprints(s) = {}
          /\ Goto(s, IF DetectKspInstall(s) = None THEN "KspNotFound"
                                                   ELSE "CraftNotFound")
          /\ UNCHANGED path
    /\ UNCHANGED <<inputs, files, bytes, meta, pos, peer>>

(* The path that resolve_craft_target returns and load is given: that of a *)
(* local file is the target as it was typed, without the directories above *)
(* it.  (A blueprint that is found is not local.)                          *)
Given(s) ==
    IF plan[s].target # <<>> /\ path[s] = Local(s) THEN plan[s].target ELSE path[s]

(* fs::read, one read at a time. *)
Read(s) ==
    /\ state[s] = "reading"
    /\ \E n \in 1..(Len(Disk(s)[path[s]]) - pos[s]) :
         /\ bytes' = [bytes EXCEPT ![s] =
                        @ \o SubSeq(Disk(s)[path[s]], pos[s] + 1, pos[s] + n)]
         /\ pos' = [pos EXCEPT ![s] = @ + n]
    /\ UNCHANGED <<inputs, files, state, path, meta, peer>>

(* The end of the file: the craft is what was read. *)
Load(s) ==
    /\ state[s] = "reading"
    /\ Len(Disk(s)[path[s]]) <= pos[s]
    /\ IF InvalidCraft(bytes[s])
       THEN Goto(s, "InvalidCraft") /\ UNCHANGED meta
       ELSE /\ Goto(s, "sharing")
            /\ meta' = [meta EXCEPT ![s] = Some(Metadata(bytes[s], Given(s)))]
    /\ UNCHANGED <<inputs, files, path, bytes, pos, peer>>

(* Listing the hangars or reading the file fails. *)
ReadFails(s) ==
    /\ "disk" \in Faults
    /\ \/ state[s] = "start" /\ ~IsLocal(s) /\ DetectKspInstall(s) # None
          /\ Goto(s, "IoError")
       \/ state[s] = "reading" /\ Goto(s, "CraftNotFound")
    /\ UNCHANGED <<inputs, files, path, bytes, meta, pos, peer>>

-----------------------------------------------------------------------------
(* receive. *)

(* cmd_receive detects the install before it connects. *)
Start(r) ==
    /\ state[r] = "start"
    /\ Goto(r, IF plan[r].out = None /\ DetectKspInstall(r) = None
               THEN "KspNotFound" ELSE "waiting")
    /\ UNCHANGED <<inputs, files, path, bytes, meta, pos, peer>>

(* A session, as Transfer describes it; or it fails. *)
Session(s, r) ==
    /\ state[s] = "sharing"
    /\ state[r] = "waiting"
    /\ state' = [state EXCEPT ![s] = "Sent", ![r] = "received"]
    /\ bytes' = [bytes EXCEPT ![r] = bytes[s]]
    /\ meta' = [meta EXCEPT ![r] = meta[s]]
    /\ peer' = [peer EXCEPT ![r] = Some(s)]
    /\ UNCHANGED <<inputs, files, path, pos>>

SessionFails(s, r) ==
    /\ "net" \in Faults
    /\ state[s] = "sharing"
    /\ state[r] = "waiting"
    /\ state' = [state EXCEPT ![s] = "Lost", ![r] = "Lost"]
    /\ UNCHANGED <<inputs, files, path, bytes, meta, pos, peer>>

Reserved == {"/", "\\", ":", "*", "?", "\"", "<", ">", "|", "NUL"}

TrimOnly(name) ==  \* seeded fault
    IF Trim(name) = <<>> THEN <<"blueprint">> ELSE Trim(name)

Sanitize(name) ==
    LET safe == [i \in DOMAIN name |-> IF name[i] \in Reserved THEN "_" ELSE name[i]]
        trimmed == TrimEnd(Trim(safe), {"."})
    IN IF trimmed = <<>> THEN <<"blueprint">> ELSE trimmed

(* The file name is the whole name and ".craft"; a seeded fault replaces   *)
(* what follows the last dot, as Path::set_extension does.                 *)
SetExtension(name) ==
    LET dot == SelectLastInSeq(Sanitize(name), LAMBDA c : c = ".")
    IN (IF dot > 1 THEN SubSeq(Sanitize(name), 1, dot - 1) ELSE Sanitize(name))
         \o <<".craft">>
FileName(name) == Sanitize(name) \o <<".craft">>

(* resolve_target_path. *)
HangarDir(root, ship) == IF ship = "Sph" THEN SphDir(root) ELSE VabDir(root)

ResolveTargetPath(r, m) ==
    LET dir == IF plan[r].out # None THEN UnwrapOr(plan[r].out, <<>>)
               ELSE HangarDir(UnwrapOr(DetectKspInstall(r), <<>>), m.ship_type)
    IN Append(dir, FileName(m.name))

(* File::create: the file is empty from now on.  A seeded fault keeps what *)
(* it held.                                                                *)
Kept(disk, f) == IF f \in DOMAIN disk THEN disk ELSE disk @@ (f :> <<>>)
Created(disk, f) == [g \in DOMAIN disk \cup {f} |-> IF g = f THEN <<>> ELSE disk[g]]

Create(r) ==
    /\ state[r] = "received"
    /\ \E m \in meta[r] :
         LET target == ResolveTargetPath(r, m) IN
           /\ path' = [path EXCEPT ![r] = target]
           /\ files' = [files EXCEPT ![plan[r].host] = Created(@, target)]
    /\ Goto(r, "writing")
    /\ UNCHANGED <<inputs, bytes, meta, pos, peer>>

(* write_all, one write at a time.  A write beyond the end of the file,    *)
(* which another run has emptied meanwhile, leaves a hole that reads as    *)
(* NULs.                                                                   *)
Overwritten(old, at, new) ==
    [i \in 1..(IF Len(old) > at + Len(new) THEN Len(old) ELSE at + Len(new)) |->
       IF i \in (at + 1)..(at + Len(new)) THEN new[i - at]
       ELSE IF i <= Len(old) THEN old[i] ELSE "NUL"]

Write(r) ==
    /\ state[r] = "writing"
    /\ \E n \in 1..(Len(bytes[r]) - pos[r]) :
         /\ files' = [files EXCEPT ![plan[r].host][path[r]] =
                        Overwritten(@, pos[r], SubSeq(bytes[r], pos[r] + 1, pos[r] + n))]
         /\ pos' = [pos EXCEPT ![r] = @ + n]
    /\ UNCHANGED <<inputs, state, path, bytes, meta, peer>>

Report(r) ==
    /\ state[r] = "writing"
    /\ pos[r] = Len(bytes[r])
    /\ Goto(r, "Saved")
    /\ UNCHANGED <<inputs, files, path, bytes, meta, pos, peer>>

(* Creating or writing the file fails. *)
DiskFails(r) ==
    /\ "disk" \in Faults
    /\ state[r] \in {"received", "writing"}
    /\ Goto(r, "IoError")
    /\ UNCHANGED <<inputs, files, path, bytes, meta, pos, peer>>

Crash(p) ==
    /\ "crash" \in Faults
    /\ state[p] \in Running
    /\ Goto(p, "Crashed")
    /\ UNCHANGED <<inputs, files, path, bytes, meta, pos, peer>>

Next ==
    \/ \E s \in Senders : Resolve(s) \/ Read(s) \/ Load(s) \/ ReadFails(s)
    \/ \E r \in Receivers : Start(r) \/ Create(r) \/ Write(r) \/ Report(r) \/ DiskFails(r)
    \/ \E s \in Senders, r \in Receivers : Session(s, r) \/ SessionFails(s, r)
    \/ \E p \in Proc : Crash(p)

Spec == Init /\ [][Next]_vars
=============================================================================
