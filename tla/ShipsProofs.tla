----------------------------- MODULE ShipsProofs -----------------------------
(***************************************************************************)
(* Of module Ships, for every number of computers, senders and receivers,  *)
(* every disk and every command line: types are kept, the disk changes as  *)
(* OnlyWhatWasReceived says, what is saved is what was shared              *)
(* (ArrivesWhole), under its name (KeepsItsName), in its hangar            *)
(* (HangarKept), and can be shared again from there (FoundAgain).          *)
(***************************************************************************)
EXTENDS ShipsProperties, TextProofs

-----------------------------------------------------------------------------
(* What is read out of a craft file is metadata.                           *)

LEMMA FileStemText ==
  ASSUME NEW file \in Name
  PROVE  FileStem(file) \in Name
<1>1. file # <<>> => Front(file) \in Name
  BY FrontText DEF Name
<1>2. Len(file) > 1 => file # <<>>
  BY EmptySeq DEF Name
<1> QED BY <1>1, <1>2 DEF FileStem, HasExtension

LEMMA ShipNamedType ==
  ASSUME NEW option
  PROVE  ShipNamed(option) \in {"Vab", "Sph", "Unknown"}
  BY Zenon DEF ShipNamed

LEMMA ShipTypeFromPathType ==
  ASSUME NEW f
  PROVE  ShipTypeFromPath(f) \in {"Vab", "Sph", "Unknown"}
<1> DEFINE i == SelectInSeq(f, LAMBDA c : ShipNamed(Some(c)) # "Unknown")
<1>1. ShipTypeFromPath(f) = IF i = 0 THEN "Unknown" ELSE ShipNamed(Some(f[i]))
  BY Zenon DEF ShipTypeFromPath
<1>2. ShipNamed(Some(f[i])) \in {"Vab", "Sph", "Unknown"}
  BY ShipNamedType
<1> HIDE DEF i
<1> QED BY <1>1, <1>2

LEMMA CfgFieldType ==
  ASSUME NEW text \in Name, NEW key
  PROVE  CfgField(text, key) \in SUBSET Name
<1> DEFINE starts == {i \in DOMAIN text : i = 1 \/ text[i - 1] = "\n"}
           line(i) == Trim(UpTo(From(text, i), {"\n"}))
           found == {i \in starts : StripKey(line(i), key) # None}
<1>1. \A i \in starts : i \in Nat \ {0}
  BY LenProperties DEF Name
<1>2. ASSUME NEW i \in starts
      PROVE  StripKey(line(i), key) \in SUBSET Name
  <2>1. From(text, i) \in Name
    BY <1>1, FromText DEF Name
  <2>2. UpTo(From(text, i), {"\n"}) \in Name
    BY <2>1, UpToText, Zenon DEF Name
  <2>3. line(i) \in Name
    BY <2>2, TrimText, Zenon DEF Name
  <2>4. Trim(From(line(i), 4)) \in Name
    <3> HIDE DEF line
    <3>1. From(line(i), 4) \in Name
      BY <2>3, FromText DEF Name
    <3> QED BY <3>1, TrimText DEF Name
  <2> HIDE DEF line
  <2> QED BY <2>4 DEF StripKey, Some, None
<1>3. found # {} => Min(found) \in starts
  <2>1. found \subseteq Nat
    BY <1>1
  <2>2. found # {} => Min(found) \in found
    <3> HIDE DEF found
    <3> QED BY <2>1, MinOfNats
  <2> QED BY <2>2, Zenon
<1>4. CfgField(text, key) = IF found = {} THEN None ELSE StripKey(line(Min(found)), key)
  BY Zenon DEF CfgField
<1>5. found # {} => StripKey(line(Min(found)), key) \in SUBSET Name
  BY <1>2, <1>3, Zenon
<1> HIDE DEF found, line
<1> QED BY <1>4, <1>5 DEF None

LEMMA JsonValueType ==
  ASSUME NEW value \in Name
  PROVE  JsonValue(value) \in SUBSET Name
<1>1. value # <<>> => Tail(value) \in Name
  BY HeadTailProperties DEF Name
<1>2. value # <<>> => UpTo(Tail(value), {QUOTE}) \in Name
  BY <1>1, UpToText DEF Name
<1>3. UpTo(value, {",", "}", "\n", "\r"}) \in Name
  BY UpToText DEF Name
<1>4. Trim(UpTo(value, {",", "}", "\n", "\r"})) \in Name
  BY <1>3, TrimText DEF Name
<1> QED BY <1>2, <1>4 DEF JsonValue, Some, None

LEMMA JsonFieldType ==
  ASSUME NEW text \in Name, NEW key
  PROVE  JsonField(text, key) \in SUBSET Name
<1> DEFINE at == {i \in 1..(Len(text) - 2) : SubSeq(text, i, i + 2) = <<QUOTE, key, QUOTE>>}
           after == TrimStart(From(text, Min(at) + 3))
<1>1. at \subseteq Nat
  OBVIOUS
<1>2. at # {} => Min(at) + 3 \in Nat \ {0}
  <2>1. at # {} => Min(at) \in Nat
    <3> HIDE DEF at
    <3> QED BY <1>1, MinOfNats
  <2> HIDE DEF at
  <2> QED BY <2>1
<1>3. at # {} => after \in Name
  <2> HIDE DEF at
  <2>1. at # {} => From(text, Min(at) + 3) \in Name
    BY <1>2, FromText DEF Name
  <2> QED BY <2>1, TrimStartText DEF Name
<1>4. at # {} /\ after # <<>> => Tail(after) \in Name
  <2> HIDE DEF at, after
  <2> QED BY <1>3, HeadTailProperties DEF Name
<1>5. at # {} /\ after # <<>> => JsonValue(TrimStart(Tail(after))) \in SUBSET Name
  <2> HIDE DEF at, after
  <2>1. at # {} /\ after # <<>> => TrimStart(Tail(after)) \in Name
    BY <1>4, TrimStartText DEF Name
  <2> QED BY <2>1, JsonValueType
<1>6. JsonField(text, key) =
        IF at # {} /\ after # <<>> /\ after[1] = ":"
        THEN JsonValue(TrimStart(Tail(after))) ELSE None
  BY Zenon DEF JsonField
<1> HIDE DEF at, after
<1> QED BY <1>5, <1>6 DEF None

LEMMA UnwrapOrType ==
  ASSUME NEW S, NEW option \in SUBSET S, NEW default \in S
  PROVE  UnwrapOr(option, default) \in S
  BY Zenon DEF UnwrapOr, None

LEMMA MetadataType ==
  ASSUME NEW b \in Seq(Char), NEW f \in Path, f # <<>>
  PROVE  Metadata(b, f) \in CraftMetadata
<1> DEFINE head == HeadOf(b)
           stem == FileStem(Last(f))
<1>1. head \in Name
  <2> DEFINE n == IF Len(b) < HEAD_BYTES THEN Len(b) ELSE HEAD_BYTES
  <2>1. n \in 0..Len(b) /\ 1 \in Nat \ {0}
    BY HeadAssumption, LenProperties
  <2>2. HeadOf(b) = SubSeq(b, 1, n)
    BY DEF HeadOf
  <2> HIDE DEF n
  <2> QED BY <2>1, <2>2, SubSeqText DEF Name
<1>2. stem \in Name
  <2>1. Last(f) \in Component
    BY LenProperties, EmptySeq, ElementOfSeq DEF Last, Path
  <2> QED BY <2>1, FileStemText DEF Component
<1>3. \A key : JsonField(head, key) \in SUBSET Name /\ CfgField(head, key) \in SUBSET Name
  <2> HIDE DEF head
  <2> QED BY <1>1, JsonFieldType, CfgFieldType
<1>4. \A key : /\ UnwrapOr(JsonField(head, key), stem) \in Name
               /\ UnwrapOr(CfgField(head, key), stem) \in Name
  <2> HIDE DEF head, stem
  <2> QED BY <1>2, <1>3, UnwrapOrType
<1>5. ParseMetadata(b, f) \in CraftMetadata
  <2> HIDE DEF head, stem
  <2>1. \A option : ShipNamed(option) \in {"Vab", "Sph", "Unknown"}
    BY ShipNamedType
  <2> QED BY <1>3, <1>4, <2>1 DEF ParseMetadata, CraftMetadata, head, stem
<1> QED BY <1>5, ShipTypeFromPathType DEF Metadata, CraftMetadata

-----------------------------------------------------------------------------
(* File names and places. *)

LEMMA SlashFree ==
  <<"Ships">> \in Component /\ <<"VAB">> \in Component /\ <<"SPH">> \in Component
<1>1. ASSUME NEW C \in SUBSET Char, NEW c \in C, "/" \notin C
      PROVE  <<c>> \in Component
  <2>1. <<c>> \in Seq(C) /\ <<c>> # <<>> /\ Len(<<c>>) = 1 /\ <<c>>[1] = c
    BY Singleton
  <2>2. <<c>> \in Seq(Char)
    BY <2>1, SeqMonotonic
  <2>3. ~Contains(<<c>>, "/")
    BY <1>1, <2>1 DEF Contains
  <2> QED BY <2>1, <2>2, <2>3, Zenon DEF Component, Name
<1>2. {"Ships", "VAB", "SPH"} \in SUBSET Char /\ "/" \notin {"Ships", "VAB", "SPH"}
  BY ShipsAssumption DEF Words
<1> QED BY <1>1, <1>2, Zenon

(* No slash gets into a file name. *)
LEMMA FileNameType ==
  ASSUME NEW name \in Name
  PROVE  FileName(name) \in Component
<1> DEFINE C == Char \ {"/"}
           safe == [i \in DOMAIN name |-> IF name[i] \in Reserved THEN "_" ELSE name[i]]
           trimmed == TrimEnd(Trim(safe), {"."})
<1>1. safe \in Seq(C)
  <2>1. Len(name) \in Nat /\ DOMAIN name = 1..Len(name)
    BY LenProperties DEF Name
  <2>2. \A i \in 1..Len(name) : name[i] \in Char
    BY ElementOfSeq DEF Name
  <2>3. "_" \in C
    BY ShipsAssumption DEF Words
  <2>4. \A i \in 1..Len(name) : safe[i] \in C
    BY <2>1, <2>2, <2>3 DEF Reserved
  <2>5. safe \in [1..Len(name) -> C]
    <3> HIDE DEF C
    <3> QED BY <2>1, <2>4
  <2> HIDE DEF C
  <2> QED BY <2>1, <2>5, FunctionText
<1>2. trimmed \in Seq(C)
  <2> HIDE DEF safe, C
  <2> QED BY <1>1, TrimText, TrimEndText
<1>3. Sanitize(name) \in Seq(C)
  <2>1. Sanitize(name) = IF trimmed = <<>> THEN <<"blueprint">> ELSE trimmed
    BY Zenon DEF Sanitize
  <2>2. "blueprint" \in C
    BY ShipsAssumption DEF Words
  <2> HIDE DEF trimmed, C
  <2> QED BY <1>2, <2>1, <2>2, Singleton
<1>4. FileName(name) \in Seq(C) /\ FileName(name) # <<>>
  <2>1. ".craft" \in C
    BY ShipsAssumption DEF Words
  <2>2. Len(FileName(name)) = Len(Sanitize(name)) + 1 /\ FileName(name) \in Seq(C)
    <3> HIDE DEF C
    <3> QED BY <1>3, <2>1, FrontOfConcat, Zenon DEF FileName
  <2> QED BY <1>3, <2>2, LenProperties, EmptySeq
<1>5. FileName(name) \in Name
  BY <1>4, SeqMonotonic DEF Name
<1>6. ~Contains(FileName(name), "/")
  <2>1. \A i \in 1..Len(FileName(name)) : FileName(name)[i] \in C
    BY <1>4, ElementOfSeq
  <2> QED BY <2>1 DEF Contains
<1> QED BY <1>4, <1>5, <1>6 DEF Component

(* A plain name is the stem of its file name. *)
LEMMA PlainStem ==
  ASSUME NEW name \in Name, Plain(name)
  PROVE  /\ FileStem(FileName(name)) = name
         /\ HasExtension(FileName(name)) /\ Last(FileName(name)) = ".craft"
<1> DEFINE safe == [i \in DOMAIN name |-> IF name[i] \in Reserved THEN "_" ELSE name[i]]
<1>1. Len(name) \in Nat \ {0} /\ DOMAIN name = 1..Len(name) /\ name[1] \in Char
  BY LenProperties, EmptySeq, ElementOfSeq DEF Name, Plain
<1>2. safe = name
  <2>1. \A i \in DOMAIN name : safe[i] = name[i]
    BY DEF Plain
  <2>2. name \in [1..Len(name) -> Char]
    BY LenProperties DEF Name
  <2> QED BY <1>1, <2>1, <2>2
<1>3. Trim(name) = name
  BY TrimText DEF Plain, Name
<1>4. TrimEnd(name, {"."}) = name
  BY TrimEndText DEF Plain, Name
<1>5. Sanitize(name) = name
  <2>1. Sanitize(name) = IF TrimEnd(Trim(safe), {"."}) = <<>> THEN <<"blueprint">>
                         ELSE TrimEnd(Trim(safe), {"."})
    BY Zenon DEF Sanitize
  <2> HIDE DEF safe
  <2> QED BY <1>2, <1>3, <1>4, <2>1 DEF Plain
<1>6. FileName(name) = name \o <<".craft">>
  BY <1>5 DEF FileName
<1>7. /\ Len(FileName(name)) = Len(name) + 1
      /\ Last(FileName(name)) = ".craft"
      /\ Front(FileName(name)) = name
  <2>1. name \in Seq(Char) /\ ".craft" \in Char
    BY ShipsAssumption DEF Name, Words
  <2>2. /\ Len(name \o <<".craft">>) = Len(name) + 1
        /\ Last(name \o <<".craft">>) = ".craft"
        /\ Front(name \o <<".craft">>) = name
    BY <2>1, FrontOfConcat
  <2> QED BY <1>6, <2>2
<1> QED BY <1>1, <1>7 DEF FileStem, HasExtension, Extensions

LEMMA InstallType ==
  ASSUME TypeOK, NEW p \in Proc
  PROVE  UnwrapOr(DetectKspInstall(p), <<>>) \in Path
<1> DEFINE roots == CandidateInstallRoots(p)
           I == {j \in 1..Len(roots) : roots[j] \in Installs[plan[p].host]}
           i == IF I # {} THEN Min(I) ELSE 0
<1>1. <<>> \in Path
  BY EmptySeq DEF Path
<1>2. roots \in Seq(Path)
  <2>1. plan[p].env \in SUBSET Path
    BY DEF TypeOK, Plan
  <2>2. UnwrapOr(plan[p].env, <<>>) \in Path
    BY <1>1, <2>1, UnwrapOrType
  <2> QED BY <2>2, ShipsAssumption DEF CandidateInstallRoots
<1>3. i \in 0..Len(roots)
  <2>1. I \in SUBSET (1..Len(roots))
    OBVIOUS
  <2> HIDE DEF I, roots
  <2> QED BY <1>2, <2>1, IndexIn
<1>4. DetectKspInstall(p) = IF i = 0 THEN None ELSE Some(roots[i])
  <2>1. SelectInSeq(roots, LAMBDA root : root \in Installs[plan[p].host]) = i
    BY SelectIs, Zenon
  <2> HIDE DEF i
  <2> QED BY <2>1, Zenon DEF DetectKspInstall
<1>5. i # 0 => roots[i] \in Path
  <2> HIDE DEF i, roots
  <2> QED BY <1>2, <1>3, ElementOfSeq, LenProperties
<1>6. DetectKspInstall(p) \in SUBSET Path
  <2> HIDE DEF i, roots
  <2> QED BY <1>4, <1>5 DEF None, Some
<1> QED BY <1>1, <1>6, UnwrapOrType

LEMMA TargetType ==
  ASSUME TypeOK, NEW r \in Receivers, NEW m \in CraftMetadata
  PROVE  /\ ResolveTargetPath(r, m) \in Path
         /\ ResolveTargetPath(r, m) # <<>>
         /\ Last(ResolveTargetPath(r, m)) = FileName(m.name)
<1> DEFINE dir == IF plan[r].out # None THEN UnwrapOr(plan[r].out, <<>>)
                  ELSE HangarDir(UnwrapOr(DetectKspInstall(r), <<>>), m.ship_type)
<1>1. r \in Proc /\ <<>> \in Path
  BY EmptySeq DEF Proc, Path
<1>2. FileName(m.name) \in Component
  BY FileNameType DEF CraftMetadata
<1>3. UnwrapOr(plan[r].out, <<>>) \in Path
  <2>1. plan[r].out \in SUBSET Path
    BY <1>1 DEF TypeOK, Plan
  <2> QED BY <1>1, <2>1, UnwrapOrType
<1>4. \A root \in Path : \A ship : HangarDir(root, ship) \in Path
  <2>1. <<"Ships">> \in Component /\ <<"VAB">> \in Component /\ <<"SPH">> \in Component
    BY SlashFree, Zenon
  <2> QED BY <2>1 DEF HangarDir, VabDir, SphDir, Path
<1>5. dir \in Path
  BY <1>1, <1>3, <1>4, InstallType
<1>6. ResolveTargetPath(r, m) = Append(dir, FileName(m.name))
  BY DEF ResolveTargetPath
<1> HIDE DEF dir
<1> QED BY <1>2, <1>5, <1>6 DEF Path, Last

LEMMA OverwrittenText ==
  ASSUME NEW old \in Seq(Char), NEW at \in Nat, NEW new \in Seq(Char)
  PROVE  LET text == Overwritten(old, at, new) IN
         /\ text \in Seq(Char)
         /\ Len(text) = IF Len(old) > at + Len(new) THEN Len(old) ELSE at + Len(new)
         /\ \A i \in 1..Len(text) :
              text[i] = IF i \in (at + 1)..(at + Len(new)) THEN new[i - at]
                        ELSE IF i <= Len(old) THEN old[i] ELSE "NUL"
<1> DEFINE n == IF Len(old) > at + Len(new) THEN Len(old) ELSE at + Len(new)
           text == Overwritten(old, at, new)
           el(i) == IF i \in (at + 1)..(at + Len(new)) THEN new[i - at]
                    ELSE IF i <= Len(old) THEN old[i] ELSE "NUL"
<1>1. Len(old) \in Nat /\ Len(new) \in Nat
  BY LenProperties
<1>2. n \in Nat
  BY <1>1
<1>3. text = [i \in 1..n |-> el(i)]
  BY DEF Overwritten
<1>4. ASSUME NEW i \in 1..n
      PROVE  el(i) \in Char
  <2>1. CASE i \in (at + 1)..(at + Len(new))
    <3>1. i - at \in 1..Len(new)
      BY <1>1, <2>1
    <3> QED BY <2>1, <3>1, ElementOfSeq
  <2>2. CASE i \notin (at + 1)..(at + Len(new)) /\ i <= Len(old)
    <3>1. i \in 1..Len(old)
      BY <1>1, <1>2, <2>2
    <3> QED BY <2>2, <3>1, ElementOfSeq
  <2>3. CASE i \notin (at + 1)..(at + Len(new)) /\ ~(i <= Len(old))
    BY <2>3, ShipsAssumption DEF Words
  <2> QED BY <2>1, <2>2, <2>3
<1> HIDE DEF n, el
<1>5. text \in [1..n -> Char] /\ \A i \in 1..n : text[i] = el(i)
  BY <1>3, <1>4
<1>6. text \in Seq(Char) /\ Len(text) = n
  BY <1>2, <1>5, FunctionText
<1> QED BY <1>5, <1>6 DEF n, el

LEMMA BlueprintOnDisk ==
  ASSUME NEW p, NEW root, NEW name, NEW ship
  PROVE  FindBlueprint(p, root, name, ship) \subseteq DOMAIN Disk(p)
<1>1. \A dir : Collect(p, dir) \subseteq DOMAIN Disk(p)
  BY DEF Collect
<1> QED BY <1>1 DEF FindBlueprint

LEMMA BlueprintsOnDisk ==
  ASSUME NEW s
  PROVE  Blueprints(s) \subseteq DOMAIN Disk(s)
BY BlueprintOnDisk, Zenon DEF Blueprints

(* Resolving finds a file that is there, or gives up. *)
LEMMA ResolvesToFile ==
  ASSUME NEW s, Resolve(s)
  PROVE  \/ /\ \E f \in DOMAIN Disk(s) : path' = [path EXCEPT ![s] = f]
            /\ state' = [state EXCEPT ![s] = "reading"]
         \/ /\ UNCHANGED path
            /\ \/ state' = [state EXCEPT ![s] = "KspNotFound"]
               \/ state' = [state EXCEPT ![s] = "CraftNotFound"]
<1>1. CASE IsLocal(s) /\ path' = [path EXCEPT ![s] = Local(s)]
           /\ state' = [state EXCEPT ![s] = "reading"]
  BY <1>1, Zenon DEF IsLocal
<1>2. CASE /\ \E f \in Blueprints(s) : path' = [path EXCEPT ![s] = f]
           /\ state' = [state EXCEPT ![s] = "reading"]
  BY <1>2, BlueprintsOnDisk, Zenon
<1>3. CASE /\ UNCHANGED path
           /\ state' = [state EXCEPT ![s] = IF DetectKspInstall(s) = None
                                            THEN "KspNotFound" ELSE "CraftNotFound"]
  BY <1>3, Zenon
<1> QED BY <1>1, <1>2, <1>3, Zenon DEF Resolve, Goto

(* The path that load is given is one. *)
LEMMA GivenType ==
  ASSUME TypeOK, NEW s \in Proc, path[s] # <<>>
  PROVE  Given(s) \in Path /\ Given(s) # <<>>
BY Zenon DEF TypeOK, Plan, Given

-----------------------------------------------------------------------------
(* What holds at each stage of a run.  A receiver has no file before it    *)
(* has created one, a file that is read or written is there, and whoever   *)
(* has received has the bytes of a sender that is done.                    *)
Stages ==
    /\ \A s \in Senders :
         /\ state[s] = "start" => bytes[s] = <<>> /\ pos[s] = 0
         /\ state[s] \in {"reading", "sharing", "Sent"} => path[s] \in DOMAIN Disk(s)
    /\ \A r \in Receivers :
         /\ state[r] \in {"start", "waiting", "received"} => path[r] = <<>> /\ pos[r] = 0
         /\ state[r] \in {"start", "waiting"} => peer[r] = None
         /\ state[r] \in {"writing", "Saved"} => path[r] # <<>>
         /\ path[r] # <<>> => path[r] \in DOMAIN Disk(r)
         /\ state[r] = "Saved" => pos[r] = Len(bytes[r])
         /\ \A s \in peer[r] : state[s] = "Sent" /\ bytes[r] = bytes[s]

LEMMA TypeInit ==
  ASSUME Init
  PROVE  TypeOK
<1>1. plan \in [Proc -> Plan] /\ DOMAIN before = Host /\ DOMAIN files = Host
  BY ShipsAssumption DEF Init
<1>2. \A h \in Host : IsDisk(before[h]) /\ IsDisk(files[h])
  BY ShipsAssumption DEF Init
<1>3. <<>> \in Path /\ <<>> \in Seq(Char) /\ Len(<<>>) = 0
  BY EmptySeq DEF Path
<1> QED BY <1>1, <1>2, <1>3 DEF Init, TypeOK, None, Running, Results

LEMMA TypeStep ==
  ASSUME TypeOK, Stages, [Next]_vars
  PROVE  TypeOK'
<1> USE DEF TypeOK, inputs, Goto, Proc, Running, Results, Disk
<1>0. \A p \in Proc : plan[p].host \in Host
  BY DEF Plan
<1>1. ASSUME NEW s \in Senders, Resolve(s)
      PROVE  TypeOK'
  <2>1. path' \in [Proc -> Path]
    <3>1. DOMAIN Disk(s) \subseteq Path
      BY <1>0 DEF IsDisk
    <3> QED BY <1>1, <3>1, ResolvesToFile
  <2>2. state' \in [Proc -> Running \cup Results]
    BY <1>1, ResolvesToFile
  <2> QED BY <1>1, <2>1, <2>2 DEF Resolve
<1>2. ASSUME NEW s \in Senders, Read(s)
      PROVE  TypeOK'
  <2> DEFINE file == Disk(s)[path[s]]
             at == pos[s]
  <2>1. file \in Seq(Char) /\ Len(file) \in Nat /\ at \in Nat /\ bytes[s] \in Seq(Char)
    <3>1. file \in Seq(Char)
      BY <1>0, <1>2 DEF Stages, Read, IsDisk
    <3> QED BY <3>1, LenProperties
  <2>2. PICK n \in 1..(Len(file) - at) :
          /\ bytes' = [bytes EXCEPT ![s] = bytes[s] \o SubSeq(file, at + 1, at + n)]
          /\ pos' = [pos EXCEPT ![s] = at + n]
    BY <1>2 DEF Read
  <2> DEFINE piece == SubSeq(file, at + 1, at + n)
  <2>3. piece \in Seq(Char) /\ Len(piece) = n
    <3> HIDE DEF file, at
    <3>1. at + 1 \in Nat \ {0} /\ at + n \in 0..Len(file)
      BY <2>1, <2>2
    <3> QED BY <2>1, <2>2, <3>1, SubSeqText
  <2>4. bytes[s] \o piece \in Seq(Char) /\ Len(bytes[s] \o piece) = Len(bytes[s]) + n
    <3> HIDE DEF piece
    <3> QED BY <2>1, <2>3, ConcatProperties
  <2>5. /\ bytes' = [bytes EXCEPT ![s] = bytes[s] \o piece]
        /\ pos' = [pos EXCEPT ![s] = at + n]
    BY <2>2
  <2>6. n \in Nat /\ at + n \in Nat
    <3> HIDE DEF file, at
    <3> QED BY <2>1, <2>2
  <2>7. bytes' \in [Proc -> Seq(Char)] /\ pos' \in [Proc -> Nat]
    <3> HIDE DEF piece, at
    <3> QED BY <2>4, <2>5, <2>6
  <2>8. at + n <= Len(bytes[s] \o piece)
    <3> HIDE DEF piece, file
    <3> QED BY <2>1, <2>4, <2>6, LenProperties
  <2>9. ASSUME NEW p \in Proc
        PROVE  pos'[p] <= Len(bytes'[p])
    <3> HIDE DEF piece, at
    <3> QED BY <2>5, <2>8
  <2> QED BY <1>2, <2>7, <2>9 DEF Read
<1>3. ASSUME NEW s \in Senders, Load(s)
      PROVE  TypeOK'
  <2>1. path[s] # <<>>
    BY <1>0, <1>3 DEF Load, Stages, IsDisk
  <2>2. Metadata(bytes[s], Given(s)) \in CraftMetadata
    <3>1. Given(s) \in Path /\ Given(s) # <<>>
      BY <2>1, GivenType
    <3> QED BY <3>1, MetadataType
  <2>3. state' \in [Proc -> Running \cup Results]
    BY <1>3 DEF Load
  <2>4. meta' \in [Proc -> SUBSET CraftMetadata]
    <3> DEFINE m == Metadata(bytes[s], Given(s))
    <3>1. meta' = meta \/ meta' = [meta EXCEPT ![s] = {m}]
      BY <1>3 DEF Load, Some
    <3>2. {m} \in SUBSET CraftMetadata
      BY <2>2
    <3> HIDE DEF m
    <3> QED BY <3>1, <3>2
  <2> QED BY <1>3, <2>3, <2>4 DEF Load
<1>4. ASSUME NEW s \in Senders, NEW r \in Receivers, Session(s, r)
      PROVE  TypeOK'
  <2>1. pos[r] = 0
    BY <1>4 DEF Session, Stages
  <2>2. bytes' \in [Proc -> Seq(Char)]
    BY <1>4 DEF Session
  <2>3. \A p \in Proc : pos'[p] <= Len(bytes'[p])
    BY <1>4, <2>1, LenProperties DEF Session
  <2>4. /\ state' \in [Proc -> Running \cup Results]
        /\ meta' \in [Proc -> SUBSET CraftMetadata]
        /\ peer' \in [Receivers -> SUBSET Senders]
    BY <1>4 DEF Session, Some
  <2> QED BY <1>4, <2>2, <2>3, <2>4 DEF Session
<1>5. ASSUME NEW r \in Receivers, Create(r)
      PROVE  TypeOK'
  <2> DEFINE h == plan[r].host
  <2>1. PICK m \in meta[r] :
          LET target == ResolveTargetPath(r, m) IN
            /\ path' = [path EXCEPT ![r] = target]
            /\ files' = [files EXCEPT ![h] = Created(files[h], target)]
    BY <1>5 DEF Create
  <2> DEFINE target == ResolveTargetPath(r, m)
  <2>2. target \in Path \ {<<>>} /\ h \in Host
    BY <1>0, <2>1, TargetType
  <2>3. /\ path' = [path EXCEPT ![r] = target]
        /\ files' = [files EXCEPT ![h] = Created(files[h], target)]
    BY <2>1
  <2>4. IsDisk(Created(files[h], target))
    <3>1. <<>> \in Seq(Char)
      BY EmptySeq
    <3> HIDE DEF target
    <3> QED BY <2>2, <3>1 DEF IsDisk, Created
  <2>5. state' \in [Proc -> Running \cup Results]
    BY <1>5 DEF Create
  <2> HIDE DEF target, h
  <2>6. DOMAIN files' = Host /\ \A g \in Host : IsDisk(files'[g])
    BY <2>2, <2>3, <2>4
  <2>7. path' \in [Proc -> Path]
    BY <2>2, <2>3
  <2>8. UNCHANGED <<plan, before, bytes, meta, pos, peer>>
    BY <1>5 DEF Create
  <2> QED BY <2>5, <2>6, <2>7, <2>8
<1>6. ASSUME NEW r \in Receivers, Write(r)
      PROVE  TypeOK'
  <2> DEFINE h == plan[r].host
             f == path[r]
             at == pos[r]
             old == files[h][f]
  <2>1. PICK n \in 1..(Len(bytes[r]) - at) :
          /\ files' = [files EXCEPT ![h][f] =
                         Overwritten(old, at, SubSeq(bytes[r], at + 1, at + n))]
          /\ pos' = [pos EXCEPT ![r] = at + n]
    BY <1>6 DEF Write
  <2> DEFINE new == SubSeq(bytes[r], at + 1, at + n)
             text == Overwritten(old, at, new)
  <2>2. h \in Host /\ f \in DOMAIN files[h] /\ old \in Seq(Char)
    BY <1>0, <1>6 DEF Write, Stages, IsDisk
  <2>3. at \in Nat /\ Len(bytes[r]) \in Nat /\ bytes[r] \in Seq(Char)
    BY LenProperties
  <2>4. text \in Seq(Char)
    <3>1. at + 1 \in Nat \ {0} /\ at + n \in 0..Len(bytes[r])
      <4> HIDE DEF at
      <4> QED BY <2>1, <2>3
    <3>2. new \in Seq(Char)
      <4> HIDE DEF at
      <4> QED BY <2>3, <3>1, SubSeqText
    <3> HIDE DEF at, new, old
    <3> QED BY <2>2, <2>3, <3>2, OverwrittenText
  <2>5. files' = [files EXCEPT ![h][f] = text]
    BY <2>1
  <2>6. DOMAIN files' = Host /\ \A g \in Host : IsDisk(files'[g])
    <3> HIDE DEF h, f, text
    <3> QED BY <2>2, <2>4, <2>5 DEF IsDisk
  <2>7. pos' \in [Proc -> Nat]
    BY <2>1, <2>3
  <2>8. \A p \in Proc : pos'[p] <= Len(bytes[p])
    BY <2>1, <2>3
  <2>9. UNCHANGED <<plan, before, state, path, bytes, meta, peer>>
    BY <1>6 DEF Write
  <2> HIDE DEF h, f, text
  <2> QED BY <2>6, <2>7, <2>8, <2>9
<1>7. ASSUME \/ \E r \in Receivers : Start(r) \/ Report(r) \/ DiskFails(r)
             \/ \E s \in Senders : ReadFails(s)
             \/ \E s \in Senders, r \in Receivers : SessionFails(s, r)
             \/ \E p \in Proc : Crash(p)
      PROVE  TypeOK'
  <2>1. UNCHANGED <<plan, before, files, path, bytes, meta, pos, peer>>
    BY <1>7 DEF Start, Report, DiskFails, ReadFails, SessionFails, Crash
  <2>2. state' \in [Proc -> Running \cup Results]
    BY <1>7 DEF Start, Report, DiskFails, ReadFails, SessionFails, Crash
  <2> QED BY <2>1, <2>2
<1>8. CASE UNCHANGED vars
  BY <1>8 DEF vars
<1> QED
  BY <1>1, <1>2, <1>3, <1>4, <1>5, <1>6, <1>7, <1>8, Zenon DEF Next

LEMMA HostType ==
  ASSUME TypeOK, NEW p \in Proc
  PROVE  plan[p].host \in Host
BY DEF TypeOK, Plan

(* Files are created, not removed. *)
LEMMA DiskGrows ==
  ASSUME TypeOK, Stages, [Next]_vars
  PROVE  /\ UNCHANGED <<plan, before>>
         /\ \A h \in Host : DOMAIN files[h] \subseteq DOMAIN files'[h]
<1>1. ASSUME NEW r \in Receivers, Create(r)
      PROVE  \A h \in Host : DOMAIN files[h] \subseteq DOMAIN files'[h]
  <2>1. \A f : DOMAIN files[plan[r].host] \subseteq DOMAIN Created(files[plan[r].host], f)
    BY DEF Created
  <2>2. \E f : files' = [files EXCEPT ![plan[r].host] = Created(files[plan[r].host], f)]
    BY <1>1 DEF Create
  <2> QED BY <2>1, <2>2 DEF TypeOK
<1>2. ASSUME NEW r \in Receivers, Write(r)
      PROVE  \A h \in Host : DOMAIN files[h] \subseteq DOMAIN files'[h]
  <2>1. \E text : files' = [files EXCEPT ![plan[r].host][path[r]] = text]
    BY <1>2 DEF Write
  <2> QED BY <2>1 DEF TypeOK
<1>3. UNCHANGED <<plan, before>>
  BY DEF Next, vars, inputs, Resolve, Read, Load, ReadFails, Start, Create, Write, Report,
         DiskFails, Session, SessionFails, Crash
<1>4. UNCHANGED files \/ \E r \in Receivers : Create(r) \/ Write(r)
  BY DEF Next, vars, Resolve, Read, Load, ReadFails, Start, Report, DiskFails, Session,
         SessionFails, Crash
<1> QED BY <1>1, <1>2, <1>3, <1>4

LEMMA StagesInit ==
  ASSUME Init
  PROVE  Stages
BY DEF Init, Stages, Proc, None

LEMMA StagesStep ==
  ASSUME TypeOK, Stages, [Next]_vars
  PROVE  Stages'
<1> USE DEF Goto, inputs
<1>0. /\ \A p \in Proc : state[p] \in Running \cup Results
      /\ DOMAIN state = Proc /\ DOMAIN path = Proc /\ DOMAIN bytes = Proc
      /\ DOMAIN pos = Proc /\ DOMAIN peer = Receivers
      /\ \A r \in Receivers : peer[r] \subseteq Senders
      /\ Senders \subseteq Proc /\ Receivers \subseteq Proc
      /\ \A s \in Senders, r \in Receivers : s # r
  BY ShipsAssumption DEF TypeOK, Proc
<1>1. \A p \in Proc : \A f : f \in DOMAIN Disk(p) => f \in DOMAIN Disk(p)'
  BY DiskGrows, HostType DEF Disk
<1>2. ASSUME NEW s \in Senders, Resolve(s)
      PROVE  Stages'
  <2>1. state'[s] = "reading" => path'[s] \in DOMAIN Disk(s)
    BY <1>0, <1>2, ResolvesToFile
  <2>2. state'[s] \in {"reading", "KspNotFound", "CraftNotFound"} /\ state[s] = "start"
    BY <1>0, <1>2, ResolvesToFile DEF Resolve
  <2>3. /\ \A p \in Proc \ {s} : state'[p] = state[p] /\ path'[p] = path[p]
        /\ UNCHANGED <<bytes, pos, peer>>
    <3>1. UNCHANGED <<bytes, pos, peer>>
      BY <1>2 DEF Resolve
    <3> QED BY <1>0, <1>2, <3>1, ResolvesToFile
  <2> QED BY <1>0, <1>1, <2>1, <2>2, <2>3 DEF Stages
<1>3. ASSUME NEW s \in Senders, Read(s)
      PROVE  Stages'
  <2>1. /\ UNCHANGED <<state, path, peer>> /\ state[s] = "reading"
        /\ \A p \in Proc \ {s} : bytes'[p] = bytes[p] /\ pos'[p] = pos[p]
    BY <1>0, <1>3 DEF Read
  <2> QED BY <1>0, <1>1, <2>1 DEF Stages
<1>4. ASSUME NEW s \in Senders, Load(s)
      PROVE  Stages'
  <2>1. /\ UNCHANGED <<path, peer, bytes, pos>> /\ state[s] = "reading"
        /\ state'[s] \in {"InvalidCraft", "sharing"}
        /\ \A p \in Proc \ {s} : state'[p] = state[p]
    BY <1>0, <1>4 DEF Load
  <2> QED BY <1>0, <1>1, <2>1 DEF Stages
<1>5. ASSUME NEW s \in Senders, NEW r \in Receivers, Session(s, r)
      PROVE  Stages'
  <2>1. /\ UNCHANGED <<path, pos>> /\ state[s] = "sharing" /\ state[r] = "waiting"
        /\ state'[s] = "Sent" /\ state'[r] = "received"
        /\ bytes'[r] = bytes[s] /\ peer'[r] = {s}
        /\ \A p \in Proc \ {s, r} : state'[p] = state[p]
        /\ \A p \in Proc \ {r} : bytes'[p] = bytes[p]
        /\ \A q \in Receivers \ {r} : peer'[q] = peer[q]
    BY <1>0, <1>5 DEF Session, Some
  <2> QED BY <1>0, <1>1, <2>1 DEF Stages
<1>6. ASSUME NEW r \in Receivers, Create(r)
      PROVE  Stages'
  <2>1. PICK m \in meta[r] :
          LET target == ResolveTargetPath(r, m) IN
            /\ path' = [path EXCEPT ![r] = target]
            /\ files' = [files EXCEPT ![plan[r].host] = Created(Disk(r), target)]
    BY <1>6 DEF Create, Disk
  <2> DEFINE target == ResolveTargetPath(r, m)
  <2>2. target # <<>>
    BY <1>0, TargetType DEF TypeOK
  <2>3. target \in DOMAIN Disk(r)'
    <3>1. DOMAIN Created(Disk(r), target) = DOMAIN Disk(r) \cup {target}
      BY DEF Created
    <3>2. files'[plan[r].host] = Created(Disk(r), target)
      BY <1>0, <2>1, HostType DEF TypeOK
    <3> QED BY <3>1, <3>2, DiskGrows DEF Disk
  <2>4. /\ UNCHANGED <<bytes, pos, peer>>
        /\ state[r] = "received" /\ state'[r] = "writing" /\ path'[r] = target
        /\ \A p \in Proc \ {r} : state'[p] = state[p] /\ path'[p] = path[p]
    BY <1>0, <1>6, <2>1 DEF Create
  <2> HIDE DEF target
  <2> QED BY <1>0, <1>1, <2>2, <2>3, <2>4 DEF Stages
<1>7. ASSUME NEW r \in Receivers, Write(r)
      PROVE  Stages'
  <2>1. /\ UNCHANGED <<state, path, bytes, peer>> /\ state[r] = "writing"
        /\ \A p \in Proc \ {r} : pos'[p] = pos[p]
    BY <1>0, <1>7 DEF Write
  <2> QED BY <1>0, <1>1, <2>1 DEF Stages
<1>8. ASSUME NEW r \in Receivers, Start(r) \/ Report(r) \/ DiskFails(r)
      PROVE  Stages'
  <2>1. /\ UNCHANGED <<path, bytes, pos, peer>>
        /\ \A p \in Proc \ {r} : state'[p] = state[p]
        /\ \/ state[r] = "start" /\ state'[r] \in {"KspNotFound", "waiting"}
           \/ state[r] = "writing" /\ state'[r] = "Saved" /\ pos[r] = Len(bytes[r])
           \/ state'[r] = "IoError"
    BY <1>0, <1>8 DEF Start, Report, DiskFails
  <2> QED BY <1>0, <1>1, <2>1 DEF Stages
<1>12. ASSUME NEW s \in Senders, ReadFails(s)
       PROVE  Stages'
  <2>1. /\ UNCHANGED <<path, bytes, pos, peer>>
        /\ state[s] \in {"start", "reading"} /\ state'[s] \in {"IoError", "CraftNotFound"}
        /\ \A p \in Proc \ {s} : state'[p] = state[p]
    BY <1>0, <1>12 DEF ReadFails
  <2> QED BY <1>0, <1>1, <2>1 DEF Stages
<1>9. ASSUME NEW s \in Senders, NEW r \in Receivers, SessionFails(s, r)
      PROVE  Stages'
  <2>1. /\ UNCHANGED <<path, bytes, pos, peer>>
        /\ state[s] = "sharing" /\ state'[s] = "Lost" /\ state'[r] = "Lost"
        /\ \A p \in Proc \ {s, r} : state'[p] = state[p]
    BY <1>0, <1>9 DEF SessionFails
  <2> QED BY <1>0, <1>1, <2>1 DEF Stages
<1>10. ASSUME NEW p \in Proc, Crash(p)
      PROVE  Stages'
  <2>1. /\ UNCHANGED <<path, bytes, pos, peer>>
        /\ state[p] # "Sent" /\ state'[p] = "Crashed"
        /\ \A q \in Proc \ {p} : state'[q] = state[q]
    BY <1>0, <1>10 DEF Crash, Running
  <2> QED BY <1>0, <1>1, <2>1 DEF Stages
<1>11. CASE UNCHANGED vars
  BY <1>11 DEF vars, Stages, Disk
<1> QED
  BY <1>2, <1>3, <1>4, <1>5, <1>6, <1>7, <1>8, <1>9, <1>10, <1>11, <1>12, Zenon DEF Next

-----------------------------------------------------------------------------
(* What is on the disk.  Contents is the part of OnlyWhatWasReceived about *)
(* one file.                                                               *)
Contents(h, f) ==
    /\ Writers(h, f) = {} => f \in DOMAIN before[h] /\ files[h][f] = before[h][f]
    /\ \A r \in Writers(h, f) :
         Writers(h, f) = {r} => files[h][f] = SubSeq(bytes[r], 1, pos[r])
    /\ Writers(h, f) # {} =>
         \A i \in DOMAIN files[h][f] :
           \/ files[h][f][i] = "NUL"
           \/ \E r \in Writers(h, f) : i <= pos[r] /\ files[h][f][i] = bytes[r][i]

LEMMA ContentsInit ==
  ASSUME Init
  PROVE  OnlyWhatWasReceived
<1>1. \A h \in Host : \A f : Writers(h, f) = {}
  BY DEF Init, Writers, Proc
<1> QED BY <1>1 DEF Init, OnlyWhatWasReceived

(* A step that concerns no file keeps what is on it. *)
LEMMA ContentsKept ==
  ASSUME NEW h \in Host, NEW f \in DOMAIN files[h], Contents(h, f),
         UNCHANGED <<plan, before>>, files'[h][f] = files[h][f],
         Writers(h, f)' = Writers(h, f),
         \A r \in Writers(h, f) : pos'[r] = pos[r] /\ bytes'[r] = bytes[r]
  PROVE  Contents(h, f)'
<1> DEFINE W == Writers(h, f)
           W2 == Writers(h, f)'
<1>1. W2 = W
  OBVIOUS
<1>2. Contents(h, f)' =
        (/\ W2 = {} => f \in DOMAIN before'[h] /\ files'[h][f] = before'[h][f]
         /\ \A r \in W2 : W2 = {r} => files'[h][f] = SubSeq(bytes'[r], 1, pos'[r])
         /\ W2 # {} =>
              \A i \in DOMAIN files'[h][f] :
                \/ files'[h][f][i] = "NUL"
                \/ \E r \in W2 : i <= pos'[r] /\ files'[h][f][i] = bytes'[r][i])
  BY Zenon DEF Contents
<1>3. /\ W = {} => f \in DOMAIN before[h] /\ files[h][f] = before[h][f]
      /\ \A r \in W : W = {r} => files[h][f] = SubSeq(bytes[r], 1, pos[r])
      /\ W # {} =>
           \A i \in DOMAIN files[h][f] :
             \/ files[h][f][i] = "NUL"
             \/ \E r \in W : i <= pos[r] /\ files[h][f][i] = bytes[r][i]
  BY Zenon DEF Contents
<1> HIDE DEF W, W2
<1> QED BY <1>1, <1>2, <1>3 DEF W

LEMMA ContentsQuiet ==
  ASSUME OnlyWhatWasReceived, UNCHANGED <<plan, before, files>>,
         \A r \in Receivers : path'[r] = path[r] /\ pos'[r] = pos[r],
         \A r \in Receivers : path[r] # <<>> => bytes'[r] = bytes[r]
  PROVE  OnlyWhatWasReceived'
<1>1. \A h, f : Writers(h, f)' = Writers(h, f)
  BY DEF Writers
<1>2. \A h, f : \A r \in Writers(h, f) : pos'[r] = pos[r] /\ bytes'[r] = bytes[r]
  BY DEF Writers
<1>3. \A h \in Host : \A f \in DOMAIN files[h] : Contents(h, f)'
  BY <1>1, <1>2, ContentsKept DEF OnlyWhatWasReceived, Contents
<1> QED BY <1>3, Zenon DEF OnlyWhatWasReceived, Contents

LEMMA ContentsCreate ==
  ASSUME TypeOK, Stages, OnlyWhatWasReceived, [Next]_vars,
         NEW r \in Receivers, Create(r)
  PROVE  OnlyWhatWasReceived'
<1> DEFINE g == plan[r].host
<1>0. r \in Proc /\ g \in Host /\ DOMAIN path = Proc /\ DOMAIN files = Host
  BY HostType DEF Proc, TypeOK
<1>1. PICK m \in meta[r] :
        LET target == ResolveTargetPath(r, m) IN
          /\ path' = [path EXCEPT ![r] = target]
          /\ files' = [files EXCEPT ![g] = Created(files[g], target)]
  BY DEF Create
<1> DEFINE t == ResolveTargetPath(r, m)
<1>2. /\ path' = [path EXCEPT ![r] = t]
      /\ files' = [files EXCEPT ![g] = Created(files[g], t)]
      /\ t # <<>>
  BY <1>0, <1>1, TargetType DEF TypeOK
<1>3. path[r] = <<>> /\ pos[r] = 0 /\ UNCHANGED <<plan, before, bytes, pos>>
  BY DEF Stages, Create, inputs
<1>4. \A h : \A f : Writers(h, f)' = IF h = g /\ f = t THEN Writers(h, f) \cup {r}
                                     ELSE Writers(h, f)
  <2> HIDE DEF t
  <2> QED BY <1>0, <1>2, <1>3 DEF Writers, Proc
<1>5. \A h \in Host : \A f : f \in DOMAIN files[h] /\ ~(h = g /\ f = t) =>
                               files'[h][f] = files[h][f]
  BY <1>0, <1>2 DEF Created
<1>6. /\ \A h \in Host \ {g} : files'[h] = files[h]
      /\ DOMAIN files'[g] = DOMAIN files[g] \cup {t}
      /\ files'[g][t] = <<>>
  <2> HIDE DEF t
  <2> QED BY <1>0, <1>2 DEF Created
<1>7. ASSUME NEW h \in Host, NEW f \in DOMAIN files'[h], ~(h = g /\ f = t)
      PROVE  Contents(h, f)'
  <2>1. f \in DOMAIN files[h] /\ files'[h][f] = files[h][f]
    BY <1>5, <1>6, <1>7
  <2>2. Contents(h, f)
    BY <2>1 DEF OnlyWhatWasReceived, Contents
  <2>3. Writers(h, f)' = Writers(h, f)
    BY <1>4, <1>7
  <2> QED BY <1>3, <2>1, <2>2, <2>3, ContentsKept
<1>8. ASSUME NEW h \in Host, NEW f \in DOMAIN files'[h], h = g, f = t
      PROVE  Contents(h, f)'
  <2> DEFINE W2 == Writers(h, f)'
  <2>1. r \in W2
    BY <1>4, <1>8
  <2>2. files'[h][f] = <<>> /\ pos'[r] = 0
    BY <1>3, <1>6, <1>8
  <2>3. files'[h][f] = SubSeq(bytes'[r], 1, pos'[r])
    BY <2>2, SubSeqEmpty
  <2>4. DOMAIN files'[h][f] = {}
    <3>1. DOMAIN <<>> = 1..0
      BY EmptySeq, LenProperties
    <3> QED BY <2>2, <3>1
  <2>5. Contents(h, f)' =
          (/\ W2 = {} => f \in DOMAIN before'[h] /\ files'[h][f] = before'[h][f]
           /\ \A q \in W2 : W2 = {q} => files'[h][f] = SubSeq(bytes'[q], 1, pos'[q])
           /\ W2 # {} =>
                \A i \in DOMAIN files'[h][f] :
                  \/ files'[h][f][i] = "NUL"
                  \/ \E q \in W2 : i <= pos'[q] /\ files'[h][f][i] = bytes'[q][i])
    BY Zenon DEF Contents
  <2> HIDE DEF W2
  <2> QED BY <2>1, <2>3, <2>4, <2>5
<1>9. \A h \in Host : DOMAIN before'[h] \subseteq DOMAIN files'[h]
  BY <1>3, <1>6 DEF OnlyWhatWasReceived
<1> QED BY <1>7, <1>8, <1>9, Zenon DEF OnlyWhatWasReceived, Contents

(* The piece written extends what one receiver has written, and what       *)
(* several have.                                                           *)
LEMMA WrittenPiece ==
  ASSUME NEW old \in Seq(Char), NEW b \in Seq(Char), NEW at \in Nat,
         NEW n \in 1..(Len(b) - at)
  PROVE  LET text == Overwritten(old, at, SubSeq(b, at + 1, at + n)) IN
         /\ text \in Seq(Char)
         /\ \A i \in 1..Len(text) : \/ i <= at + n /\ text[i] = b[i]
                                    \/ i \in 1..Len(old) /\ text[i] = old[i]
                                    \/ text[i] = "NUL"
         /\ old = SubSeq(b, 1, at) => text = SubSeq(b, 1, at + n)
<1> DEFINE new == SubSeq(b, at + 1, at + n)
           text == Overwritten(old, at, new)
<1>1. Len(old) \in Nat /\ Len(b) \in Nat /\ n \in Nat /\ at + n \in 0..Len(b)
  BY LenProperties
<1>2. new \in Seq(Char) /\ Len(new) = n /\ \A i \in 1..n : new[i] = b[at + i]
  <2>1. at + 1 \in Nat \ {0}
    OBVIOUS
  <2> QED BY <1>1, <2>1, SubSeqText
<1>3. /\ text \in Seq(Char)
      /\ Len(text) = IF Len(old) > at + n THEN Len(old) ELSE at + n
      /\ \A i \in 1..Len(text) :
           text[i] = IF i \in (at + 1)..(at + n) THEN new[i - at]
                     ELSE IF i <= Len(old) THEN old[i] ELSE "NUL"
  <2> HIDE DEF new
  <2> QED BY <1>2, OverwrittenText
<1>4. \A i \in (at + 1)..(at + n) : new[i - at] = b[i]
  <2> HIDE DEF new
  <2>1. \A i \in (at + 1)..(at + n) : i - at \in 1..n /\ at + (i - at) = i
    BY <1>1
  <2> QED BY <1>2, <2>1
<1> HIDE DEF new, text
<1>5. \A i \in 1..Len(text) : \/ i <= at + n /\ text[i] = b[i]
                              \/ i \in 1..Len(old) /\ text[i] = old[i]
                              \/ text[i] = "NUL"
  BY <1>1, <1>3, <1>4
<1>6. ASSUME old = SubSeq(b, 1, at)
      PROVE  text = SubSeq(b, 1, at + n)
  <2>1. Len(old) = at /\ \A i \in 1..at : old[i] = b[i]
    <3>1. at \in 0..Len(b)
      BY <1>1
    <3> QED BY <1>6, <3>1, SubSeqText
  <2>2. /\ SubSeq(b, 1, at + n) \in Seq(Char) /\ Len(SubSeq(b, 1, at + n)) = at + n
        /\ \A i \in 1..(at + n) : SubSeq(b, 1, at + n)[i] = b[i]
    BY <1>1, SubSeqText
  <2>3. Len(text) = at + n /\ \A i \in 1..(at + n) : text[i] = b[i]
    BY <1>1, <1>3, <1>4, <2>1
  <2> QED BY <1>3, <2>2, <2>3, SeqEqual
<1> QED BY <1>3, <1>5, <1>6 DEF text, new

LEMMA ContentsWrite ==
  ASSUME TypeOK, Stages, OnlyWhatWasReceived, [Next]_vars,
         NEW r \in Receivers, Write(r)
  PROVE  OnlyWhatWasReceived'
<1>0. r \in Proc /\ plan[r].host \in Host /\ DOMAIN files = Host /\ DOMAIN pos = Proc
  BY HostType DEF Proc, TypeOK
<1>a. PICK g \in Host : g = plan[r].host
  BY <1>0
<1>b. PICK t \in DOMAIN files[g] : t = path[r] /\ t # <<>>
  BY <1>0, <1>a DEF Write, Stages, Disk
<1>1. g = plan[r].host /\ t = path[r] /\ t # <<>>
  BY <1>a, <1>b
<1>2. PICK n \in 1..(Len(bytes[r]) - pos[r]) :
        /\ files' = [files EXCEPT ![g][t] =
             Overwritten(files[g][t], pos[r], SubSeq(bytes[r], pos[r] + 1, pos[r] + n))]
        /\ pos' = [pos EXCEPT ![r] = pos[r] + n]
  BY <1>1 DEF Write
<1>3. PICK text :
        text = Overwritten(files[g][t], pos[r], SubSeq(bytes[r], pos[r] + 1, pos[r] + n))
  OBVIOUS
<1>4. UNCHANGED <<plan, before, path, bytes>>
  BY DEF Write, inputs
<1>5. \A h : \A f : Writers(h, f)' = Writers(h, f)
  BY <1>4 DEF Writers
<1>6. /\ files'[g][t] = text
      /\ \A h \in Host : /\ DOMAIN files'[h] = DOMAIN files[h]
                         /\ \A f \in DOMAIN files[h] :
                              ~(h = g /\ f = t) => files'[h][f] = files[h][f]
      /\ pos'[r] = pos[r] + n
      /\ \A q \in Proc \ {r} : pos'[q] = pos[q]
  BY <1>0, <1>2, <1>3
<1>7. r \in Writers(g, t) /\ \A h : \A f : r \in Writers(h, f) => h = g /\ f = t
  BY <1>1 DEF Writers
<1>8. ASSUME NEW h \in Host, NEW f \in DOMAIN files[h], ~(h = g /\ f = t)
      PROVE  Contents(h, f)'
  <2>1. Contents(h, f)
    BY DEF OnlyWhatWasReceived, Contents
  <2>2. \A q \in Writers(h, f) : pos'[q] = pos[q] /\ bytes'[q] = bytes[q]
    BY <1>4, <1>6, <1>7, <1>8 DEF Writers, Proc
  <2> QED BY <1>4, <1>5, <1>6, <1>8, <2>1, <2>2, ContentsKept
<1>9. Contents(g, t)'
  <2>1. Contents(g, t)
    BY DEF OnlyWhatWasReceived, Contents
  <2>2. /\ files[g][t] \in Seq(Char) /\ bytes[r] \in Seq(Char) /\ pos[r] \in Nat
        /\ \A q \in Writers(g, t) : pos[q] \in Nat
    BY <1>0 DEF TypeOK, IsDisk, Writers, Proc
  <2>3. /\ text \in Seq(Char)
        /\ \A i \in 1..Len(text) :
             \/ i <= pos[r] + n /\ text[i] = bytes[r][i]
             \/ i \in 1..Len(files[g][t]) /\ text[i] = files[g][t][i]
             \/ text[i] = "NUL"
        /\ files[g][t] = SubSeq(bytes[r], 1, pos[r]) => text = SubSeq(bytes[r], 1, pos[r] + n)
    <3> DEFINE old == files[g][t]
               b == bytes[r]
               at == pos[r]
    <3>1. /\ old \in Seq(Char) /\ b \in Seq(Char) /\ at \in Nat /\ n \in 1..(Len(b) - at)
          /\ text = Overwritten(old, at, SubSeq(b, at + 1, at + n))
      BY <1>3, <2>2
    <3> HIDE DEF old, b, at
    <3>2. /\ text \in Seq(Char)
          /\ \A i \in 1..Len(text) : \/ i <= at + n /\ text[i] = b[i]
                                     \/ i \in 1..Len(old) /\ text[i] = old[i]
                                     \/ text[i] = "NUL"
          /\ old = SubSeq(b, 1, at) => text = SubSeq(b, 1, at + n)
      BY <3>1, WrittenPiece
    <3> QED BY <3>2 DEF old, b, at
  <2>4. DOMAIN text = 1..Len(text) /\ DOMAIN files[g][t] = 1..Len(files[g][t])
    BY <2>2, <2>3, LenProperties
  <2> DEFINE W == Writers(g, t)
  <2>5. ASSUME NEW q \in W, W = {q}
        PROVE  text = SubSeq(bytes'[q], 1, pos'[q])
    <3>1. q = r
      BY <1>7, <2>5
    <3>2. files[g][t] = SubSeq(bytes[r], 1, pos[r])
      BY <2>1, <2>5, <3>1, Zenon DEF Contents
    <3> QED BY <1>4, <1>6, <2>3, <3>1, <3>2
  <2>6. ASSUME NEW i \in DOMAIN text
        PROVE  \/ text[i] = "NUL"
               \/ \E q \in W : i <= pos'[q] /\ text[i] = bytes'[q][i]
    <3>1. CASE i <= pos[r] + n /\ text[i] = bytes[r][i]
      BY <1>4, <1>6, <1>7, <3>1
    <3>2. CASE i \in 1..Len(files[g][t]) /\ text[i] = files[g][t][i]
      <4>1. \/ files[g][t][i] = "NUL"
            \/ \E q \in W : i <= pos[q] /\ files[g][t][i] = bytes[q][i]
        <5>1. W # {} /\ i \in DOMAIN files[g][t]
          BY <1>7, <2>4, <3>2
        <5> QED BY <2>1, <5>1, Zenon DEF Contents
      <4>2. CASE files[g][t][i] = "NUL"
        BY <3>2, <4>2
      <4>3. CASE \E q \in W : i <= pos[q] /\ files[g][t][i] = bytes[q][i]
        <5>1. PICK q \in W : i <= pos[q] /\ files[g][t][i] = bytes[q][i]
          BY <4>3
        <5>2. pos[q] <= pos'[q] /\ pos[q] \in Nat /\ pos'[q] \in Nat /\ i \in Nat
          BY <1>2, <1>6, <2>2, <2>4 DEF Writers, Proc
        <5> HIDE DEF W
        <5> QED BY <1>4, <3>2, <5>1, <5>2
      <4> QED BY <4>1, <4>2, <4>3
    <3> QED BY <2>3, <2>4, <3>1, <3>2
  <2>7. W # {} /\ Writers(g, t)' = W
    BY <1>5, <1>7
  <2> HIDE DEF W
  <2> QED BY <1>6, <2>5, <2>6, <2>7 DEF Contents
<1>10. \A h \in Host : DOMAIN before'[h] \subseteq DOMAIN files'[h]
  BY <1>4, <1>6 DEF OnlyWhatWasReceived
<1>11. \A h \in Host : \A f \in DOMAIN files'[h] : Contents(h, f)'
  BY <1>6, <1>8, <1>9
<1> QED BY <1>10, <1>11, Zenon DEF OnlyWhatWasReceived, Contents

LEMMA ContentsStep ==
  ASSUME TypeOK, Stages, OnlyWhatWasReceived, [Next]_vars
  PROVE  OnlyWhatWasReceived'
<1>0. DOMAIN path = Proc /\ DOMAIN bytes = Proc /\ DOMAIN pos = Proc
      /\ Receivers \subseteq Proc /\ \A s \in Senders, r \in Receivers : s # r
  BY ShipsAssumption DEF TypeOK, Proc
<1> DEFINE Quiet == /\ UNCHANGED <<plan, before, files>>
                    /\ \A r \in Receivers : /\ path'[r] = path[r] /\ pos'[r] = pos[r]
                                            /\ path[r] # <<>> => bytes'[r] = bytes[r]
<1>1. Quiet => OnlyWhatWasReceived'
  BY ContentsQuiet
<1>2. ASSUME NEW s \in Senders, Resolve(s) \/ Read(s) \/ Load(s) \/ ReadFails(s)
      PROVE  Quiet
  <2>1. CASE Resolve(s)
    <3>1. UNCHANGED <<plan, before, files, pos, bytes>>
      BY <2>1 DEF Resolve, inputs
    <3> QED BY <1>0, <2>1, <3>1, ResolvesToFile
  <2>2. CASE Read(s) \/ Load(s) \/ ReadFails(s)
    BY <1>0, <2>2 DEF Read, Load, ReadFails, inputs
  <2> QED BY <1>2, <2>1, <2>2
<1>3. ASSUME NEW s \in Senders, NEW r \in Receivers, Session(s, r) \/ SessionFails(s, r)
      PROVE  Quiet
  BY <1>0, <1>3 DEF Session, SessionFails, inputs, Stages
<1>4. ASSUME \/ \E r \in Receivers : Start(r) \/ Report(r) \/ DiskFails(r)
             \/ \E p \in Proc : Crash(p)
             \/ UNCHANGED vars
      PROVE  Quiet
  BY <1>4 DEF Start, Report, DiskFails, Crash, inputs, vars
<1> HIDE DEF Quiet
<1> QED
  BY <1>1, <1>2, <1>3, <1>4, ContentsCreate, ContentsWrite, Zenon DEF Next

-----------------------------------------------------------------------------
(* What a sender has read of a file that no receiver has written.          *)
LoadedBy(s) ==
    Writers(plan[s].host, path[s]) = {} =>
      /\ state[s] = "reading" =>
           /\ pos[s] <= Len(before[plan[s].host][path[s]])
           /\ bytes[s] = SubSeq(before[plan[s].host][path[s]], 1, pos[s])
      /\ state[s] \in {"sharing", "Sent"} => bytes[s] = before[plan[s].host][path[s]]

Loaded == \A s \in Senders : LoadedBy(s)

LEMMA WritersGrow ==
  ASSUME TypeOK, Stages, [Next]_vars
  PROVE  \A h : \A f : Writers(h, f) \subseteq Writers(h, f)'
<1>1. \A r \in Receivers : path[r] # <<>> => path'[r] = path[r]
  <2>0. /\ DOMAIN path = Proc /\ Receivers \subseteq Proc
        /\ \A s \in Senders, r \in Receivers : s # r
    BY ShipsAssumption DEF TypeOK, Proc
  <2>1. ASSUME NEW s \in Senders, Resolve(s)
        PROVE  \A r \in Receivers : path'[r] = path[r]
    BY <2>0, <2>1, ResolvesToFile
  <2>2. ASSUME NEW q \in Receivers, Create(q)
        PROVE  path[q] = <<>> /\ \A r \in Receivers \ {q} : path'[r] = path[r]
    BY <2>0, <2>2 DEF Create, Stages
  <2>3. \/ UNCHANGED path
        \/ \E s \in Senders : Resolve(s)
        \/ \E q \in Receivers : Create(q)
    BY DEF Next, vars, Read, Load, ReadFails, Start, Write, Report, DiskFails, Session,
           SessionFails, Crash
  <2> QED BY <2>1, <2>2, <2>3
<1>2. UNCHANGED plan
  BY DiskGrows
<1> QED BY <1>1, <1>2 DEF Writers

LEMMA LoadedKept ==
  ASSUME TypeOK, Stages, [Next]_vars, NEW s \in Senders, LoadedBy(s),
         path'[s] = path[s], bytes'[s] = bytes[s], pos'[s] = pos[s],
         \/ state'[s] = state[s]
         \/ state[s] = "sharing" /\ state'[s] = "Sent"
         \/ state'[s] \notin {"reading", "sharing", "Sent"}
  PROVE  LoadedBy(s)'
<1>1. UNCHANGED <<plan, before>>
  BY DiskGrows
<1>2. Writers(plan[s].host, path[s])' = {} => Writers(plan[s].host, path[s]) = {}
  BY <1>1, WritersGrow DEF Writers
<1> QED BY <1>1, <1>2 DEF LoadedBy

(* As long as no receiver has created a file, it is what it was. *)
LEMMA Untouched ==
  ASSUME TypeOK, OnlyWhatWasReceived, NEW p \in Proc, NEW f \in DOMAIN Disk(p),
         Writers(plan[p].host, f) = {}
  PROVE  /\ Disk(p)[f] = before[plan[p].host][f]
         /\ before[plan[p].host][f] \in Seq(Char)
<1>1. plan[p].host \in Host
  BY HostType
<1>2. Contents(plan[p].host, f)
  BY <1>1 DEF OnlyWhatWasReceived, Contents, Disk
<1>3. f \in DOMAIN before[plan[p].host]
  BY <1>2, Zenon DEF Contents
<1>4. Disk(p)[f] = before[plan[p].host][f]
  BY <1>2, Zenon DEF Contents, Disk
<1> QED BY <1>1, <1>3, <1>4 DEF TypeOK, IsDisk

LEMMA LoadedStep ==
  ASSUME TypeOK, Stages, OnlyWhatWasReceived, Loaded, [Next]_vars, NEW s \in Senders
  PROVE  LoadedBy(s)'
<1> USE DEF Goto, inputs
<1>0. /\ DOMAIN state = Proc /\ DOMAIN path = Proc /\ DOMAIN bytes = Proc
      /\ DOMAIN pos = Proc /\ s \in Proc
      /\ pos[s] \in Nat /\ bytes[s] \in Seq(Char)
      /\ \A r \in Receivers : s # r
  BY ShipsAssumption DEF TypeOK, Proc
<1>1. UNCHANGED <<plan, before>> /\ LoadedBy(s)
  BY DiskGrows DEF Loaded
<1>2. Writers(plan[s].host, path[s])' = {} => Writers(plan[s].host, path'[s]) = {}
  BY <1>1, WritersGrow
<1> DEFINE file == before[plan[s].host][path'[s]]
<1>3. CASE Resolve(s)
  <2>1. path'[s] \in DOMAIN Disk(s) \/ state'[s] \in {"KspNotFound", "CraftNotFound"}
    BY <1>0, <1>3, ResolvesToFile
  <2>2. state'[s] \in {"reading", "KspNotFound", "CraftNotFound"}
        /\ bytes'[s] = <<>> /\ pos'[s] = 0
    <3>1. bytes' = bytes /\ pos' = pos /\ bytes[s] = <<>> /\ pos[s] = 0
      BY <1>3 DEF Resolve, Stages
    <3> QED BY <1>0, <1>3, <3>1, ResolvesToFile
  <2>3. ASSUME path'[s] \in DOMAIN Disk(s), Writers(plan[s].host, path'[s]) = {}
        PROVE  0 <= Len(file) /\ SubSeq(file, 1, 0) = <<>>
    <3>1. file \in Seq(Char)
      BY <1>0, <2>3, Untouched
    <3> QED BY <3>1, LenProperties, SubSeqEmpty
  <2> QED BY <1>1, <1>2, <2>1, <2>2, <2>3 DEF LoadedBy
<1>4. CASE Read(s)
  <2> SUFFICES ASSUME Writers(plan[s].host, path[s])' = {}
               PROVE  LoadedBy(s)'
    BY DEF LoadedBy
  <2>1. state[s] = "reading" /\ state' = state /\ path' = path
    BY <1>4 DEF Read
  <2>2. Disk(s)[path[s]] = file /\ file \in Seq(Char)
    BY <1>0, <1>2, <2>1, Untouched DEF Stages
  <2>3. pos[s] <= Len(file) /\ bytes[s] = SubSeq(file, 1, pos[s])
    BY <1>1, <1>2, <2>1 DEF LoadedBy
  <2>4. PICK n \in 1..(Len(file) - pos[s]) :
          /\ bytes'[s] = bytes[s] \o SubSeq(file, pos[s] + 1, pos[s] + n)
          /\ pos'[s] = pos[s] + n
    BY <1>0, <1>4, <2>2 DEF Read
  <2>5. /\ pos[s] + n <= Len(file)
        /\ SubSeq(file, 1, pos[s]) \o SubSeq(file, pos[s] + 1, pos[s] + n)
             = SubSeq(file, 1, pos[s] + n)
    <3> DEFINE at == pos[s]
    <3>a. at \in Nat /\ Len(file) \in Nat /\ n \in 1..(Len(file) - at)
      BY <1>0, <2>2, <2>4, LenProperties
    <3>1. at \in Nat /\ n \in Nat /\ at + n <= Len(file)
      <4> HIDE DEF at, file
      <4> QED BY <3>a
    <3> HIDE DEF at, file
    <3>2. SubSeq(file, 1, at) \o SubSeq(file, at + 1, at + n) = SubSeq(file, 1, at + n)
      BY <2>2, <3>1, SubSeqExtends
    <3> QED BY <3>1, <3>2 DEF at
  <2> QED BY <1>1, <2>1, <2>3, <2>4, <2>5 DEF LoadedBy
<1>5. CASE Load(s)
  <2> SUFFICES ASSUME Writers(plan[s].host, path[s])' = {}
               PROVE  LoadedBy(s)'
    BY DEF LoadedBy
  <2>1. /\ state[s] = "reading" /\ state'[s] \in {"sharing", "InvalidCraft"}
        /\ UNCHANGED <<path, bytes, pos>>
    BY <1>0, <1>5 DEF Load
  <2>2. Disk(s)[path[s]] = file /\ file \in Seq(Char)
    BY <1>0, <1>2, <2>1, Untouched DEF Stages
  <2>3. pos[s] <= Len(file) /\ bytes[s] = SubSeq(file, 1, pos[s])
    BY <1>1, <1>2, <2>1 DEF LoadedBy
  <2>4. pos[s] = Len(file)
    BY <1>0, <1>5, <2>2, <2>3, LenProperties DEF Load
  <2>5. SubSeq(file, 1, Len(file)) = file
    <3> HIDE DEF file
    <3> QED BY <2>2, SubSeqFull
  <2> QED BY <1>1, <2>1, <2>3, <2>4, <2>5 DEF LoadedBy
<1>6. ASSUME NEW q \in Senders \ {s}, Resolve(q) \/ Read(q) \/ Load(q) \/ ReadFails(q)
      PROVE  LoadedBy(s)'
  <2>1. CASE Resolve(q)
    <3>1. bytes' = bytes /\ pos' = pos
      BY <2>1 DEF Resolve
    <3>2. path'[s] = path[s] /\ state'[s] = state[s]
      BY <1>0, <2>1, ResolvesToFile
    <3> QED BY <1>1, <3>1, <3>2, LoadedKept
  <2>2. CASE Read(q) \/ Load(q) \/ ReadFails(q)
    <3>1. path'[s] = path[s] /\ bytes'[s] = bytes[s] /\ pos'[s] = pos[s] /\ state'[s] = state[s]
      BY <1>0, <2>2 DEF Read, Load, ReadFails
    <3> QED BY <1>1, <3>1, LoadedKept
  <2> QED BY <1>6, <2>1, <2>2
<1>10. CASE ReadFails(s)
  <2>1. /\ UNCHANGED <<path, bytes, pos>>
        /\ state'[s] \notin {"reading", "sharing", "Sent"}
    BY <1>0, <1>10 DEF ReadFails
  <2> QED BY <1>1, <2>1, LoadedKept
<1>7. ASSUME NEW r \in Receivers,
             Start(r) \/ Create(r) \/ Write(r) \/ Report(r) \/ DiskFails(r)
      PROVE  LoadedBy(s)'
  <2>1. path'[s] = path[s] /\ bytes'[s] = bytes[s] /\ pos'[s] = pos[s] /\ state'[s] = state[s]
    BY <1>0, <1>7 DEF Start, Create, Write, Report, DiskFails
  <2> QED BY <1>1, <2>1, LoadedKept
<1>8. ASSUME NEW q \in Senders, NEW r \in Receivers, Session(q, r) \/ SessionFails(q, r)
      PROVE  LoadedBy(s)'
  <2>1. /\ path'[s] = path[s] /\ bytes'[s] = bytes[s] /\ pos'[s] = pos[s]
        /\ \/ state'[s] = state[s]
           \/ state[s] = "sharing" /\ state'[s] \in {"Sent", "Lost"}
    BY <1>0, <1>8 DEF Session, SessionFails
  <2> QED BY <1>1, <2>1, LoadedKept
<1>9. ASSUME (\E p \in Proc : Crash(p)) \/ UNCHANGED vars
      PROVE  LoadedBy(s)'
  <2>1. /\ path'[s] = path[s] /\ bytes'[s] = bytes[s] /\ pos'[s] = pos[s]
        /\ state'[s] = state[s] \/ state'[s] = "Crashed"
    BY <1>0, <1>9 DEF Crash, vars
  <2> QED BY <1>1, <2>1, LoadedKept
<1> QED
  BY <1>3, <1>4, <1>5, <1>6, <1>7, <1>8, <1>9, <1>10, Zenon DEF Next

-----------------------------------------------------------------------------
(* Which metadata a run holds, and where a receiver saves: what the sender *)
(* has sent is the metadata of what it has read, what the receiver holds   *)
(* is what its peer has sent, and the file is where this metadata says.    *)
Named ==
    /\ \A p \in Proc : \A m, n \in meta[p] : m = n
    /\ \A s \in Senders :
         state[s] \in {"sharing", "Sent"} => meta[s] = Some(Metadata(bytes[s], Given(s)))
    /\ \A r \in Receivers : \A s \in peer[r] : meta[r] = meta[s]
    /\ \A r \in Receivers :
         path[r] # <<>> => \A m \in meta[r] : path[r] = ResolveTargetPath(r, m)

LEMMA NamedStep ==
  ASSUME TypeOK, Stages, Named, [Next]_vars
  PROVE  Named'
<1> USE DEF Goto, inputs
<1>0. /\ DOMAIN path = Proc /\ DOMAIN meta = Proc /\ DOMAIN state = Proc
      /\ DOMAIN bytes = Proc /\ DOMAIN peer = Receivers
      /\ Senders \subseteq Proc /\ Receivers \subseteq Proc
      /\ \A s \in Senders, r \in Receivers : s # r
      /\ \A r \in Receivers : peer[r] \subseteq Senders
  BY ShipsAssumption DEF TypeOK, Proc
<1>p. \A r, m : ResolveTargetPath(r, m)' = ResolveTargetPath(r, m)
  <2>1. UNCHANGED plan
    BY DiskGrows
  <2>2. \A r : DetectKspInstall(r)' = DetectKspInstall(r)
    BY <2>1 DEF DetectKspInstall, CandidateInstallRoots, SelectInSeq
  <2> QED BY <2>1, <2>2, Zenon DEF ResolveTargetPath
<1>g. \A p : path'[p] = path[p] => Given(p)' = Given(p)
  <2>1. UNCHANGED plan
    BY DiskGrows
  <2> QED BY <2>1 DEF Given, Local
<1>1. ASSUME NEW s \in Senders, Resolve(s) \/ Read(s)
      PROVE  Named'
  <2>1. CASE Resolve(s)
    <3>1. bytes' = bytes /\ meta' = meta /\ peer' = peer
      BY <2>1 DEF Resolve
    <3>2. /\ \A p \in Proc \ {s} : path'[p] = path[p] /\ state'[p] = state[p]
          /\ state'[s] \notin {"sharing", "Sent"}
      BY <1>0, <2>1, ResolvesToFile
    <3> QED BY <1>0, <1>g, <1>p, <3>1, <3>2 DEF Named
  <2>2. CASE Read(s)
    <3>1. /\ \A p \in Proc \ {s} : bytes'[p] = bytes[p]
          /\ path' = path /\ state' = state /\ meta' = meta /\ peer' = peer
          /\ state'[s] \notin {"sharing", "Sent"}
      BY <1>0, <2>2 DEF Read
    <3> QED BY <1>0, <1>g, <1>p, <3>1 DEF Named
  <2> QED BY <1>1, <2>1, <2>2
<1>2. ASSUME NEW s \in Senders, Load(s)
      PROVE  Named'
  <2>1. /\ path' = path /\ bytes' = bytes /\ peer' = peer
        /\ \A p \in Proc \ {s} : state'[p] = state[p] /\ meta'[p] = meta[p]
        /\ \A r \in Receivers : s \notin peer[r]
    BY <1>0, <1>2 DEF Load, Stages
  <2>2. \/ meta'[s] = meta[s] /\ state'[s] = "InvalidCraft"
        \/ meta'[s] = {Metadata(bytes[s], Given(s))}
    BY <1>0, <1>2 DEF Load, Some
  <2>3. \A m, n \in meta'[s] : m = n
    <3>1. \A m, n \in meta[s] : m = n
      BY <1>0 DEF Named
    <3> QED BY <2>2, <3>1, Zenon
  <2>4. ASSUME NEW p \in Proc, NEW m \in meta'[p], NEW n \in meta'[p]
        PROVE  m = n
    BY <1>0, <2>1, <2>3, <2>4 DEF Named
  <2>5. ASSUME NEW q \in Senders, state'[q] \in {"sharing", "Sent"}
        PROVE  meta'[q] = Some(Metadata(bytes'[q], Given(q)'))
    BY <1>0, <1>g, <2>1, <2>2, <2>5 DEF Named, Some
  <2>6. ASSUME NEW r \in Receivers
        PROVE  /\ \A q \in peer'[r] : meta'[r] = meta'[q]
               /\ path'[r] # <<>> =>
                    \A m \in meta'[r] : path'[r] = ResolveTargetPath(r, m)'
    BY <1>0, <1>p, <2>1 DEF Named
  <2> QED BY <2>4, <2>5, <2>6, Zenon DEF Named
<1>3. ASSUME NEW s \in Senders, NEW r \in Receivers, Session(s, r)
      PROVE  Named'
  <2>1. /\ path' = path /\ path[r] = <<>>
        /\ state[s] = "sharing" /\ state'[s] = "Sent"
        /\ \A p \in Proc \ {s, r} : state'[p] = state[p]
        /\ meta'[r] = meta[s] /\ peer'[r] = {s}
        /\ \A p \in Proc \ {r} : meta'[p] = meta[p] /\ bytes'[p] = bytes[p]
        /\ \A q \in Receivers \ {r} : peer'[q] = peer[q]
    BY <1>0, <1>3 DEF Session, Stages, Some
  <2>2. ASSUME NEW p \in Proc, NEW m \in meta'[p], NEW n \in meta'[p]
        PROVE  m = n
    BY <1>0, <2>1, <2>2 DEF Named
  <2>3. ASSUME NEW q \in Senders, state'[q] \in {"sharing", "Sent"}
        PROVE  meta'[q] = Some(Metadata(bytes'[q], Given(q)'))
    BY <1>0, <1>g, <2>1, <2>3 DEF Named
  <2>4. ASSUME NEW q \in Receivers
        PROVE  /\ \A t \in peer'[q] : meta'[q] = meta'[t]
               /\ path'[q] # <<>> =>
                    \A m \in meta'[q] : path'[q] = ResolveTargetPath(q, m)'
    BY <1>0, <1>p, <2>1 DEF Named
  <2> QED BY <2>2, <2>3, <2>4, Zenon DEF Named
<1>4. ASSUME NEW r \in Receivers, Create(r)
      PROVE  Named'
  <2>1. /\ UNCHANGED <<meta, bytes, peer>>
        /\ \A p \in Proc \ {r} : path'[p] = path[p] /\ state'[p] = state[p]
    BY <1>0, <1>4 DEF Create
  <2>2. PICK m \in meta[r] : path'[r] = ResolveTargetPath(r, m)
    BY <1>0, <1>4 DEF Create
  <2>3. \A n \in meta[r] : n = m
    BY <1>0 DEF Named
  <2>4. ASSUME NEW q \in Receivers, path'[q] # <<>>
        PROVE  \A n \in meta[q] : path'[q] = ResolveTargetPath(q, n)
    BY <1>0, <2>1, <2>2, <2>3, <2>4 DEF Named
  <2>5. ASSUME NEW s \in Senders, state'[s] \in {"sharing", "Sent"}
        PROVE  meta[s] = Some(Metadata(bytes[s], Given(s)'))
    BY <1>0, <1>g, <2>1, <2>5 DEF Named
  <2> QED BY <1>p, <2>1, <2>4, <2>5 DEF Named
<1>5. ASSUME \/ \E r \in Receivers : Start(r) \/ Write(r) \/ Report(r) \/ DiskFails(r)
             \/ \E s \in Senders : ReadFails(s)
             \/ \E s \in Senders, r \in Receivers : SessionFails(s, r)
             \/ \E p \in Proc : Crash(p)
             \/ UNCHANGED vars
      PROVE  Named'
  <2>1. /\ UNCHANGED <<path, bytes, meta, peer>>
        /\ \A s \in Senders : state'[s] = state[s] \/ state'[s] \notin {"sharing", "Sent"}
    BY <1>0, <1>5 DEF Start, Write, Report, DiskFails, ReadFails, SessionFails, Crash, vars
  <2> QED BY <1>g, <1>p, <2>1 DEF Named
<1> QED
  BY <1>1, <1>2, <1>3, <1>4, <1>5, Zenon DEF Next

-----------------------------------------------------------------------------
(* The inductive invariant.  OnlyWhatWasReceived needs Stages: a receiver  *)
(* that has received more after it has created its file would not hold     *)
(* what it has written; ArrivesWhole needs Loaded.                         *)
IInv == TypeOK /\ Stages /\ OnlyWhatWasReceived /\ Loaded /\ Named

LEMMA Invariant == Spec => []IInv
<1>1. Init => IInv
  <2> SUFFICES ASSUME Init
               PROVE  IInv
    OBVIOUS
  <2>1. Loaded /\ Named
    BY DEF Init, Loaded, LoadedBy, Named, Proc, None
  <2> QED BY <2>1, TypeInit, StagesInit, ContentsInit DEF IInv
<1>2. IInv /\ [Next]_vars => IInv'
  BY TypeStep, StagesStep, ContentsStep, LoadedStep, NamedStep DEF IInv, Loaded
<1> QED BY <1>1, <1>2, PTL DEF Spec

(* Types are kept: every file, name, path and metadata that arises is one. *)
THEOREM ShipsTypeCorrect == Spec => []TypeOK
<1>1. IInv => TypeOK
  BY DEF IInv
<1> QED BY <1>1, Invariant, PTL

(* No file disappears, changes or appears but by what its receivers write, *)
(* however their steps interleave and wherever they stop.                  *)
THEOREM DiskKept == Spec => []OnlyWhatWasReceived
<1>1. IInv => OnlyWhatWasReceived
  BY DEF IInv
<1> QED BY <1>1, Invariant, PTL

(* What is reported as saved is the file that was shared, unless another   *)
(* receiver has written one of the two.                                    *)
THEOREM SavedIsShared == Spec => []ArrivesWhole
<1>1. ASSUME IInv
      PROVE  ArrivesWhole
  <2> SUFFICES ASSUME NEW r \in Receivers, NEW s \in peer[r],
                      state[r] = "Saved",
                      Writers(plan[s].host, path[s]) = {},
                      Writers(plan[r].host, path[r]) = {r}
               PROVE  files[plan[r].host][path[r]] = before[plan[s].host][path[s]]
    BY DEF ArrivesWhole
  <2>1. s \in Senders /\ r \in Proc /\ bytes[r] \in Seq(Char) /\ plan[r].host \in Host
    BY <1>1, HostType DEF IInv, TypeOK, Proc
  <2>2. /\ state[s] = "Sent" /\ bytes[r] = bytes[s] /\ pos[r] = Len(bytes[r])
        /\ path[r] \in DOMAIN files[plan[r].host]
    BY <1>1 DEF IInv, Stages, Disk
  <2>3. bytes[s] = before[plan[s].host][path[s]]
    BY <1>1, <2>1, <2>2 DEF IInv, Loaded, LoadedBy
  <2>4. files[plan[r].host][path[r]] = SubSeq(bytes[r], 1, pos[r])
    BY <1>1, <2>1, <2>2 DEF IInv, OnlyWhatWasReceived
  <2> QED BY <2>1, <2>2, <2>3, <2>4, SubSeqFull
<1> QED BY <1>1, Invariant, PTL

(* A blueprint whose name is a file name is saved under exactly this name. *)
THEOREM NameKept == Spec => []KeepsItsName
<1>1. ASSUME IInv
      PROVE  KeepsItsName
  <2> SUFFICES ASSUME NEW r \in Receivers, NEW m \in meta[r],
                      path[r] # <<>>, Plain(m.name)
               PROVE  FileStem(Last(path[r])) = m.name
    BY DEF KeepsItsName, Saving
  <2>1. m \in CraftMetadata
    BY <1>1 DEF IInv, TypeOK, Proc
  <2>2. m.name \in Name
    BY <2>1 DEF CraftMetadata
  <2>3. Last(path[r]) = FileName(m.name)
    BY <1>1, <2>1, TargetType DEF IInv, Named
  <2> QED BY <2>2, <2>3, PlainStem
<1> QED BY <1>1, Invariant, PTL
-----------------------------------------------------------------------------
(* Hangars, and what is found in them. *)

(* A hangar of an install: two components more, of which the last says     *)
(* which hangar it is.                                                     *)
LEMMA Hangars ==
  ASSUME NEW root \in Path, NEW last \in Component
  PROVE  LET dir == root \o <<<<"Ships">>, last>> IN
         /\ dir \in Path
         /\ Len(dir) = Len(root) + 2
         /\ \A i \in 1..Len(root) : dir[i] = root[i]
         /\ dir[Len(root) + 1] = <<"Ships">>
         /\ dir[Len(root) + 2] = last
<1> DEFINE t == <<<<"Ships">>, last>>
<1>1. <<"Ships">> \in Component
  BY SlashFree
<1>2. t \in Seq(Component) /\ Len(t) = 2 /\ t[1] = <<"Ships">> /\ t[2] = last
  BY <1>1
<1>3. Len(root) \in Nat
  BY LenProperties DEF Path
<1> HIDE DEF t
<1>4. /\ root \o t \in Seq(Component) /\ Len(root \o t) = Len(root) + Len(t)
      /\ \A i \in 1..(Len(root) + Len(t)) :
           (root \o t)[i] = IF i <= Len(root) THEN root[i] ELSE t[i - Len(root)]
  BY <1>2, ConcatProperties DEF Path
<1>5. /\ \A i \in 1..Len(root) : (root \o t)[i] = root[i]
      /\ (root \o t)[Len(root) + 1] = t[1]
      /\ (root \o t)[Len(root) + 2] = t[2]
  BY <1>2, <1>3, <1>4
<1> QED BY <1>2, <1>4, <1>5 DEF t, Path

LEMMA HangarsDiffer ==
  ASSUME NEW root \in Path
  PROVE  /\ VabDir(root) \in Path /\ SphDir(root) \in Path
         /\ VabDir(root) # SphDir(root)
<1>1. <<"VAB">> \in Component /\ <<"SPH">> \in Component /\ <<"VAB">> # <<"SPH">>
  BY SlashFree
<1>2. /\ VabDir(root) \in Path /\ SphDir(root) \in Path
      /\ VabDir(root)[Len(root) + 2] = <<"VAB">>
      /\ SphDir(root)[Len(root) + 2] = <<"SPH">>
  BY <1>1, Hangars DEF VabDir, SphDir
<1> QED BY <1>1, <1>2

(* Where a receiver without --out has saved. *)
LEMMA SavedInHangar ==
  ASSUME TypeOK, Named, NEW r \in Receivers, NEW m \in meta[r],
         path[r] # <<>>, plan[r].out = None
  PROVE  /\ m \in CraftMetadata
         /\ Install(r) \in Path
         /\ Front(path[r]) = HangarDir(Install(r), m.ship_type)
         /\ Last(path[r]) = FileName(m.name)
<1>1. r \in Proc
  BY DEF Proc
<1>2. m \in CraftMetadata
  BY <1>1 DEF TypeOK
<1>3. FileName(m.name) \in Component
  BY <1>2, FileNameType DEF CraftMetadata
<1>4. Install(r) \in Path
  BY <1>1, InstallType DEF Install
<1>5. path[r] = ResolveTargetPath(r, m)
  BY DEF Named
<1>6. path[r] = Append(HangarDir(Install(r), m.ship_type), FileName(m.name))
  BY <1>5 DEF ResolveTargetPath, Install
<1>7. HangarDir(Install(r), m.ship_type) \in Path
  BY <1>4, HangarsDiffer DEF HangarDir
<1> QED BY <1>2, <1>3, <1>4, <1>6, <1>7, AppendText, FrontOfAppend DEF Path

(* The craft files of a hangar that go by a name. *)
Matching(p, dir, name) ==
    {f \in Collect(p, dir) : EqIgnoreCase(FileStem(Last(f)), name)}

(* Where find_blueprint looks for a name that it has nothing to trim from. *)
LEMMA FoundIn ==
  ASSUME NEW p, NEW root, NEW name, TrimEnd(Trim(name), {".craft"}) = name
  PROVE  /\ FindBlueprint(p, root, name, Some("Vab")) = Matching(p, VabDir(root), name)
         /\ FindBlueprint(p, root, name, Some("Sph")) = Matching(p, SphDir(root), name)
         /\ Matching(p, VabDir(root), name) # {} =>
              FindBlueprint(p, root, name, None) = Matching(p, VabDir(root), name)
         /\ Matching(p, VabDir(root), name) = {} =>
              FindBlueprint(p, root, name, None) = Matching(p, SphDir(root), name)
<1> DEFINE in(dir) == Matching(p, dir, name)
<1>1. \A ship : FindBlueprint(p, root, name, ship) =
        LET vab == IF ship \subseteq {"Vab"} THEN in(VabDir(root)) ELSE {}
            sph == IF ship \subseteq {"Sph"} THEN in(SphDir(root)) ELSE {}
        IN IF vab # {} THEN vab ELSE sph
  BY Zenon DEF FindBlueprint, Matching
<1> HIDE DEF in
<1>2. /\ FindBlueprint(p, root, name, Some("Vab")) = in(VabDir(root))
      /\ FindBlueprint(p, root, name, Some("Sph")) = in(SphDir(root))
      /\ FindBlueprint(p, root, name, None) =
           IF in(VabDir(root)) # {} THEN in(VabDir(root)) ELSE in(SphDir(root))
  BY <1>1 DEF Some, None
<1> QED BY <1>2 DEF in

(* Whatever else goes by the name of the file that was saved is its twin. *)
LEMMA OnlyTwins ==
  ASSUME NEW r, NEW dir, NEW name, path[r] \in Matching(r, dir, name)
  PROVE  Matching(r, dir, name) = {path[r]} \/ TwinIn(dir, r, name)
BY DEF Matching, Collect, TwinIn

(* What lands in the install can be shared again from there: the file name *)
(* that resolve_target_path makes of a plain name is one that              *)
(* find_blueprint takes for this name, in the hangar it was put in, and no *)
(* other file is, but for a twin.                                          *)
THEOREM SavedIsFound == Spec => []FoundAgain
<1>1. ASSUME IInv
      PROVE  FoundAgain
  <2> SUFFICES ASSUME NEW r \in Receivers, NEW m \in meta[r],
                      path[r] # <<>>, Plain(m.name), plan[r].out = None
               PROVE  LET hangar == HangarOf(r, path[r])
                          found(ship) == FindBlueprint(r, Install(r), m.name, ship)
                          twin(dir) == TwinIn(dir, r, m.name)
                      IN /\ path[r] \in found(Some(hangar))
                         /\ found(Some(hangar)) = {path[r]} \/ twin(Front(path[r]))
                         /\ \/ found(None) = {path[r]} \/ twin(Front(path[r]))
                            \/ hangar = "Sph" /\ twin(VabDir(Install(r)))
    BY DEF FoundAgain, Saving
  <2> DEFINE root == Install(r)
             name == m.name
             found(ship) == FindBlueprint(r, root, name, ship)
             in(dir) == Matching(r, dir, name)
             twin(dir) == TwinIn(dir, r, name)
  <2>1. /\ m \in CraftMetadata /\ root \in Path
        /\ Front(path[r]) = HangarDir(root, m.ship_type)
        /\ Last(path[r]) = FileName(name)
    BY <1>1, SavedInHangar DEF IInv
  <2>2. name \in Name /\ name \in Seq(Char)
    BY <2>1 DEF CraftMetadata, Name
  <2>3. Trim(name) = name
    BY <2>2, TrimText DEF Plain
  <2>4. TrimEnd(Trim(name), {".craft"}) = name
    BY <2>2, <2>3, TrimEndText DEF Plain
  <2>5. /\ FileStem(Last(path[r])) = name
        /\ HasExtension(Last(path[r])) /\ Last(Last(path[r])) = ".craft"
    BY <2>1, <2>2, PlainStem
  <2>6. path[r] \in DOMAIN Disk(r)
    BY <1>1 DEF IInv, Stages
  <2>7. path[r] \in in(Front(path[r]))
    BY <2>5, <2>6 DEF Matching, Collect, EqIgnoreCase
  <2>8. VabDir(root) # SphDir(root)
    BY <2>1, HangarsDiffer
  <2>9. /\ found(Some("Vab")) = in(VabDir(root))
        /\ found(Some("Sph")) = in(SphDir(root))
        /\ in(VabDir(root)) # {} => found(None) = in(VabDir(root))
        /\ in(VabDir(root)) = {} => found(None) = in(SphDir(root))
    <3> HIDE DEF root, name
    <3> QED BY <2>4, FoundIn
  <2>10. in(Front(path[r])) = {path[r]} \/ twin(Front(path[r]))
    <3> HIDE DEF name
    <3> QED BY <2>7, OnlyTwins
  <2>11. \A g \in in(VabDir(root)) :
           Front(path[r]) = SphDir(root) => twin(VabDir(root))
    BY <2>8 DEF Matching, Collect, TwinIn
  <2>12. \/ Front(path[r]) = VabDir(root) /\ HangarOf(r, path[r]) = "Vab"
         \/ Front(path[r]) = SphDir(root) /\ HangarOf(r, path[r]) = "Sph"
    BY <2>1, <2>8 DEF HangarDir, HangarOf
  <2> HIDE DEF found, in, twin, root
  <2>13. CASE Front(path[r]) = VabDir(root) /\ HangarOf(r, path[r]) = "Vab"
    <3>1. found(Some("Vab")) = in(Front(path[r])) /\ found(None) = in(Front(path[r]))
      BY <2>7, <2>9, <2>13
    <3> QED BY <2>7, <2>10, <2>13, <3>1 DEF found, twin, root
  <2>14. CASE Front(path[r]) = SphDir(root) /\ HangarOf(r, path[r]) = "Sph"
    <3>1. found(Some("Sph")) = in(Front(path[r]))
      BY <2>9, <2>14
    <3>2. found(None) = in(Front(path[r])) \/ twin(VabDir(root))
      BY <2>9, <2>11, <2>14
    <3> QED BY <2>7, <2>10, <2>14, <3>1, <3>2 DEF found, twin, root
  <2> QED BY <2>12, <2>13, <2>14
<1> QED BY <1>1, Invariant, PTL

(* Of the components "Ships", "VAB" and "SPH" the last two name a hangar. *)
LEMMA HangarNames ==
  /\ ShipNamed(Some(<<"Ships">>)) = "Unknown"
  /\ ShipNamed(Some(<<"VAB">>)) = "Vab"
  /\ ShipNamed(Some(<<"SPH">>)) = "Sph"
<1> DEFINE capital == [A |-> "a", VAB |-> "vab", SPH |-> "sph", Ship |-> "ship"]
           low(c) == IF c \in DOMAIN capital THEN capital[c] ELSE c
<1>1. \A c : Lower(<<c>>)[1] = low(c)
  BY DEF Lower
<1>2. low("Ships") = "Ships" /\ low("VAB") = "vab" /\ low("SPH") = "sph"
  OBVIOUS
<1> HIDE DEF low
<1>3. /\ ~EqIgnoreCase(<<"Ships">>, <<"VAB">>)
      /\ ~EqIgnoreCase(<<"Ships">>, <<"SPH">>)
      /\ ~EqIgnoreCase(<<"SPH">>, <<"VAB">>)
      /\ ~EqIgnoreCase(<<"VAB">>, <<"SPH">>)
  BY <1>1, <1>2 DEF EqIgnoreCase
<1>4. EqIgnoreCase(<<"VAB">>, <<"VAB">>) /\ EqIgnoreCase(<<"SPH">>, <<"SPH">>)
  BY DEF EqIgnoreCase
<1>5. ASSUME NEW name
      PROVE  /\ EqIgnoreCase(name, <<"VAB">>) /\ ~EqIgnoreCase(name, <<"SPH">>)
                  => ShipNamed(Some(name)) = "Vab"
             /\ ~EqIgnoreCase(name, <<"VAB">>) /\ EqIgnoreCase(name, <<"SPH">>)
                  => ShipNamed(Some(name)) = "Sph"
             /\ ~EqIgnoreCase(name, <<"VAB">>) /\ ~EqIgnoreCase(name, <<"SPH">>)
                  => ShipNamed(Some(name)) = "Unknown"
  <2> DEFINE vab == \E s \in Some(name) : EqIgnoreCase(s, <<"VAB">>)
             sph == \E s \in Some(name) : EqIgnoreCase(s, <<"SPH">>)
  <2>1. vab = EqIgnoreCase(name, <<"VAB">>) /\ sph = EqIgnoreCase(name, <<"SPH">>)
    BY DEF Some, EqIgnoreCase
  <2>2. ShipNamed(Some(name)) = CASE vab -> "Vab" [] sph -> "Sph" [] OTHER -> "Unknown"
    BY Zenon DEF ShipNamed
  <2> HIDE DEF vab, sph
  <2> QED BY <2>1, <2>2
<1> QED BY <1>3, <1>4, <1>5

(* In a path whose directory is called like a hangar, this is the hangar   *)
(* that is found, if nothing before it is called like one.                 *)
LEMMA HangarOnPath ==
  ASSUME NEW f \in Path, Len(f) > 1, NEW last \in {<<"VAB">>, <<"SPH">>},
         f[Len(f) - 1] = last,
         \A i \in 1..(Len(f) - 2) : ShipNamed(Some(f[i])) = "Unknown"
  PROVE  ShipTypeFromPath(f) = ShipNamed(Some(last))
<1> DEFINE I == {i \in 1..Len(f) : ShipNamed(Some(f[i])) # "Unknown"}
           at == Len(f) - 1
<1>0. Len(f) \in Nat /\ Len(f) > 1
  BY LenProperties DEF Path
<1>1. Len(f) \in Nat /\ at \in Nat /\ at # 0 /\ at \in 1..Len(f)
  <2>1. \A n \in Nat : n > 1 => n - 1 \in Nat /\ n - 1 # 0 /\ n - 1 \in 1..n
    OBVIOUS
  <2> QED BY <1>0, <2>1, Zenon
<1>2. ShipNamed(Some(f[at])) # "Unknown"
  BY HangarNames
<1>3. \A i \in 1..Len(f) : i < at => i \in 1..(Len(f) - 2)
  BY <1>1
<1>4. at \in I /\ \A i \in I : at <= i
  BY <1>1, <1>2, <1>3
<1>5. Min(I) = at
  <2>1. I \subseteq Nat /\ I # {}
    BY <1>4
  <2> HIDE DEF I
  <2>2. Min(I) \in I /\ \A i \in I : Min(I) <= i
    BY <2>1, MinOfNats
  <2>3. Min(I) \in Nat /\ Min(I) <= at /\ at <= Min(I)
    BY <1>4, <2>1, <2>2
  <2> HIDE DEF at
  <2> QED BY <1>1, <2>3
<1>6. ShipTypeFromPath(f) = ShipNamed(Some(f[at]))
  <2> DEFINE i == SelectInSeq(f, LAMBDA c : ShipNamed(Some(c)) # "Unknown")
  <2>1. ShipTypeFromPath(f) = IF i = 0 THEN "Unknown" ELSE ShipNamed(Some(f[i]))
    BY Zenon DEF ShipTypeFromPath
  <2>2. i = IF I # {} THEN Min(I) ELSE 0
    BY Zenon DEF SelectInSeq
  <2>3. i = at
    <3> HIDE DEF I, i, at
    <3> QED BY <1>4, <1>5, <2>2
  <2> HIDE DEF i
  <2> QED BY <1>1, <2>1, <2>3
<1> QED BY <1>6

(* A file below a directory has it as the last component but one. *)
LEMMA DirectoryOnPath ==
  ASSUME NEW root \in Path, NEW last \in Component, NEW f \in Path, f # <<>>,
         Front(f) = root \o <<<<"Ships">>, last>>
  PROVE  Len(f) > 1 /\ f[Len(f) - 1] = last
<1> DEFINE at == Len(root) + 2
<1>1. Len(root) \in Nat /\ Len(f) \in Nat /\ Len(f) # 0
  BY LenProperties, EmptySeq DEF Path
<1>2. Len(Front(f)) = at /\ Front(f)[at] = last
  BY Hangars
<1>3. /\ Len(Front(f)) = Len(f) - 1
      /\ \A i \in 1..(Len(f) - 1) : Front(f)[i] = f[i]
  <2> DEFINE n == Len(f) - 1
  <2>1. n \in 0..Len(f) /\ n \in Nat /\ 1 \in Nat \ {0} /\ Front(f) = SubSeq(f, 1, n)
    BY <1>1 DEF Front
  <2>2. Len(SubSeq(f, 1, n)) = n /\ \A i \in 1..n : SubSeq(f, 1, n)[i] = f[i]
    <3> HIDE DEF n
    <3> QED BY <2>1, SubSeqText DEF Path
  <2> QED BY <2>1, <2>2
<1>4. at = Len(f) - 1 /\ at \in 1..(Len(f) - 1) /\ Len(f) > 1
  BY <1>1, <1>2, <1>3
<1> HIDE DEF at
<1> QED BY <1>2, <1>3, <1>4

(* The path that is typed ends as the path on the disk. *)
LEMMA EndOfPath ==
  ASSUME NEW cwd \in Path, NEW target \in Path, Len(target) > 1
  PROVE  /\ Len(cwd \o target) > 1
         /\ (cwd \o target)[Len(cwd \o target) - 1] = target[Len(target) - 1]
<1>1. cwd \in Seq(Component) /\ target \in Seq(Component)
  BY DEF Path
<1>2. Len(cwd) \in Nat /\ Len(target) \in Nat
  BY <1>1, LenProperties
<1>3. /\ Len(cwd \o target) = Len(cwd) + Len(target)
      /\ \A i \in 1..(Len(cwd) + Len(target)) :
           (cwd \o target)[i] = IF i <= Len(cwd) THEN cwd[i] ELSE target[i - Len(cwd)]
  BY ONLY <1>1, ConcatProperties
<1> DEFINE k == Len(cwd) + Len(target) - 1
<1>4. /\ k \in 1..(Len(cwd) + Len(target)) /\ ~(k <= Len(cwd))
      /\ k - Len(cwd) = Len(target) - 1
      /\ Len(cwd) + Len(target) > 1
  BY <1>2
<1>5. (cwd \o target)[k] = target[k - Len(cwd)]
  <2> HIDE DEF k
  <2> QED BY <1>3, <1>4
<1> QED BY <1>3, <1>4, <1>5

LEMMA GivenEnds ==
  ASSUME TypeOK, NEW s \in Proc, path[s] # <<>>, Len(Given(s)) > 1
  PROVE  /\ Given(s) \in Path /\ path[s] \in Path
         /\ Given(s)[Len(Given(s)) - 1] = path[s][Len(path[s]) - 1]
<1>1. Given(s) \in Path /\ path[s] \in Path /\ plan[s].cwd \in Path
  BY GivenType DEF TypeOK, Plan
<1>2. \/ Given(s) = path[s]
      \/ path[s] = plan[s].cwd \o Given(s)
  BY Zenon DEF Given, Local
<1>3. CASE path[s] = plan[s].cwd \o Given(s)
  BY <1>1, <1>3, EndOfPath
<1> QED BY <1>1, <1>2, <1>3

(* A blueprint whose header names no hangar keeps the one it was in, if it *)
(* is shared by a path with this hangar: ShipTypeFromPath finds it there,  *)
(* the metadata carries it and resolve_target_path puts the file there.    *)
THEOREM HangarStays == Spec => []HangarKept
<1>1. ASSUME IInv
      PROVE  HangarKept
  <2> SUFFICES ASSUME NEW r \in Receivers, NEW s \in peer[r],
                      path[r] # <<>>, plan[r].out = None,
                      ParseMetadata(bytes[s], Given(s)).ship_type = "Unknown",
                      Front(path[s]) \in {VabDir(Install(s)), SphDir(Install(s))},
                      Len(Given(s)) > 1,
                      \A i \in 1..(Len(Given(s)) - 2) :
                        ShipNamed(Some(Given(s)[i])) = "Unknown"
               PROVE  HangarOf(r, path[r]) = HangarOf(s, path[s])
    BY DEF HangarKept, Saving
  <2> DEFINE root == Install(s)
             m == Metadata(bytes[s], Given(s))
  <2>1. s \in Senders /\ s \in Proc /\ r \in Proc /\ state[s] = "Sent"
    BY <1>1 DEF IInv, TypeOK, Stages, Proc
  <2>2. path[s] \in Path /\ path[s] # <<>> /\ bytes[s] \in Seq(Char)
    <3>1. path[s] \in DOMAIN Disk(s) /\ plan[s].host \in Host
      BY <1>1, <2>1, HostType DEF IInv, Stages
    <3> QED BY <1>1, <2>1, <3>1 DEF IInv, TypeOK, IsDisk, Disk
  <2>3. m \in meta[r]
    BY <1>1, <2>1 DEF IInv, Named, Some
  <2>4. root \in Path /\ Install(r) \in Path
    BY <1>1, <2>1, InstallType DEF IInv, Install
  <2>5. m.ship_type = ShipTypeFromPath(Given(s))
    <3> DEFINE parsed == ParseMetadata(bytes[s], Given(s))
    <3>1. m = [parsed EXCEPT !.ship_type =
                 IF parsed.ship_type = "Unknown" THEN ShipTypeFromPath(Given(s))
                 ELSE parsed.ship_type]
      BY DEF Metadata
    <3>2. "ship_type" \in DOMAIN parsed
      BY DEF ParseMetadata
    <3> HIDE DEF parsed, m
    <3>3. parsed.ship_type = "Unknown"
      BY DEF parsed
    <3> QED BY <3>1, <3>2, <3>3
  <2>6. VabDir(root) # SphDir(root) /\ VabDir(Install(r)) # SphDir(Install(r))
    BY <2>4, HangarsDiffer
  <2>7. Front(path[r]) = HangarDir(Install(r), m.ship_type)
    <3> HIDE DEF m
    <3> QED BY <1>1, <2>3, SavedInHangar DEF IInv
  <2> HIDE DEF m
  <2>8. ASSUME NEW last \in {<<"VAB">>, <<"SPH">>},
               Front(path[s]) = root \o <<<<"Ships">>, last>>
        PROVE  m.ship_type = ShipNamed(Some(last))
    <3>1. last \in Component
      BY SlashFree
    <3>2. path[s][Len(path[s]) - 1] = last
      <4> DEFINE f == path[s]
      <4>1. /\ root \in Path /\ f \in Path /\ f # <<>>
            /\ Front(f) = root \o <<<<"Ships">>, last>>
        BY <2>2, <2>4, <2>8
      <4> HIDE DEF root, f
      <4>2. f[Len(f) - 1] = last
        BY ONLY <3>1, <4>1, DirectoryOnPath
      <4> QED BY <4>2 DEF f
    <3>3. Given(s) \in Path /\ Given(s)[Len(Given(s)) - 1] = last
      BY <1>1, <2>1, <2>2, <3>2, GivenEnds DEF IInv
    <3> QED BY <2>5, <3>3, HangarOnPath
  <2>9. CASE Front(path[s]) = VabDir(root)
    <3>1. m.ship_type = "Vab"
      BY <2>8, <2>9, HangarNames DEF VabDir
    <3> QED BY <2>6, <2>7, <2>9, <3>1 DEF HangarDir, HangarOf
  <2>10. CASE Front(path[s]) = SphDir(root)
    <3>1. m.ship_type = "Sph"
      BY <2>8, <2>10, HangarNames DEF SphDir
    <3> QED BY <2>6, <2>7, <2>10, <3>1 DEF HangarDir, HangarOf
  <2> QED BY <2>9, <2>10
<1> QED BY <1>1, Invariant, PTL
=============================================================================
