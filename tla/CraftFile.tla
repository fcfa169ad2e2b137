------------------------------ MODULE CraftFile ------------------------------
(***************************************************************************)
(* CraftFile::load (src/craft/mod.rs) on the craft files of both games.    *)
(* The file is described by the fields KSP wrote into it, so that what is  *)
(* read can be compared with what was written.                             *)
(***************************************************************************)
EXTENDS CraftText

CONSTANTS
    Craft,  \* craft files: a generation and a sequence of fields
    Paths   \* where they may lie

(* A field: a key, its value, and whether the editor closes it with a      *)
(* quote (KSP2) or how deep it lies in the parts of the craft (KSP1).      *)
Field == [key : STRING, value : Seq(STRING), quoted : BOOLEAN, nested : BOOLEAN]

(* What the games write: a KSP1 value lies on one line, which its key      *)
(* begins; a KSP2 value holds no quote (the model has no escapes), and one *)
(* without quotes, a number or null, nothing that ends it.                 *)
WrittenBy(generation, field) ==
    IF generation = "Ksp1"
    THEN field.key \notin Blank \cup {"{", "["} /\ ~Contains(field.value, "\n")
    ELSE /\ field.key # QUOTE /\ ~Contains(field.value, QUOTE)
         /\ ~field.quoted => \A c \in {",", "}", "\n", "\r"} : ~Contains(field.value, c)

ASSUME CraftFileAssumption ==
    /\ \A craft \in Craft :
         /\ craft.generation \in {"Ksp1", "Ksp2"}
         /\ craft.fields \in Seq(Field) \ {<<>>}
         /\ \A i \in DOMAIN craft.fields : WrittenBy(craft.generation, craft.fields[i])
    /\ Paths \subseteq Seq(Seq(STRING)) \ {<<>>}

VARIABLES
    written,  \* the craft as KSP wrote it
    path,     \* where
    loaded    \* what load returned

vars == <<written, path, loaded>>

(* A field with what separates it from the one before it. *)
Line(field) ==
    <<"\n">> \o (IF field.nested THEN <<"\t">> ELSE <<>>)
      \o <<field.key, " ", "=", " ">> \o field.value

Pair(field) ==
    <<",", "'", field.key, "'", ":", " ">>
      \o (IF field.quoted THEN <<"'">> \o field.value \o <<"'">> ELSE field.value)

(* The bytes up to the end of the n-th field, n > 0. *)
BytesTo(craft, n) ==
    IF craft.generation = "Ksp1"
    THEN Tail(FlattenSeq([i \in 1..n |-> Line(craft.fields[i])]))
    ELSE <<"{">> \o Tail(FlattenSeq([i \in 1..n |-> Pair(craft.fields[i])]))

Bytes ==
    BytesTo(written, Len(written.fields))
      \o (IF written.generation = "Ksp1" THEN <<"\n">> ELSE <<"}">>)

Unread == [result |-> "unread"]

Init ==
    /\ written \in Craft
    /\ path \in Paths
    /\ loaded = Unread

Load ==
    /\ loaded = Unread
    /\ loaded' = IF InvalidCraft(Bytes)
                 THEN [result |-> "InvalidCraft"]
                 ELSE [result |-> "Ok", metadata |-> Metadata(Bytes, path)]
    /\ UNCHANGED <<written, path>>

Next == Load

Spec == Init /\ [][Next]_vars

-----------------------------------------------------------------------------
(* Type correctness. *)
TypeOK ==
    /\ written.fields \in Seq(Field)
    /\ path \in Paths
    /\ loaded.result \in {"unread", "InvalidCraft", "Ok"}
    /\ loaded.result = "Ok" =>
         /\ loaded.metadata.name \in Seq(STRING)
         /\ loaded.metadata.ship_type \in {"Vab", "Sph", "Unknown"}
         /\ loaded.metadata.generation = written.generation

First(key) ==
    LET Is(k) == IF written.generation = "Ksp1" THEN Lower(<<k>>) = <<key>> ELSE k = key
    IN SelectInSeq(written.fields, LAMBDA field : Is(field.key))
Has(key) == First(key) # 0
Quoted(key) == written.generation = "Ksp2" /\ written.fields[First(key)].quoted
Value(key) ==
    LET value == written.fields[First(key)].value
    IN IF Quoted(key) THEN value ELSE Trim(value)

(* A value before it reads like the key (KSP2); the field ends within the  *)
(* part of the file that is parsed; both ways it can be seen whole.        *)
Hidden(key) ==
    /\ written.generation = "Ksp2"
    /\ \E i \in 1..(First(key) - 1) :
         written.fields[i].quoted /\ written.fields[i].value = <<key>>
Cut(key) == Len(BytesTo(written, First(key))) > HEAD_BYTES
Visible(key) == ~Hidden(key) /\ ~Cut(key)

(* What may be read of a key: its value; of one that is cut, what is left  *)
(* of it, which in quotes is nothing; of one that is hidden, nothing.      *)
Readings(key) ==
    CASE ~Has(key) \/ Hidden(key) -> {None}
      [] Has(key) /\ Visible(key) -> {Some(Value(key))}
      [] OTHER -> {None} \cup
           {Some(v) : v \in IF Quoted(key) THEN {<<>>} ELSE Prefixes(Value(key))}

Key(ksp1, ksp2) == IF written.generation = "Ksp1" THEN ksp1 ELSE ksp2
NameKey == Key("ship", "name")
VersionKey == Key("version", "gameVersion")

(* A field that lies within the first 8 KiB is read as KSP wrote it, and a *)
(* name that is missing is that of the file, whatever the other fields     *)
(* hold and in whatever order they come.  (parser.rs:26-104)               *)
FieldsRead ==
    loaded.result = "Ok" =>
      /\ Has(NameKey) /\ Visible(NameKey) => loaded.metadata.name = Value(NameKey)
      /\ ~Has(NameKey) => loaded.metadata.name = FileStem(Last(path))
      /\ Has(VersionKey) /\ Visible(VersionKey) =>
           loaded.metadata.ksp_version = Some(Value(VersionKey))

(* A field that is cut, or hidden behind a value that reads like its key,  *)
(* is read short or not at all: nothing is read that KSP did not write     *)
(* there.  (parser.rs:27, 91-104)                                          *)
NothingInvented ==
    loaded.result = "Ok" =>
      /\ \/ loaded.metadata.name = FileStem(Last(path))
         \/ Has(NameKey) /\ IsPrefix(loaded.metadata.name, Value(NameKey))
      /\ \A v \in loaded.metadata.ksp_version :
           Has(VersionKey) /\ IsPrefix(v, Value(VersionKey))

(* A craft file that says which hangar it was built in is given that one;  *)
(* one that does not is given the hangar it lies in, provided no directory *)
(* above the install is called like a hangar.  A KSP2 file may say it as   *)
(* its shipType, unless a type is read, even one that was cut.             *)
(* (craft/mod.rs:33-62, parser.rs:40-47)                                   *)
Hangar == path[Len(path) - 1]
HangarKnown ==
    /\ loaded.result = "Ok"
    /\ Len(path) > 1 /\ ShipNamed(Some(Hangar)) # "Unknown"
    /\ \A i \in 1..(Len(path) - 2) : ShipNamed(Some(path[i])) = "Unknown"
    =>
      \E type \in Readings("type"), shipType \in Readings("shipType") :
        LET said == IF written.generation = "Ksp2" /\ type = None THEN shipType ELSE type
        IN loaded.metadata.ship_type =
             ShipNamed(IF ShipNamed(said) = "Unknown" THEN Some(Hangar) ELSE said)

(* parser.rs:28 reports "not valid UTF-8 near header": only a file that is *)
(* not valid UTF-8 is refused.                                             *)
RefusedOnlyIfInvalid ==
    loaded.result = "InvalidCraft" => ~IsUtf8(Bytes)
=============================================================================
