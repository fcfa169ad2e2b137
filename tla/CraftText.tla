------------------------------ MODULE CraftText ------------------------------
(***************************************************************************)
(* What the program reads out of a craft file: src/craft/parser.rs and the *)
(* part of CraftFile::load (src/craft/mod.rs) that follows it.             *)
(*                                                                         *)
(* The bytes of a file are a text; a character of two bytes is LEAD, CONT. *)
(* A path is the sequence of its components, the file name last.           *)
(***************************************************************************)
EXTENDS Text

CONSTANT HEAD_BYTES  \* how much of a file is parsed: 8 KiB

ASSUME HeadAssumption == HEAD_BYTES \in Nat \ {0}

LEAD == "C3"
CONT == "A9"

(* str::from_utf8. *)
IsUtf8(bytes) ==
    \A i \in DOMAIN bytes :
      /\ bytes[i] = LEAD => i < Len(bytes) /\ bytes[i + 1] = CONT
      /\ bytes[i] = CONT => i > 1 /\ bytes[i - 1] = LEAD

HeadOf(bytes) ==
    SubSeq(bytes, 1, IF Len(bytes) < HEAD_BYTES THEN Len(bytes) ELSE HEAD_BYTES)

IsJsonArray(head) == head # <<>> /\ head[1] = "["  \* seeded fault

LooksLikeKsp2(head) ==
    LET text == TrimStart(head) IN text # <<>> /\ text[1] \in {"{", "["}

(* KSP1: the first line, at whatever depth, that begins with "key =". A    *)
(* seeded fault looks for the key anywhere in the line.                    *)
FindKey(line, key) ==
    LET at == {i \in 1..(Len(line) - 2) : SubSeq(Lower(line), i, i + 2) = <<key, " ", "=">>}
    IN IF at # {} THEN Some(Trim(From(line, Min(at) + 3))) ELSE None

StripKey(line, key) ==
    LET prefix == <<key, " ", "=">>
    IN IF IsPrefix(prefix, Lower(line)) THEN Some(Trim(From(line, 4))) ELSE None

CfgField(text, key) ==
    LET starts == {i \in DOMAIN text : i = 1 \/ text[i - 1] = "\n"}
        line(i) == Trim(UpTo(From(text, i), {"\n"}))
        found == {i \in starts : StripKey(line(i), key) # None}
    IN IF found = {} THEN None ELSE StripKey(line(Min(found)), key)

(* KSP2: what follows the first "key" in quotes, if that is a colon. *)
QUOTE == "'"

JsonValue(value) ==
    IF value # <<>> /\ value[1] = QUOTE
    THEN LET rest == Tail(value)
         IN IF Contains(rest, QUOTE) THEN Some(UpTo(rest, {QUOTE})) ELSE None
    ELSE Some(Trim(UpTo(value, {",", "}", "\n", "\r"})))

JsonFieldAfterAnything(text, key) ==  \* seeded fault: no colon required
    LET at == {i \in 1..(Len(text) - 2) : SubSeq(text, i, i + 2) = <<QUOTE, key, QUOTE>>}
        after == TrimStart(From(text, Min(at) + 4))
    IN IF at # {} THEN JsonValue(after) ELSE None

JsonField(text, key) ==
    LET at == {i \in 1..(Len(text) - 2) : SubSeq(text, i, i + 2) = <<QUOTE, key, QUOTE>>}
        after == TrimStart(From(text, Min(at) + 3))
    IN IF at # {} /\ after # <<>> /\ after[1] = ":"
       THEN JsonValue(TrimStart(Tail(after)))
       ELSE None

ShipNamed(option) ==
    CASE \E s \in option : EqIgnoreCase(s, <<"VAB">>) -> "Vab"
      [] \E s \in option : EqIgnoreCase(s, <<"SPH">>) -> "Sph"
      [] OTHER -> "Unknown"

(* file_stem, of a file name whose extension is its last character. *)
Extensions == {".craft", ".CRAFT", ".json"}
HasExtension(file) == Len(file) > 1 /\ Last(file) \in Extensions
FileStem(file) == IF HasExtension(file) THEN Front(file) ELSE file

InvalidCraft(bytes) == ~IsUtf8(HeadOf(bytes))

(* parse_metadata, of a file that is not refused. *)
ParseMetadata(bytes, path) ==
    LET head == HeadOf(bytes)
        stem == FileStem(Last(path))
        json(key) == JsonField(head, key)
        cfg(key) == CfgField(head, key)
    IN IF LooksLikeKsp2(head)
       THEN [name |-> UnwrapOr(json("name"), stem),
             ksp_version |-> json("gameVersion"),
             ship_type |-> ShipNamed(IF json("type") = None THEN json("shipType")
                                                            ELSE json("type")),
             generation |-> "Ksp2"]
       ELSE [name |-> UnwrapOr(cfg("ship"), stem),
             ksp_version |-> cfg("version"),
             ship_type |-> ShipNamed(cfg("type")),
             generation |-> "Ksp1"]

(* The first component of the path that names a hangar. *)
ShipTypeFromPath(path) ==
    LET i == SelectInSeq(path, LAMBDA c : ShipNamed(Some(c)) # "Unknown")
    IN IF i = 0 THEN "Unknown" ELSE ShipNamed(Some(path[i]))

(* CraftFile::load.  The digest and the size are those of bytes.  A seeded *)
(* fault trusts the path more than the header.                             *)
MetadataByPath(bytes, path) ==
    [ParseMetadata(bytes, path) EXCEPT !.ship_type = ShipTypeFromPath(path)]

Metadata(bytes, path) ==
    LET meta == ParseMetadata(bytes, path)
    IN [meta EXCEPT !.ship_type = IF @ = "Unknown" THEN ShipTypeFromPath(path) ELSE @]
=============================================================================
