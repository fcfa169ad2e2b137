-------------------------------- MODULE Text --------------------------------
(***************************************************************************)
(* Text as the modules on files, names and tickets see it: a sequence of   *)
(* characters, where a word that matters (a key, a file extension) counts  *)
(* as one character.  The operators are those of Rust's str that the code  *)
(* uses.  An optional value (Option) is a set of at most one element.      *)
(***************************************************************************)
EXTENDS Naturals, SequencesExt

None == {}
Some(value) == {value}
UnwrapOr(option, default) ==
    IF option = None THEN default ELSE CHOOSE value \in option : TRUE

From(s, i) == SubSeq(s, i, Len(s))

(* What precedes the first of stops in s: all of s if none is there. *)
UpTo(s, stops) ==
    LET i == SelectInSeq(s, LAMBDA c : c \in stops)
    IN IF i = 0 THEN s ELSE SubSeq(s, 1, i - 1)

Blank == {" ", "\t", "\n", "\r"}

(* trim_start, trim_end_matches, trim. *)
TrimStart(s) ==
    LET i == SelectInSeq(s, LAMBDA c : c \notin Blank)
    IN IF i = 0 THEN <<>> ELSE From(s, i)
TrimEnd(s, chars) == SubSeq(s, 1, SelectLastInSeq(s, LAMBDA c : c \notin chars))
Trim(s) == TrimStart(TrimEnd(s, Blank))

(* split(sep): the pieces between the occurrences of sep. *)
Split(s, sep) ==
    FoldLeft(LAMBDA pieces, c : IF c = sep THEN Append(pieces, <<>>)
                                ELSE Append(Front(pieces), Append(Last(pieces), c)),
             <<<<>>>>, s)

(* to_ascii_lowercase, on the letters and words in use, and                *)
(* eq_ignore_ascii_case.                                                   *)
Lower(s) ==
    LET capital == [A |-> "a", VAB |-> "vab", SPH |-> "sph", Ship |-> "ship"]
    IN [i \in DOMAIN s |-> IF s[i] \in DOMAIN capital THEN capital[s[i]] ELSE s[i]]
EqIgnoreCase(s, t) == Lower(s) = Lower(t)
=============================================================================
