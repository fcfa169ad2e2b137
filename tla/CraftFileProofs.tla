--------------------------- MODULE CraftFileProofs ---------------------------
(***************************************************************************)
(* Proofs about CraftFile: whatever craft KSP wrote, however long the head *)
(* is that load parses, what load returns is what was written.             *)
(*                                                                         *)
(* The argument: the bytes of a craft are its fields strung together, each *)
(* at a known place (FlatLaid); the head is a front of them, so a field is *)
(* in it whole, in part, or not at all (Lines, Ksp2Laid).  For KSP1, the   *)
(* lines CfgField looks at are those of the craft, and the first that      *)
(* begins with the key is the first field of that name (CfgFieldReads).    *)
(* For KSP2, a key in quotes is found where a field has that key, or where *)
(* a value reads like it, and nowhere else, since quotes stand in known    *)
(* places only (QuoteAt, OccursWhere); behind the first, JsonField reads   *)
(* what is left of the value (FieldReads).  Both together say that what is *)
(* read of a key is one of its Readings (Ksp1Reads, Ksp2Reads), and the    *)
(* theorems follow from the one invariant that what is loaded is what load *)
(* computes (CraftInv).                                                    *)
(***************************************************************************)
EXTENDS CraftFile, TextProofs

(* The characters of a craft file.  The provers do not see that a literal  *)
(* is a string, so those of the model are named.                           *)
Keys == {"ship", "version", "type", "name", "gameVersion", "shipType"}
Marks == {" ", "\t", "\n", "\r", "=", ",", ":", QUOTE, "{", "}"}
Lowered == {"a", "vab", "sph", "ship"}
Chars == STRING \cup Keys \cup Marks \cup Lowered

(* A text begins with three characters.                                    *)
LEMMA ThreePrefix ==
  ASSUME NEW S, NEW a \in S, NEW b \in S, NEW c \in S, NEW s \in Seq(S)
  PROVE  IsPrefix(<<a, b, c>>, s) <=> 3 <= Len(s) /\ s[1] = a /\ s[2] = b /\ s[3] = c
<1> DEFINE p == <<a, b, c>>
<1>1. p \in Seq(S) /\ Len(p) = 3 /\ p[1] = a /\ p[2] = b /\ p[3] = c
  OBVIOUS
<1> HIDE DEF p
<1>2. IsPrefix(p, s) <=> 3 <= Len(s) /\ \A i \in 1..3 : p[i] = s[i]
  <2>1. p \in Seq(S) /\ s \in Seq(S) /\ Len(p) = 3
    BY <1>1
  <2>2. PrefixReads(p, s)
    BY <2>1, PrefixRead
  <2> QED BY <2>1, <2>2 DEF PrefixReads
<1>3. (\A i \in 1..3 : p[i] = s[i]) <=> p[1] = s[1] /\ p[2] = s[2] /\ p[3] = s[3]
  <2>1. \A i \in 1..3 : i = 1 \/ i = 2 \/ i = 3
    OBVIOUS
  <2>2. 1 \in 1..3 /\ 2 \in 1..3 /\ 3 \in 1..3
    OBVIOUS
  <2> QED BY ONLY <2>1, <2>2
<1>4. IsPrefix(p, s) <=> 3 <= Len(s) /\ s[1] = a /\ s[2] = b /\ s[3] = c
  BY <1>1, <1>2, <1>3
<1> QED BY <1>4 DEF p

(* to_ascii_lowercase, of one character;                                   *)
LowerChar(c) == Lower(<<c>>)[1]

(* as Lower makes it, on its own and in a text;                            *)
LEMMA LowerCharIs ==
  /\ \A c \in Chars : LowerChar(c) \in Chars /\ Lower(<<c>>) = <<LowerChar(c)>>
  /\ LowerChar(" ") = " " /\ LowerChar("=") = "="
  /\ \A s \in Seq(Chars) : \A i \in 1..Len(s) : Lower(s)[i] = LowerChar(s[i])
<1> DEFINE capital == [A |-> "a", VAB |-> "vab", SPH |-> "sph", Ship |-> "ship"]
           low(c) == IF c \in DOMAIN capital THEN capital[c] ELSE c
<1>1. \A c \in Chars : low(c) \in Chars
  <2>1. DOMAIN capital = {"A", "VAB", "SPH", "Ship"}
    OBVIOUS
  <2>2. \A c \in {"A", "VAB", "SPH", "Ship"} : capital[c] \in {"a", "vab", "sph", "ship"}
    OBVIOUS
  <2>3. \A c \in {"a", "vab", "sph", "ship"} : c \in Chars
    BY DEF Chars, Lowered
  <2> HIDE DEF capital
  <2> QED BY <2>1, <2>2, <2>3
<1>2. low(" ") = " " /\ low("=") = "="
  OBVIOUS
<1> HIDE DEF low
<1>3. \A t : Lower(t) = [i \in DOMAIN t |-> low(t[i])]
  BY Zenon DEF Lower, low
<1>4. \A c : Lower(<<c>>) = <<low(c)>>
  <2> TAKE c
  <2>1. DOMAIN <<c>> = 1..1 /\ <<c>>[1] = c
    OBVIOUS
  <2>2. Lower(<<c>>) = [i \in 1..1 |-> low(<<c>>[i])]
    BY <1>3, <2>1
  <2>3. [i \in 1..1 |-> low(<<c>>[i])] = [i \in 1..1 |-> low(c)]
    BY <2>1
  <2>4. [i \in 1..1 |-> low(c)] = <<low(c)>>
    OBVIOUS
  <2> QED BY <2>2, <2>3, <2>4
<1>5. \A c : LowerChar(c) = low(c)
  <2> TAKE c
  <2>1. LowerChar(c) = Lower(<<c>>)[1]
    BY DEF LowerChar
  <2>2. <<low(c)>>[1] = low(c)
    OBVIOUS
  <2> QED BY <1>4, <2>1, <2>2, Zenon
<1>6. ASSUME NEW s \in Seq(Chars), NEW i \in 1..Len(s)
      PROVE  Lower(s)[i] = LowerChar(s[i])
  <2>1. DOMAIN s = 1..Len(s)
    BY LenProperties
  <2> QED BY <1>3, <1>5, <2>1
<1> QED BY <1>1, <1>2, <1>4, <1>5, <1>6

(* ... of each of a text.                                                  *)
LEMMA LowerIs ==
  ASSUME NEW s \in Seq(Chars)
  PROVE  /\ Lower(s) \in Seq(Chars) /\ Len(Lower(s)) = Len(s)
         /\ \A i \in 1..Len(s) : Lower(s)[i] = LowerChar(s[i])
<1>1. Len(s) \in Nat /\ DOMAIN s = 1..Len(s) /\ \A i \in 1..Len(s) : s[i] \in Chars
  BY LenProperties, ElementOfSeq
<1>2. \A i \in 1..Len(s) : Lower(s)[i] = LowerChar(s[i]) /\ LowerChar(s[i]) \in Chars
  BY <1>1, LowerCharIs
<1> DEFINE l == Lower(s)
<1>3. l = [i \in 1..Len(s) |-> l[i]]
  BY <1>1 DEF Lower
<1> HIDE DEF l
<1>4. \A i \in 1..Len(s) : l[i] \in Chars
  BY <1>2 DEF l
<1>5. l \in [1..Len(s) -> Chars]
  BY <1>3, <1>4
<1>6. l \in Seq(Chars) /\ Len(l) = Len(s)
  BY <1>1, <1>5, FunctionText
<1> QED BY <1>2, <1>6 DEF l

(* strip_key: what it finds begins with "key =".                           *)
LEMMA StripKeyIs ==
  ASSUME NEW w \in Seq(Chars), NEW key \in Chars
  PROVE  StripKey(w, key) =
           IF 3 <= Len(w) /\ LowerChar(w[1]) = key /\ LowerChar(w[2]) = " " /\ LowerChar(w[3]) = "="
           THEN Some(Trim(From(w, 4))) ELSE None
<1>1. " " \in Chars /\ "=" \in Chars
  BY DEF Chars, Marks
<1> DEFINE l == Lower(w)
<1>2. /\ l \in Seq(Chars) /\ Len(l) = Len(w) /\ Len(w) \in Nat
      /\ \A i \in 1..Len(w) : l[i] = LowerChar(w[i])
  BY LowerIs, LenProperties
<1>3. StripKey(w, key) = IF IsPrefix(<<key, " ", "=">>, l) THEN Some(Trim(From(w, 4))) ELSE None
  BY Zenon DEF StripKey, l
<1> HIDE DEF l
<1>4. IsPrefix(<<key, " ", "=">>, l) <=> 3 <= Len(l) /\ l[1] = key /\ l[2] = " " /\ l[3] = "="
  <2>1. \A a, b, c \in Chars : IsPrefix(<<a, b, c>>, l) <=> 3 <= Len(l) /\ l[1] = a /\ l[2] = b /\ l[3] = c
    BY <1>2, ThreePrefix
  <2> QED BY <1>1, <2>1
<1>5. 3 <= Len(w) => l[1] = LowerChar(w[1]) /\ l[2] = LowerChar(w[2]) /\ l[3] = LowerChar(w[3])
  <2>1. 3 <= Len(w) => 1 \in 1..Len(w) /\ 2 \in 1..Len(w) /\ 3 \in 1..Len(w)
    BY <1>2
  <2> QED BY <1>2, <2>1
<1>6. IsPrefix(<<key, " ", "=">>, l) <=>
        3 <= Len(w) /\ LowerChar(w[1]) = key /\ LowerChar(w[2]) = " " /\ LowerChar(w[3]) = "="
  BY <1>2, <1>4, <1>5
<1> QED BY <1>3, <1>6, Zenon

(* A key and "=", and what is read of what is left of them and a value.    *)
Assigns(c) == c \in Seq(Chars) /\ Len(c) = 3 /\ c[2] = " " /\ c[3] = "="

(* What is found in a front of "key =" and r: that key, and a front of r;  *)
StripsFront(w, c, r, key) ==
    StripKey(w, key) # None =>
      /\ LowerChar(c[1]) = key
      /\ \E q \in Seq(Chars) : IsPrefix(q, r) /\ StripKey(w, key) = Some(Trim(q))

LEMMA StripFront ==
  ASSUME NEW c, Assigns(c), NEW r \in Seq(Chars),
         NEW w \in Seq(Chars), IsPrefix(w, c \o r), NEW key \in Chars
  PROVE  StripsFront(w, c, r, key)
<1> SUFFICES ASSUME StripKey(w, key) # None
             PROVE  /\ LowerChar(c[1]) = key
                    /\ \E q \in Seq(Chars) : IsPrefix(q, r) /\ StripKey(w, key) = Some(Trim(q))
  BY DEF StripsFront
<1>1. 3 <= Len(w) /\ LowerChar(w[1]) = key /\ StripKey(w, key) = Some(Trim(From(w, 4)))
  BY StripKeyIs
<1>2. c \in Seq(Chars) /\ Len(c) = 3 /\ Len(r) \in Nat /\ Len(w) \in Nat
  BY LenProperties DEF Assigns
<1>3. PrefixOfEither(Chars, w, c, r)
  BY <1>2, PrefixOfConcat
<1>4. CASE IsPrefix(w, c)
  <2>1. Len(w) <= Len(c) /\ \A i \in 1..Len(w) : w[i] = c[i]
    BY <1>2, <1>4, PrefixIs
  <2>2. Len(w) = 3 /\ w[1] = c[1]
    BY <1>1, <1>2, <2>1
  <2>3. PICK e \in Seq(Chars) : e = <<>> /\ Len(e) = 0
    BY EmptySeq
  <2>4. w \o e = w
    BY <2>3, ConcatEmptySeq
  <2>5. From(w \o e, Len(w) + 1) = e
    BY FromIs
  <2>6. From(w, 4) = e
    BY <2>2, <2>4, <2>5
  <2>7. IsPrefix(e, r)
    <3>1. Len(e) <= Len(r) /\ \A i \in 1..Len(e) : e[i] = r[i]
      BY <1>2, <2>3
    <3> QED BY <3>1, PrefixIs
  <2> QED BY <1>1, <2>2, <2>6, <2>7
<1>5. ASSUME NEW q \in Seq(Chars), IsPrefix(q, r), w = c \o q
      PROVE  LowerChar(c[1]) = key /\ StripKey(w, key) = Some(Trim(q))
  <2>1. From(c \o q, Len(c) + 1) = q
    <3>1. c \in Seq(Chars)
      BY <1>2
    <3> QED BY <3>1, FromIs
  <2>3. Len(c) + 1 = 4
    BY <1>2
  <2>2. (c \o q)[1] = c[1]
    <3>1. Len(q) \in Nat
      BY LenProperties
    <3>2. \A j \in 1..(Len(c) + Len(q)) : (c \o q)[j] = IF j <= Len(c) THEN c[j] ELSE q[j - Len(c)]
      BY <1>2, ConcatProperties
    <3>3. 1 \in 1..(Len(c) + Len(q)) /\ 1 <= Len(c)
      BY <1>2, <3>1
    <3> QED BY ONLY <3>2, <3>3
  <2> QED BY <1>1, <1>5, <2>1, <2>2, <2>3
<1> QED BY <1>3, <1>4, <1>5 DEF PrefixOfEither

(* and in the whole, all of r.                                             *)
LEMMA StripWhole ==
  ASSUME NEW c, Assigns(c), NEW r \in Seq(Chars)
  PROVE  StripKey(c \o r, LowerChar(c[1])) = Some(Trim(r))
<1> DEFINE w == c \o r
<1>0. c \in Seq(Chars) /\ c[2] = " " /\ c[3] = "="
  BY DEF Assigns
<1>1. c \in Seq(Chars) /\ Len(c) = 3 /\ Len(r) \in Nat
  BY LenProperties DEF Assigns
<1>9. \A n \in Nat : /\ 1 \in 1..(3 + n) /\ 2 \in 1..(3 + n) /\ 3 \in 1..(3 + n)
                     /\ 1 <= 3 /\ 2 <= 3 /\ 3 <= 3 /\ 3 <= 3 + n
  OBVIOUS
<1>2. /\ w \in Seq(Chars) /\ Len(w) = Len(c) + Len(r)
      /\ \A j \in 1..(Len(c) + Len(r)) : w[j] = IF j <= Len(c) THEN c[j] ELSE r[j - Len(c)]
  BY <1>1, ConcatProperties
<1>3. From(w, 4) = r
  <2>1. From(w, Len(c) + 1) = r
    <3>1. c \in Seq(Chars)
      BY <1>1
    <3> QED BY <3>1, FromIs
  <2>2. Len(c) + 1 = 4
    BY ONLY <1>1
  <2> QED BY <2>1, <2>2
<1> HIDE DEF w
<1>4. 3 <= Len(w) /\ w[1] = c[1] /\ w[2] = " " /\ w[3] = "="
  <2>1. /\ 1 \in 1..(Len(c) + Len(r)) /\ 2 \in 1..(Len(c) + Len(r)) /\ 3 \in 1..(Len(c) + Len(r))
        /\ 1 <= Len(c) /\ 2 <= Len(c) /\ 3 <= Len(c) /\ 3 <= Len(c) + Len(r)
    BY ONLY <1>1, <1>9
  <2>2. w[1] = c[1] /\ w[2] = c[2] /\ w[3] = c[3]
    BY ONLY <1>2, <2>1
  <2>3. 3 <= Len(w)
    BY ONLY <1>2, <2>1
  <2> QED BY <1>0, <2>2, <2>3
<1>5. c[1] \in Chars
  <2>1. 1 \in 1..Len(c)
    <3>1. 1 \in 1..3
      OBVIOUS
    <3> QED BY <1>1, <3>1, Zenon
  <2> QED BY <1>1, <2>1, ElementOfSeq
<1>6. LowerChar(c[1]) \in Chars /\ LowerChar(" ") = " " /\ LowerChar("=") = "="
  BY <1>5, LowerCharIs
<1> DEFINE key == LowerChar(c[1])
<1>7. /\ key \in Chars /\ 3 <= Len(w) /\ LowerChar(w[1]) = key
      /\ LowerChar(w[2]) = " " /\ LowerChar(w[3]) = "="
  BY <1>4, <1>6
<1> HIDE DEF key
<1>8. StripKey(w, key) = Some(Trim(From(w, 4)))
  BY <1>2, <1>7, StripKeyIs
<1> QED BY <1>3, <1>8 DEF w, key

(* Four texts strung together.                                             *)
Regroups(x, y, z, u) == (x \o y) \o (z \o u) = (x \o (y \o z)) \o u

LEMMA RegroupsFour ==
  ASSUME NEW S, NEW x \in Seq(S), NEW y \in Seq(S), NEW z \in Seq(S), NEW u \in Seq(S)
  PROVE  Regroups(x, y, z, u)
<1>1. Joined(S, x, y)
  BY ConcatText
<1>2. Assoc(x \o y, z, u)
  BY <1>1, Associate, Zenon DEF Joined
<1>3. Assoc(x, y, z)
  BY Associate
<1> QED BY <1>2, <1>3, Zenon DEF Regroups, Assoc

(* What a line says, whole or not: the key, and the value, whole or not.   *)
LineSays(p, line, k, v, key) ==
    /\ StripKey(Trim(p), key) # None =>
         /\ k = key
         /\ \E u \in Seq(Chars) : IsPrefix(u, Trim(v)) /\ StripKey(Trim(p), key) = Some(u)
    /\ p = line /\ k = key => StripKey(Trim(p), key) = Some(Trim(v))

(* A line of KSP1 says the key it begins with, below its tab.              *)
LEMMA LineIs ==
  ASSUME NEW tab \in Seq(Chars), AllIn(tab, Blank), NEW c, Assigns(c), c[1] \notin Blank,
         NEW v \in Seq(Chars), NEW p \in Seq(Chars), IsPrefix(p, (tab \o c) \o v), NEW key \in Chars
  PROVE  LineSays(p, (tab \o c) \o v, LowerChar(c[1]), v, key)
<1> DEFINE r == TrimEnd(v, Blank)
           line == (tab \o c) \o v
<1>1. c \in Seq(Chars) /\ Len(c) = 3
  BY DEF Assigns
<1>2. PICK y \in Seq(Chars) : /\ r \in Seq(Chars)
                              /\ r = <<>> \/ Last(r) \notin Blank
                              /\ AllIn(y, Blank) /\ v = r \o y
  <2>1. EndSplits(Chars, v, Blank)
    BY EndSplit
  <2> QED BY <2>1, Zenon DEF EndSplits
<1>3. Trim(r) = Trim(v)
  <2>1. TrimEnd(r, Blank) = r
    <3> HIDE DEF r
    <3>0. PICK e \in Seq(Chars) : e = <<>> /\ Len(e) = 0
      BY EmptySeq
    <3>1. e = <<>> /\ AllIn(e, Blank)
      BY <3>0 DEF AllIn
    <3>2. r \o e = r
      BY <1>2, <3>1, ConcatEmptySeq
    <3>3. TrimEnd(r \o e, Blank) = r
      BY <1>2, <3>1, TrimEndIs
    <3> QED BY <3>2, <3>3
  <2> QED BY <2>1 DEF Trim
<1> HIDE DEF r
<1> DEFINE w == c \o r
<1>4. w \in Seq(Chars) /\ Trimmed(w)
  <2>1. w \in Seq(Chars) /\ w # <<>> /\ w[1] = c[1]
    <3>1. Len(r) \in Nat /\ r \in Seq(Chars)
      BY <1>2, LenProperties
    <3>2. /\ w \in Seq(Chars) /\ Len(w) = Len(c) + Len(r)
          /\ \A j \in 1..(Len(c) + Len(r)) : w[j] = IF j <= Len(c) THEN c[j] ELSE r[j - Len(c)]
      BY <1>1, <3>1, ConcatProperties
    <3> HIDE DEF w
    <3>3. \A n \in Nat : 1 \in 1..(3 + n) /\ 1 <= 3 /\ 3 + n # 0
      OBVIOUS
    <3>4. 1 \in 1..(Len(c) + Len(r)) /\ 1 <= Len(c) /\ Len(w) # 0
      BY ONLY <1>1, <3>1, <3>2, <3>3
    <3>5. w[1] = c[1]
      BY ONLY <3>2, <3>4
    <3> QED BY <3>2, <3>4, <3>5, EmptySeq
  <2>2. Last(w) \notin Blank
    <3>1. CASE r = <<>>
      <4>1. w = c
        BY <1>1, <3>1, ConcatEmptySeq
      <4>2. Last(c) = "="
        <5>1. c[3] = "=" /\ Len(c) = 3
          BY DEF Assigns
        <5> QED BY <5>1, Zenon DEF Last
      <4> QED BY <4>1, <4>2 DEF Blank
    <3>2. CASE r # <<>>
      BY <1>1, <1>2, <3>2, LastOfConcat
    <3> QED BY <3>1, <3>2
  <2> QED BY <2>1, <2>2 DEF Trimmed
<1>5. Trim(line) = w /\ line \in Seq(Chars)
  <2>1. line = (tab \o w) \o y
    <3>1. v = r \o y /\ r \in Seq(Chars)
      BY <1>2
    <3>2. (tab \o c) \o (r \o y) = (tab \o (c \o r)) \o y
      <4>1. Regroups(tab, c, r, y)
        BY <1>1, <3>1, RegroupsFour
      <4> QED BY <4>1, Zenon DEF Regroups
    <3> QED BY <3>1, <3>2
  <2> HIDE DEF w, line
  <2>2. Trim((tab \o w) \o y) = w
    BY <1>2, <1>4, TrimIs
  <2>3. tab \o w \in Seq(Chars)
    BY <1>4, ConcatProperties
  <2>4. (tab \o w) \o y \in Seq(Chars)
    BY <1>2, <2>3, ConcatProperties
  <2> QED BY <2>1, <2>2, <2>4
<1>6. Trim(p) \in Seq(Chars) /\ IsPrefix(Trim(p), w)
  BY <1>5, TrimPrefix, TrimText
<1>7. ASSUME StripKey(Trim(p), key) # None
      PROVE  /\ LowerChar(c[1]) = key
             /\ \E u \in Seq(Chars) : IsPrefix(u, Trim(v)) /\ StripKey(Trim(p), key) = Some(u)
  <2>1. StripsFront(Trim(p), c, r, key)
    BY <1>2, <1>6, StripFront
  <2>2. PICK q \in Seq(Chars) : IsPrefix(q, r) /\ StripKey(Trim(p), key) = Some(Trim(q))
    BY <1>7, <2>1 DEF StripsFront
  <2>3. Trim(q) \in Seq(Chars) /\ IsPrefix(Trim(q), Trim(r))
    BY <1>2, <2>2, TrimPrefix, TrimText
  <2> QED BY <1>3, <1>7, <2>1, <2>2, <2>3 DEF StripsFront
<1>8. ASSUME p = line, LowerChar(c[1]) = key
      PROVE  StripKey(Trim(p), key) = Some(Trim(v))
  <2>1. StripKey(w, LowerChar(c[1])) = Some(Trim(r))
    BY <1>2, StripWhole
  <2> QED BY <1>3, <1>5, <1>8, <2>1
<1> QED BY <1>7, <1>8 DEF LineSays

-----------------------------------------------------------------------------
(* KSP1: where the lines of a text begin, and what is read of one.         *)

(* A text of N lines, the i-th up to off[i], where it is not cut.          *)
Lines(text, N, L, off) ==
    /\ text \in Seq(Chars)
    /\ N \in Nat /\ L \in [1..N -> Seq(Chars)] /\ off \in [0..N -> Nat]
    /\ off[0] = 0 /\ Len(text) <= off[N]
    /\ \A i \in 1..N : i - 1 \in 0..N /\ off[i] = off[i - 1] + Len(L[i]) + 1
    /\ \A i \in 0..N : \A j \in i..N : off[i] <= off[j]
    /\ \A i \in 1..N : \A k \in 1..Len(L[i]) :
         off[i - 1] + k <= Len(text) => text[off[i - 1] + k] = L[i][k]
    /\ \A i \in 1..N : off[i] <= Len(text) => text[off[i]] = "\n"
    /\ \A p \in 1..Len(text) : \E i \in 1..N : off[i - 1] < p /\ p <= off[i]
    /\ \A i \in 1..N : Without("\n", L[i])

(* A line begins at the start of the text and after each newline, nowhere  *)
(* else,                                                                   *)
LEMMA LineStarts ==
  ASSUME NEW text, NEW N, NEW L, NEW off, Lines(text, N, L, off), NEW p \in 1..Len(text)
  PROVE  (p = 1 \/ text[p - 1] = "\n") <=> \E j \in 1..N : p = off[j - 1] + 1
<1>1. /\ text \in Seq(Chars) /\ N \in Nat /\ L \in [1..N -> Seq(Chars)] /\ off \in [0..N -> Nat]
      /\ off[0] = 0 /\ Len(text) <= off[N]
      /\ \A i \in 1..N : i - 1 \in 0..N /\ off[i] = off[i - 1] + Len(L[i]) + 1
  BY DEF Lines
<1>2. \A i \in 0..N : \A j \in i..N : off[i] <= off[j]
  BY DEF Lines
<1>3. \A q \in 1..Len(text) : \E i \in 1..N : off[i - 1] < q /\ q <= off[i]
  BY DEF Lines
<1>4. Len(text) \in Nat /\ p \in Nat /\ p > 0
  BY <1>1, LenProperties
<1>5. ASSUME NEW j \in 1..N, p = off[j - 1] + 1
      PROVE  p = 1 \/ text[p - 1] = "\n"
  <2>1. CASE j = 1
    BY <1>1, <1>5, <2>1
  <2>2. CASE j # 1
    <3>1. j - 1 \in 1..N /\ off[j - 1] \in Nat
      <4>1. \A n \in Nat : \A i \in 1..n : i # 1 => i - 1 \in 1..n /\ i - 1 \in 0..n
        OBVIOUS
      <4>2. j - 1 \in 1..N /\ j - 1 \in 0..N
        BY <1>1, <2>2, <4>1
      <4> QED BY <1>1, <4>2
    <3>2. off[j - 1] <= Len(text) /\ p - 1 = off[j - 1]
      BY <1>4, <1>5, <3>1
    <3> QED BY <3>1, <3>2 DEF Lines
  <2> QED BY <2>1, <2>2
<1>6. ASSUME p = 1
      PROVE  \E j \in 1..N : p = off[j - 1] + 1
  <2>1. PICK i \in 1..N : off[i - 1] < p /\ p <= off[i]
    BY <1>3
  <2>2. 1 \in 1..N /\ p = off[1 - 1] + 1
    BY <1>1, <1>6
  <2> QED BY <2>2
<1>7. ASSUME p # 1, text[p - 1] = "\n"
      PROVE  \E j \in 1..N : p = off[j - 1] + 1
  <2>1. p - 1 \in 1..Len(text)
    BY <1>4, <1>7
  <2>2. PICK i \in 1..N : off[i - 1] < p - 1 /\ p - 1 <= off[i]
    BY <1>3, <2>1
  <2>3. off[i - 1] \in Nat /\ off[i] \in Nat /\ Len(L[i]) \in Nat
    <3>1. i - 1 \in 0..N /\ i \in 0..N /\ L[i] \in Seq(Chars)
      BY <1>1
    <3> QED BY <1>1, <3>1, LenProperties
  <2>4. p - 1 = off[i]
    <3> SUFFICES ASSUME p - 1 # off[i]
                 PROVE  FALSE
      OBVIOUS
    <3> DEFINE k == (p - 1) - off[i - 1]
    <3>1. off[i] = off[i - 1] + Len(L[i]) + 1
      BY <1>1
    <3>2. k \in 1..Len(L[i]) /\ off[i - 1] + k = p - 1 /\ p - 1 <= Len(text)
      BY <1>4, <2>2, <2>3, <3>1
    <3> HIDE DEF k
    <3>3. text[p - 1] = L[i][k]
      <4>1. off[i - 1] + k <= Len(text) => text[off[i - 1] + k] = L[i][k]
        BY <3>2 DEF Lines
      <4> QED BY <3>2, <4>1
    <3>4. L[i][k] # "\n"
      BY <3>2 DEF Lines, Without
    <3> QED BY <1>7, <3>3, <3>4
  <2>5. i # N
    <3>1. p <= off[N]
      BY <1>1, <1>4
    <3> QED BY <1>4, <2>3, <2>4, <3>1
  <2>6. i + 1 \in 1..N /\ p = off[(i + 1) - 1] + 1
    BY <1>1, <1>4, <2>3, <2>4, <2>5
  <2> QED BY <2>6
<1> QED BY <1>5, <1>6, <1>7

(* and what is read of it is the line, or what is left of it.              *)
LEMMA LineRead ==
  ASSUME NEW text, NEW N, NEW L, NEW off, Lines(text, N, L, off),
         NEW j \in 1..N, off[j - 1] < Len(text)
  PROVE  /\ UpTo(From(text, off[j - 1] + 1), {"\n"}) \in Seq(Chars)
         /\ IsPrefix(UpTo(From(text, off[j - 1] + 1), {"\n"}), L[j])
         /\ off[j - 1] + Len(L[j]) <= Len(text) => UpTo(From(text, off[j - 1] + 1), {"\n"}) = L[j]
<1> DEFINE at == off[j - 1]
           z == From(text, at + 1)
           len == Len(L[j])
           m == IF len <= Len(text) - at THEN len ELSE Len(text) - at
           x == SubSeq(z, 1, m)
           y == From(z, m + 1)
<1>1. /\ text \in Seq(Chars) /\ Len(text) \in Nat
      /\ at \in Nat /\ L[j] \in Seq(Chars) /\ len \in Nat /\ off[j] = at + len + 1
  <2>1. text \in Seq(Chars) /\ L[j] \in Seq(Chars) /\ at \in Nat /\ off[j] = at + len + 1
    BY DEF Lines
  <2> QED BY <2>1, LenProperties
<1>2. \A k \in 1..len : at + k <= Len(text) => text[at + k] = L[j][k] /\ L[j][k] # "\n"
  BY DEF Lines, Without
<1>3. off[j] <= Len(text) => text[off[j]] = "\n"
  BY DEF Lines
<1> HIDE DEF at, len
<1>4. at < Len(text)
  BY DEF at
<1>5. z \in Seq(Chars) /\ Len(z) = Len(text) - at /\ \A k \in 1..(Len(text) - at) : z[k] = text[at + k]
  <2>1. at \in 0..Len(text)
    BY <1>1, <1>4
  <2> QED BY <1>1, <2>1, FallsInTwo
<1> HIDE DEF z
<1>6. m \in 0..Len(z) /\ m \in Nat /\ m <= len
  BY <1>1, <1>4, <1>5
<1>7. m = len \/ m = Len(z)
  BY <1>5
<1> HIDE DEF m
<1>8. /\ x \in Seq(Chars) /\ Len(x) = m /\ \A k \in 1..m : x[k] = z[k]
      /\ y \in Seq(Chars) /\ Len(y) = Len(z) - m /\ \A k \in 1..(Len(z) - m) : y[k] = z[m + k]
      /\ z = x \o y
  BY <1>5, <1>6, FallsInTwo
<1> HIDE DEF x, y
<1>9. ASSUME NEW k \in 1..m
      PROVE  x[k] = L[j][k] /\ x[k] \notin {"\n"}
  <2>1. k \in 1..len /\ k \in 1..(Len(text) - at) /\ at + k <= Len(text)
    BY <1>1, <1>5, <1>6
  <2>2. x[k] = z[k] /\ z[k] = text[at + k]
    BY <1>5, <1>8, <2>1
  <2> QED BY <1>2, <2>1, <2>2
<1>10. y = <<>> \/ y[1] \in {"\n"}
  <2>1. CASE m = Len(z)
    <3>1. Len(y) = 0
      BY <1>6, <1>8, <2>1
    <3> QED BY <1>8, <3>1, EmptyText
  <2>2. CASE m # Len(z)
    <3>1. m = len /\ 1 \in 1..(Len(z) - m) /\ m + 1 \in 1..(Len(text) - at)
          /\ at + (m + 1) = off[j] /\ off[j] <= Len(text)
      <4>1. \A a, b, n, e \in Nat :
               a + n <= e /\ n # e - a =>
                 1 \in 1..((e - a) - n) /\ n + 1 \in 1..(e - a) /\ a + (n + 1) = a + n + 1 /\ a + n + 1 <= e
        OBVIOUS
      <4>2. m = len /\ Len(z) = Len(text) - at /\ at + len <= Len(text) /\ len # Len(text) - at
        BY <1>1, <1>5, <1>6, <1>7, <2>2
      <4>3. at \in Nat /\ len \in Nat /\ Len(text) \in Nat /\ off[j] = at + len + 1
        BY <1>1
      <4> QED BY ONLY <4>1, <4>2, <4>3
    <3>2. y[1] = z[m + 1] /\ z[m + 1] = text[at + (m + 1)]
      BY <1>5, <1>8, <3>1
    <3> QED BY <1>3, <3>1, <3>2
  <2> QED BY <2>1, <2>2
<1>11. UpTo(x \o y, {"\n"}) = x
  <2>1. x \in Seq(Chars) /\ y \in Seq(Chars) /\ \A i \in 1..Len(x) : x[i] \notin {"\n"}
    BY <1>8, <1>9
  <2> QED BY <1>10, <2>1, UpToIs
<1>12. IsPrefix(x, L[j])
  <2>1. Len(x) <= len /\ \A k \in 1..Len(x) : x[k] = L[j][k]
    BY <1>6, <1>8, <1>9
  <2> QED BY <1>1, <1>8, <2>1, PrefixIs DEF len
<1>13. ASSUME at + len <= Len(text)
       PROVE  x = L[j]
  <2>1. Len(x) = Len(L[j])
    BY <1>1, <1>8, <1>13 DEF m, len
  <2> QED BY <1>1, <1>8, <1>12, <2>1, PrefixWhole
<1>14. UpTo(From(text, at + 1), {"\n"}) = x
  BY <1>8, <1>11 DEF z
<1> QED BY <1>8, <1>12, <1>13, <1>14, Zenon DEF at, len

(* The first of N lines that has a key.                                    *)
IsFirst(f, N, K, key) ==
    /\ f \in 0..N
    /\ f # 0 => K[f] = key
    /\ \A i \in 1..N : K[i] = key => f # 0 /\ f <= i

(* What CfgField reads: nothing, or a front of the value of the first such *)
(* line, and all of it if that line is whole.                              *)
CfgReads(text, key, f, off, V) ==
    /\ \/ CfgField(text, key) = None
       \/ f # 0 /\ \E u \in Seq(Chars) : IsPrefix(u, Trim(V[f])) /\ CfgField(text, key) = Some(u)
    /\ f # 0 /\ off[f] <= Len(text) + 1 => CfgField(text, key) = Some(Trim(V[f]))

LEMMA CfgFieldReads ==
  ASSUME NEW text, NEW N, NEW L, NEW off, Lines(text, N, L, off),
         \A i \in 1..N : L[i] # <<>>,
         NEW K, NEW V, NEW key,
         \A i \in 1..N : \A p \in Seq(Chars) :
           IsPrefix(p, L[i]) => LineSays(p, L[i], K[i], V[i], key),
         NEW f, IsFirst(f, N, K, key)
  PROVE  CfgReads(text, key, f, off, V)
<1> DEFINE starts == {i \in DOMAIN text : i = 1 \/ text[i - 1] = "\n"}
           line(i) == Trim(UpTo(From(text, i), {"\n"}))
           found == {i \in starts : StripKey(line(i), key) # None}
           part(i) == UpTo(From(text, off[i - 1] + 1), {"\n"})
<1>1. CfgField(text, key) = IF found = {} THEN None ELSE StripKey(line(Min(found)), key)
  BY Zenon DEF CfgField
<1>2. /\ text \in Seq(Chars) /\ N \in Nat /\ Len(text) \in Nat /\ DOMAIN text = 1..Len(text)
  BY LenProperties DEF Lines
<1>3. ASSUME NEW i \in 1..N
      PROVE  /\ off[i - 1] \in Nat /\ off[i] \in Nat /\ Len(L[i]) \in Nat \ {0}
             /\ off[i] = off[i - 1] + Len(L[i]) + 1
  <2>1. L[i] \in Seq(Chars) /\ L[i] # <<>> /\ i - 1 \in 0..N /\ i \in 0..N
        /\ off[i] = off[i - 1] + Len(L[i]) + 1
    BY DEF Lines
  <2>2. off[i - 1] \in Nat /\ off[i] \in Nat
    BY <2>1 DEF Lines
  <2> QED BY <2>1, <2>2, LenProperties, EmptySeq
<1>4. ASSUME NEW i \in 1..N, off[i - 1] < Len(text)
      PROVE  /\ LineSays(part(i), L[i], K[i], V[i], key)
             /\ off[i] <= Len(text) + 1 => part(i) = L[i]
             /\ off[i - 1] + 1 \in starts
             /\ line(off[i - 1] + 1) = Trim(part(i))
  <2>1. /\ part(i) \in Seq(Chars) /\ IsPrefix(part(i), L[i])
        /\ off[i - 1] + Len(L[i]) <= Len(text) => part(i) = L[i]
    BY <1>4, LineRead
  <2>2. LineSays(part(i), L[i], K[i], V[i], key)
    <3> HIDE DEF part
    <3> QED BY <2>1
  <2>3. off[i] <= Len(text) + 1 => off[i - 1] + Len(L[i]) <= Len(text)
    BY <1>2, <1>3
  <2>4. off[i - 1] + 1 \in 1..Len(text)
    BY <1>2, <1>3, <1>4
  <2>5. off[i - 1] + 1 \in starts
    <3>1. off[i - 1] + 1 = 1 \/ text[(off[i - 1] + 1) - 1] = "\n"
      BY <2>4, LineStarts
    <3> QED BY <1>2, <2>4, <3>1
  <2> QED BY <2>1, <2>2, <2>3, <2>5
<1>5. ASSUME found # {}
      PROVE  /\ f # 0 /\ off[f - 1] < Len(text)
             /\ CfgField(text, key) = StripKey(Trim(part(f)), key)
             /\ StripKey(Trim(part(f)), key) # None
  <2> DEFINE m == Min(found)
  <2>1. m \in found /\ \A n \in found : m <= n
    <3>1. found \subseteq Nat
      BY <1>2
    <3> HIDE DEF found
    <3> QED BY <1>5, <3>1, MinOfNats
  <2>2. m \in 1..Len(text) /\ (m = 1 \/ text[m - 1] = "\n") /\ StripKey(line(m), key) # None
    BY <1>2, <2>1
  <2>3. \A n \in found : m <= n
    BY <2>1
  <2> HIDE DEF m, found
  <2>4. PICK j \in 1..N : m = off[j - 1] + 1
    BY <2>2, LineStarts
  <2>5. off[j - 1] \in Nat /\ off[j - 1] < Len(text)
    BY <1>2, <1>3, <2>2, <2>4
  <2>6. LineSays(part(j), L[j], K[j], V[j], key) /\ line(m) = Trim(part(j))
    BY <1>4, <2>4, <2>5
  <2>7. K[j] = key
    <3> HIDE DEF line, part
    <3> QED BY <2>2, <2>6 DEF LineSays
  <2>8. f # 0 /\ f <= j /\ f \in 1..N /\ K[f] = key
    BY <1>2, <2>7 DEF IsFirst
  <2>9. f = j
    <3> SUFFICES ASSUME f # j
                 PROVE  FALSE
      OBVIOUS
    <3>1. f \in 0..N /\ j - 1 \in f..N
      BY <1>2, <2>8
    <3>2. off[f] <= off[j - 1]
      BY <3>1 DEF Lines
    <3>3. off[f - 1] < Len(text) /\ off[f] <= Len(text) + 1 /\ off[f - 1] + 1 < m
      <4>1. /\ off[f - 1] \in Nat /\ off[f] \in Nat /\ Len(L[f]) \in Nat \ {0}
            /\ off[f] = off[f - 1] + Len(L[f]) + 1
        BY <1>3, <2>8
      <4> QED BY ONLY <1>2, <2>4, <2>5, <3>2, <4>1
    <3>4. /\ LineSays(part(f), L[f], K[f], V[f], key) /\ part(f) = L[f]
          /\ off[f - 1] + 1 \in starts /\ line(off[f - 1] + 1) = Trim(part(f))
      BY <1>4, <2>8, <3>3
    <3>5. StripKey(Trim(part(f)), key) = Some(Trim(V[f]))
      <4> HIDE DEF part
      <4> QED BY <2>8, <3>4 DEF LineSays
    <3>6. off[f - 1] + 1 \in found
      <4> HIDE DEF part, line, starts
      <4> QED BY <3>4, <3>5 DEF found, Some, None
    <3>7. m <= off[f - 1] + 1
      BY <2>3, <3>6
    <3> QED BY <1>2, <1>3, <2>4, <2>5, <2>8, <3>3, <3>7
  <2>10. CfgField(text, key) = StripKey(line(m), key)
    BY <1>1, <1>5 DEF m
  <2> HIDE DEF line, part
  <2> QED BY <2>2, <2>5, <2>6, <2>8, <2>9, <2>10
<1>6. \/ CfgField(text, key) = None
      \/ f # 0 /\ \E u \in Seq(Chars) : IsPrefix(u, Trim(V[f])) /\ CfgField(text, key) = Some(u)
  <2>1. CASE found = {}
    <3> HIDE DEF found
    <3> QED BY <1>1, <2>1
  <2>2. CASE found # {}
    <3>1. f # 0 /\ f \in 1..N /\ off[f - 1] < Len(text)
      <4> HIDE DEF found
      <4> QED BY <1>2, <1>5, <2>2 DEF IsFirst
    <3>2. LineSays(part(f), L[f], K[f], V[f], key)
      BY <1>4, <3>1
    <3>3. CfgField(text, key) = StripKey(Trim(part(f)), key) /\ StripKey(Trim(part(f)), key) # None
      <4> HIDE DEF found, part
      <4> QED BY <1>5, <2>2
    <3> HIDE DEF part, found
    <3> QED BY <3>1, <3>2, <3>3, Zenon DEF LineSays
  <2> QED BY <2>1, <2>2
<1>7. ASSUME f # 0, off[f] <= Len(text) + 1
      PROVE  CfgField(text, key) = Some(Trim(V[f]))
  <2>1. f \in 1..N /\ K[f] = key
    BY <1>2, <1>7 DEF IsFirst
  <2>2. off[f - 1] < Len(text)
    BY <1>2, <1>3, <1>7, <2>1
  <2>3. /\ LineSays(part(f), L[f], K[f], V[f], key) /\ part(f) = L[f]
        /\ off[f - 1] + 1 \in starts /\ line(off[f - 1] + 1) = Trim(part(f))
    BY <1>4, <1>7, <2>1, <2>2
  <2>4. StripKey(Trim(part(f)), key) = Some(Trim(V[f]))
    <3> HIDE DEF part
    <3> QED BY <2>1, <2>3 DEF LineSays
  <2>5. found # {}
    <3>1. off[f - 1] + 1 \in found
      <4> HIDE DEF part, line, starts
      <4> QED BY <2>3, <2>4 DEF found, Some, None
    <3> QED BY <3>1
  <2> HIDE DEF found, part, line, starts
  <2> QED BY <1>5, <2>4, <2>5
<1> QED BY <1>6, <1>7 DEF CfgReads

(* What trim takes off at the start.                                       *)
LEMMA TrimAfterBlank ==
  ASSUME NEW S, NEW b \in Seq(S), AllIn(b, Blank), NEW v \in Seq(S)
  PROVE  Trim(b \o v) = Trim(v)
<1>1. TrimSplits(S, v)
  BY TrimSplit
<1> DEFINE t == Trim(v)
<1>2. PICK x \in Seq(S), y \in Seq(S) :
        AllIn(x, Blank) /\ AllIn(y, Blank) /\ v = (x \o t) \o y
  BY <1>1, Zenon DEF TrimSplits
<1>3. t \in Seq(S) /\ Trimmed(t)
  BY <1>1, Zenon DEF TrimSplits
<1> HIDE DEF t
<1>4. b \o x \in Seq(S) /\ AllIn(b \o x, Blank)
  <2>1. Joined(S, b, x)
    BY ConcatText
  <2>2. AllIn(b \o x, Blank)
    BY <1>2, WithinConcat, Zenon
  <2> QED BY <2>1, <2>2, Zenon DEF Joined
<1>5. Trim(((b \o x) \o t) \o y) = t
  BY <1>2, <1>3, <1>4, TrimIs
<1>6. b \o v = ((b \o x) \o t) \o y
  <2>1. Joined(S, x, t)
    BY <1>3, ConcatText
  <2>2. Assoc(b, x \o t, y)
    BY <2>1, Associate, Zenon DEF Joined
  <2>3. Assoc(b, x, t)
    BY <1>3, Associate
  <2> QED BY <1>2, <2>2, <2>3, Zenon DEF Assoc
<1> QED BY <1>5, <1>6 DEF t

(* Five texts strung together.                                             *)
RegroupsFive(a, b, c, d, e) == ((a \o b) \o (c \o d)) \o e = a \o ((b \o c) \o (d \o e))

LEMMA RegroupFive ==
  ASSUME NEW S, NEW a \in Seq(S), NEW b \in Seq(S), NEW c \in Seq(S), NEW d \in Seq(S),
         NEW e \in Seq(S)
  PROVE  RegroupsFive(a, b, c, d, e)
<1>1. Joined(S, b, c) /\ Joined(S, d, e)
  BY ConcatText
<1>2. Joined(S, a, b \o c)
  BY <1>1, ConcatText, Zenon DEF Joined
<1>3. Regroups(a, b, c, d)
  BY RegroupsFour
<1>4. Assoc(a \o (b \o c), d, e)
  BY <1>2, Associate, Zenon DEF Joined
<1>5. Assoc(a, b \o c, d \o e)
  BY <1>1, Associate, Zenon DEF Joined
<1>6. ((a \o b) \o (c \o d)) \o e = ((a \o (b \o c)) \o d) \o e
  BY <1>3, Zenon DEF Regroups
<1>7. ((a \o (b \o c)) \o d) \o e = a \o ((b \o c) \o (d \o e))
  BY <1>4, <1>5, Zenon DEF Assoc
<1> QED BY <1>6, <1>7, Zenon DEF RegroupsFive

(* A tuple of four, grown by one.                                          *)
IsFour(S, a, b, c, d) ==
    /\ <<a, b, c>> \in Seq(S) /\ Len(<<a, b, c>>) = 3
    /\ <<a, b, c>>[1] = a /\ <<a, b, c>>[2] = b /\ <<a, b, c>>[3] = c
    /\ <<a, b, c, d>> = <<a, b, c>> \o <<d>>

LEMMA FourIs ==
  ASSUME NEW S, NEW a \in S, NEW b \in S, NEW c \in S, NEW d \in S
  PROVE  IsFour(S, a, b, c, d)
<1> DEFINE s == <<a, b, c>>
           t == <<a, b, c, d>>
<1>1. s \in Seq(S) /\ Len(s) = 3 /\ s[1] = a /\ s[2] = b /\ s[3] = c
  OBVIOUS
<1>2. t \in Seq(S) /\ Len(t) = 4 /\ t[1] = a /\ t[2] = b /\ t[3] = c /\ t[4] = d
  OBVIOUS
<1> HIDE DEF s, t
<1>3. \A i \in 1..Len(s) : t[i] = s[i]
  <2>1. \A i \in 1..3 : i = 1 \/ i = 2 \/ i = 3
    OBVIOUS
  <2> QED BY <1>1, <1>2, <2>1
<1>4. Len(t) = Len(s) + 1 /\ t[Len(s) + 1] = d
  BY <1>1, <1>2
<1>5. t = Append(s, d)
  BY <1>1, <1>2, <1>3, <1>4, AppendIs
<1>6. Append(s, d) = s \o <<d>>
  BY <1>1, AppendIsConcat
<1>7. /\ s \in Seq(S) /\ Len(s) = 3 /\ s[1] = a /\ s[2] = b /\ s[3] = c
      /\ t = s \o <<d>>
  BY <1>1, <1>5, <1>6
<1> QED BY <1>7, Zenon DEF s, t, IsFour

-----------------------------------------------------------------------------
(* The part of a file that is parsed, and where its lines lie.             *)

(* The part of a file that is parsed.                                      *)
HeadShape(S, bytes, text) ==
    /\ text \in Seq(S) /\ Len(text) \in Nat /\ Len(text) <= Len(bytes)
    /\ Len(text) = Len(bytes) \/ Len(text) = HEAD_BYTES
    /\ Len(text) <= HEAD_BYTES
    /\ \A p \in 1..Len(text) : text[p] = bytes[p]

LEMMA HeadIs ==
  ASSUME NEW S, NEW bytes \in Seq(S)
  PROVE  HeadShape(S, bytes, HeadOf(bytes))
<1> DEFINE n == IF Len(bytes) < HEAD_BYTES THEN Len(bytes) ELSE HEAD_BYTES
           text == SubSeq(bytes, 1, n)
<1>1. Len(bytes) \in Nat /\ HEAD_BYTES \in Nat
  BY LenProperties, HeadAssumption
<1>2. n \in 0..Len(bytes) /\ n \in Nat /\ n <= HEAD_BYTES /\ (n = Len(bytes) \/ n = HEAD_BYTES)
  BY <1>1
<1> HIDE DEF n
<1>3. text \in Seq(S) /\ Len(text) = n /\ \A p \in 1..n : text[p] = bytes[p]
  <2>1. 1 \in Nat \ {0}
    OBVIOUS
  <2> QED BY <1>1, <1>2, <2>1, SubSeqText
<1> HIDE DEF text
<1>4. HeadShape(S, bytes, text)
  BY <1>1, <1>2, <1>3 DEF HeadShape
<1>5. HeadOf(bytes) = text
  BY Zenon DEF HeadOf, text, n
<1> QED BY <1>4, <1>5

(* Lines, each after a newline: without the first newline, and with one at *)
(* the end.                                                                *)
Breaks(N, L, part) ==
    /\ N \in Nat \ {0}
    /\ L \in [1..N -> Seq(Chars)] /\ part \in [1..N -> Seq(Chars)]
    /\ \A i \in 1..N : part[i] = <<"\n">> \o L[i] /\ Without("\n", L[i])

(* Where the newlines and the lines are.                                   *)
BreaksShape(N, L, part, off) ==
    /\ \A i \in 1..N : i - 1 \in 0..N /\ off[i - 1] \in Nat /\ off[i] \in Nat /\ Len(L[i]) \in Nat
    /\ \A i \in 1..N : off[i] = off[i - 1] + Len(L[i]) + 1
    /\ \A i \in 1..N : FlatTo(part, N)[off[i - 1] + 1] = "\n"
    /\ \A i \in 1..N : \A k \in 1..Len(L[i]) : FlatTo(part, N)[off[i - 1] + (k + 1)] = L[i][k]
    /\ off[N] \in Nat \ {0}

LEMMA BreaksAre ==
  ASSUME NEW N, NEW L, NEW part, Breaks(N, L, part)
  PROVE  BreaksShape(N, L, part, OffsTo(part, N))
<1> DEFINE off == OffsTo(part, N)
           G == FlatTo(part, N)
<1>1. N \in Nat \ {0} /\ part \in [1..N -> Seq(Chars)] /\ L \in [1..N -> Seq(Chars)]
  BY DEF Breaks
<1>2. Laid(Chars, N, part, G, off)
  BY <1>1, FlatLaid
<1> HIDE DEF off, G
<1>3. "\n" \in Chars
  BY DEF Chars, Marks
<1>4. ASSUME NEW i \in 1..N
      PROVE  /\ Len(L[i]) \in Nat /\ Len(part[i]) = Len(L[i]) + 1
             /\ part[i][1] = "\n" /\ \A k \in 1..Len(L[i]) : part[i][k + 1] = L[i][k]
  <2> DEFINE nl == <<"\n">>
             s == L[i]
             z == nl \o s
  <2>1. nl \in Seq(Chars) /\ Len(nl) = 1 /\ nl[1] = "\n"
    BY <1>3, Singleton
  <2>2. s \in Seq(Chars) /\ Len(s) \in Nat
    BY <1>1, LenProperties
  <2>3. part[i] = z
    BY DEF Breaks
  <2> HIDE DEF nl, s
  <2>4. /\ Len(z) = Len(nl) + Len(s)
        /\ \A j \in 1..(Len(nl) + Len(s)) : z[j] = IF j <= Len(nl) THEN nl[j] ELSE s[j - Len(nl)]
    BY <2>1, <2>2, ConcatProperties
  <2> HIDE DEF z
  <2>5. \A n \in Nat : /\ 1 + n = n + 1 /\ 1 \in 1..(1 + n) /\ 1 <= 1
                       /\ \A k \in 1..n : k + 1 \in 1..(1 + n) /\ ~(k + 1 <= 1) /\ (k + 1) - 1 = k
    OBVIOUS
  <2>6. Len(z) = Len(s) + 1
    BY ONLY <2>1, <2>2, <2>4, <2>5
  <2>7. z[1] = nl[1] /\ \A k \in 1..Len(s) : z[k + 1] = s[k]
    BY ONLY <2>1, <2>2, <2>4, <2>5
  <2> QED BY <2>1, <2>2, <2>3, <2>6, <2>7 DEF s
<1>5. /\ off \in [0..N -> Nat]
      /\ \A i \in 1..N : i - 1 \in 0..N /\ off[i] = off[i - 1] + Len(part[i])
      /\ \A i \in 1..N : \A k \in 1..Len(part[i]) : G[off[i - 1] + k] = part[i][k]
  BY <1>2 DEF Laid
<1>6. ASSUME NEW i \in 1..N
      PROVE  /\ i - 1 \in 0..N /\ off[i - 1] \in Nat /\ off[i] \in Nat /\ Len(L[i]) \in Nat
             /\ off[i] = off[i - 1] + Len(L[i]) + 1
             /\ G[off[i - 1] + 1] = "\n"
             /\ \A k \in 1..Len(L[i]) : G[off[i - 1] + (k + 1)] = L[i][k]
  <2>1. i - 1 \in 0..N /\ i \in 0..N /\ off[i - 1] \in Nat /\ off[i] \in Nat
    BY <1>1, <1>5
  <2>2. Len(L[i]) \in Nat /\ off[i] = off[i - 1] + Len(L[i]) + 1
    <3>1. off[i] = off[i - 1] + Len(part[i])
      BY <1>5
    <3>2. Len(L[i]) \in Nat /\ Len(part[i]) = Len(L[i]) + 1
      BY <1>4
    <3>3. \A a, b \in Nat : a + (b + 1) = a + b + 1
      OBVIOUS
    <3> QED BY ONLY <2>1, <3>1, <3>2, <3>3
  <2>3. 1 \in 1..Len(part[i]) /\ \A k \in 1..Len(L[i]) : k + 1 \in 1..Len(part[i])
    BY <1>4
  <2>4. G[off[i - 1] + 1] = "\n"
    BY <1>4, <1>5, <2>3
  <2>5. ASSUME NEW k \in 1..Len(L[i])
        PROVE  G[off[i - 1] + (k + 1)] = L[i][k]
    <3>1. k + 1 \in 1..Len(part[i]) /\ part[i][k + 1] = L[i][k]
      BY <1>4, <2>3
    <3> QED BY <1>5, <3>1
  <2> QED BY <2>1, <2>2, <2>4, <2>5
<1>7. off[N] \in Nat \ {0}
  <2>1. N \in 1..N
    BY <1>1
  <2>2. /\ off[N - 1] \in Nat /\ off[N] \in Nat /\ Len(L[N]) \in Nat
        /\ off[N] = off[N - 1] + Len(L[N]) + 1
    BY <1>6, <2>1
  <2> QED BY <2>2
<1>8. BreaksShape(N, L, part, off)
  BY <1>6, <1>7 DEF BreaksShape, G
<1> QED BY <1>8 DEF off

(* A text without its first character, and one more at the end.            *)
ShiftShape(S, B, G, c) ==
    /\ B \in Seq(S) /\ Len(B) = Len(G) /\ Len(G) \in Nat \ {0}
    /\ \A p \in 1..(Len(G) - 1) : B[p] = G[p + 1]
    /\ B[Len(G)] = c

LEMMA Shifted ==
  ASSUME NEW S, NEW G \in Seq(S), G # <<>>, NEW c \in S
  PROVE  ShiftShape(S, Tail(G) \o <<c>>, G, c)
<1> DEFINE t == Tail(G)
           B == t \o <<c>>
<1>1. Len(G) \in Nat \ {0}
  BY EmptySeq, LenProperties
<1>2. t \in Seq(S) /\ Len(t) = Len(G) - 1 /\ \A i \in 1..Len(t) : t[i] = G[i + 1]
  BY HeadTailProperties
<1>3. <<c>> \in Seq(S) /\ Len(<<c>>) = 1 /\ <<c>>[1] = c
  BY Singleton
<1> HIDE DEF t
<1>4. /\ B \in Seq(S) /\ Len(B) = Len(t) + Len(<<c>>)
      /\ \A j \in 1..(Len(t) + Len(<<c>>)) : B[j] = IF j <= Len(t) THEN t[j] ELSE <<c>>[j - Len(t)]
  BY <1>2, <1>3, ConcatProperties
<1> HIDE DEF B
<1>5. Len(B) = Len(G)
  BY <1>1, <1>2, <1>3, <1>4
<1>6. ASSUME NEW p \in 1..(Len(G) - 1)
      PROVE  B[p] = G[p + 1]
  <2>1. p \in 1..Len(t) /\ p \in 1..(Len(t) + 1) /\ p <= Len(t)
    BY <1>1, <1>2
  <2>2. B[p] = t[p]
    BY ONLY <1>3, <1>4, <2>1
  <2> QED BY <1>2, <2>1, <2>2
<1>7. B[Len(G)] = c
  <2>1. Len(G) \in 1..(Len(t) + 1) /\ ~(Len(G) <= Len(t)) /\ Len(G) - Len(t) = 1
    BY <1>1, <1>2
  <2> QED BY ONLY <1>3, <1>4, <2>1
<1>8. ShiftShape(S, B, G, c)
  BY <1>1, <1>4, <1>5, <1>6, <1>7 DEF ShiftShape
<1> QED BY <1>8 DEF B, t

(* The part of a KSP1 craft that is parsed is made of its lines.           *)
LEMMA LinesLaid ==
  ASSUME NEW N, NEW L, NEW part, Breaks(N, L, part), NEW B, NEW text,
         B = Tail(FlatTo(part, N)) \o <<"\n">>, HeadShape(Chars, B, text)
  PROVE  Lines(text, N, L, OffsTo(part, N)) /\ Len(B) = OffsTo(part, N)[N]
<1> DEFINE off == OffsTo(part, N)
           G == FlatTo(part, N)
<1>1. N \in Nat \ {0} /\ part \in [1..N -> Seq(Chars)] /\ L \in [1..N -> Seq(Chars)]
      /\ \A i \in 1..N : Without("\n", L[i])
  BY DEF Breaks
<1>2. Laid(Chars, N, part, G, off)
  BY <1>1, FlatLaid
<1>3. BreaksShape(N, L, part, off)
  BY BreaksAre
<1> HIDE DEF off
<1>4. /\ \A i \in 1..N : /\ i - 1 \in 0..N /\ off[i - 1] \in Nat /\ off[i] \in Nat /\ Len(L[i]) \in Nat
                         /\ off[i] = off[i - 1] + Len(L[i]) + 1
      /\ \A i \in 1..N : G[off[i - 1] + 1] = "\n"
      /\ \A i \in 1..N : \A k \in 1..Len(L[i]) : G[off[i - 1] + (k + 1)] = L[i][k]
      /\ off[N] \in Nat \ {0}
  BY <1>3 DEF BreaksShape
<1> HIDE DEF G
<1>5. G \in Seq(Chars) /\ Len(G) = off[N] /\ off[0] = 0 /\ off \in [0..N -> Nat]
  BY <1>2 DEF Laid
<1>6. \A i \in 0..N : \A j \in i..N : off[i] <= off[j]
  BY <1>2 DEF Laid
<1>7. \A p \in 1..Len(G) : \E i \in 1..N : off[i - 1] < p /\ p <= off[i]
  BY <1>2 DEF Laid
<1>8. ShiftShape(Chars, B, G, "\n")
  <2>1. G # <<>>
    BY <1>4, <1>5, EmptySeq
  <2>2. "\n" \in Chars
    BY DEF Chars, Marks
  <2>3. ShiftShape(Chars, Tail(G) \o <<"\n">>, G, "\n")
    BY <1>5, <2>1, <2>2, Shifted
  <2> QED BY <2>3 DEF G
<1>9. /\ Len(B) = off[N]
      /\ \A p \in 1..(off[N] - 1) : B[p] = G[p + 1]
      /\ B[off[N]] = "\n"
  BY <1>5, <1>8, Zenon DEF ShiftShape
<1>10. /\ text \in Seq(Chars) /\ Len(text) \in Nat /\ Len(text) <= off[N]
       /\ \A p \in 1..Len(text) : text[p] = B[p]
  BY <1>9 DEF HeadShape
<1>11. ASSUME NEW i \in 1..N
       PROVE  off[i] <= off[N] /\ off[i] \in Nat \ {0}
  <2>1. i \in 0..N /\ N \in i..N
    BY <1>1
  <2>2. off[i] <= off[N]
    BY <1>6, <2>1
  <2>3. \A a, l \in Nat : a + l + 1 \in Nat \ {0}
    OBVIOUS
  <2>4. off[i - 1] \in Nat /\ Len(L[i]) \in Nat /\ off[i] = off[i - 1] + Len(L[i]) + 1
    BY <1>4
  <2> QED BY ONLY <2>2, <2>3, <2>4
<1>12. ASSUME NEW i \in 1..N, NEW k \in 1..Len(L[i]), off[i - 1] + k <= Len(text)
       PROVE  text[off[i - 1] + k] = L[i][k]
  <2>1. off[i - 1] + k \in 1..Len(text) /\ off[i - 1] + k \in 1..(off[N] - 1)
        /\ (off[i - 1] + k) + 1 = off[i - 1] + (k + 1)
    <3>1. PICK a \in Nat, l \in Nat, n \in Nat, t \in Nat :
            a = off[i - 1] /\ l = Len(L[i]) /\ n = off[N] /\ t = Len(text)
      BY <1>4, <1>10
    <3>2. a + l + 1 <= n
      BY <1>4, <1>11, <3>1
    <3>3. k \in 1..l /\ a + k <= t
      BY <1>12, <3>1
    <3>4. a + k \in 1..t /\ a + k \in 1..(n - 1) /\ (a + k) + 1 = a + (k + 1)
      BY ONLY <3>2, <3>3, a \in Nat, l \in Nat, n \in Nat, t \in Nat
    <3> QED BY ONLY <3>1, <3>4
  <2>2. text[off[i - 1] + k] = G[off[i - 1] + (k + 1)]
    BY ONLY <1>9, <1>10, <2>1
  <2> QED BY <1>4, <2>2
<1>13. ASSUME NEW i \in 1..N, off[i] <= Len(text)
       PROVE  text[off[i]] = "\n"
  <2>1. off[i] \in 1..Len(text)
    BY <1>10, <1>11, <1>13
  <2>2. CASE i = N
    BY <1>9, <1>10, <2>1, <2>2
  <2>3. CASE i # N
    <3>1. i + 1 \in 1..N /\ (i + 1) - 1 = i
      BY <1>1, <2>3
    <3>2. off[i] < off[i + 1] /\ off[i + 1] <= off[N] /\ G[off[i] + 1] = "\n"
      <4>1. /\ off[(i + 1) - 1] \in Nat /\ off[i + 1] \in Nat /\ Len(L[i + 1]) \in Nat
            /\ off[i + 1] = off[(i + 1) - 1] + Len(L[i + 1]) + 1
            /\ G[off[(i + 1) - 1] + 1] = "\n"
        BY <1>4, <3>1
      <4>2. \A a, l \in Nat : a < a + l + 1
        OBVIOUS
      <4>3. off[i] < off[i + 1] /\ G[off[i] + 1] = "\n"
        BY ONLY <3>1, <4>1, <4>2
      <4> QED BY <1>11, <3>1, <4>3
    <3>3. off[i] \in 1..(off[N] - 1)
      <4>1. off[i] \in Nat \ {0} /\ off[N] \in Nat /\ off[i + 1] \in Nat
        BY <1>4, <1>11, <3>1
      <4> QED BY ONLY <3>2, <4>1
    <3> QED BY ONLY <1>9, <1>10, <2>1, <3>2, <3>3
  <2> QED BY <2>2, <2>3
<1>14. \A p \in 1..Len(text) : \E i \in 1..N : off[i - 1] < p /\ p <= off[i]
  <2>1. \A p \in 1..Len(text) : p \in 1..Len(G)
    BY <1>4, <1>5, <1>10
  <2> QED BY <1>7, <2>1
<1>15. Lines(text, N, L, off)
  <2>1. N \in Nat
    BY <1>1
  <2> QED BY <1>1, <1>4, <1>5, <1>6, <1>10, <1>12, <1>13, <1>14, <2>1 DEF Lines
<1> QED BY <1>9, <1>15 DEF off

-----------------------------------------------------------------------------
(* The line of a field.                                                    *)

(* A newline, the tab, the key with "=", a blank and the value.            *)
LineShape(line, tab, c, v) ==
    /\ tab \in Seq(Chars) /\ AllIn(tab, Blank)
    /\ Assigns(c) /\ v \in Seq(Chars)
    /\ line = <<"\n">> \o ((tab \o c) \o (<<" ">> \o v))

TabOf(field) == IF field.nested THEN <<"\t">> ELSE <<>>

LEMMA LineOf ==
  ASSUME NEW field \in Field
  PROVE  LineShape(Line(field), TabOf(field), <<field.key, " ", "=">>, field.value)
<1> DEFINE k == field.key
           v == field.value
           tab == TabOf(field)
           c == <<k, " ", "=">>
           c4 == <<k, " ", "=", " ">>
<1>1. k \in Chars /\ v \in Seq(STRING)
  BY DEF Field, Chars
<1>2. v \in Seq(Chars)
  <2>1. STRING \subseteq Chars
    BY DEF Chars
  <2> HIDE DEF v
  <2> QED BY <1>1, <2>1, SeqSubset
<1>3. " " \in Chars /\ "=" \in Chars /\ "\n" \in Chars /\ "\t" \in Chars
  BY DEF Chars, Marks
<1> HIDE DEF k, v
<1>4. tab \in Seq(Chars) /\ AllIn(tab, Blank)
  <2>1. PICK e \in Seq(Chars) : e = <<>> /\ Len(e) = 0
    BY EmptySeq
  <2>2. e = <<>> /\ e \in Seq(Chars) /\ AllIn(e, Blank)
    BY <2>1 DEF AllIn
  <2>3. <<"\t">> \in Seq(Chars) /\ AllIn(<<"\t">>, Blank)
    <3> DEFINE t == <<"\t">>
    <3>1. t \in Seq(Chars) /\ Len(t) = 1 /\ t[1] = "\t"
      BY <1>3, Singleton
    <3>2. "\t" \in Blank
      BY DEF Blank
    <3> HIDE DEF t
    <3>3. \A i \in 1..Len(t) : t[i] \in Blank
      BY <3>1, <3>2
    <3> QED BY <3>1, <3>3 DEF AllIn, t
  <2>4. tab = <<"\t">> \/ tab = e
    BY <2>2 DEF TabOf
  <2> HIDE DEF tab
  <2> QED BY <2>2, <2>3, <2>4
<1>5. c \in Seq(Chars) /\ Len(c) = 3 /\ c[2] = " " /\ c[3] = "=" /\ c4 = c \o <<" ">>
  <2>1. IsFour(Chars, k, " ", "=", " ")
    BY <1>1, <1>3, FourIs
  <2> QED BY <2>1, Zenon DEF IsFour
<1>6. Assigns(c)
  BY <1>5 DEF Assigns
<1> DEFINE nl == <<"\n">>
           sp == <<" ">>
<1>7. nl \in Seq(Chars) /\ sp \in Seq(Chars)
  BY <1>3, Singleton
<1>8. Line(field) = ((nl \o tab) \o (c \o sp)) \o v
  <2>1. Line(field) = ((nl \o tab) \o c4) \o v
    BY Zenon DEF Line, TabOf, v, k
  <2> QED BY <1>5, <2>1
<1> HIDE DEF nl, sp, c, tab
<1>9. RegroupsFive(nl, tab, c, sp, v)
  BY <1>2, <1>4, <1>5, <1>7, RegroupFive
<1>10. Line(field) = nl \o ((tab \o c) \o (sp \o v))
  BY <1>8, <1>9, Zenon DEF RegroupsFive
<1>11. LineShape(Line(field), tab, c, v)
  BY <1>2, <1>4, <1>6, <1>10, Zenon DEF LineShape, nl, sp
<1> QED BY <1>11 DEF tab, c, k, v

-----------------------------------------------------------------------------
(* The fields of a craft, and the first of them that has a key.            *)

(* The fields, and what KSP is known to write (CraftFileAssumption).       *)
NFields == Len(written.fields)
Fields == written.fields

CraftKnown ==
    /\ Fields \in Seq(Field) /\ NFields \in Nat \ {0}
    /\ written.generation \in {"Ksp1", "Ksp2"}
    /\ \A i \in 1..NFields :
         /\ Fields[i] \in Field
         /\ Fields[i].key \in STRING /\ Fields[i].key \in Chars
         /\ Fields[i].value \in Seq(STRING) /\ Fields[i].value \in Seq(Chars)
         /\ Fields[i].quoted \in BOOLEAN
         /\ WrittenBy(written.generation, Fields[i])

LEMMA CraftIsKnown ==
  ASSUME written \in Craft
  PROVE  CraftKnown
<1>1. /\ written.generation \in {"Ksp1", "Ksp2"}
      /\ Fields \in Seq(Field) /\ Fields # <<>>
      /\ \A i \in DOMAIN Fields : WrittenBy(written.generation, Fields[i])
  BY CraftFileAssumption DEF Fields
<1> HIDE DEF Fields
<1>2. Len(Fields) \in Nat \ {0} /\ DOMAIN Fields = 1..Len(Fields)
  BY <1>1, EmptySeq, LenProperties
<1>3. \A i \in 1..Len(Fields) : Fields[i] \in Field
  BY <1>1, ElementOfSeq
<1>4. STRING \subseteq Chars
  BY DEF Chars
<1>5. \A v \in Seq(STRING) : v \in Seq(Chars)
  BY <1>4, SeqSubset
<1>6. ASSUME NEW field \in Field
      PROVE  /\ field.key \in STRING /\ field.key \in Chars
             /\ field.value \in Seq(STRING) /\ field.value \in Seq(Chars)
             /\ field.quoted \in BOOLEAN
  <2>1. field.key \in STRING /\ field.value \in Seq(STRING) /\ field.quoted \in BOOLEAN
    BY DEF Field
  <2> QED BY <1>4, <1>5, <2>1
<1>7. NFields = Len(Fields)
  BY DEF NFields, Fields
<1> QED BY <1>1, <1>2, <1>3, <1>6, <1>7 DEF CraftKnown

(* How a key is compared.                                                  *)
KeyAt == [i \in 1..NFields |->
            IF written.generation = "Ksp1" THEN LowerChar(Fields[i].key) ELSE Fields[i].key]

LEMMA FirstIs ==
  ASSUME CraftKnown, NEW key \in Chars
  PROVE  IsFirst(First(key), NFields, KeyAt, key)
<1> DEFINE Is(k) == IF written.generation = "Ksp1" THEN Lower(<<k>>) = <<key>> ELSE k = key
           In == {i \in 1..NFields : Is(Fields[i].key)}
           f == IF In # {} THEN Min(In) ELSE 0
<1>1. First(key) = f
  BY Zenon DEF First, SelectInSeq, NFields, Fields
<1>2. ASSUME NEW i \in 1..NFields
      PROVE  Is(Fields[i].key) <=> KeyAt[i] = key
  <2> DEFINE k == Fields[i].key
             l == LowerChar(k)
  <2>1. k \in Chars
    BY DEF CraftKnown
  <2>2. Lower(<<k>>) = <<l>>
    BY <2>1, LowerCharIs
  <2> HIDE DEF k, l
  <2>3. (<<l>> = <<key>>) <=> l = key
    OBVIOUS
  <2>4. KeyAt[i] = IF written.generation = "Ksp1" THEN l ELSE k
    BY DEF KeyAt, k, l
  <2>5. Is(k) <=> KeyAt[i] = key
    BY <2>2, <2>3, <2>4
  <2> QED BY <2>5 DEF k
<1> HIDE DEF Is
<1>3. NFields \in Nat
  BY DEF CraftKnown
<1>4. CASE In = {}
  <2>1. f = 0 /\ \A i \in 1..NFields : KeyAt[i] # key
    BY <1>2, <1>4
  <2> HIDE DEF f
  <2> QED BY <1>1, <1>3, <2>1 DEF IsFirst
<1>5. CASE In # {}
  <2>1. Min(In) \in In /\ \A n \in In : Min(In) <= n
    <3>1. In \subseteq Nat
      OBVIOUS
    <3> HIDE DEF In
    <3> QED BY <1>5, <3>1, MinOfNats
  <2>2. f = Min(In)
    BY <1>5
  <2> HIDE DEF f
  <2>3. f \in 1..NFields /\ Is(Fields[f].key) /\ \A i \in 1..NFields : Is(Fields[i].key) => f <= i
    BY <2>1, <2>2
  <2>4. KeyAt[f] = key /\ \A i \in 1..NFields : KeyAt[i] = key => f <= i
    BY <1>2, <2>3
  <2>5. f \in 0..NFields /\ f # 0
    BY <1>3, <2>3
  <2> QED BY <1>1, <2>4, <2>5 DEF IsFirst
<1> QED BY <1>4, <1>5

(* A front of a text is one of its prefixes.                               *)
LEMMA PrefixAmong ==
  ASSUME NEW S, NEW u \in Seq(S), NEW v \in Seq(S), IsPrefix(u, v)
  PROVE  u \in Prefixes(v)
<1>1. Len(u) \in Nat /\ Len(v) \in Nat /\ Len(u) <= Len(v) /\ \A i \in 1..Len(u) : u[i] = v[i]
  BY LenProperties, PrefixIs
<1> DEFINE w == SubSeq(v, 1, Len(u))
<1>2. w \in Seq(S) /\ Len(w) = Len(u) /\ \A i \in 1..Len(u) : w[i] = v[i]
  <2>1. 1 \in Nat \ {0} /\ Len(u) \in 0..Len(v)
    BY <1>1
  <2> QED BY <1>1, <2>1, SubSeqText
<1> HIDE DEF w
<1>3. u = w
  BY <1>1, <1>2, SeqEqual
<1>4. Len(u) \in 0..Len(v)
  BY <1>1
<1> QED BY <1>3, <1>4 DEF w, Prefixes

-----------------------------------------------------------------------------
(* KSP1: the bytes of a craft.                                             *)

HeadText == HeadOf(Bytes)

(* KSP1: the lines of the craft.                                           *)
LText == [i \in 1..NFields |->
            (TabOf(Fields[i]) \o <<Fields[i].key, " ", "=">>) \o (<<" ">> \o Fields[i].value)]
LPart == [i \in 1..NFields |-> Line(Fields[i])]
LValue == [i \in 1..NFields |-> <<" ">> \o Fields[i].value]

(* What is known of a line: its parts, and that it holds no newline.       *)
Ksp1Line(i) ==
    /\ LPart[i] = <<"\n">> \o LText[i] /\ LPart[i] \in Seq(Chars)
    /\ LText[i] \in Seq(Chars) /\ LValue[i] \in Seq(Chars)
    /\ LText[i] = (TabOf(Fields[i]) \o <<Fields[i].key, " ", "=">>) \o LValue[i]
    /\ TabOf(Fields[i]) \in Seq(Chars) /\ AllIn(TabOf(Fields[i]), Blank)
    /\ Assigns(<<Fields[i].key, " ", "=">>)
    /\ Without("\n", LText[i])
    /\ Trim(LValue[i]) = Trim(Fields[i].value)

LEMMA BlankWithout ==
  ASSUME NEW field \in Field
  PROVE  Without("\n", TabOf(field))
<1> DEFINE tab == <<"\t">>
           e == <<>>
<1>1. Len(tab) = 1 /\ tab[1] = "\t"
  OBVIOUS
<1>2. Len(e) = 0
  BY EmptySeq
<1>3. TabOf(field) = tab \/ TabOf(field) = e
  BY DEF TabOf
<1> HIDE DEF tab, e
<1>4. Without("\n", tab)
  <2>1. \A i \in 1..1 : i = 1
    OBVIOUS
  <2>2. tab[1] # "\n"
    BY <1>1
  <2> QED BY <1>1, <2>1, <2>2 DEF Without
<1>5. Without("\n", e)
  BY <1>2 DEF Without
<1> QED BY <1>3, <1>4, <1>5

(* A key is no newline.                                                    *)
LEMMA KeyWithout ==
  ASSUME NEW key, key # "\n"
  PROVE  Without("\n", <<key, " ", "=">>)
<1> DEFINE c == <<key, " ", "=">>
<1>1. Len(c) = 3 /\ c[1] # "\n" /\ c[2] # "\n" /\ c[3] # "\n"
  OBVIOUS
<1> HIDE DEF c
<1>2. \A i \in 1..3 : i = 1 \/ i = 2 \/ i = 3
  OBVIOUS
<1>3. Without("\n", c)
  BY <1>1, <1>2 DEF Without
<1> QED BY <1>3 DEF c

LEMMA Ksp1Lines ==
  ASSUME CraftKnown, written.generation = "Ksp1", NEW i \in 1..NFields
  PROVE  Ksp1Line(i)
<1> DEFINE field == Fields[i]
           tab == TabOf(field)
           c == <<field.key, " ", "=">>
           sp == <<" ">>
           v == field.value
<1>1. /\ field \in Field /\ field.key \notin Blank /\ ~Contains(v, "\n")
      /\ v \in Seq(Chars)
  BY DEF CraftKnown, WrittenBy
<1>2. LineShape(Line(field), tab, c, v)
  BY <1>1, LineOf
<1>3. /\ tab \in Seq(Chars) /\ AllIn(tab, Blank) /\ Assigns(c)
      /\ Line(field) = <<"\n">> \o ((tab \o c) \o (sp \o v))
  BY <1>2, Zenon DEF LineShape
<1>4. c \in Seq(Chars) /\ Len(c) = 3
  BY <1>3, Zenon DEF Assigns
<1>5. Without("\n", tab) /\ Without("\n", c)
  <2>1. field.key # "\n"
    BY <1>1 DEF Blank
  <2>2. Without("\n", c)
    BY <2>1, KeyWithout
  <2>3. Without("\n", tab)
    BY <1>1, BlankWithout
  <2> QED BY <2>2, <2>3
<1>6. LPart[i] = Line(field) /\ LText[i] = (tab \o c) \o (sp \o v) /\ LValue[i] = sp \o v
  BY DEF LPart, LText, LValue
<1>7. sp \in Seq(Chars) /\ AllIn(sp, Blank) /\ Without("\n", sp)
  <2>1. " " \in Chars /\ " " \in Blank /\ " " # "\n"
    BY DEF Chars, Marks, Blank
  <2>2. sp \in Seq(Chars) /\ Len(sp) = 1 /\ sp[1] = " "
    BY <2>1, Singleton
  <2> HIDE DEF sp
  <2>3. \A j \in 1..1 : j = 1
    OBVIOUS
  <2> QED BY <2>1, <2>2, <2>3 DEF AllIn, Without
<1>8. Without("\n", v)
  BY <1>1 DEF Without, Contains
<1> HIDE DEF field, tab, c, sp, v
<1>9. Joined(Chars, tab, c) /\ Joined(Chars, sp, v)
  BY <1>1, <1>3, <1>4, <1>7, ConcatText
<1>10. Joined(Chars, tab \o c, sp \o v)
  BY <1>9, ConcatText, Zenon DEF Joined
<1>11. "\n" \in Chars
  BY DEF Chars, Marks
<1>12. Joined(Chars, <<"\n">>, (tab \o c) \o (sp \o v))
  <2>1. <<"\n">> \in Seq(Chars)
    BY <1>11, Singleton
  <2> QED BY <1>10, <2>1, ConcatText, Zenon DEF Joined
<1>13. Without("\n", tab \o c) /\ Without("\n", sp \o v)
  BY <1>1, <1>3, <1>4, <1>5, <1>7, <1>8, WithoutConcat
<1>14. Without("\n", (tab \o c) \o (sp \o v))
  BY <1>9, <1>13, WithoutConcat, Zenon DEF Joined
<1>15. Trim(sp \o v) = Trim(v)
  BY <1>1, <1>7, TrimAfterBlank
<1>16. /\ LPart[i] = <<"\n">> \o LText[i] /\ LPart[i] \in Seq(Chars)
       /\ LText[i] \in Seq(Chars) /\ LValue[i] \in Seq(Chars)
       /\ LText[i] = (tab \o c) \o LValue[i]
       /\ Without("\n", LText[i])
       /\ Trim(LValue[i]) = Trim(v)
  BY <1>3, <1>6, <1>9, <1>10, <1>12, <1>14, <1>15, Zenon DEF Joined
<1> QED BY <1>3, <1>16, Zenon DEF Ksp1Line, tab, c, v, field

(* The craft is its lines, each after a newline.                           *)
LEMMA Ksp1Breaks ==
  ASSUME CraftKnown, written.generation = "Ksp1"
  PROVE  Breaks(NFields, LText, LPart)
<1>1. NFields \in Nat \ {0}
  BY DEF CraftKnown
<1>2. ASSUME NEW i \in 1..NFields
      PROVE  /\ LPart[i] = <<"\n">> \o LText[i] /\ Without("\n", LText[i])
             /\ LPart[i] \in Seq(Chars) /\ LText[i] \in Seq(Chars)
  BY Ksp1Lines, Zenon DEF Ksp1Line
<1> DEFINE V == Seq(Chars)
<1>3. LText = [i \in 1..NFields |-> LText[i]] /\ LPart = [i \in 1..NFields |-> LPart[i]]
  BY DEF LText, LPart
<1>4. \A i \in 1..NFields : LPart[i] \in V /\ LText[i] \in V
  BY <1>2
<1> HIDE DEF V
<1>5. LText \in [1..NFields -> V] /\ LPart \in [1..NFields -> V]
  BY <1>3, <1>4
<1> QED BY <1>1, <1>2, <1>5, Zenon DEF Breaks, V

(* Bytes begin with the first line and end with a newline.                 *)
LEMMA Ksp1Bytes ==
  ASSUME CraftKnown, written.generation = "Ksp1"
  PROVE  /\ Bytes = Tail(FlatTo(LPart, NFields)) \o <<"\n">>
         /\ \A n \in 1..NFields : BytesTo(written, n) = Tail(FlatTo(LPart, n))
<1>1. ASSUME NEW n \in 1..NFields
      PROVE  BytesTo(written, n) = Tail(FlatTo(LPart, n))
  <2> DEFINE a == [i \in 1..n |-> Line(written.fields[i])]
             b == [i \in 1..n |-> LPart[i]]
  <2>1. \A i \in 1..n : i \in 1..NFields
    BY DEF CraftKnown
  <2>2. a = b
    BY <2>1 DEF LPart, Fields
  <2>3. BytesTo(written, n) = Tail(FlattenSeq(a))
    BY Zenon DEF BytesTo
  <2>4. FlatTo(LPart, n) = FlattenSeq(b)
    BY Zenon DEF FlatTo
  <2> HIDE DEF a, b
  <2> QED BY <2>2, <2>3, <2>4
<1>2. NFields \in 1..NFields
  BY DEF CraftKnown
<1>3. Bytes = BytesTo(written, NFields) \o <<"\n">>
  BY DEF Bytes, NFields
<1> QED BY <1>1, <1>2, <1>3

-----------------------------------------------------------------------------
(* KSP1: what is read of a key is one of its readings.                     *)

(* The lengths of two texts strung together.                               *)
LengthsAdd(x, y) == Len(x \o y) = Len(x) + Len(y)

LEMMA ConcatLength ==
  ASSUME NEW S, NEW x \in Seq(S), NEW y \in Seq(S)
  PROVE  LengthsAdd(x, y)
BY ConcatProperties DEF LengthsAdd

(* What has to be shown of a reading.                                      *)
LEMMA ReadingIs ==
  ASSUME NEW key, NEW r,
         ~Has(key) \/ Hidden(key) => r = None,
         Has(key) /\ Visible(key) => r = Some(Value(key)),
         Has(key) /\ ~Hidden(key) /\ Cut(key) =>
           r = None \/ \E v \in (IF Quoted(key) THEN {<<>>} ELSE Prefixes(Value(key))) : r = Some(v)
  PROVE  r \in Readings(key)
<1> DEFINE T == IF Quoted(key) THEN {<<>>} ELSE Prefixes(Value(key))
<1> HIDE DEF T
<1>1. Readings(key) = CASE ~Has(key) \/ Hidden(key) -> {None}
                        [] Has(key) /\ Visible(key) -> {Some(Value(key))}
                        [] OTHER -> {None} \cup {Some(v) : v \in T}
  BY DEF Readings, T
<1>2. CASE ~Has(key) \/ Hidden(key)
  <2>1. r = None
    BY <1>2
  <2>2. ~(Has(key) /\ Visible(key))
    BY <1>2 DEF Visible
  <2>3. Readings(key) = {None}
    BY <1>1, <1>2, <2>2
  <2> QED BY <2>1, <2>3
<1>3. CASE Has(key) /\ ~Hidden(key) /\ ~Cut(key)
  <2>1. Has(key) /\ Visible(key) /\ ~(~Has(key) \/ Hidden(key))
    BY <1>3 DEF Visible
  <2>2. r = Some(Value(key))
    BY <2>1
  <2>3. Readings(key) = {Some(Value(key))}
    BY <1>1, <2>1
  <2> QED BY <2>2, <2>3
<1>4. CASE Has(key) /\ ~Hidden(key) /\ Cut(key)
  <2>1. ~(Has(key) /\ Visible(key)) /\ ~(~Has(key) \/ Hidden(key))
    BY <1>4 DEF Visible
  <2>2. r = None \/ \E v \in T : r = Some(v)
    BY <1>4 DEF T
  <2>3. Readings(key) = {None} \cup {Some(v) : v \in T}
    BY <1>1, <2>1
  <2> QED BY <2>2, <2>3
<1> QED BY <1>2, <1>3, <1>4

(* Where the lines of the craft end,                                       *)
Ksp1Offs == OffsTo(LPart, NFields)

LEMMA Ksp1Ends ==
  ASSUME CraftKnown, written.generation = "Ksp1", NEW n \in 1..NFields
  PROVE  Len(BytesTo(written, n)) = Ksp1Offs[n] - 1 /\ Ksp1Offs[n] \in Nat \ {0}
<1>1. Breaks(NFields, LText, LPart) /\ BytesTo(written, n) = Tail(FlatTo(LPart, n))
  BY Ksp1Breaks, Ksp1Bytes
<1>2. NFields \in Nat /\ LPart \in [1..NFields -> Seq(Chars)]
  BY <1>1 DEF Breaks
<1>3. BreaksShape(NFields, LText, LPart, Ksp1Offs)
  BY <1>1, BreaksAre DEF Ksp1Offs
<1>4. Ksp1Offs[n] \in Nat \ {0}
  <2>1. Ksp1Offs[n - 1] \in Nat /\ Len(LText[n]) \in Nat /\ Ksp1Offs[n] = Ksp1Offs[n - 1] + Len(LText[n]) + 1
    BY <1>3 DEF BreaksShape
  <2>2. \A a, l \in Nat : a + l + 1 \in Nat \ {0}
    OBVIOUS
  <2> QED BY ONLY <2>1, <2>2
<1> DEFINE g == FlatTo(LPart, n)
<1>5. g \in Seq(Chars) /\ Len(g) = Ksp1Offs[n]
  <2>1. n \in 0..NFields
    BY <1>2
  <2>2. Ksp1Offs[n] = Len(g)
    BY <2>1 DEF Ksp1Offs, OffsTo
  <2> QED BY <1>2, <2>1, <2>2, FlatToGrows
<1> HIDE DEF g
<1>6. g # <<>>
  BY <1>4, <1>5, EmptySeq
<1>7. Len(Tail(g)) = Len(g) - 1
  BY <1>5, <1>6, HeadTailProperties
<1> QED BY <1>1, <1>4, <1>5, <1>7 DEF g

(* and what of them is parsed.                                             *)
LEMMA Ksp1Laid ==
  ASSUME CraftKnown, written.generation = "Ksp1"
  PROVE  /\ Lines(HeadText, NFields, LText, Ksp1Offs)
         /\ Len(HeadText) \in Nat
         /\ Len(HeadText) = Ksp1Offs[NFields] \/ Len(HeadText) = HEAD_BYTES
<1>1. Breaks(NFields, LText, LPart) /\ Bytes = Tail(FlatTo(LPart, NFields)) \o <<"\n">>
  BY Ksp1Breaks, Ksp1Bytes
<1>2. NFields \in Nat \ {0} /\ LPart \in [1..NFields -> Seq(Chars)]
  BY <1>1 DEF Breaks
<1>3. Bytes \in Seq(Chars)
  <2> DEFINE g == FlatTo(LPart, NFields)
  <2>1. g \in Seq(Chars) /\ Len(g) = Ksp1Offs[NFields]
    <3>1. NFields \in 0..NFields /\ NFields \in Nat
      BY <1>2
    <3>2. Ksp1Offs[NFields] = Len(g)
      BY <3>1 DEF Ksp1Offs, OffsTo
    <3> QED BY <1>2, <3>1, <3>2, FlatToGrows
  <2>2. Ksp1Offs[NFields] \in Nat \ {0}
    BY <1>1, BreaksAre DEF BreaksShape, Ksp1Offs
  <2> HIDE DEF g
  <2>3. g # <<>>
    BY <2>1, <2>2, EmptySeq
  <2>4. "\n" \in Chars
    BY DEF Chars, Marks
  <2>5. ShiftShape(Chars, Tail(g) \o <<"\n">>, g, "\n")
    BY <2>1, <2>3, <2>4, Shifted
  <2> QED BY <1>1, <2>5, Zenon DEF ShiftShape, g
<1>4. HeadShape(Chars, Bytes, HeadText)
  BY <1>3, HeadIs DEF HeadText
<1>5. Lines(HeadText, NFields, LText, Ksp1Offs) /\ Len(Bytes) = Ksp1Offs[NFields]
  BY <1>1, <1>4, LinesLaid DEF Ksp1Offs
<1> QED BY <1>4, <1>5 DEF HeadShape

(* What CfgField reads of a key is one of its readings.                    *)
LEMMA Ksp1Reads ==
  ASSUME CraftKnown, written.generation = "Ksp1", NEW key \in Chars
  PROVE  CfgField(HeadText, key) \in Readings(key)
<1> DEFINE f == First(key)
           r == CfgField(HeadText, key)
<1>1. IsFirst(f, NFields, KeyAt, key)
  BY FirstIs
<1>2. /\ Lines(HeadText, NFields, LText, Ksp1Offs) /\ Len(HeadText) \in Nat
      /\ Len(HeadText) = Ksp1Offs[NFields] \/ Len(HeadText) = HEAD_BYTES
  BY Ksp1Laid
<1>3. ASSUME NEW i \in 1..NFields, NEW p \in Seq(Chars), IsPrefix(p, LText[i])
      PROVE  LineSays(p, LText[i], KeyAt[i], LValue[i], key)
  <2> DEFINE tab == TabOf(Fields[i])
             k == Fields[i].key
             c == <<k, " ", "=">>
             v == LValue[i]
  <2>1. Ksp1Line(i)
    BY Ksp1Lines
  <2>2. /\ tab \in Seq(Chars) /\ AllIn(tab, Blank) /\ Assigns(c)
        /\ v \in Seq(Chars) /\ LText[i] = (tab \o c) \o v
    BY <2>1, Zenon DEF Ksp1Line
  <2>3. c[1] = k /\ k \notin Blank
    BY DEF CraftKnown, WrittenBy
  <2>4. KeyAt[i] = LowerChar(k)
    BY DEF KeyAt
  <2> HIDE DEF tab, c, k, v
  <2>5. LineSays(p, (tab \o c) \o v, LowerChar(c[1]), v, key)
    BY <1>3, <2>2, <2>3, LineIs
  <2> QED BY <2>2, <2>3, <2>4, <2>5 DEF v
<1>4. ASSUME NEW i \in 1..NFields
      PROVE  LText[i] # <<>>
  <2>1. Ksp1Line(i)
    BY Ksp1Lines
  <2> DEFINE tab == TabOf(Fields[i])
             c == <<Fields[i].key, " ", "=">>
             v == LValue[i]
  <2>2. tab \in Seq(Chars) /\ c \in Seq(Chars) /\ Len(c) = 3 /\ v \in Seq(Chars)
        /\ LText[i] = (tab \o c) \o v
    BY <2>1, Zenon DEF Ksp1Line, Assigns
  <2> HIDE DEF tab, c, v
  <2>3. Joined(Chars, tab, c) /\ Len(tab) \in Nat /\ Len(v) \in Nat
    BY <2>2, ConcatText, LenProperties
  <2>4. LengthsAdd(tab, c)
    BY <2>2, ConcatLength
  <2>5. LengthsAdd(tab \o c, v)
    BY <2>2, <2>3, ConcatLength, Zenon DEF Joined
  <2>6. Len(LText[i]) # 0
    <3>1. \A a, b \in Nat : (a + 3) + b # 0
      OBVIOUS
    <3>2. Len(LText[i]) = (Len(tab) + 3) + Len(v)
      BY <2>2, <2>4, <2>5, Zenon DEF LengthsAdd
    <3> QED BY ONLY <2>3, <3>1, <3>2
  <2> QED BY <2>6, EmptySeq
<1>5. CfgReads(HeadText, key, f, Ksp1Offs, LValue)
  <2> HIDE DEF f
  <2> QED BY <1>1, <1>2, <1>3, <1>4, CfgFieldReads
<1>6. ~Hidden(key) /\ ~Quoted(key)
  BY DEF Hidden, Quoted
<1>7. Has(key) <=> f # 0
  BY DEF Has
<1>8. f # 0 => f \in 1..NFields
  BY <1>1 DEF IsFirst, CraftKnown
<1>9. f # 0 => Value(key) = Trim(LValue[f])
  <2>1. f # 0 => Trim(LValue[f]) = Trim(Fields[f].value)
    BY <1>8, Ksp1Lines DEF Ksp1Line
  <2>2. Value(key) = Trim(Fields[f].value)
    BY <1>6 DEF Value, Fields
  <2> QED BY <2>1, <2>2
<1>10. ASSUME f # 0, ~Cut(key)
       PROVE  Ksp1Offs[f] <= Len(HeadText) + 1
  <2>1. Ksp1Offs[f] - 1 <= HEAD_BYTES /\ Ksp1Offs[f] \in Nat \ {0}
    <3>1. Len(BytesTo(written, f)) = Ksp1Offs[f] - 1 /\ Ksp1Offs[f] \in Nat \ {0}
      BY <1>8, <1>10, Ksp1Ends
    <3>2. ~(Len(BytesTo(written, f)) > HEAD_BYTES)
      BY <1>10 DEF Cut
    <3> QED BY <3>1, <3>2, HeadAssumption
  <2>2. Ksp1Offs[f] <= Ksp1Offs[NFields]
    <3>1. f \in 0..NFields /\ NFields \in f..NFields
      BY <1>8, <1>10 DEF CraftKnown
    <3> QED BY <1>2, <3>1 DEF Lines
  <2> QED BY <1>2, <2>1, <2>2, HeadAssumption
<1> HIDE DEF f, r
<1>11. \/ r = None
       \/ f # 0 /\ \E u \in Seq(Chars) : IsPrefix(u, Value(key)) /\ r = Some(u)
  BY <1>5, <1>9 DEF CfgReads, r
<1>12. f # 0 /\ ~Cut(key) => r = Some(Value(key))
  BY <1>5, <1>9, <1>10 DEF CfgReads, r
<1>13. f # 0 => Value(key) \in Seq(Chars)
  <2>1. f # 0 => LValue[f] \in Seq(Chars)
    BY <1>8, Ksp1Lines, Zenon DEF Ksp1Line
  <2> QED BY <1>9, <2>1, TrimText
<1>14. r = None \/ \E u \in Prefixes(Value(key)) : r = Some(u)
  BY <1>11, <1>13, PrefixAmong
<1>15. /\ ~Has(key) \/ Hidden(key) => r = None
       /\ Has(key) /\ Visible(key) => r = Some(Value(key))
       /\ r = None \/ \E v \in (IF Quoted(key) THEN {<<>>} ELSE Prefixes(Value(key))) : r = Some(v)
  BY <1>6, <1>7, <1>11, <1>12, <1>14 DEF Visible
<1> QED BY <1>15, ReadingIs DEF r

-----------------------------------------------------------------------------
(* KSP1: a craft does not look like one of KSP2.                           *)

(* The first character that trim_start leaves.                             *)
LEMMA FirstNotBlank ==
  ASSUME NEW S, NEW text \in Seq(S), NEW T \in Nat,
         \A k \in 1..T : k <= Len(text) => text[k] \in Blank,
         T + 1 <= Len(text) => text[T + 1] \notin Blank
  PROVE  TrimStart(text) # <<>> => T + 1 <= Len(text) /\ TrimStart(text)[1] = text[T + 1]
<1> SUFFICES ASSUME TrimStart(text) # <<>>
             PROVE  T + 1 <= Len(text) /\ TrimStart(text)[1] = text[T + 1]
  OBVIOUS
<1> DEFINE y == TrimStart(text)
<1>1. PICK x \in Seq(S) : /\ AllIn(x, Blank) /\ text = x \o y
                          /\ y \in Seq(S) /\ (y = <<>> \/ y[1] \notin Blank)
  <2>1. StartSplits(S, text)
    BY StartSplit
  <2> QED BY <2>1, Zenon DEF StartSplits
<1>2. y # <<>>
  OBVIOUS
<1> HIDE DEF y
<1>3. Len(x) \in Nat /\ Len(y) \in Nat \ {0}
  BY <1>1, <1>2, LenProperties, EmptySeq
<1>4. /\ Len(text) = Len(x) + Len(y)
      /\ \A j \in 1..(Len(x) + Len(y)) : text[j] = IF j <= Len(x) THEN x[j] ELSE y[j - Len(x)]
  BY <1>1, ConcatProperties
<1>5. text[Len(x) + 1] = y[1] /\ Len(x) + 1 <= Len(text)
  <2>1. Len(x) + 1 \in 1..(Len(x) + Len(y)) /\ ~(Len(x) + 1 <= Len(x)) /\ (Len(x) + 1) - Len(x) = 1
    BY <1>3
  <2>2. Len(x) + 1 <= Len(text)
    BY <1>3, <1>4
  <2> QED BY ONLY <1>4, <2>1, <2>2
<1>6. ~(Len(x) < T)
  <2> SUFFICES ASSUME Len(x) < T
               PROVE  FALSE
    OBVIOUS
  <2>1. Len(x) + 1 \in 1..T
    BY <1>3
  <2> QED BY <1>1, <1>2, <1>5, <2>1
<1>7. ~(Len(x) > T)
  <2> SUFFICES ASSUME Len(x) > T
               PROVE  FALSE
    OBVIOUS
  <2>1. /\ T + 1 \in 1..Len(x) /\ T + 1 \in 1..(Len(x) + Len(y)) /\ T + 1 <= Len(x)
        /\ T + 1 <= Len(text)
    BY <1>3, <1>4
  <2>2. text[T + 1] = x[T + 1]
    BY ONLY <1>4, <2>1
  <2>3. x[T + 1] \in Blank
    BY <1>1, <2>1 DEF AllIn
  <2> QED BY <2>1, <2>2, <2>3
<1>8. Len(x) = T
  BY <1>3, <1>6, <1>7
<1> QED BY <1>5, <1>8 DEF y

(* What a line begins with is no bracket.                                  *)
LEMMA Ksp1IsCfg ==
  ASSUME CraftKnown, written.generation = "Ksp1"
  PROVE  ~LooksLikeKsp2(HeadText)
<1> DEFINE tab == TabOf(Fields[1])
           k == Fields[1].key
           c == <<k, " ", "=">>
           v == LValue[1]
           line == LText[1]
<1>1. 1 \in 1..NFields
  BY DEF CraftKnown
<1>2. Ksp1Line(1)
  BY <1>1, Ksp1Lines
<1>3. /\ tab \in Seq(Chars) /\ AllIn(tab, Blank) /\ c \in Seq(Chars) /\ Len(c) = 3
      /\ v \in Seq(Chars) /\ line = (tab \o c) \o v /\ line \in Seq(Chars)
  BY <1>2, Zenon DEF Ksp1Line, Assigns
<1>4. c[1] = k /\ k \notin Blank /\ k \notin {"{", "["}
  BY <1>1 DEF CraftKnown, WrittenBy
<1>5. Lines(HeadText, NFields, LText, Ksp1Offs)
  BY Ksp1Laid
<1>6. HeadText \in Seq(Chars) /\ \A j \in 1..Len(line) : j <= Len(HeadText) => HeadText[j] = line[j]
  <2>1. HeadText \in Seq(Chars) /\ Ksp1Offs[0] = 0
        /\ \A i \in 1..NFields : \A j \in 1..Len(LText[i]) :
             Ksp1Offs[i - 1] + j <= Len(HeadText) => HeadText[Ksp1Offs[i - 1] + j] = LText[i][j]
    BY <1>5 DEF Lines
  <2>2. \A j \in 1..Len(line) :
          Ksp1Offs[1 - 1] + j <= Len(HeadText) => HeadText[Ksp1Offs[1 - 1] + j] = line[j]
    BY <1>1, <2>1
  <2>3. 1 - 1 = 0 /\ \A j \in 1..Len(line) : 0 + j = j
    <3>1. \A n : \A j \in 1..n : j \in Nat
      OBVIOUS
    <3>2. \A j \in Nat : 0 + j = j
      OBVIOUS
    <3>3. 1 - 1 = 0
      OBVIOUS
    <3> QED BY ONLY <3>1, <3>2, <3>3
  <2> QED BY ONLY <2>1, <2>2, <2>3
<1> HIDE DEF tab, k, c, v, line
<1>7. Len(tab) \in Nat /\ Len(v) \in Nat /\ tab \o c \in Seq(Chars)
  BY <1>3, LenProperties, ConcatProperties
<1>8. /\ Len(tab \o c) = Len(tab) + 3
      /\ \A j \in 1..(Len(tab) + 3) : (tab \o c)[j] = IF j <= Len(tab) THEN tab[j] ELSE c[j - Len(tab)]
  <2>1. /\ Len(tab \o c) = Len(tab) + Len(c)
        /\ \A j \in 1..(Len(tab) + Len(c)) : (tab \o c)[j] = IF j <= Len(tab) THEN tab[j] ELSE c[j - Len(tab)]
    BY <1>3, ConcatProperties
  <2> QED BY ONLY <1>3, <2>1
<1>9. IsPrefix(tab \o c, line)
  BY <1>3, <1>7, PrefixOfConcatenation
<1>10. Len(line) \in Nat /\ Len(tab) + 3 <= Len(line) /\ \A j \in 1..(Len(tab) + 3) : line[j] = (tab \o c)[j]
  BY <1>3, <1>7, <1>8, <1>9, PrefixIs, LenProperties
<1>11. \A n \in Nat : /\ n + 1 \in 1..(n + 3) /\ ~(n + 1 <= n) /\ (n + 1) - n = 1
                      /\ \A j \in 1..n : j \in 1..(n + 3) /\ j <= n
  OBVIOUS
<1>12. line[Len(tab) + 1] = k /\ \A j \in 1..Len(tab) : line[j] = tab[j]
  <2>1. Len(tab) + 1 \in 1..(Len(tab) + 3) /\ ~(Len(tab) + 1 <= Len(tab)) /\ (Len(tab) + 1) - Len(tab) = 1
        /\ \A j \in 1..Len(tab) : j \in 1..(Len(tab) + 3) /\ j <= Len(tab)
    BY <1>7, <1>11
  <2>2. (tab \o c)[Len(tab) + 1] = c[1] /\ \A j \in 1..Len(tab) : (tab \o c)[j] = tab[j]
    BY ONLY <1>8, <2>1
  <2> QED BY <1>4, <1>10, <2>1, <2>2
<1>13. \A j \in 1..Len(tab) : j <= Len(HeadText) => HeadText[j] \in Blank
  <2>1. \A j \in 1..Len(tab) : j \in 1..Len(line) /\ tab[j] \in Blank
    BY <1>3, <1>7, <1>10 DEF AllIn
  <2> QED BY <1>6, <1>12, <2>1
<1>14. Len(tab) + 1 <= Len(HeadText) => HeadText[Len(tab) + 1] = k
  <2>1. Len(tab) + 1 \in 1..Len(line)
    BY <1>7, <1>10
  <2> QED BY <1>6, <1>12, <2>1
<1> DEFINE text == TrimStart(HeadText)
<1>15. text # <<>> => text[1] = k
  <2>1. Len(tab) + 1 <= Len(HeadText) => HeadText[Len(tab) + 1] \notin Blank
    BY <1>4, <1>14
  <2>2. text # <<>> => Len(tab) + 1 <= Len(HeadText) /\ text[1] = HeadText[Len(tab) + 1]
    BY <1>6, <1>7, <1>13, <2>1, FirstNotBlank
  <2> QED BY <1>14, <2>2
<1> HIDE DEF text
<1>16. ~(text # <<>> /\ text[1] \in {"{", "["})
  BY <1>4, <1>15
<1> QED BY <1>16, Zenon DEF LooksLikeKsp2, text

-----------------------------------------------------------------------------
(* KSP2: the text of a field.                                              *)

(* KSP2: the value of a field as it is written,                            *)
RawValue(field) ==
    IF field.quoted THEN <<QUOTE>> \o field.value \o <<QUOTE>> ELSE field.value

(* in quotes: first and last a quote, the value between;                   *)
QuotedShape(r, v) ==
    /\ r \in Seq(Chars) /\ Len(r) = Len(v) + 2
    /\ r[1] = QUOTE /\ r[Len(v) + 2] = QUOTE
    /\ \A k \in 1..Len(v) : r[k + 1] = v[k]

LEMMA InQuotes ==
  ASSUME NEW v \in Seq(Chars)
  PROVE  QuotedShape((<<QUOTE>> \o v) \o <<QUOTE>>, v)
<1> DEFINE q == <<QUOTE>>
           s == q \o v
           r == s \o q
<1>1. q \in Seq(Chars) /\ Len(q) = 1 /\ q[1] = QUOTE
  <2>1. QUOTE \in Chars
    BY DEF Chars, Marks
  <2> QED BY <2>1, Singleton
<1>2. Len(v) \in Nat
  BY LenProperties
<1> HIDE DEF q
<1>3. /\ s \in Seq(Chars) /\ Len(s) = Len(q) + Len(v)
      /\ \A j \in 1..(Len(q) + Len(v)) : s[j] = IF j <= Len(q) THEN q[j] ELSE v[j - Len(q)]
  BY <1>1, ConcatProperties
<1> HIDE DEF s
<1>4. /\ r \in Seq(Chars) /\ Len(r) = Len(s) + Len(q)
      /\ \A j \in 1..(Len(s) + Len(q)) : r[j] = IF j <= Len(s) THEN s[j] ELSE q[j - Len(s)]
  <2>1. s \in Seq(Chars) /\ q \in Seq(Chars)
    BY <1>1, <1>3
  <2> QED BY ONLY <2>1, ConcatProperties
<1> HIDE DEF r
<1>5. /\ \A j \in 1..(1 + Len(v)) : s[j] = IF j <= 1 THEN q[j] ELSE v[j - 1]
      /\ \A j \in 1..((1 + Len(v)) + 1) : r[j] = IF j <= 1 + Len(v) THEN s[j] ELSE q[j - (1 + Len(v))]
      /\ Len(r) = (1 + Len(v)) + 1
  BY ONLY <1>1, <1>3, <1>4
<1>6. \A n \in Nat : /\ (1 + n) + 1 = n + 2 /\ 1 \in 1..((1 + n) + 1) /\ 1 <= 1 + n /\ 1 \in 1..(1 + n)
                     /\ n + 2 \in 1..((1 + n) + 1) /\ ~(n + 2 <= 1 + n) /\ (n + 2) - (1 + n) = 1
  OBVIOUS
<1>7. \A n \in Nat : \A k \in 1..n : /\ k + 1 \in 1..((1 + n) + 1) /\ k + 1 <= 1 + n
                                     /\ k + 1 \in 1..(1 + n) /\ ~(k + 1 <= 1) /\ (k + 1) - 1 = k
  OBVIOUS
<1>8. Len(r) = Len(v) + 2
  BY ONLY <1>2, <1>5, <1>6
<1>9. r[1] = s[1] /\ s[1] = q[1]
  <2>1. 1 <= 1
    OBVIOUS
  <2> QED BY ONLY <1>2, <1>5, <1>6, <2>1
<1>10. r[Len(v) + 2] = q[1]
  BY ONLY <1>2, <1>5, <1>6
<1>11. \A k \in 1..Len(v) : r[k + 1] = s[k + 1] /\ s[k + 1] = v[k]
  BY ONLY <1>2, <1>5, <1>7
<1>12. QuotedShape(r, v)
  BY <1>1, <1>4, <1>8, <1>9, <1>10, <1>11 DEF QuotedShape
<1> QED BY <1>12 DEF r, s, q

(* a tuple of six;                                                         *)
IsSix(S, a, b, c, d, e, f) ==
    LET s == <<a, b, c, d, e, f>>
    IN /\ s \in Seq(S) /\ Len(s) = 6
       /\ s[1] = a /\ s[2] = b /\ s[3] = c /\ s[4] = d /\ s[5] = e /\ s[6] = f

LEMMA SixIs ==
  ASSUME NEW S, NEW a \in S, NEW b \in S, NEW c \in S, NEW d \in S, NEW e \in S, NEW f \in S
  PROVE  IsSix(S, a, b, c, d, e, f)
BY DEF IsSix

(* and the field.                                                          *)
PairShape(part, key, raw) ==
    /\ part \in Seq(Chars) /\ Len(part) = 6 + Len(raw) /\ Len(raw) \in Nat
    /\ part[1] = "," /\ part[2] = QUOTE /\ part[3] = key /\ part[4] = QUOTE
    /\ part[5] = ":" /\ part[6] = " "
    /\ \A k \in 1..Len(raw) : part[6 + k] = raw[k]

LEMMA PairIs ==
  ASSUME NEW field, field.key \in Chars, field.value \in Seq(Chars)
  PROVE  PairShape(Pair(field), field.key, RawValue(field)) /\ RawValue(field) \in Seq(Chars)
<1> DEFINE k == field.key
           raw == RawValue(field)
           six == <<",", QUOTE, k, QUOTE, ":", " ">>
           part == six \o raw
<1>1. raw \in Seq(Chars)
  <2> DEFINE v == field.value
             r == (<<QUOTE>> \o v) \o <<QUOTE>>
  <2>1. QuotedShape(r, v)
    BY InQuotes
  <2>2. r \in Seq(Chars)
    BY <2>1, Zenon DEF QuotedShape
  <2>3. raw = r \/ raw = v
    BY DEF RawValue
  <2> HIDE DEF r, raw
  <2> QED BY <2>2, <2>3
<1>2. Pair(field) = part
  BY DEF Pair, RawValue, QUOTE
<1>3. "," \in Chars /\ QUOTE \in Chars /\ ":" \in Chars /\ " " \in Chars
  BY DEF Chars, Marks
<1>4. /\ six \in Seq(Chars) /\ Len(six) = 6
      /\ six[1] = "," /\ six[2] = QUOTE /\ six[3] = k /\ six[4] = QUOTE /\ six[5] = ":" /\ six[6] = " "
  <2>1. IsSix(Chars, ",", QUOTE, k, QUOTE, ":", " ")
    BY <1>3, SixIs
  <2> QED BY <2>1, Zenon DEF IsSix
<1> HIDE DEF raw, six, k
<1>5. Len(raw) \in Nat
  BY <1>1, LenProperties
<1>6. /\ part \in Seq(Chars) /\ Len(part) = Len(six) + Len(raw)
      /\ \A j \in 1..(Len(six) + Len(raw)) : part[j] = IF j <= Len(six) THEN six[j] ELSE raw[j - Len(six)]
  BY <1>1, <1>4, ConcatProperties
<1> HIDE DEF part
<1>7. /\ Len(part) = 6 + Len(raw)
      /\ \A j \in 1..(6 + Len(raw)) : part[j] = IF j <= 6 THEN six[j] ELSE raw[j - 6]
  BY ONLY <1>4, <1>6
<1>8. \A n \in Nat : \A j \in 1..6 : j \in 1..(6 + n) /\ j <= 6
  OBVIOUS
<1>9. \A n \in Nat : \A j \in 1..n : 6 + j \in 1..(6 + n) /\ ~(6 + j <= 6) /\ (6 + j) - 6 = j
  OBVIOUS
<1>10. \A j \in 1..6 : part[j] = six[j]
  BY ONLY <1>5, <1>7, <1>8
<1>11. \A j \in 1..Len(raw) : part[6 + j] = raw[j]
  BY ONLY <1>5, <1>7, <1>9
<1>12. 1 \in 1..6 /\ 2 \in 1..6 /\ 3 \in 1..6 /\ 4 \in 1..6 /\ 5 \in 1..6 /\ 6 \in 1..6
  OBVIOUS
<1>13. /\ part[1] = "," /\ part[2] = QUOTE /\ part[3] = k /\ part[4] = QUOTE
       /\ part[5] = ":" /\ part[6] = " "
  BY ONLY <1>4, <1>10, <1>12
<1>14. PairShape(part, k, raw)
  BY <1>5, <1>6, <1>7, <1>11, <1>13, Zenon DEF PairShape
<1> QED BY <1>1, <1>2, <1>14 DEF k, raw

-----------------------------------------------------------------------------
(* KSP2: the fields strung together, in braces.                            *)

ReheadShape(S, B, G, a) ==
    /\ B \in Seq(S) /\ Len(B) = Len(G) /\ Len(G) \in Nat \ {0}
    /\ B[1] = a
    /\ \A p \in 2..Len(G) : B[p] = G[p]

(* A text with another first character,                                    *)
LEMMA Reheaded ==
  ASSUME NEW S, NEW G \in Seq(S), G # <<>>, NEW a \in S
  PROVE  ReheadShape(S, <<a>> \o Tail(G), G, a)
<1> DEFINE t == Tail(G)
           o == <<a>>
           B == o \o t
<1>1. Len(G) \in Nat \ {0}
  BY EmptySeq, LenProperties
<1>2. t \in Seq(S) /\ Len(t) = Len(G) - 1 /\ \A i \in 1..Len(t) : t[i] = G[i + 1]
  BY HeadTailProperties
<1>3. o \in Seq(S) /\ Len(o) = 1 /\ o[1] = a
  BY Singleton
<1> HIDE DEF t, o
<1>4. /\ B \in Seq(S) /\ Len(B) = Len(o) + Len(t)
      /\ \A j \in 1..(Len(o) + Len(t)) : B[j] = IF j <= Len(o) THEN o[j] ELSE t[j - Len(o)]
  <2>1. o \in Seq(S) /\ t \in Seq(S)
    BY <1>2, <1>3
  <2> QED BY ONLY <2>1, ConcatProperties
<1> HIDE DEF B
<1>5. /\ Len(B) = 1 + Len(t)
      /\ \A j \in 1..(1 + Len(t)) : B[j] = IF j <= 1 THEN o[j] ELSE t[j - 1]
  BY ONLY <1>3, <1>4
<1>6. Len(B) = Len(G) /\ 1 + Len(t) = Len(G)
  BY ONLY <1>1, <1>2, <1>5
<1>7. B[1] = a
  <2>1. 1 \in 1..(1 + Len(t)) /\ 1 <= 1
    BY <1>1, <1>6
  <2> QED BY ONLY <1>3, <1>5, <2>1
<1>8. ASSUME NEW p \in 2..Len(G)
      PROVE  B[p] = G[p]
  <2>1. p \in 1..(1 + Len(t)) /\ ~(p <= 1) /\ p - 1 \in 1..Len(t) /\ (p - 1) + 1 = p
    BY <1>1, <1>2
  <2>2. B[p] = t[p - 1]
    BY ONLY <1>5, <2>1
  <2>3. t[p - 1] = G[(p - 1) + 1]
    BY <1>2, <2>1
  <2> QED BY <2>1, <2>2, <2>3
<1>9. ReheadShape(S, B, G, a)
  BY <1>1, <1>4, <1>6, <1>7, <1>8 DEF ReheadShape
<1> QED BY <1>9 DEF B, t, o

(* and one more at the end.                                                *)
BracedShape(S, B, G, a, c) ==
    /\ B \in Seq(S) /\ Len(B) = Len(G) + 1 /\ Len(G) \in Nat \ {0}
    /\ B[1] = a /\ B[Len(G) + 1] = c
    /\ \A p \in 2..Len(G) : B[p] = G[p]

LEMMA Braced ==
  ASSUME NEW S, NEW G \in Seq(S), G # <<>>, NEW a \in S, NEW c \in S
  PROVE  BracedShape(S, (<<a>> \o Tail(G)) \o <<c>>, G, a, c)
<1> DEFINE t == <<a>> \o Tail(G)
           o == <<c>>
           B == t \o o
<1>1. ReheadShape(S, t, G, a)
  BY Reheaded
<1> HIDE DEF t
<1>2. /\ t \in Seq(S) /\ Len(t) = Len(G) /\ Len(G) \in Nat \ {0} /\ t[1] = a
      /\ \A p \in 2..Len(G) : t[p] = G[p]
  BY <1>1, Zenon DEF ReheadShape
<1>3. o \in Seq(S) /\ Len(o) = 1 /\ o[1] = c
  BY Singleton
<1> HIDE DEF o
<1>4. /\ B \in Seq(S) /\ Len(B) = Len(t) + Len(o)
      /\ \A j \in 1..(Len(t) + Len(o)) : B[j] = IF j <= Len(t) THEN t[j] ELSE o[j - Len(t)]
  BY <1>2, <1>3, ConcatProperties
<1> HIDE DEF B
<1>5. /\ Len(B) = Len(G) + 1
      /\ \A j \in 1..(Len(G) + 1) : B[j] = IF j <= Len(G) THEN t[j] ELSE o[j - Len(G)]
  BY ONLY <1>2, <1>3, <1>4
<1>6. \A n \in Nat : \A p \in 1..n : p \in 1..(n + 1) /\ p <= n
  OBVIOUS
<1>7. \A n \in Nat : n + 1 \in 1..(n + 1) /\ ~(n + 1 <= n) /\ (n + 1) - n = 1
  OBVIOUS
<1>8. Len(G) \in Nat /\ 1 \in 1..Len(G) /\ \A p \in 2..Len(G) : p \in 1..Len(G)
  BY <1>2
<1>9. \A p \in 1..Len(G) : B[p] = t[p]
  BY ONLY <1>5, <1>6, <1>8
<1>10. B[Len(G) + 1] = o[1]
  BY ONLY <1>5, <1>7, <1>8
<1>11. B[1] = a /\ \A p \in 2..Len(G) : B[p] = G[p]
  BY <1>2, <1>8, <1>9
<1>12. BracedShape(S, B, G, a, c)
  BY <1>2, <1>3, <1>4, <1>5, <1>10, <1>11 DEF BracedShape
<1> QED BY <1>12 DEF B, t, o

-----------------------------------------------------------------------------
(* Where the fields of the craft lie: field i from POffs[i - 1] + 1 on.    *)
PPart == [i \in 1..NFields |-> Pair(Fields[i])]
POffs == OffsTo(PPart, NFields)
Raw(i) == RawValue(Fields[i])

(* The text of a field, as Pair writes it;                                 *)
LEMMA Ksp2Parts ==
  ASSUME CraftKnown
  PROVE  /\ NFields \in Nat \ {0} /\ PPart \in [1..NFields -> Seq(Chars)]
         /\ \A i \in 1..NFields : PairShape(PPart[i], Fields[i].key, Raw(i)) /\ Raw(i) \in Seq(Chars)
<1>1. NFields \in Nat \ {0}
  BY DEF CraftKnown
<1>2. ASSUME NEW i \in 1..NFields
      PROVE  PairShape(PPart[i], Fields[i].key, Raw(i)) /\ Raw(i) \in Seq(Chars)
  <2> DEFINE field == Fields[i]
  <2>1. field.key \in Chars /\ field.value \in Seq(Chars)
    BY DEF CraftKnown
  <2>2. PPart[i] = Pair(field) /\ Raw(i) = RawValue(field)
    BY DEF PPart, Raw
  <2> HIDE DEF field
  <2>3. PairShape(Pair(field), field.key, RawValue(field)) /\ RawValue(field) \in Seq(Chars)
    BY <2>1, PairIs
  <2> QED BY <2>2, <2>3 DEF field
<1>3. PPart = [i \in 1..NFields |-> PPart[i]]
  BY DEF PPart
<1> DEFINE V == Seq(Chars)
<1>4. \A i \in 1..NFields : PPart[i] \in V
  BY <1>2, Zenon DEF PairShape
<1> HIDE DEF V
<1>5. PPart \in [1..NFields -> V]
  BY <1>3, <1>4
<1> QED BY <1>1, <1>2, <1>5, Zenon DEF V

(* where it ends.                                                          *)
Ksp2Offs ==
    /\ NFields \in Nat \ {0} /\ POffs \in [0..NFields -> Nat] /\ POffs[0] = 0
    /\ \A i \in 1..NFields :
         /\ i - 1 \in 0..NFields /\ POffs[i - 1] \in Nat /\ POffs[i] \in Nat
         /\ Raw(i) \in Seq(Chars) /\ Len(Raw(i)) \in Nat
         /\ POffs[i] = (POffs[i - 1] + 6) + Len(Raw(i))
    /\ \A i \in 0..NFields : \A j \in i..NFields : POffs[i] <= POffs[j]

LEMMA Ksp2OffsAre ==
  ASSUME CraftKnown
  PROVE  Ksp2Offs
<1>1. /\ NFields \in Nat \ {0} /\ PPart \in [1..NFields -> Seq(Chars)]
      /\ \A i \in 1..NFields : PairShape(PPart[i], Fields[i].key, Raw(i)) /\ Raw(i) \in Seq(Chars)
  BY Ksp2Parts
<1>2. Laid(Chars, NFields, PPart, FlatTo(PPart, NFields), POffs)
  BY <1>1, FlatLaid DEF POffs
<1>3. /\ POffs \in [0..NFields -> Nat] /\ POffs[0] = 0
      /\ \A i \in 1..NFields : i - 1 \in 0..NFields /\ POffs[i] = POffs[i - 1] + Len(PPart[i])
      /\ \A i \in 0..NFields : \A j \in i..NFields : POffs[i] <= POffs[j]
  BY <1>2 DEF Laid
<1>4. ASSUME NEW i \in 1..NFields
      PROVE  /\ i - 1 \in 0..NFields /\ POffs[i - 1] \in Nat /\ POffs[i] \in Nat
             /\ Raw(i) \in Seq(Chars) /\ Len(Raw(i)) \in Nat
             /\ POffs[i] = (POffs[i - 1] + 6) + Len(Raw(i))
  <2>1. Raw(i) \in Seq(Chars) /\ Len(PPart[i]) = 6 + Len(Raw(i)) /\ Len(Raw(i)) \in Nat
    BY <1>1 DEF PairShape
  <2>2. i - 1 \in 0..NFields /\ i \in 0..NFields /\ POffs[i - 1] \in Nat /\ POffs[i] \in Nat
    BY <1>1, <1>3
  <2>3. POffs[i] = POffs[i - 1] + Len(PPart[i])
    BY <1>3
  <2>4. \A a, b \in Nat : a + (6 + b) = (a + 6) + b
    OBVIOUS
  <2>5. POffs[i] = (POffs[i - 1] + 6) + Len(Raw(i))
    BY ONLY <2>1, <2>2, <2>3, <2>4
  <2> QED BY <2>1, <2>2, <2>5
<1> QED BY <1>1, <1>3, <1>4 DEF Ksp2Offs

(* The bytes are the fields, with a brace for the first comma and one at   *)
(* the end.                                                                *)
LEMMA Ksp2Bytes ==
  ASSUME CraftKnown, written.generation = "Ksp2"
  PROVE  /\ BracedShape(Chars, Bytes, FlatTo(PPart, NFields), "{", "}")
         /\ Len(FlatTo(PPart, NFields)) = POffs[NFields]
         /\ \A n \in 1..NFields : Len(BytesTo(written, n)) = POffs[n]
<1>1. NFields \in Nat \ {0} /\ PPart \in [1..NFields -> Seq(Chars)]
  BY Ksp2Parts
<1>2. Ksp2Offs
  BY Ksp2OffsAre
<1>3. "{" \in Chars /\ "}" \in Chars
  BY DEF Chars, Marks
<1>4. ASSUME NEW n \in 1..NFields
      PROVE  /\ BytesTo(written, n) = <<"{">> \o Tail(FlatTo(PPart, n))
             /\ FlatTo(PPart, n) \in Seq(Chars) /\ FlatTo(PPart, n) # <<>>
             /\ Len(FlatTo(PPart, n)) = POffs[n]
  <2> DEFINE a == [i \in 1..n |-> Pair(written.fields[i])]
             b == [i \in 1..n |-> PPart[i]]
             g == FlatTo(PPart, n)
  <2>1. \A i \in 1..n : i \in 1..NFields
    BY <1>1
  <2>2. a = b
    BY <2>1 DEF PPart, Fields
  <2>3. BytesTo(written, n) = <<"{">> \o Tail(FlattenSeq(a))
    BY Zenon DEF BytesTo
  <2>4. g = FlattenSeq(b)
    BY Zenon DEF FlatTo
  <2> HIDE DEF a, b
  <2>5. n \in 0..NFields /\ NFields \in Nat
    BY <1>1
  <2>6. g \in Seq(Chars)
    BY <1>1, <2>5, FlatToGrows
  <2>7. Len(g) = POffs[n]
    BY <2>5 DEF POffs, OffsTo
  <2> HIDE DEF g
  <2>8. POffs[n] # 0
    <3>1. POffs[n - 1] \in Nat /\ Len(Raw(n)) \in Nat /\ POffs[n] = (POffs[n - 1] + 6) + Len(Raw(n))
      BY <1>2 DEF Ksp2Offs
    <3>2. \A x, y \in Nat : (x + 6) + y # 0
      OBVIOUS
    <3> QED BY ONLY <3>1, <3>2
  <2>9. g # <<>>
    BY <2>7, <2>8, EmptySeq
  <2>10. BytesTo(written, n) = <<"{">> \o Tail(g)
    BY <2>2, <2>3, <2>4
  <2> QED BY <2>6, <2>7, <2>9, <2>10 DEF g
<1>5. ASSUME NEW n \in 1..NFields
      PROVE  Len(BytesTo(written, n)) = POffs[n]
  <2> DEFINE g == FlatTo(PPart, n)
  <2>1. g \in Seq(Chars) /\ g # <<>> /\ Len(g) = POffs[n] /\ BytesTo(written, n) = <<"{">> \o Tail(g)
    BY <1>4
  <2> HIDE DEF g
  <2>2. ReheadShape(Chars, <<"{">> \o Tail(g), g, "{")
    BY <1>3, <2>1, Reheaded
  <2> QED BY <2>1, <2>2 DEF ReheadShape
<1>6. NFields \in 1..NFields
  BY <1>1
<1> DEFINE G == FlatTo(PPart, NFields)
<1>7. G \in Seq(Chars) /\ G # <<>> /\ Len(G) = POffs[NFields]
  BY <1>4, <1>6
<1>8. Bytes = (<<"{">> \o Tail(G)) \o <<"}">>
  <2>1. Bytes = BytesTo(written, NFields) \o <<"}">>
    BY DEF Bytes, NFields
  <2>2. BytesTo(written, NFields) = <<"{">> \o Tail(G)
    BY <1>4, <1>6
  <2> QED BY <2>1, <2>2, Zenon
<1> HIDE DEF G
<1>9. BracedShape(Chars, (<<"{">> \o Tail(G)) \o <<"}">>, G, "{", "}")
  BY <1>3, <1>7, Braced
<1>10. BracedShape(Chars, Bytes, G, "{", "}")
  BY <1>8, <1>9
<1> QED BY <1>5, <1>7, <1>10 DEF G

(* KSP2: what is parsed of the fields.                                     *)
Ksp2Laid ==
    /\ HeadText \in Seq(Chars) /\ Len(HeadText) \in Nat
    /\ Len(HeadText) = POffs[NFields] + 1 \/ Len(HeadText) = HEAD_BYTES
    /\ Len(HeadText) <= POffs[NFields] + 1 /\ Len(HeadText) <= HEAD_BYTES
    /\ HeadText[1] = "{"
    /\ POffs[NFields] + 1 <= Len(HeadText) => HeadText[POffs[NFields] + 1] = "}"
    /\ \A i \in 1..NFields : i # 1 =>
         (POffs[i - 1] + 1 <= Len(HeadText) => HeadText[POffs[i - 1] + 1] = ",")
    /\ \A i \in 1..NFields : \A k \in 2..Len(PPart[i]) :
         POffs[i - 1] + k <= Len(HeadText) => HeadText[POffs[i - 1] + k] = PPart[i][k]
    /\ \A p \in 1..Len(HeadText) :
         p = POffs[NFields] + 1 \/ \E i \in 1..NFields : POffs[i - 1] < p /\ p <= POffs[i]

(* The part that is parsed is a front of them.                             *)
LEMMA Ksp2IsLaid ==
  ASSUME CraftKnown, written.generation = "Ksp2"
  PROVE  Ksp2Laid
<1> DEFINE G == FlatTo(PPart, NFields)
           n == POffs[NFields]
           h == Len(HeadText)
<1>1. /\ NFields \in Nat \ {0} /\ PPart \in [1..NFields -> Seq(Chars)]
      /\ \A i \in 1..NFields : PairShape(PPart[i], Fields[i].key, Raw(i))
  BY Ksp2Parts
<1>2. Laid(Chars, NFields, PPart, G, POffs)
  BY <1>1, FlatLaid DEF POffs
<1>3. BracedShape(Chars, Bytes, G, "{", "}") /\ Len(G) = n
  BY Ksp2Bytes
<1> HIDE DEF G, n
<1>4. /\ Bytes \in Seq(Chars) /\ Len(Bytes) = n + 1 /\ n \in Nat \ {0}
      /\ Bytes[1] = "{" /\ Bytes[n + 1] = "}"
      /\ \A p \in 2..n : Bytes[p] = G[p]
  BY <1>3 DEF BracedShape
<1>5. HeadShape(Chars, Bytes, HeadText)
  BY <1>4, HeadIs DEF HeadText
<1>6. /\ HeadText \in Seq(Chars) /\ h \in Nat /\ h <= n + 1 /\ h <= HEAD_BYTES
      /\ h = n + 1 \/ h = HEAD_BYTES
      /\ \A p \in 1..h : HeadText[p] = Bytes[p]
  BY <1>4, <1>5 DEF HeadShape
<1> HIDE DEF h
<1>0. n \in Nat /\ h \in Nat \ {0} /\ h <= n + 1
  <2>1. n \in Nat \ {0} /\ h \in Nat /\ h <= n + 1 /\ (h = n + 1 \/ h = HEAD_BYTES)
    BY <1>4, <1>6
  <2>2. h # 0
    BY ONLY <2>1, HeadAssumption
  <2> QED BY ONLY <2>1, <2>2
<1>7. HeadText[1] = "{" /\ (n + 1 <= h => HeadText[n + 1] = "}")
  <2>1. 1 \in 1..h /\ (n + 1 <= h => n + 1 \in 1..h)
    BY ONLY <1>0
  <2> QED BY <1>4, <1>6, <2>1
<1>8. \A p \in 2..n : p <= h => HeadText[p] = G[p]
  <2>1. \A p \in 2..n : p <= h => p \in 1..h
    BY ONLY <1>0
  <2> QED BY <1>4, <1>6, <2>1
<1>9. /\ POffs \in [0..NFields -> Nat] /\ POffs[0] = 0 /\ n = Len(G)
      /\ \A i \in 1..NFields : i - 1 \in 0..NFields /\ POffs[i] = POffs[i - 1] + Len(PPart[i])
      /\ \A i \in 0..NFields : \A j \in i..NFields : POffs[i] <= POffs[j]
      /\ \A i \in 1..NFields : \A k \in 1..Len(PPart[i]) : G[POffs[i - 1] + k] = PPart[i][k]
      /\ \A p \in 1..Len(G) : \E i \in 1..NFields : POffs[i - 1] < p /\ p <= POffs[i]
  BY <1>2 DEF Laid, n
<1>10. ASSUME NEW i \in 1..NFields
       PROVE  /\ POffs[i - 1] \in Nat /\ Len(PPart[i]) \in Nat /\ 6 <= Len(PPart[i])
              /\ POffs[i - 1] + Len(PPart[i]) <= n
              /\ PPart[i][1] = ","
              /\ i # 1 => POffs[i - 1] # 0
  <2>1. /\ Len(PPart[i]) = 6 + Len(Raw(i)) /\ Len(Raw(i)) \in Nat /\ PPart[i][1] = ","
    BY <1>1 DEF PairShape
  <2>2. i - 1 \in 0..NFields /\ POffs[i - 1] \in Nat /\ i \in 0..NFields /\ NFields \in i..NFields
    BY <1>1, <1>9
  <2>3. POffs[i] <= n /\ POffs[i] = POffs[i - 1] + Len(PPart[i])
    BY <1>9, <2>2 DEF n
  <2>4. i # 1 => POffs[i - 1] # 0
    <3> SUFFICES ASSUME i # 1
                 PROVE  POffs[i - 1] # 0
      OBVIOUS
    <3>1. i - 1 \in 1..NFields
      BY <1>1
    <3>2. POffs[(i - 1) - 1] \in Nat /\ Len(Raw(i - 1)) \in Nat
          /\ POffs[i - 1] = (POffs[(i - 1) - 1] + 6) + Len(Raw(i - 1))
      BY <3>1, Ksp2OffsAre DEF Ksp2Offs
    <3>3. \A x, y \in Nat : (x + 6) + y # 0
      OBVIOUS
    <3> QED BY ONLY <3>2, <3>3
  <2>5. Len(PPart[i]) \in Nat /\ 6 <= Len(PPart[i])
    <3>1. \A x \in Nat : 6 + x \in Nat /\ 6 <= 6 + x
      OBVIOUS
    <3> QED BY ONLY <2>1, <3>1
  <2>6. POffs[i - 1] + Len(PPart[i]) <= n
    BY <2>3
  <2> QED BY <2>1, <2>2, <2>4, <2>5, <2>6
<1>11. ASSUME NEW i \in 1..NFields, NEW k \in 1..Len(PPart[i]), POffs[i - 1] + k # 1,
              POffs[i - 1] + k <= h
       PROVE  HeadText[POffs[i - 1] + k] = PPart[i][k]
  <2>1. PICK a \in Nat, l \in Nat, m \in Nat : a = POffs[i - 1] /\ l = Len(PPart[i]) /\ m = n
    BY <1>4, <1>10
  <2>2. a + l <= m /\ k \in 1..l /\ a + k # 1
    BY <1>10, <1>11, <2>1
  <2>3. a + k \in 2..m
    BY ONLY <2>2, a \in Nat, l \in Nat, m \in Nat
  <2>4. POffs[i - 1] + k \in 2..n
    BY ONLY <2>1, <2>3
  <2> QED BY <1>8, <1>9, <1>11, <2>4
<1>12. ASSUME NEW i \in 1..NFields, i # 1, POffs[i - 1] + 1 <= h
       PROVE  HeadText[POffs[i - 1] + 1] = ","
  <2>1. POffs[i - 1] \in Nat /\ POffs[i - 1] # 0 /\ Len(PPart[i]) \in Nat /\ 6 <= Len(PPart[i])
    BY <1>10, <1>12
  <2>2. 1 \in 1..Len(PPart[i]) /\ POffs[i - 1] + 1 # 1
    BY ONLY <2>1
  <2>3. HeadText[POffs[i - 1] + 1] = PPart[i][1]
    BY <1>11, <1>12, <2>2
  <2> QED BY <1>10, <2>3
<1>13. ASSUME NEW i \in 1..NFields, NEW k \in 2..Len(PPart[i]), POffs[i - 1] + k <= h
       PROVE  HeadText[POffs[i - 1] + k] = PPart[i][k]
  <2>1. POffs[i - 1] \in Nat /\ Len(PPart[i]) \in Nat
    BY <1>10
  <2>2. k \in 1..Len(PPart[i]) /\ POffs[i - 1] + k # 1
    BY ONLY <2>1, k \in 2..Len(PPart[i])
  <2> QED BY <1>11, <1>13, <2>2
<1>14. \A p \in 1..h : p = n + 1 \/ \E i \in 1..NFields : POffs[i - 1] < p /\ p <= POffs[i]
  <2>1. \A p \in 1..h : p = n + 1 \/ p \in 1..n
    BY ONLY <1>0
  <2>2. Len(G) = n
    BY <1>3
  <2> QED BY <1>9, <2>1, <2>2
<1> QED BY <1>6, <1>7, <1>12, <1>13, <1>14 DEF Ksp2Laid, n, h

-----------------------------------------------------------------------------
(* KSP2: a field in the part of the file that is parsed.                   *)

(* Field i in the part of the file that is parsed, from b + 1 on.          *)
FieldAt(i, b, h) ==
    /\ b \in Nat /\ h \in Nat
    /\ b + 1 <= h => HeadText[b + 1] # QUOTE
    /\ b + 2 <= h => HeadText[b + 2] = QUOTE
    /\ b + 3 <= h => HeadText[b + 3] = Fields[i].key
    /\ b + 4 <= h => HeadText[b + 4] = QUOTE
    /\ b + 5 <= h => HeadText[b + 5] = ":"
    /\ b + 6 <= h => HeadText[b + 6] = " "

(* and its value.                                                          *)
ValueAt(i, b, h) ==
    /\ Raw(i) \in Seq(Chars) /\ Len(Raw(i)) \in Nat
    /\ POffs[i] \in Nat /\ POffs[i] = (b + 6) + Len(Raw(i))
    /\ \A k \in 1..Len(Raw(i)) : (b + 6) + k <= h => HeadText[(b + 6) + k] = Raw(i)[k]
    /\ POffs[i] + 1 <= h => HeadText[POffs[i] + 1] \in {",", "}"}

LEMMA FieldIsAt ==
  ASSUME CraftKnown, Ksp2Laid, NEW i \in 1..NFields
  PROVE  FieldAt(i, POffs[i - 1], Len(HeadText)) /\ ValueAt(i, POffs[i - 1], Len(HeadText))
<1> DEFINE b == POffs[i - 1]
           h == Len(HeadText)
           raw == Raw(i)
           part == PPart[i]
<1>1. Ksp2Offs
  BY Ksp2OffsAre
<1>2. /\ i - 1 \in 0..NFields /\ b \in Nat /\ POffs[i] \in Nat
      /\ raw \in Seq(Chars) /\ Len(raw) \in Nat /\ POffs[i] = (b + 6) + Len(raw)
      /\ NFields \in Nat \ {0}
  BY <1>1 DEF Ksp2Offs
<1>3. PairShape(part, Fields[i].key, raw)
  BY Ksp2Parts
<1>4. h \in Nat /\ HeadText[1] = "{"
  BY DEF Ksp2Laid
<1>5. \A k \in 2..Len(part) : b + k <= h => HeadText[b + k] = part[k]
  BY DEF Ksp2Laid
<1>6. i # 1 => (b + 1 <= h => HeadText[b + 1] = ",")
  BY DEF Ksp2Laid
<1>7. i = 1 => b = 0
  <2>1. POffs[0] = 0
    BY <1>1 DEF Ksp2Offs
  <2>2. 1 - 1 = 0
    OBVIOUS
  <2>3. i = 1 => i - 1 = 0
    BY <2>2
  <2> QED BY <2>1, <2>3
<1>8. POffs[i] + 1 <= h => HeadText[POffs[i] + 1] \in {",", "}"}
  <2>1. CASE i = NFields
    BY <2>1 DEF Ksp2Laid
  <2>2. CASE i # NFields
    <3>1. i + 1 \in 1..NFields /\ i + 1 # 1 /\ (i + 1) - 1 = i
      BY <1>2, <2>2
    <3>2. POffs[(i + 1) - 1] + 1 <= h => HeadText[POffs[(i + 1) - 1] + 1] = ","
      BY <3>1 DEF Ksp2Laid
    <3> QED BY <3>1, <3>2
  <2> QED BY <2>1, <2>2
<1> HIDE DEF b, h, raw, part
<1>9. /\ Len(part) = 6 + Len(raw)
      /\ part[2] = QUOTE /\ part[3] = Fields[i].key /\ part[4] = QUOTE
      /\ part[5] = ":" /\ part[6] = " "
      /\ \A k \in 1..Len(raw) : part[6 + k] = raw[k]
  BY <1>3 DEF PairShape
<1>10. \A n \in Nat : /\ 2 \in 2..(6 + n) /\ 3 \in 2..(6 + n) /\ 4 \in 2..(6 + n)
                      /\ 5 \in 2..(6 + n) /\ 6 \in 2..(6 + n)
  OBVIOUS
<1>11. /\ 2 \in 2..Len(part) /\ 3 \in 2..Len(part) /\ 4 \in 2..Len(part)
       /\ 5 \in 2..Len(part) /\ 6 \in 2..Len(part)
  BY ONLY <1>2, <1>9, <1>10
<1>12. /\ b + 2 <= h => HeadText[b + 2] = part[2]
       /\ b + 3 <= h => HeadText[b + 3] = part[3]
       /\ b + 4 <= h => HeadText[b + 4] = part[4]
       /\ b + 5 <= h => HeadText[b + 5] = part[5]
       /\ b + 6 <= h => HeadText[b + 6] = part[6]
  BY ONLY <1>5, <1>11
<1>13. b + 1 <= h => HeadText[b + 1] # QUOTE
  <2>1. CASE i = 1
    <3>1. b + 1 = 1
      BY <1>7, <2>1
    <3>2. "{" # QUOTE
      BY DEF QUOTE
    <3> QED BY <1>4, <3>1, <3>2
  <2>2. CASE i # 1
    <3>1. "," # QUOTE
      BY DEF QUOTE
    <3> QED BY <1>6, <2>2, <3>1
  <2> QED BY <2>1, <2>2
<1>14. FieldAt(i, b, h)
  BY <1>2, <1>4, <1>9, <1>12, <1>13, Zenon DEF FieldAt
<1>15. ASSUME NEW k \in 1..Len(raw), (b + 6) + k <= h
       PROVE  HeadText[(b + 6) + k] = raw[k]
  <2>1. 6 + k \in 2..Len(part) /\ (b + 6) + k = b + (6 + k)
    <3>1. \A n \in Nat : \A j \in 1..n : 6 + j \in 2..(6 + n)
      OBVIOUS
    <3>2. \A a \in Nat : \A n \in Nat : \A j \in 1..n : (a + 6) + j = a + (6 + j)
      OBVIOUS
    <3>3. 6 + k \in 2..(6 + Len(raw))
      BY ONLY <1>2, <3>1, k \in 1..Len(raw)
    <3>4. (b + 6) + k = b + (6 + k)
      BY ONLY <1>2, <3>2, k \in 1..Len(raw)
    <3> QED BY ONLY <1>9, <3>3, <3>4
  <2>2. HeadText[b + (6 + k)] = part[6 + k]
    BY ONLY <1>5, <1>15, <2>1
  <2> QED BY <1>9, <2>1, <2>2
<1>16. ValueAt(i, b, h)
  BY <1>2, <1>8, <1>15 DEF ValueAt, raw
<1> QED BY <1>14, <1>16 DEF b, h

-----------------------------------------------------------------------------
(* KSP2: where the quotes are, and where a key in quotes is found.         *)

(* What ends a value without quotes, and what is known of a value.         *)
Stops == {",", "}", "\n", "\r"}

RawShape(i) ==
    /\ Fields[i].key \in Chars /\ Fields[i].key # QUOTE
    /\ Fields[i].quoted \in BOOLEAN
    /\ Fields[i].value \in Seq(Chars) /\ Len(Fields[i].value) \in Nat
    /\ Without(QUOTE, Fields[i].value)
    /\ Fields[i].quoted => QuotedShape(Raw(i), Fields[i].value)
    /\ ~Fields[i].quoted => Raw(i) = Fields[i].value /\ \A c \in Stops : Without(c, Raw(i))

LEMMA RawIs ==
  ASSUME CraftKnown, written.generation = "Ksp2", NEW i \in 1..NFields
  PROVE  RawShape(i)
<1> DEFINE field == Fields[i]
           v == field.value
<1>1. /\ field.key \in Chars /\ field.quoted \in BOOLEAN /\ v \in Seq(Chars)
      /\ WrittenBy("Ksp2", field)
  BY DEF CraftKnown
<1>2. /\ field.key # QUOTE /\ ~Contains(v, QUOTE)
      /\ ~field.quoted => \A c \in Stops : ~Contains(v, c)
  <2>1. "Ksp2" # "Ksp1"
    OBVIOUS
  <2> HIDE DEF field, v
  <2> QED BY <1>1, <2>1 DEF WrittenBy, v, Stops
<1>3. Raw(i) = RawValue(field)
  BY DEF Raw
<1> HIDE DEF field
<1>4. Len(v) \in Nat
  BY <1>1, LenProperties
<1>5. Without(QUOTE, v)
  BY <1>2 DEF Without, Contains
<1>6. ~field.quoted => \A c \in Stops : Without(c, v)
  <2> HIDE DEF v, Stops
  <2> QED BY <1>2 DEF Without, Contains
<1>7. field.quoted => QuotedShape(Raw(i), v)
  <2> SUFFICES ASSUME field.quoted
               PROVE  QuotedShape(Raw(i), v)
    OBVIOUS
  <2>1. Raw(i) = (<<QUOTE>> \o v) \o <<QUOTE>>
    BY <1>3 DEF RawValue
  <2>2. QuotedShape((<<QUOTE>> \o v) \o <<QUOTE>>, v)
    <3> HIDE DEF v
    <3> QED BY <1>1, InQuotes
  <2> QED BY <2>1, <2>2
<1>8. ~field.quoted => Raw(i) = v
  BY <1>3 DEF RawValue
<1>9. /\ field.key \in Chars /\ field.key # QUOTE
      /\ field.quoted \in BOOLEAN
      /\ v \in Seq(Chars) /\ Len(v) \in Nat
      /\ Without(QUOTE, v)
      /\ field.quoted => QuotedShape(Raw(i), v)
      /\ ~field.quoted => Raw(i) = v /\ \A c \in Stops : Without(c, Raw(i))
  BY <1>1, <1>2, <1>4, <1>5, <1>6, <1>7, <1>8
<1> QED BY <1>9, Zenon DEF RawShape, field, v

(* Where there are quotes.                                                 *)
QuoteOf(i, p) ==
    \/ p = POffs[i - 1] + 2
    \/ p = POffs[i - 1] + 4
    \/ Fields[i].quoted /\ p = POffs[i - 1] + 7
    \/ Fields[i].quoted /\ p = POffs[i]

(* A quote stands around a key or around a value, nowhere else.            *)
LEMMA QuoteAt ==
  ASSUME CraftKnown, written.generation = "Ksp2", Ksp2Laid,
         NEW p \in 1..Len(HeadText), HeadText[p] = QUOTE
  PROVE  \E i \in 1..NFields : QuoteOf(i, p)
<1> DEFINE h == Len(HeadText)
<1>1. p # POffs[NFields] + 1
  <2> SUFFICES ASSUME p = POffs[NFields] + 1
               PROVE  FALSE
    OBVIOUS
  <2>0. p <= Len(HeadText)
    OBVIOUS
  <2>1. POffs[NFields] + 1 <= Len(HeadText)
    BY ONLY <2>0, p = POffs[NFields] + 1
  <2>2. HeadText[p] = "}"
    BY <2>1 DEF Ksp2Laid
  <2>3. "}" # QUOTE
    BY DEF QUOTE
  <2> QED BY <2>2, <2>3
<1>2. PICK i \in 1..NFields : POffs[i - 1] < p /\ p <= POffs[i]
  BY <1>1 DEF Ksp2Laid
<1> DEFINE b == POffs[i - 1]
           raw == Raw(i)
<1>3. FieldAt(i, b, h) /\ ValueAt(i, b, h)
  BY FieldIsAt
<1>4. RawShape(i)
  BY RawIs
<1> HIDE DEF b, h, raw
<1>5. /\ b \in Nat /\ h \in Nat /\ p \in 1..h
      /\ Len(raw) \in Nat /\ POffs[i] \in Nat /\ POffs[i] = (b + 6) + Len(raw)
      /\ b < p /\ p <= POffs[i]
  BY <1>2, <1>3 DEF FieldAt, ValueAt, b, h, raw
<1>6. /\ p # b + 1 /\ p # b + 3 /\ p # b + 5 /\ p # b + 6
  <2>1. p <= h /\ HeadText[p] = QUOTE
    BY <1>5
  <2>2. ":" # QUOTE /\ " " # QUOTE
    BY DEF QUOTE
  <2>3. Fields[i].key # QUOTE
    BY <1>4 DEF RawShape
  <2> QED BY <1>3, <2>1, <2>2, <2>3, Zenon DEF FieldAt
<1>7. CASE p = b + 2 \/ p = b + 4
  BY <1>7 DEF QuoteOf, b
<1>8. CASE ~(p = b + 2 \/ p = b + 4)
  <2>1. p >= b + 7
    BY ONLY <1>5, <1>6, <1>8
  <2>2. PICK k \in 1..Len(raw) : p = (b + 6) + k
    <3>1. p - (b + 6) \in 1..Len(raw) /\ p = (b + 6) + (p - (b + 6))
      BY ONLY <1>5, <2>1
    <3> QED BY <3>1
  <2>3. raw[k] = QUOTE
    <3>1. (b + 6) + k <= h
      BY ONLY <1>5, <2>2
    <3>2. HeadText[(b + 6) + k] = raw[k]
      BY <1>3, <3>1 DEF ValueAt, raw
    <3> QED BY <2>2, <3>2
  <2>4. Fields[i].quoted
    <3> SUFFICES ASSUME ~Fields[i].quoted
                 PROVE  FALSE
      OBVIOUS
    <3>1. raw = Fields[i].value /\ Without(QUOTE, Fields[i].value)
      BY <1>4 DEF RawShape, raw
    <3> QED BY <2>2, <2>3, <3>1 DEF Without
  <2>5. QuotedShape(raw, Fields[i].value) /\ Without(QUOTE, Fields[i].value) /\ Len(Fields[i].value) \in Nat
    BY <1>4, <2>4 DEF RawShape, raw
  <2> DEFINE v == Fields[i].value
  <2> HIDE DEF v
  <2>6. k = 1 \/ k = Len(raw)
    <3> SUFFICES ASSUME k # 1, k # Len(raw)
                 PROVE  FALSE
      OBVIOUS
    <3>1. Len(raw) = Len(v) + 2 /\ Len(v) \in Nat
      BY <2>5 DEF QuotedShape, v
    <3>2. k - 1 \in 1..Len(v) /\ (k - 1) + 1 = k
      BY ONLY <3>1, k \in 1..Len(raw), k # 1, k # Len(raw)
    <3>3. raw[(k - 1) + 1] = v[k - 1]
      BY <2>5, <3>2 DEF QuotedShape, v
    <3>4. v[k - 1] # QUOTE
      BY <2>5, <3>2 DEF Without, v
    <3> QED BY <2>3, <3>2, <3>3, <3>4
  <2>7. p = b + 7 \/ p = POffs[i]
    BY ONLY <1>5, <2>2, <2>6
  <2> QED BY <2>4, <2>7 DEF QuoteOf, b
<1> QED BY <1>7, <1>8

-----------------------------------------------------------------------------
(* Where a key in quotes is found: at the key of a field, or at a value    *)
(* that reads like it.                                                     *)
OccursAt(key, p) ==
    /\ p \in 1..(Len(HeadText) - 2)
    /\ HeadText[p] = QUOTE /\ HeadText[p + 1] = key /\ HeadText[p + 2] = QUOTE

(* The key of field i; its value, when that is the key in quotes.          *)
KeyOf(i, key, p) ==
    Fields[i].key = key /\ p = POffs[i - 1] + 2 /\ POffs[i - 1] + 4 <= Len(HeadText)
LikeKey(i, key, p) ==
    /\ Fields[i].quoted /\ Len(Fields[i].value) = 1 /\ Fields[i].value[1] = key
    /\ p = POffs[i - 1] + 7 /\ POffs[i] = POffs[i - 1] + 9 /\ POffs[i] <= Len(HeadText)

(* The keys that are looked for are none of the marks.                     *)
KeyLike(key) == key \in Chars /\ key \notin {QUOTE, ":", ",", "}"}

(* A key in quotes is found at one of the two.                             *)
LEMMA OccursWhere ==
  ASSUME CraftKnown, written.generation = "Ksp2", Ksp2Laid, NEW key, KeyLike(key),
         NEW p, OccursAt(key, p)
  PROVE  \E i \in 1..NFields : KeyOf(i, key, p) \/ LikeKey(i, key, p)
<1> DEFINE h == Len(HeadText)
<1>1. h \in Nat
  BY DEF Ksp2Laid
<1>2. /\ p \in 1..h /\ p + 1 \in 1..h /\ p + 2 \in 1..h /\ p + 2 <= h /\ p + 1 <= h
      /\ HeadText[p] = QUOTE /\ HeadText[p + 1] = key /\ HeadText[p + 2] = QUOTE
  <2>1. p \in 1..(h - 2)
    BY DEF OccursAt
  <2>2. /\ p \in 1..h /\ p + 1 \in 1..h /\ p + 2 \in 1..h /\ p + 2 <= h /\ p + 1 <= h
    BY ONLY <1>1, <2>1
  <2> QED BY <2>2 DEF OccursAt
<1>3. key # QUOTE /\ key # ":" /\ key \notin {",", "}"}
  BY DEF KeyLike
<1>4. PICK i \in 1..NFields : QuoteOf(i, p)
  BY <1>2, QuoteAt
<1> DEFINE b == POffs[i - 1]
<1>5. FieldAt(i, b, h) /\ ValueAt(i, b, h)
  BY FieldIsAt
<1>6. RawShape(i)
  BY RawIs
<1>7. p = b + 2 \/ p = b + 4 \/ (Fields[i].quoted /\ p = b + 7) \/ (Fields[i].quoted /\ p = POffs[i])
  BY <1>4 DEF QuoteOf
<1> HIDE DEF b, h
<1>8. b \in Nat /\ POffs[i] \in Nat
  BY <1>5 DEF FieldAt, ValueAt
<1>9. CASE p = b + 2
  <2>1. p + 1 = b + 3 /\ p + 2 = b + 4
    BY ONLY <1>8, <1>9
  <2>2. HeadText[b + 3] = Fields[i].key /\ b + 4 <= h
    BY <1>2, <1>5, <2>1 DEF FieldAt
  <2>3. KeyOf(i, key, p)
    BY <1>2, <1>9, <2>1, <2>2 DEF KeyOf, b, h
  <2> QED BY <2>3
<1>10. CASE p = b + 4
  <2>1. p + 1 = b + 5
    BY ONLY <1>8, <1>10
  <2>2. HeadText[b + 5] = ":"
    BY <1>2, <1>5, <2>1 DEF FieldAt
  <2> QED BY <1>2, <1>3, <2>1, <2>2
<1>11. CASE Fields[i].quoted /\ p = POffs[i]
  <2>1. POffs[i] + 1 <= h => HeadText[POffs[i] + 1] \in {",", "}"}
    BY <1>5 DEF ValueAt
  <2> QED BY <1>2, <1>3, <1>11, <2>1
<1>12. CASE Fields[i].quoted /\ p = b + 7 /\ p # POffs[i]
  <2> DEFINE v == Fields[i].value
             raw == Raw(i)
  <2>1. QuotedShape(raw, v) /\ Without(QUOTE, v) /\ Len(v) \in Nat
    BY <1>6, <1>12 DEF RawShape
  <2>2. POffs[i] = (b + 6) + Len(raw)
        /\ \A k \in 1..Len(raw) : (b + 6) + k <= h => HeadText[(b + 6) + k] = raw[k]
    BY <1>5 DEF ValueAt
  <2>9. Fields[i].value = v
    OBVIOUS
  <2> HIDE DEF v, raw
  <2>3. /\ Len(raw) = Len(v) + 2 /\ raw[Len(v) + 2] = QUOTE
        /\ \A k \in 1..Len(v) : raw[k + 1] = v[k] /\ v[k] # QUOTE
    BY <2>1 DEF QuotedShape, Without
  <2>4. p + 1 = (b + 6) + 2 /\ p + 2 = (b + 6) + 3
    BY ONLY <1>8, <1>12
  <2>5. Len(v) # 0
    <3> SUFFICES ASSUME Len(v) = 0
                 PROVE  FALSE
      OBVIOUS
    <3>1. Len(v) + 2 = 2 /\ Len(raw) = 2
      BY ONLY <2>3, Len(v) = 0
    <3>2. raw[2] = QUOTE /\ 2 \in 1..Len(raw)
      <4>1. raw[2] = QUOTE
        BY ONLY <2>3, <3>1
      <4>2. 2 \in 1..Len(raw)
        BY ONLY <3>1
      <4> QED BY <4>1, <4>2
    <3>3. HeadText[(b + 6) + 2] = QUOTE
      BY ONLY <1>2, <2>2, <2>4, <3>2
    <3> QED BY <1>2, <1>3, <2>4, <3>3
  <2>6. 1 \in 1..Len(v) /\ 2 \in 1..Len(raw)
    <3>1. \A n \in Nat : n # 0 => 1 \in 1..n /\ 2 \in 1..(n + 2)
      OBVIOUS
    <3>2. Len(v) \in Nat /\ Len(v) # 0 /\ Len(raw) = Len(v) + 2
      BY <2>1, <2>3, <2>5
    <3> QED BY ONLY <3>1, <3>2
  <2>7. v[1] = key
    <3>1. HeadText[(b + 6) + 2] = raw[2]
      BY ONLY <1>2, <2>2, <2>4, <2>6
    <3>2. raw[1 + 1] = v[1] /\ 1 + 1 = 2
      BY <2>3, <2>6
    <3> QED BY <1>2, <2>4, <3>1, <3>2
  <2>8. Len(v) = 1
    <3> SUFFICES ASSUME Len(v) # 1
                 PROVE  FALSE
      OBVIOUS
    <3>1. 2 \in 1..Len(v) /\ 3 \in 1..Len(raw)
      <4>1. \A n \in Nat : n # 0 /\ n # 1 => 2 \in 1..n /\ 3 \in 1..(n + 2)
        OBVIOUS
      <4>2. Len(v) \in Nat /\ Len(v) # 0 /\ Len(v) # 1 /\ Len(raw) = Len(v) + 2
        BY <2>1, <2>3, <2>5
      <4> QED BY ONLY <4>1, <4>2
    <3>2. HeadText[(b + 6) + 3] = raw[3]
      BY ONLY <1>2, <2>2, <2>4, <3>1
    <3>3. raw[2 + 1] = v[2] /\ v[2] # QUOTE /\ 2 + 1 = 3
      BY <2>3, <3>1
    <3> QED BY <1>2, <2>4, <3>2, <3>3
  <2>10. POffs[i] = b + 9 /\ POffs[i] <= h
    <3>1. POffs[i] = (b + 6) + (1 + 2)
      BY ONLY <2>2, <2>3, <2>8
    <3> QED BY ONLY <1>2, <1>8, <2>4, <3>1
  <2>11. LikeKey(i, key, p)
    BY <1>12, <2>7, <2>8, <2>9, <2>10 DEF LikeKey, b, h
  <2> QED BY <2>11
<1> QED BY <1>7, <1>9, <1>10, <1>11, <1>12

(* A text reads a, b, c at a place.                                        *)
ReadsThree(s, i, a, b, c) ==
    SubSeq(s, i, i + 2) = <<a, b, c>> <=> s[i] = a /\ s[i + 1] = b /\ s[i + 2] = c

LEMMA ThreeAt ==
  ASSUME NEW S, NEW s \in Seq(S), NEW i \in 1..(Len(s) - 2), NEW a, NEW b, NEW c
  PROVE  ReadsThree(s, i, a, b, c)
<1> DEFINE w == SubSeq(s, i, i + 2)
           t == <<a, b, c>>
<1>1. Len(s) \in Nat /\ i \in Nat \ {0} /\ i + 2 \in 0..Len(s) /\ i <= i + 2
  BY LenProperties
<1>2. /\ w \in Seq(S) /\ Len(w) = IF i <= i + 2 THEN (i + 2) - i + 1 ELSE 0
      /\ \A j \in 1..Len(w) : w[j] = s[i + j - 1]
  BY <1>1, SubSeqText
<1> HIDE DEF w
<1>3. Len(w) = 3
  <2>1. (IF i <= i + 2 THEN (i + 2) - i + 1 ELSE 0) = 3
    BY <1>1
  <2> QED BY <1>2, <2>1
<1>4. w[1] = s[i] /\ w[2] = s[i + 1] /\ w[3] = s[i + 2]
  <2>1. 1 \in 1..3 /\ 2 \in 1..3 /\ 3 \in 1..3
        /\ i + 1 - 1 = i /\ i + 2 - 1 = i + 1 /\ i + 3 - 1 = i + 2
    BY <1>1
  <2> QED BY ONLY <1>2, <1>3, <2>1
<1>5. ASSUME w = t
      PROVE  w[1] = a /\ w[2] = b /\ w[3] = c
  BY <1>5
<1>6. ASSUME w[1] = a, w[2] = b, w[3] = c
      PROVE  w = t
  <2>1. a \in S /\ b \in S /\ c \in S
    <3>1. \A j \in 1..Len(w) : w[j] \in S
      BY <1>2, ElementOfSeq
    <3>2. 1 \in 1..3 /\ 2 \in 1..3 /\ 3 \in 1..3
      OBVIOUS
    <3> QED BY <1>3, <1>6, <3>1, <3>2
  <2>2. t \in Seq(S) /\ Len(t) = 3 /\ t[1] = a /\ t[2] = b /\ t[3] = c
    BY <2>1
  <2> HIDE DEF t
  <2>3. \A j \in 1..3 : j = 1 \/ j = 2 \/ j = 3
    OBVIOUS
  <2>4. \A j \in 1..3 : w[j] = t[j]
    BY <1>6, <2>2, <2>3
  <2>5. Len(w) = Len(t) /\ \A j \in 1..Len(w) : w[j] = t[j]
    BY <1>3, <2>2, <2>4
  <2> QED BY <1>2, <2>2, <2>5, SeqEqual
<1>7. w = t <=> s[i] = a /\ s[i + 1] = b /\ s[i + 2] = c
  BY <1>4, <1>5, <1>6
<1> QED BY <1>7, Zenon DEF ReadsThree, w, t

(* At both it is found, if they are in the part that is parsed.            *)
LEMMA OccursThere ==
  ASSUME CraftKnown, written.generation = "Ksp2", Ksp2Laid, NEW key, NEW i \in 1..NFields
  PROVE  /\ \A p : KeyOf(i, key, p) => OccursAt(key, p)
         /\ Fields[i].quoted /\ Len(Fields[i].value) = 1 /\ Fields[i].value[1] = key
              => /\ POffs[i] = POffs[i - 1] + 9
                 /\ POffs[i] <= Len(HeadText) => OccursAt(key, POffs[i - 1] + 7)
<1> DEFINE h == Len(HeadText)
           b == POffs[i - 1]
           v == Fields[i].value
           raw == Raw(i)
<1>1. FieldAt(i, b, h) /\ ValueAt(i, b, h)
  BY FieldIsAt
<1>2. RawShape(i)
  BY RawIs
<1>3. b \in Nat /\ h \in Nat /\ POffs[i] = (b + 6) + Len(raw)
  BY <1>1 DEF FieldAt, ValueAt
<1>4. ASSUME NEW p, KeyOf(i, key, p)
      PROVE  OccursAt(key, p)
  <2>1. Fields[i].key = key /\ p = b + 2 /\ b + 4 <= h
    BY <1>4 DEF KeyOf
  <2> HIDE DEF b, h
  <2>2. /\ p \in 1..(h - 2) /\ p + 1 = b + 3 /\ p + 2 = b + 4
        /\ b + 2 <= h /\ b + 3 <= h
    BY ONLY <1>3, <2>1
  <2>3. HeadText[b + 2] = QUOTE /\ HeadText[b + 3] = key /\ HeadText[b + 4] = QUOTE
    BY <1>1, <2>1, <2>2 DEF FieldAt
  <2> QED BY <2>1, <2>2, <2>3 DEF OccursAt, h
<1>5. ASSUME Fields[i].quoted, Len(v) = 1, v[1] = key
      PROVE  POffs[i] = b + 9 /\ (POffs[i] <= h => OccursAt(key, b + 7))
  <2>1. QuotedShape(raw, v)
    BY <1>2, <1>5 DEF RawShape
  <2>2. \A k \in 1..Len(raw) : (b + 6) + k <= h => HeadText[(b + 6) + k] = raw[k]
    BY <1>1 DEF ValueAt
  <2>8. Len(v) = 1 /\ v[1] = key
    BY <1>5
  <2> HIDE DEF b, h, v, raw
  <2>3. Len(raw) = 3
    <3>1. Len(raw) = Len(v) + 2
      BY <2>1 DEF QuotedShape
    <3> QED BY ONLY <2>8, <3>1
  <2>4. raw[1] = QUOTE /\ raw[2] = key /\ raw[3] = QUOTE
    <3>1. raw[1] = QUOTE /\ raw[Len(v) + 2] = QUOTE /\ \A k \in 1..Len(v) : raw[k + 1] = v[k]
      BY <2>1 DEF QuotedShape
    <3>2. Len(v) + 2 = 3 /\ 1 \in 1..Len(v) /\ 1 + 1 = 2
      BY ONLY <2>8
    <3> QED BY <2>8, <3>1, <3>2
  <2>5. POffs[i] = b + 9
    BY ONLY <1>3, <2>3
  <2>6. ASSUME POffs[i] <= h
        PROVE  OccursAt(key, b + 7)
    <3>1. /\ 1 \in 1..3 /\ 2 \in 1..3 /\ 3 \in 1..3
          /\ (b + 6) + 1 = b + 7 /\ (b + 6) + 2 = (b + 7) + 1 /\ (b + 6) + 3 = (b + 7) + 2
          /\ (b + 6) + 1 <= h /\ (b + 6) + 2 <= h /\ (b + 6) + 3 <= h
          /\ b + 7 \in 1..(h - 2)
      BY ONLY <1>3, <2>5, <2>6
    <3>2. /\ HeadText[(b + 6) + 1] = raw[1] /\ HeadText[(b + 6) + 2] = raw[2]
          /\ HeadText[(b + 6) + 3] = raw[3]
      BY ONLY <2>2, <2>3, <3>1
    <3>3. /\ HeadText[b + 7] = raw[1] /\ HeadText[(b + 7) + 1] = raw[2]
          /\ HeadText[(b + 7) + 2] = raw[3]
      BY ONLY <3>1, <3>2
    <3> QED BY <2>4, <3>1, <3>3 DEF OccursAt, h
  <2> QED BY <2>5, <2>6
<1> QED BY <1>4, <1>5

-----------------------------------------------------------------------------
(* Where a key in quotes is found.                                         *)
Occurrences(key) == {p \in 1..(Len(HeadText) - 2) : OccursAt(key, p)}

(* What the first occurrence of a key in quotes is.                        *)
NotFound(key, f) == Occurrences(key) = {} /\ (f # 0 => Len(HeadText) < POffs[f - 1] + 4)
FoundKey(key, f) ==
    /\ Occurrences(key) # {} /\ f # 0 /\ ~Hidden(key)
    /\ Min(Occurrences(key)) = POffs[f - 1] + 2 /\ POffs[f - 1] + 4 <= Len(HeadText)
FoundValue(key, f) ==
    /\ Occurrences(key) # {} /\ (f = 0 \/ Hidden(key))
    /\ \E i \in 1..NFields : LikeKey(i, key, Min(Occurrences(key)))

(* f being the first field with the key, it is one of the three.           *)
LEMMA FoundWhere ==
  ASSUME CraftKnown, written.generation = "Ksp2", Ksp2Laid, NEW key, KeyLike(key)
  PROVE  NotFound(key, First(key)) \/ FoundKey(key, First(key)) \/ FoundValue(key, First(key))
<1> DEFINE f == First(key)
           h == Len(HeadText)
           At == Occurrences(key)
<1>1. f \in 0..NFields /\ NFields \in Nat /\ h \in Nat
      /\ (f # 0 => f \in 1..NFields /\ Fields[f].key = key)
      /\ \A i \in 1..NFields : Fields[i].key = key => f # 0 /\ f <= i
  <2>1. IsFirst(f, NFields, KeyAt, key)
    BY FirstIs DEF KeyLike
  <2>2. \A i \in 1..NFields : KeyAt[i] = Fields[i].key
    <3>1. "Ksp2" # "Ksp1"
      OBVIOUS
    <3> QED BY <3>1 DEF KeyAt
  <2>3. NFields \in Nat /\ h \in Nat
    BY DEF CraftKnown, Ksp2Laid
  <2> HIDE DEF f
  <2>4. f \in 0..NFields /\ (f # 0 => f \in 1..NFields)
    BY <2>1, <2>3 DEF IsFirst
  <2> QED BY <2>1, <2>2, <2>3, <2>4 DEF IsFirst
<1>2. At \subseteq Nat /\ \A p : p \in At <=> OccursAt(key, p)
  BY DEF OccursAt, Occurrences
<1>3. Ksp2Offs
  BY Ksp2OffsAre
<1>4. ASSUME f # 0, POffs[f - 1] + 4 <= h
      PROVE  POffs[f - 1] + 2 \in At
  <2>1. KeyOf(f, key, POffs[f - 1] + 2)
    BY <1>1, <1>4 DEF KeyOf
  <2> QED BY <1>1, <1>2, <1>4, <2>1, OccursThere
<1>5. CASE At = {}
  <2>1. f # 0 => h < POffs[f - 1] + 4
    <3> SUFFICES ASSUME f # 0
                 PROVE  h < POffs[f - 1] + 4
      OBVIOUS
    <3>1. POffs[f - 1] \in Nat
      BY <1>1, <1>3 DEF Ksp2Offs
    <3>2. ~(POffs[f - 1] + 4 <= h)
      BY <1>4, <1>5
    <3> QED BY ONLY <1>1, <3>1, <3>2
  <2> QED BY <1>5, <2>1 DEF NotFound
<1>6. CASE At # {}
  <2> DEFINE m == Min(At)
  <2>1. m \in At /\ \A n \in At : m <= n
    <3> HIDE DEF At
    <3> QED BY <1>2, <1>6, MinOfNats
  <2>2. OccursAt(key, m) /\ m \in Nat
    BY <1>2, <2>1
  <2> HIDE DEF At
  <2>3. \A n \in At : m <= n
    BY <2>1
  <2> HIDE DEF m
  <2>4. PICK i \in 1..NFields : KeyOf(i, key, m) \/ LikeKey(i, key, m)
    BY <2>2, OccursWhere
  <2>5. i - 1 \in 0..NFields /\ POffs[i - 1] \in Nat /\ POffs[i] \in Nat
    BY <1>3 DEF Ksp2Offs
  <2> HIDE DEF f, h
  <2>6. CASE KeyOf(i, key, m)
    <3>1. Fields[i].key = key /\ m = POffs[i - 1] + 2 /\ POffs[i - 1] + 4 <= h
      BY <2>6 DEF KeyOf, h
    <3>2. f # 0 /\ f <= i /\ f \in 1..NFields
      BY <1>1, <3>1
    <3>3. POffs[f - 1] <= POffs[i - 1] /\ POffs[f - 1] \in Nat
      <4>1. f - 1 \in 0..NFields /\ i - 1 \in (f - 1)..NFields
        BY <1>1, <2>5, <3>2
      <4> QED BY <1>3, <4>1 DEF Ksp2Offs
    <3>4. POffs[f - 1] + 4 <= h
      BY ONLY <1>1, <2>5, <3>1, <3>3
    <3>5. m <= POffs[f - 1] + 2
      BY <1>4, <2>3, <3>2, <3>4
    <3>6. m = POffs[f - 1] + 2
      BY ONLY <2>2, <2>5, <3>1, <3>3, <3>5
    <3>7. ~Hidden(key)
      <4> SUFFICES ASSUME Hidden(key)
                   PROVE  FALSE
        OBVIOUS
      <4>1. PICK j \in 1..(f - 1) : Fields[j].quoted /\ Fields[j].value = <<key>>
        BY DEF Hidden, f, Fields
      <4>2. j \in 1..NFields /\ j \in 0..NFields /\ f - 1 \in j..NFields
        BY <1>1, <3>2
      <4>3. Len(Fields[j].value) = 1 /\ Fields[j].value[1] = key
        BY <4>1
      <4>4. /\ POffs[j] = POffs[j - 1] + 9
            /\ POffs[j] <= h => OccursAt(key, POffs[j - 1] + 7)
        BY <4>1, <4>2, <4>3, OccursThere DEF h
      <4>5. POffs[j - 1] \in Nat /\ POffs[j] \in Nat /\ POffs[j] <= POffs[f - 1]
        BY <1>3, <4>2 DEF Ksp2Offs
      <4>6. POffs[j] <= h /\ ~(m <= POffs[j - 1] + 7)
        BY ONLY <1>1, <3>3, <3>4, <3>6, <4>4, <4>5
      <4>7. POffs[j - 1] + 7 \in At
        BY <1>2, <4>4, <4>6
      <4> QED BY <2>3, <4>6, <4>7
    <3>8. FoundKey(key, f)
      BY <1>6, <3>2, <3>4, <3>6, <3>7 DEF FoundKey, At, m, h
    <3> QED BY <3>8 DEF f
  <2>7. CASE LikeKey(i, key, m)
    <3>1. f = 0 \/ Hidden(key)
      <4> SUFFICES ASSUME f # 0, ~Hidden(key)
                   PROVE  FALSE
        OBVIOUS
      <4>1. /\ Fields[i].quoted /\ Len(Fields[i].value) = 1 /\ Fields[i].value[1] = key
            /\ m = POffs[i - 1] + 7 /\ POffs[i] = POffs[i - 1] + 9 /\ POffs[i] <= h
        BY <2>7 DEF LikeKey, h
      <4>2. CASE i < f
        <5>1. i \in 1..(f - 1)
          BY <1>1, <4>2
        <5>2. Fields[i].value = <<key>>
          <6> DEFINE v == Fields[i].value
                     w == <<key>>
          <6>1. v \in Seq(Chars) /\ Len(v) = 1 /\ v[1] = key /\ key \in Chars
            BY <4>1 DEF CraftKnown, KeyLike
          <6>2. w \in Seq(Chars) /\ Len(w) = 1 /\ w[1] = key
            BY <6>1, Singleton
          <6> HIDE DEF v, w
          <6>3. \A j \in 1..1 : j = 1
            OBVIOUS
          <6>4. Len(v) = Len(w) /\ \A j \in 1..Len(v) : v[j] = w[j]
            BY <6>1, <6>2, <6>3
          <6>5. v = w
            BY <6>1, <6>2, <6>4, SeqEqual
          <6> QED BY <6>5 DEF v, w
        <5> QED BY <4>1, <5>1, <5>2 DEF Hidden, f, Fields
      <4>3. CASE ~(i < f)
        <5>1. f \in 1..NFields /\ f - 1 \in 0..NFields /\ i - 1 \in (f - 1)..NFields
          BY <1>1, <2>5, <4>3
        <5>2. POffs[f - 1] \in Nat /\ POffs[f - 1] <= POffs[i - 1]
          BY <1>3, <5>1 DEF Ksp2Offs
        <5>3. POffs[f - 1] + 4 <= h /\ ~(m <= POffs[f - 1] + 2)
          BY ONLY <1>1, <2>5, <4>1, <5>2
        <5> QED BY <1>4, <2>3, <5>3
      <4> QED BY <4>2, <4>3
    <3>2. FoundValue(key, f)
      BY <1>6, <2>7, <3>1 DEF FoundValue, At, m
    <3> QED BY <3>2 DEF f
  <2> QED BY <2>4, <2>6, <2>7
<1> QED BY <1>5, <1>6

-----------------------------------------------------------------------------
(* KSP2: what JsonValue reads of a value, whole or not.                    *)

(* Blanks before a text are no part of what trim_start leaves.             *)
LEMMA TrimStartAfterBlank ==
  ASSUME NEW S, NEW b \in Seq(S), AllIn(b, Blank), NEW w \in Seq(S)
  PROVE  TrimStart(b \o w) = TrimStart(w)
<1> DEFINE t == TrimStart(w)
<1>1. StartSplits(S, w)
  BY StartSplit
<1>2. PICK x \in Seq(S) : AllIn(x, Blank) /\ w = x \o t
  BY <1>1, Zenon DEF StartSplits
<1>3. t \in Seq(S) /\ (t = <<>> \/ t[1] \notin Blank)
  BY <1>1, Zenon DEF StartSplits
<1> HIDE DEF t
<1>4. Joined(S, b, x)
  BY ConcatText
<1>5. AllIn(b \o x, Blank)
  BY <1>2, WithinConcat, Zenon
<1>6. Assoc(b, x, t)
  BY <1>3, Associate
<1>7. b \o w = (b \o x) \o t
  BY <1>2, <1>6, Zenon DEF Assoc
<1>8. b \o x \in Seq(S)
  BY <1>4, Zenon DEF Joined
<1>9. TrimStart((b \o x) \o t) = t
  BY <1>3, <1>5, <1>8, TrimStartIs, Zenon
<1> QED BY <1>7, <1>9, Zenon DEF t

(* The first character of two texts strung together.                       *)
FirstOf(x, y) == x # <<>> => x \o y # <<>> /\ (x \o y)[1] = x[1]

LEMMA FirstOfConcat ==
  ASSUME NEW S, NEW x \in Seq(S), NEW y \in Seq(S)
  PROVE  FirstOf(x, y)
<1> SUFFICES ASSUME x # <<>>
             PROVE  x \o y # <<>> /\ (x \o y)[1] = x[1]
  BY DEF FirstOf
<1> DEFINE z == x \o y
<1>1. Len(x) \in Nat \ {0} /\ Len(y) \in Nat
  BY LenProperties, EmptySeq
<1>2. /\ z \in Seq(S) /\ Len(z) = Len(x) + Len(y)
      /\ \A j \in 1..(Len(x) + Len(y)) : z[j] = IF j <= Len(x) THEN x[j] ELSE y[j - Len(x)]
  BY ConcatProperties
<1> HIDE DEF z
<1>3. 1 \in 1..(Len(x) + Len(y)) /\ 1 <= Len(x) /\ Len(z) # 0
  BY <1>1, <1>2
<1>4. z[1] = x[1]
  BY ONLY <1>2, <1>3
<1>5. z # <<>>
  BY <1>2, <1>3, EmptySeq
<1> QED BY <1>4, <1>5 DEF z

(* Places in the second of two texts.                                      *)
LEMMA InSecond ==
  \A m, n \in Nat : \A i \in 1..n : m + i \in 1..(m + n) /\ ~(m + i <= m) /\ (m + i) - m = i
OBVIOUS

(* A value without quotes, whole or not, and what follows it.              *)
LEMMA BareReads ==
  ASSUME NEW a \in Seq(Chars), NEW y \in Seq(Chars),
         \A c \in Stops : Without(c, a), Without(QUOTE, a),
         y = <<>> \/ y[1] \in {",", "}"}
  PROVE  JsonValue(TrimStart(a \o y)) = Some(Trim(a))
<1> DEFINE t == TrimStart(a)
           value == t \o y
<1>1. StartSplits(Chars, a)
  BY StartSplit
<1>2. PICK x \in Seq(Chars) : AllIn(x, Blank) /\ a = x \o t
  BY <1>1, Zenon DEF StartSplits
<1>3. t \in Seq(Chars) /\ (t = <<>> \/ t[1] \notin Blank)
  BY <1>1, Zenon DEF StartSplits
<1> HIDE DEF t
<1>4. Len(x) \in Nat /\ Len(t) \in Nat
  BY <1>3, LenProperties
<1>5. ASSUME NEW k \in 1..Len(t)
      PROVE  t[k] # QUOTE /\ t[k] \notin Stops
  <2>1. /\ Len(a) = Len(x) + Len(t)
        /\ \A j \in 1..(Len(x) + Len(t)) : a[j] = IF j <= Len(x) THEN x[j] ELSE t[j - Len(x)]
    BY <1>2, <1>3, ConcatProperties
  <2>2. Len(x) + k \in 1..(Len(x) + Len(t)) /\ ~(Len(x) + k <= Len(x)) /\ (Len(x) + k) - Len(x) = k
    BY ONLY <1>4, InSecond, k \in 1..Len(t)
  <2>3. a[Len(x) + k] = t[k] /\ Len(x) + k \in 1..Len(a)
    BY ONLY <2>1, <2>2
  <2>4. a[Len(x) + k] # QUOTE /\ \A c \in Stops : a[Len(x) + k] # c
    <3> HIDE DEF Stops
    <3> QED BY <2>3, Zenon DEF Without
  <2> HIDE DEF Stops
  <2> QED BY <2>3, <2>4
<1>6. y = <<>> \/ (y[1] \in Stops /\ y[1] # QUOTE /\ y[1] \notin Blank)
  BY DEF Stops, QUOTE, Blank
<1>7. Joined(Chars, t, y) /\ FirstOf(t, y) /\ Assoc(x, t, y)
  BY <1>3, ConcatText, FirstOfConcat, Associate
<1>8. t = <<>> => value = y
  <2>1. <<>> \o y = y
    BY ConcatEmptySeq
  <2> QED BY <2>1
<1>9. t # <<>> => 1 \in 1..Len(t)
  <2>1. t # <<>> => Len(t) # 0
    BY <1>3, EmptySeq, Zenon
  <2> QED BY ONLY <1>4, <2>1
<1>10. value \in Seq(Chars)
  BY <1>7, Zenon DEF Joined
<1>11. value # <<>> => value[1] # QUOTE /\ value[1] \notin Blank
  <2>1. t # <<>> => value[1] = t[1]
    BY <1>7, Zenon DEF FirstOf
  <2> HIDE DEF value
  <2>2. CASE t = <<>>
    <3>1. value = y
      BY <1>8, <2>2, Zenon
    <3> QED BY <1>6, <3>1, Zenon
  <2>3. CASE t # <<>>
    <3>1. value[1] = t[1] /\ t[1] # QUOTE /\ t[1] \notin Blank
      BY <1>3, <1>5, <1>9, <2>1, <2>3, Zenon
    <3> QED BY <3>1, Zenon
  <2> QED BY <2>2, <2>3
<1>12. TrimStart(a \o y) = value
  <2>1. a \o y = x \o value
    BY <1>2, <1>7, Zenon DEF Assoc
  <2>2. value = <<>> \/ value[1] \notin Blank
    <3> HIDE DEF value
    <3> QED BY <1>11
  <2> HIDE DEF value
  <2>3. TrimStart(x \o value) = value
    BY <1>2, <1>10, <2>2, TrimStartIs
  <2> QED BY <2>1, <2>3
<1>13. UpTo(value, Stops) = t
  <2>1. \A i \in 1..Len(t) : t[i] \notin Stops
    BY <1>5
  <2>2. y = <<>> \/ y[1] \in Stops
    BY <1>6
  <2> HIDE DEF Stops
  <2> QED BY <1>3, <2>1, <2>2, UpToIs
<1>14. Trim(t) = Trim(a)
  <2>1. Trim(x \o t) = Trim(t)
    BY <1>2, <1>3, TrimAfterBlank
  <2> QED BY <1>2, <2>1
<1> HIDE DEF value
<1>15. JsonValue(value) = Some(Trim(UpTo(value, Stops)))
  <2>1. ~(value # <<>> /\ value[1] = QUOTE)
    BY <1>11
  <2> QED BY <2>1, Zenon DEF JsonValue, Stops
<1> QED BY <1>12, <1>13, <1>14, <1>15

(* Nothing after the colon.                                                *)
LEMMA NothingReads ==
  ASSUME NEW e, e = <<>>
  PROVE  JsonValue(TrimStart(e)) = Some(e)
<1>1. e \in Seq(Chars) /\ Len(e) = 0
  BY EmptyText, EmptySeq
<1>2. \A c : Without(c, e)
  BY <1>1 DEF Without
<1>3. e \o e = e
  BY <1>1, ConcatEmptySeq
<1>4. Trim(e) = e
  <2>1. AllIn(e, Blank)
    BY <1>1 DEF AllIn
  <2> QED BY <1>1, <2>1, TrimBlank
<1>5. JsonValue(TrimStart(e \o e)) = Some(Trim(e))
  BY <1>1, <1>2, BareReads
<1> QED BY <1>3, <1>4, <1>5

(* A quote, and what is left of the value.                                 *)
QuoteReads(r, value) ==
    /\ Without(QUOTE, r) => value = None
    /\ \A v \in Seq(Chars), y \in Seq(Chars) :
         r = v \o y /\ Without(QUOTE, v) /\ y # <<>> /\ y[1] = QUOTE => value = Some(v)

(* What is read behind a quote: up to the next, or nothing.                *)
LEMMA QuotedReads ==
  ASSUME NEW r \in Seq(Chars)
  PROVE  QuoteReads(r, JsonValue(TrimStart(<<QUOTE>> \o r)))
<1> DEFINE w == <<QUOTE>> \o r
<1>1. QUOTE \in Chars /\ QUOTE \notin Blank
  BY DEF Chars, Marks, QUOTE, Blank
<1>2. w # <<>> /\ w[1] = QUOTE /\ Tail(w) = r
  BY <1>1, TailOfConcat
<1>3. w \in Seq(Chars)
  <2>1. <<QUOTE>> \in Seq(Chars)
    BY <1>1, Singleton
  <2>2. Joined(Chars, <<QUOTE>>, r)
    BY <2>1, ConcatText
  <2> QED BY <2>2, Zenon DEF Joined
<1> HIDE DEF w
<1>4. TrimStart(w) = w
  BY <1>1, <1>2, <1>3, TrimStartText
<1>5. JsonValue(w) = IF Contains(r, QUOTE) THEN Some(UpTo(r, {QUOTE})) ELSE None
  BY <1>2, Zenon DEF JsonValue
<1>6. ASSUME Without(QUOTE, r)
      PROVE  JsonValue(w) = None
  <2>1. ~Contains(r, QUOTE)
    BY <1>6 DEF Without, Contains
  <2> QED BY <1>5, <2>1
<1>7. ASSUME NEW v \in Seq(Chars), NEW y \in Seq(Chars),
             r = v \o y, Without(QUOTE, v), y # <<>>, y[1] = QUOTE
      PROVE  JsonValue(w) = Some(v)
  <2>1. Len(v) \in Nat /\ Len(y) \in Nat \ {0}
    BY <1>7, LenProperties, EmptySeq
  <2>2. /\ Len(r) = Len(v) + Len(y)
        /\ \A j \in 1..(Len(v) + Len(y)) : r[j] = IF j <= Len(v) THEN v[j] ELSE y[j - Len(v)]
    BY <1>7, ConcatProperties
  <2>3. /\ Len(v) + 1 \in 1..(Len(v) + Len(y)) /\ ~(Len(v) + 1 <= Len(v))
        /\ (Len(v) + 1) - Len(v) = 1
    BY <2>1
  <2>4. r[Len(v) + 1] = QUOTE /\ Len(v) + 1 \in 1..Len(r)
    <3>1. r[Len(v) + 1] = y[1] /\ Len(v) + 1 \in 1..Len(r)
      BY ONLY <2>2, <2>3
    <3> QED BY <1>7, <3>1
  <2>5. Contains(r, QUOTE)
    BY <2>4 DEF Contains
  <2>6. UpTo(v \o y, {QUOTE}) = v
    <3>1. \A i \in 1..Len(v) : v[i] \notin {QUOTE}
      BY <1>7 DEF Without
    <3>2. y = <<>> \/ y[1] \in {QUOTE}
      BY <1>7
    <3> QED BY <3>1, <3>2, UpToIs
  <2> QED BY <1>5, <1>7, <2>5, <2>6
<1>8. QuoteReads(r, JsonValue(w))
  BY <1>6, <1>7 DEF QuoteReads
<1> QED BY <1>4, <1>8 DEF w

(* What JsonField does behind the key: a colon, or nothing is read.        *)
JsonAfter(rest) ==
    LET after == TrimStart(rest)
    IN IF after # <<>> /\ after[1] = ":" THEN JsonValue(TrimStart(Tail(after))) ELSE None

LEMMA AfterColon ==
  ASSUME NEW w \in Seq(Chars)
  PROVE  JsonAfter(<<":">> \o w) = JsonValue(TrimStart(w))
<1> DEFINE z == <<":">> \o w
<1>1. ":" \in Chars /\ ":" \notin Blank
  BY DEF Chars, Marks, Blank
<1>2. z # <<>> /\ z[1] = ":" /\ Tail(z) = w
  BY <1>1, TailOfConcat
<1>3. z \in Seq(Chars)
  <2>1. <<":">> \in Seq(Chars)
    BY <1>1, Singleton
  <2>2. Joined(Chars, <<":">>, w)
    BY <2>1, ConcatText
  <2> QED BY <2>2, Zenon DEF Joined
<1> HIDE DEF z
<1>4. TrimStart(z) = z
  BY <1>1, <1>2, <1>3, TrimStartText
<1>5. JsonAfter(z) = JsonValue(TrimStart(w))
  BY <1>2, <1>4, Zenon DEF JsonAfter
<1> QED BY <1>5 DEF z

-----------------------------------------------------------------------------
(* KSP2: what is left of a field in the part that is parsed, and what is   *)
(* read of it.                                                             *)

(* What is left of a value in the part that is parsed, and what follows.   *)
LeftOf(i, w, a, y) ==
    /\ w = a \o y /\ IsPrefix(a, Raw(i))
    /\ POffs[i] <= Len(HeadText) => a = Raw(i)
    /\ POffs[i] > Len(HeadText) => y = <<>> /\ Len(a) < Len(Raw(i))
    /\ y = <<>> \/ y[1] \in {",", "}"}

(* Behind the colon there is a front of the value, and what follows it.    *)
LEMMA ValueSplits ==
  ASSUME CraftKnown, Ksp2Laid, NEW i \in 1..NFields, POffs[i - 1] + 6 <= Len(HeadText)
  PROVE  \E a \in Seq(Chars), y \in Seq(Chars) : LeftOf(i, From(HeadText, (POffs[i - 1] + 6) + 1), a, y)
<1> DEFINE h == Len(HeadText)
           at == POffs[i - 1] + 6
           w == From(HeadText, at + 1)
           raw == Raw(i)
           len == Len(raw)
           n == IF len <= h - at THEN len ELSE h - at
           a == SubSeq(w, 1, n)
           y == From(w, n + 1)
<1>1. HeadText \in Seq(Chars)
  BY DEF Ksp2Laid
<1>2. /\ h \in Nat /\ at \in Nat /\ at <= h /\ len \in Nat /\ raw \in Seq(Chars)
      /\ POffs[i] = at + len
      /\ \A k \in 1..len : at + k <= h => HeadText[at + k] = raw[k]
      /\ POffs[i] + 1 <= h => HeadText[POffs[i] + 1] \in {",", "}"}
  <2>1. FieldAt(i, POffs[i - 1], h) /\ ValueAt(i, POffs[i - 1], h)
    BY FieldIsAt
  <2>2. POffs[i - 1] \in Nat /\ h \in Nat
    BY <2>1 DEF FieldAt
  <2>3. at \in Nat
    BY ONLY <2>2
  <2> QED BY <2>1, <2>2, <2>3 DEF ValueAt
<1> HIDE DEF h, at, raw, len
<1>0. h \in Nat /\ at \in Nat /\ at <= h /\ len \in Nat /\ POffs[i] = at + len
  BY <1>2
<1>3. at \in 0..h
  BY ONLY <1>0
<1>4. w \in Seq(Chars) /\ Len(w) = h - at /\ \A k \in 1..(h - at) : w[k] = HeadText[at + k]
  BY <1>1, <1>3, FallsInTwo DEF h
<1> HIDE DEF w
<1>5. n \in 0..Len(w) /\ n <= len /\ (n = len \/ n = h - at) /\ (at + len <= h => n = len)
      /\ (at + len > h => n = h - at /\ n < len)
  <2>1. Len(w) = h - at
    BY <1>4
  <2> QED BY ONLY <1>0, <2>1
<1> HIDE DEF n
<1>6. /\ a \in Seq(Chars) /\ Len(a) = n /\ \A k \in 1..n : a[k] = w[k]
      /\ y \in Seq(Chars) /\ Len(y) = Len(w) - n /\ \A k \in 1..(Len(w) - n) : y[k] = w[n + k]
      /\ w = a \o y
  BY <1>4, <1>5, FallsInTwo
<1> HIDE DEF a, y
<1>7. ASSUME NEW k \in 1..n
      PROVE  a[k] = raw[k]
  <2>1. k \in 1..len /\ k \in 1..(h - at) /\ at + k <= h
    <3>1. Len(w) = h - at
      BY <1>4
    <3> QED BY ONLY <1>0, <3>1, <1>5, k \in 1..n
  <2> QED BY <1>2, <1>4, <1>6, <2>1
<1>8. IsPrefix(a, raw)
  BY <1>2, <1>5, <1>6, <1>7, PrefixIs DEF len
<1>9. ASSUME POffs[i] <= h
      PROVE  a = raw
  <2>1. Len(a) = Len(raw)
    <3>1. n = len
      BY <1>0, <1>5, <1>9
    <3> QED BY <1>6, <3>1 DEF len
  <2> QED BY <1>2, <1>6, <1>8, <2>1, PrefixWhole
<1>10. ASSUME POffs[i] > h
       PROVE  y = <<>> /\ Len(a) < len
  <2>1. n = h - at /\ n < len
    BY <1>0, <1>5, <1>10
  <2>2. Len(y) = 0 /\ Len(a) < len
    <3>1. Len(w) = h - at /\ Len(a) = n /\ Len(y) = Len(w) - n
      BY <1>4, <1>6
    <3> QED BY ONLY <1>0, <2>1, <3>1
  <2> QED BY <1>6, <2>2, EmptyText
<1>11. y = <<>> \/ y[1] \in {",", "}"}
  <2>1. CASE Len(y) = 0
    BY <1>6, <2>1, EmptyText
  <2>2. CASE Len(y) # 0
    <3>1. /\ n = len /\ 1 \in 1..(Len(w) - n) /\ n + 1 \in 1..(h - at)
          /\ at + (n + 1) = POffs[i] + 1 /\ POffs[i] + 1 <= h
      <4>1. Len(w) = h - at /\ Len(y) = Len(w) - n
        BY <1>4, <1>6
      <4> QED BY ONLY <1>0, <1>5, <2>2, <4>1
    <3>2. y[1] = w[n + 1] /\ w[n + 1] = HeadText[at + (n + 1)]
      BY <1>4, <1>6, <3>1
    <3> QED BY <1>2, <3>1, <3>2
  <2> QED BY <2>1, <2>2
<1>12. LeftOf(i, w, a, y)
  BY <1>6, <1>8, <1>9, <1>10, <1>11 DEF LeftOf, h, raw, len
<1> QED BY <1>6, <1>12 DEF w, at

(* What is read of a field: its value, or of one that is cut, a part.      *)
ReadsField(i, r) ==
    LET field == Fields[i]
    IN /\ POffs[i] <= Len(HeadText) =>
            r = Some(IF field.quoted THEN field.value ELSE Trim(field.value))
       /\ POffs[i] > Len(HeadText) =>
            \/ r = None
            \/ field.quoted /\ r = Some(<<>>)
            \/ ~field.quoted /\ \E u \in Seq(Chars) : IsPrefix(u, Trim(field.value)) /\ r = Some(u)

(* A value without quotes is read as it is, or short;                      *)
LEMMA BareField ==
  ASSUME CraftKnown, written.generation = "Ksp2", NEW i \in 1..NFields, ~Fields[i].quoted,
         NEW w, NEW a \in Seq(Chars), NEW y \in Seq(Chars), LeftOf(i, w, a, y)
  PROVE  ReadsField(i, JsonValue(TrimStart(w)))
<1> DEFINE v == Fields[i].value
           r == JsonValue(TrimStart(w))
<1>1. RawShape(i)
  BY RawIs
<1>2. /\ Raw(i) = v /\ v \in Seq(Chars) /\ Without(QUOTE, v) /\ \A c \in Stops : Without(c, v)
  BY <1>1, Zenon DEF RawShape
<1>3. w = a \o y /\ IsPrefix(a, v) /\ (POffs[i] <= Len(HeadText) => a = v)
      /\ (y = <<>> \/ y[1] \in {",", "}"})
  BY <1>2, Zenon DEF LeftOf
<1> HIDE DEF v
<1>4. Len(a) \in Nat /\ Len(v) \in Nat /\ Len(a) <= Len(v) /\ \A k \in 1..Len(a) : a[k] = v[k]
  <2>1. a \in Seq(Chars) /\ v \in Seq(Chars) /\ IsPrefix(a, v)
    BY <1>2, <1>3
  <2>2. Len(a) \in Nat /\ Len(v) \in Nat
    BY ONLY <2>1, LenProperties
  <2>3. Len(a) <= Len(v) /\ \A k \in 1..Len(a) : a[k] = v[k]
    BY ONLY <2>1, PrefixIs
  <2> QED BY ONLY <2>2, <2>3
<1>5. \A c : Without(c, v) => Without(c, a)
  <2>1. \A k \in 1..Len(a) : k \in 1..Len(v)
    BY <1>4
  <2> QED BY <1>4, <2>1 DEF Without
<1>6. \A c \in Stops : Without(c, a)
  <2> HIDE DEF Stops
  <2> QED BY <1>2, <1>5
<1>7. r = Some(Trim(a))
  <2>1. Without(QUOTE, a)
    BY <1>2, <1>5
  <2>2. JsonValue(TrimStart(a \o y)) = Some(Trim(a))
    BY <1>3, <1>6, <2>1, BareReads
  <2> QED BY <1>3, <2>2
<1>8. Trim(a) \in Seq(Chars) /\ IsPrefix(Trim(a), Trim(v))
  BY <1>2, <1>3, TrimPrefix, TrimText
<1> HIDE DEF r
<1>9. /\ POffs[i] <= Len(HeadText) => r = Some(Trim(v))
      /\ \E u \in Seq(Chars) : IsPrefix(u, Trim(v)) /\ r = Some(u)
  BY <1>3, <1>7, <1>8
<1>10. ReadsField(i, r)
  BY <1>9, Zenon DEF ReadsField, v
<1> QED BY <1>10 DEF r

(* one in quotes as it is, or not at all.                                  *)
LEMMA QuotedField ==
  ASSUME CraftKnown, written.generation = "Ksp2", NEW i \in 1..NFields, Fields[i].quoted,
         NEW w, NEW a \in Seq(Chars), NEW y \in Seq(Chars), LeftOf(i, w, a, y),
         Ksp2Laid
  PROVE  ReadsField(i, JsonValue(TrimStart(w)))
<1> DEFINE v == Fields[i].value
           raw == Raw(i)
           q == <<QUOTE>>
           r == JsonValue(TrimStart(w))
           h == Len(HeadText)
<1>1. RawShape(i)
  BY RawIs
<1>2. QuotedShape(raw, v) /\ v \in Seq(Chars) /\ Len(v) \in Nat /\ Without(QUOTE, v)
  BY <1>1, Zenon DEF RawShape
<1>3. /\ w = a \o y /\ IsPrefix(a, raw)
      /\ POffs[i] <= h => a = raw
      /\ POffs[i] > h => y = <<>> /\ Len(a) < Len(raw)
  BY Zenon DEF LeftOf
<1>4. raw = (q \o v) \o q
  BY DEF Raw, RawValue
<1>5. q \in Seq(Chars) /\ q # <<>> /\ Len(q) = 1 /\ q[1] = QUOTE
  <2>1. QUOTE \in Chars
    BY DEF Chars, Marks
  <2> QED BY <2>1, Singleton
<1>6. POffs[i] \in Nat /\ h \in Nat
  <2>1. FieldAt(i, POffs[i - 1], h) /\ ValueAt(i, POffs[i - 1], h)
    BY FieldIsAt
  <2> QED BY <2>1 DEF FieldAt, ValueAt
<1>7. ASSUME POffs[i] <= h
      PROVE  r = Some(v)
  <2> HIDE DEF v, raw, q
  <2>1. Joined(Chars, q, v) /\ Joined(Chars, q, y)
    BY <1>2, <1>5, ConcatText
  <2>2. Regroups(q, v, q, y)
    BY <1>2, <1>5, RegroupsFour
  <2>3. Assoc(q \o v, q, y)
    BY <1>5, <2>1, Associate, Zenon DEF Joined
  <2>4. Assoc(q, v, q \o y)
    BY <1>2, <1>5, <2>1, Associate, Zenon DEF Joined
  <2>5. w = q \o (v \o (q \o y))
    <3>1. w = ((q \o v) \o q) \o y
      BY <1>3, <1>4, <1>7
    <3> QED BY <2>3, <2>4, <3>1, Zenon DEF Assoc
  <2>6. Joined(Chars, v, q \o y)
    BY <1>2, <2>1, ConcatText, Zenon DEF Joined
  <2>7. QuoteReads(v \o (q \o y), JsonValue(TrimStart(<<QUOTE>> \o (v \o (q \o y)))))
    <3>1. v \o (q \o y) \in Seq(Chars)
      BY <2>6, Zenon DEF Joined
    <3> QED BY <3>1, QuotedReads
  <2>8. QuoteReads(v \o (q \o y), r)
    <3>1. w = <<QUOTE>> \o (v \o (q \o y))
      BY <2>5 DEF q
    <3> QED BY <2>7, <3>1
  <2>9. FirstOf(q, y)
    BY <1>5, FirstOfConcat
  <2>10. q \o y # <<>> /\ (q \o y)[1] = QUOTE
    BY <1>5, <2>9, Zenon DEF FirstOf
  <2>11. q \o y \in Seq(Chars)
    BY <2>1, Zenon DEF Joined
  <2> HIDE DEF r
  <2> QED BY <1>2, <2>8, <2>10, <2>11, Zenon DEF QuoteReads
<1>8. ASSUME POffs[i] > h
      PROVE  r = None \/ r = Some(<<>>)
  <2> HIDE DEF v, raw, q
  <2>1. w = a /\ Len(a) < Len(raw)
    <3>1. a \o y = a
      BY <1>3, <1>8, ConcatEmptySeq
    <3> QED BY <1>3, <1>8, <3>1
  <2>2. CASE a = <<>>
    <3>1. JsonValue(TrimStart(a)) = Some(a)
      BY <2>2, NothingReads
    <3> QED BY <2>1, <2>2, <3>1
  <2>3. CASE a # <<>>
    <3> DEFINE x == SubSeq(a, 1, 1)
               s == From(a, 1 + 1)
    <3>1. Len(a) \in Nat \ {0} /\ raw \in Seq(Chars) /\ Len(raw) \in Nat
      <4>1. raw \in Seq(Chars)
        BY <1>2 DEF QuotedShape
      <4>2. Len(a) # 0
        BY <2>3, EmptySeq
      <4> QED BY <4>1, <4>2, LenProperties
    <3>2. 1 \in 0..Len(a)
      BY ONLY <3>1
    <3>3. /\ x \in Seq(Chars) /\ Len(x) = 1 /\ \A k \in 1..1 : x[k] = a[k]
          /\ s \in Seq(Chars) /\ Len(s) = Len(a) - 1 /\ \A k \in 1..(Len(a) - 1) : s[k] = a[1 + k]
          /\ a = x \o s
      BY <3>2, FallsInTwo
    <3> HIDE DEF x, s
    <3>4. \A k \in 1..Len(a) : a[k] = raw[k]
      BY <1>3, <3>1, PrefixIs
    <3>5. /\ Len(raw) = Len(v) + 2 /\ raw[1] = QUOTE
          /\ \A k \in 1..Len(v) : raw[k + 1] = v[k] /\ v[k] # QUOTE
      BY <1>2 DEF QuotedShape, Without
    <3>6. x = q
      <4>1. x[1] = QUOTE
        <5>1. 1 \in 1..Len(a) /\ 1 \in 1..1
          BY ONLY <3>1
        <5> QED BY <3>3, <3>4, <3>5, <5>1
      <4>2. \A k \in 1..1 : k = 1
        OBVIOUS
      <4>3. Len(x) = Len(q) /\ \A k \in 1..Len(x) : x[k] = q[k]
        BY <1>5, <3>3, <4>1, <4>2
      <4> QED BY <1>5, <3>3, <4>3, SeqEqual
    <3>7. Without(QUOTE, s)
      <4> SUFFICES ASSUME NEW k \in 1..(Len(a) - 1)
                   PROVE  s[k] # QUOTE
        BY <3>3 DEF Without
      <4>1. k \in 1..Len(v) /\ 1 + k \in 1..Len(a) /\ 1 + k = k + 1
        BY ONLY <1>2, <2>1, <3>1, <3>5, k \in 1..(Len(a) - 1)
      <4>2. s[k] = raw[k + 1]
        BY <3>3, <3>4, <4>1
      <4> QED BY <3>5, <4>1, <4>2
    <3>8. QuoteReads(s, JsonValue(TrimStart(<<QUOTE>> \o s)))
      BY <3>3, QuotedReads
    <3>9. w = <<QUOTE>> \o s
      BY <2>1, <3>3, <3>6 DEF q
    <3>10. r = None
      BY <3>7, <3>8, <3>9, Zenon DEF QuoteReads
    <3> QED BY <3>10
  <2> QED BY <2>2, <2>3
<1> HIDE DEF r
<1>9. ReadsField(i, r)
  BY <1>7, <1>8, Zenon DEF ReadsField, v, h
<1> QED BY <1>9 DEF r

(* No number lies in 1..0.                                                 *)
LEMMA NoneBelowOne == \A k \in 1..0 : FALSE
OBVIOUS

(* JsonField looks behind the first key in quotes;                         *)
LEMMA JsonIs ==
  ASSUME Ksp2Laid, NEW key
  PROVE  JsonField(HeadText, key) =
           IF Occurrences(key) = {} THEN None
           ELSE JsonAfter(From(HeadText, Min(Occurrences(key)) + 3))
<1> DEFINE at == {i \in 1..(Len(HeadText) - 2) : SubSeq(HeadText, i, i + 2) = <<QUOTE, key, QUOTE>>}
<1>1. at = Occurrences(key)
  <2>1. HeadText \in Seq(Chars)
    BY DEF Ksp2Laid
  <2>2. ASSUME NEW i \in 1..(Len(HeadText) - 2)
        PROVE  SubSeq(HeadText, i, i + 2) = <<QUOTE, key, QUOTE>> <=> OccursAt(key, i)
    <3>1. ReadsThree(HeadText, i, QUOTE, key, QUOTE)
      BY <2>1, ThreeAt
    <3> QED BY <3>1, Zenon DEF OccursAt, ReadsThree
  <2> QED BY <2>2, Zenon DEF Occurrences
<1> DEFINE after == TrimStart(From(HeadText, Min(at) + 3))
<1>2. JsonField(HeadText, key) =
        IF at # {} /\ after # <<>> /\ after[1] = ":"
        THEN JsonValue(TrimStart(Tail(after))) ELSE None
  BY Zenon DEF JsonField
<1> HIDE DEF at
<1>3. JsonAfter(From(HeadText, Min(at) + 3)) =
        IF after # <<>> /\ after[1] = ":" THEN JsonValue(TrimStart(Tail(after))) ELSE None
  BY Zenon DEF JsonAfter
<1> HIDE DEF after
<1>4. JsonField(HeadText, key) =
        IF at = {} THEN None ELSE JsonAfter(From(HeadText, Min(at) + 3))
  BY <1>2, <1>3, Zenon
<1> QED BY <1>1, <1>4, Zenon

(* behind a value that reads like the key, it finds no colon.              *)
LEMMA AfterOther ==
  ASSUME NEW rest \in Seq(Chars), rest = <<>> \/ rest[1] \in {",", "}"}
  PROVE  JsonAfter(rest) = None
<1> DEFINE after == TrimStart(rest)
<1>1. ~(after # <<>> /\ after[1] = ":")
  <2> SUFFICES ASSUME after # <<>> PROVE after[1] # ":"
    OBVIOUS
  <2>1. /\ rest \in Seq(Chars) /\ 0 \in Nat
        /\ \A k \in 1..0 : k <= Len(rest) => rest[k] \in Blank
    BY NoneBelowOne
  <2>2. Len(rest) \in Nat /\ (0 + 1 <= Len(rest) => rest # <<>>) /\ 0 + 1 = 1
    <3>1. Len(rest) \in Nat /\ (rest = <<>> => Len(rest) = 0)
      BY LenProperties, EmptySeq
    <3> QED BY ONLY <3>1
  <2>3. 0 + 1 <= Len(rest) => rest[0 + 1] \notin Blank
    BY <2>2 DEF Blank
  <2> HIDE DEF after
  <2>4. 0 + 1 <= Len(rest) /\ after[1] = rest[0 + 1]
    BY <2>1, <2>3, FirstNotBlank DEF after
  <2>5. after[1] = rest[1] /\ rest # <<>>
    BY <2>2, <2>4
  <2> QED BY <2>5
<1> QED BY <1>1, Zenon DEF JsonAfter

(* The rest of a text from its next character on.                          *)
BeginsWith(S, s, n, c) ==
    From(s, n + 1) = <<c>> \o From(s, (n + 1) + 1) /\ From(s, (n + 1) + 1) \in Seq(S)

LEMMA NextCharacter ==
  ASSUME NEW S, NEW s \in Seq(S), NEW n \in Nat, n + 1 <= Len(s), NEW c, s[n + 1] = c
  PROVE  BeginsWith(S, s, n, c)
<1> DEFINE t == From(s, n + 1)
           x == SubSeq(t, 1, 1)
           u == From(t, 1 + 1)
           v == From(s, (n + 1) + 1)
<1>1. Len(s) \in Nat /\ n \in 0..Len(s) /\ n + 1 \in 0..Len(s)
  BY LenProperties
<1>2. t \in Seq(S) /\ Len(t) = Len(s) - n /\ \A i \in 1..(Len(s) - n) : t[i] = s[n + i]
  BY <1>1, FallsInTwo
<1>3. v \in Seq(S) /\ Len(v) = Len(s) - (n + 1) /\ \A i \in 1..(Len(s) - (n + 1)) : v[i] = s[(n + 1) + i]
  BY <1>1, FallsInTwo
<1> HIDE DEF t, v
<1>4. 1 \in 0..Len(t) /\ 1 \in 1..(Len(s) - n)
  BY <1>1, <1>2
<1>5. /\ x \in Seq(S) /\ Len(x) = 1 /\ \A i \in 1..1 : x[i] = t[i]
      /\ u \in Seq(S) /\ Len(u) = Len(t) - 1 /\ \A i \in 1..(Len(t) - 1) : u[i] = t[1 + i]
      /\ t = x \o u
  <2>1. t \in Seq(S) /\ 1 \in 0..Len(t)
    BY <1>2, <1>4
  <2> QED BY ONLY <2>1, FallsInTwo
<1> HIDE DEF x, u
<1>6. x = <<c>>
  <2>1. t[1] = c
    BY <1>2, <1>4
  <2>2. c \in S
    <3>1. n + 1 \in 1..Len(s)
      BY <1>1
    <3> QED BY <3>1, ElementOfSeq
  <2>3. <<c>> \in Seq(S) /\ Len(<<c>>) = 1 /\ <<c>>[1] = c
    BY <2>2, Singleton
  <2>4. x[1] = c
    <3>1. 1 \in 1..1
      OBVIOUS
    <3> QED BY <1>5, <2>1, <3>1
  <2>5. \A i \in 1..1 : i = 1
    OBVIOUS
  <2>6. \A i \in 1..Len(x) : x[i] = <<c>>[i]
    BY <1>5, <2>3, <2>4, <2>5
  <2> QED BY <1>5, <2>3, <2>6, SeqEqual
<1>7. u = v
  <2>1. Len(u) = Len(v)
    BY <1>1, <1>2, <1>3, <1>5
  <2>2. ASSUME NEW i \in 1..Len(u)
        PROVE  u[i] = v[i]
    <3>1. /\ i \in 1..(Len(t) - 1) /\ 1 + i \in 1..(Len(s) - n) /\ i \in 1..(Len(s) - (n + 1))
          /\ n + (1 + i) = (n + 1) + i
      BY <1>1, <1>2, <1>5
    <3> QED BY <1>2, <1>3, <1>5, <3>1
  <2> QED BY <1>3, <1>5, <2>1, <2>2, SeqEqual
<1> QED BY <1>3, <1>5, <1>6, <1>7 DEF BeginsWith, t, v

(* Nothing of a field is left,                                             *)
LEMMA NothingLeft ==
  ASSUME CraftKnown, written.generation = "Ksp2", NEW i \in 1..NFields, Ksp2Laid,
         Len(HeadText) < POffs[i - 1] + 6, NEW r, r = None \/ r = Some(<<>>)
  PROVE  ReadsField(i, r)
<1> DEFINE v == Trim(Fields[i].value)
           e == <<>>
<1>1. FieldAt(i, POffs[i - 1], Len(HeadText)) /\ ValueAt(i, POffs[i - 1], Len(HeadText))
  BY FieldIsAt
<1>2. ~(POffs[i] <= Len(HeadText))
  <2>1. /\ POffs[i - 1] \in Nat /\ Len(HeadText) \in Nat /\ Len(Raw(i)) \in Nat
        /\ POffs[i] = (POffs[i - 1] + 6) + Len(Raw(i))
    BY <1>1 DEF FieldAt, ValueAt
  <2> QED BY <2>1
<1>3. RawShape(i)
  BY RawIs
<1>4. v \in Seq(Chars)
  <2>1. Fields[i].value \in Seq(Chars)
    BY <1>3, Zenon DEF RawShape
  <2> QED BY <2>1, TrimText
<1>5. e \in Seq(Chars) /\ Len(e) = 0
  BY EmptyText
<1> HIDE DEF v, e
<1>6. IsPrefix(e, v)
  <2>1. Len(v) \in Nat /\ Len(e) <= Len(v)
    BY <1>4, <1>5, LenProperties
  <2>2. \A k \in 1..Len(e) : e[k] = v[k]
    BY <1>5, NoneBelowOne
  <2> QED BY <1>4, <1>5, <2>1, <2>2, PrefixIs
<1>7. r = None \/ r = Some(e)
  BY DEF e
<1> QED BY <1>2, <1>5, <1>6, <1>7, Zenon DEF ReadsField, v, e

(* or something is: what follows the colon is read.                        *)
LEMMA ValueReads ==
  ASSUME CraftKnown, written.generation = "Ksp2", NEW i \in 1..NFields, Ksp2Laid,
         POffs[i - 1] + 6 <= Len(HeadText)
  PROVE  ReadsField(i, JsonValue(TrimStart(From(HeadText, (POffs[i - 1] + 6) + 1))))
<1> DEFINE w == From(HeadText, (POffs[i - 1] + 6) + 1)
<1>1. PICK a \in Seq(Chars), y \in Seq(Chars) : LeftOf(i, w, a, y)
  BY ValueSplits
<1> HIDE DEF w
<1>2. CASE Fields[i].quoted
  <2>1. ReadsField(i, JsonValue(TrimStart(w)))
    BY <1>1, <1>2, QuotedField
  <2> QED BY <2>1 DEF w
<1>3. CASE ~Fields[i].quoted
  <2>1. ReadsField(i, JsonValue(TrimStart(w)))
    BY <1>1, <1>3, BareField
  <2> QED BY <2>1 DEF w
<1> QED BY <1>2, <1>3

(* Behind the key of a field, what is left of its value is read.           *)
LEMMA FieldReads ==
  ASSUME CraftKnown, written.generation = "Ksp2", NEW i \in 1..NFields, Ksp2Laid,
         POffs[i - 1] + 4 <= Len(HeadText)
  PROVE  ReadsField(i, JsonAfter(From(HeadText, (POffs[i - 1] + 4) + 1)))
<1> DEFINE b == POffs[i - 1]
           h == Len(HeadText)
           rest == From(HeadText, (b + 4) + 1)
           r == JsonAfter(rest)
           w == From(HeadText, ((b + 4) + 1) + 1)
           w2 == From(HeadText, (((b + 4) + 1) + 1) + 1)
<1>1. FieldAt(i, b, h) /\ ValueAt(i, b, h)
  BY FieldIsAt
<1>2. HeadText \in Seq(Chars)
  BY DEF Ksp2Laid
<1> HIDE DEF b, h, rest, r, w, w2
<1>3. b \in Nat /\ h \in Nat /\ b + 4 <= h
  BY <1>1 DEF FieldAt, b, h
<1>4. CASE h = b + 4
  <2>1. b + 4 \in 0..h /\ h - (b + 4) = 0
    BY ONLY <1>3, <1>4
  <2>2. rest \in Seq(Chars) /\ Len(rest) = 0
    <3>1. rest \in Seq(Chars) /\ Len(rest) = h - (b + 4)
      BY <1>2, <2>1, FallsInTwo DEF rest, h
    <3> QED BY <2>1, <3>1
  <2>3. rest = <<>>
    BY <2>2, EmptyText
  <2>4. r = None
    BY <2>2, <2>3, AfterOther DEF r
  <2>5. h < b + 6
    BY ONLY <1>3, <1>4
  <2>6. ReadsField(i, r)
    BY <2>4, <2>5, NothingLeft DEF b, h
  <2> QED BY <2>6 DEF r, rest, b
<1>5. ASSUME h # b + 4
      PROVE  r = JsonValue(TrimStart(w)) /\ w \in Seq(Chars)
  <2>1. b + 4 \in Nat /\ (b + 4) + 1 = b + 5 /\ b + 5 <= h
    BY ONLY <1>3, <1>5
  <2>2. HeadText[(b + 4) + 1] = ":"
    <3>1. HeadText[b + 5] = ":"
      BY <1>1, <2>1 DEF FieldAt
    <3> QED BY <2>1, <3>1
  <2>3. (b + 4) + 1 <= Len(HeadText)
    BY <2>1 DEF h
  <2>4. BeginsWith(Chars, HeadText, b + 4, ":")
    BY <1>2, <2>1, <2>2, <2>3, NextCharacter
  <2>5. rest = <<":">> \o w /\ w \in Seq(Chars)
    BY <2>4, Zenon DEF BeginsWith, rest, w
  <2>6. JsonAfter(<<":">> \o w) = JsonValue(TrimStart(w))
    BY <2>5, AfterColon
  <2> QED BY <2>5, <2>6 DEF r
<1>6. CASE h = b + 5
  <2>1. /\ (b + 4) + 1 \in 0..h /\ h - ((b + 4) + 1) = 0 /\ h # b + 4 /\ h < b + 6
    BY ONLY <1>3, <1>6
  <2>2. w \in Seq(Chars) /\ Len(w) = 0
    <3>1. w \in Seq(Chars) /\ Len(w) = h - ((b + 4) + 1)
      BY <1>2, <2>1, FallsInTwo DEF w, h
    <3> QED BY <2>1, <3>1
  <2>3. w = <<>>
    BY <2>2, EmptyText
  <2>4. r = Some(w)
    BY <1>5, <2>1, <2>3, NothingReads
  <2>5. ReadsField(i, r)
    BY <2>1, <2>3, <2>4, NothingLeft DEF b, h
  <2> QED BY <2>5 DEF r, rest, b
<1>7. CASE h # b + 4 /\ h # b + 5
  <2>1. (b + 4) + 1 \in Nat /\ ((b + 4) + 1) + 1 = b + 6 /\ b + 6 <= h
    BY ONLY <1>3, <1>7
  <2>2. HeadText[((b + 4) + 1) + 1] = " "
    <3>1. HeadText[b + 6] = " "
      BY <1>1, <2>1 DEF FieldAt
    <3> QED BY <2>1, <3>1
  <2>3. ((b + 4) + 1) + 1 <= Len(HeadText)
    BY <2>1 DEF h
  <2>4. BeginsWith(Chars, HeadText, (b + 4) + 1, " ")
    BY <1>2, <2>1, <2>2, <2>3, NextCharacter
  <2>5. w = <<" ">> \o w2 /\ w2 \in Seq(Chars)
    BY <2>4, Zenon DEF BeginsWith, w, w2
  <2>6. TrimStart(<<" ">> \o w2) = TrimStart(w2)
    <3> DEFINE o == <<" ">>
    <3>1. o \in Seq(Chars) /\ Len(o) = 1 /\ o[1] = " "
      <4>1. " " \in Chars
        BY DEF Chars, Marks, Blank
      <4> QED BY <4>1, Singleton
    <3> HIDE DEF o
    <3>2. AllIn(o, Blank)
      <4>1. \A k \in 1..1 : k = 1
        OBVIOUS
      <4>2. " " \in Blank
        BY DEF Blank
      <4> QED BY <3>1, <4>1, <4>2 DEF AllIn
    <3>3. TrimStart(o \o w2) = TrimStart(w2)
      BY <2>5, <3>1, <3>2, TrimStartAfterBlank
    <3> QED BY <3>3 DEF o
  <2>7. r = JsonValue(TrimStart(w2))
    BY <1>5, <1>7, <2>5, <2>6
  <2>8. w2 = From(HeadText, (POffs[i - 1] + 6) + 1)
    BY <2>1 DEF w2, b
  <2>9. POffs[i - 1] + 6 <= Len(HeadText)
    BY <2>1 DEF b, h
  <2>10. ReadsField(i, r)
    BY <2>7, <2>8, <2>9, ValueReads
  <2> QED BY <2>10 DEF r, rest, b
<1> QED BY <1>4, <1>6, <1>7

-----------------------------------------------------------------------------
(* KSP2: what is read of a key is one of its readings.                     *)

(* KSP2: what is read of a key.                                            *)
LEMMA Ksp2Reads ==
  ASSUME CraftKnown, written.generation = "Ksp2", NEW key, KeyLike(key)
  PROVE  JsonField(HeadText, key) \in Readings(key)
<1> DEFINE f == First(key)
           r == JsonField(HeadText, key)
           at == Occurrences(key)
           h == Len(HeadText)
<1>1. Ksp2Laid
  BY Ksp2IsLaid
<1>2. r = IF at = {} THEN None ELSE JsonAfter(From(HeadText, Min(at) + 3))
  BY <1>1, JsonIs
<1>3. NotFound(key, f) \/ FoundKey(key, f) \/ FoundValue(key, f)
  BY <1>1, FoundWhere
<1>4. IsFirst(f, NFields, KeyAt, key) /\ NFields \in Nat
  BY FirstIs DEF KeyLike, CraftKnown
<1>5. Has(key) <=> f # 0
  BY DEF Has
<1>6. f # 0 => f \in 1..NFields
  BY <1>4 DEF IsFirst
<1> HIDE DEF f, r, at
<1>7. ASSUME f # 0
      PROVE  Cut(key) <=> ~(POffs[f] <= h)
  <2>1. f \in 1..NFields
    BY <1>6, <1>7
  <2>2. Len(BytesTo(written, f)) = POffs[f]
    BY <2>1, Ksp2Bytes
  <2>3. Cut(key) <=> POffs[f] > HEAD_BYTES
    BY <2>2 DEF Cut, f
  <2>4. POffs[f] \in Nat /\ POffs[NFields] \in Nat /\ POffs[f] <= POffs[NFields]
    <3>1. Ksp2Offs
      BY Ksp2OffsAre
    <3>2. f \in 0..NFields /\ NFields \in f..NFields /\ NFields \in 0..NFields
      BY <1>4, <2>1
    <3> QED BY <3>1, <3>2 DEF Ksp2Offs
  <2>5. h \in Nat /\ (h = POffs[NFields] + 1 \/ h = HEAD_BYTES) /\ h <= HEAD_BYTES
    BY <1>1 DEF Ksp2Laid
  <2>6. HEAD_BYTES \in Nat
    BY HeadAssumption
  <2> HIDE DEF h
  <2>7. POffs[f] > HEAD_BYTES <=> ~(POffs[f] <= h)
    BY ONLY <2>4, <2>5, <2>6
  <2> QED BY <2>3, <2>7 DEF h
<1>8. CASE NotFound(key, f)
  <2>1. r = None
    BY <1>2, <1>8 DEF NotFound, at
  <2>2. Has(key) => Cut(key)
    <3> SUFFICES ASSUME f # 0 PROVE Cut(key)
      BY <1>5
    <3>1. f \in 1..NFields
      BY <1>6
    <3>2. FieldAt(f, POffs[f - 1], h) /\ ValueAt(f, POffs[f - 1], h)
      BY <1>1, <3>1, FieldIsAt
    <3>3. /\ POffs[f - 1] \in Nat /\ h \in Nat /\ Len(Raw(f)) \in Nat
          /\ POffs[f] = (POffs[f - 1] + 6) + Len(Raw(f))
      BY <3>2 DEF FieldAt, ValueAt
    <3>4. h < POffs[f - 1] + 4
      BY <1>8 DEF NotFound
    <3> HIDE DEF h
    <3>5. ~(POffs[f] <= h)
      BY ONLY <3>3, <3>4
    <3> QED BY <1>7, <3>5
  <2> QED BY <2>1, <2>2, ReadingIs DEF Visible, r
<1>9. CASE FoundValue(key, f)
  <2>1. at # {} /\ (f = 0 \/ Hidden(key))
    BY <1>9 DEF FoundValue, at
  <2>2. PICK i \in 1..NFields : LikeKey(i, key, Min(at))
    BY <1>9 DEF FoundValue, at
  <2>3. FieldAt(i, POffs[i - 1], h) /\ ValueAt(i, POffs[i - 1], h)
    BY <1>1, FieldIsAt
  <2>4. /\ Min(at) = POffs[i - 1] + 7 /\ POffs[i] = POffs[i - 1] + 9 /\ POffs[i] <= h
    BY <2>2 DEF LikeKey
  <2>5. /\ POffs[i - 1] \in Nat /\ h \in Nat
        /\ (POffs[i] + 1 <= h => HeadText[POffs[i] + 1] \in {",", "}"})
    BY <2>3 DEF FieldAt, ValueAt
  <2> DEFINE p == POffs[i]
             rest == From(HeadText, p + 1)
  <2>6. p \in 0..h /\ Min(at) + 3 = p + 1
    <3>1. POffs[i - 1] \in Nat /\ h \in Nat
      BY <2>5
    <3> HIDE DEF h, at
    <3> QED BY ONLY <2>4, <3>1
  <2>7. HeadText \in Seq(Chars)
    BY <1>1 DEF Ksp2Laid
  <2>8. p + 1 <= h => HeadText[p + 1] \in {",", "}"}
    BY <2>5
  <2> HIDE DEF p, rest
  <2>9. rest \in Seq(Chars) /\ Len(rest) = h - p /\ \A k \in 1..(h - p) : rest[k] = HeadText[p + k]
    BY <2>6, <2>7, FallsInTwo DEF rest
  <2>10. rest = <<>> \/ rest[1] \in {",", "}"}
    <3>1. CASE p = h
      <4>1. Len(rest) = 0
        BY <2>6, <2>9, <3>1
      <4> QED BY <2>9, <4>1, EmptyText
    <3>2. CASE p # h
      <4>1. 1 \in 1..(h - p) /\ p + 1 <= h
        BY <2>6, <3>2
      <4> QED BY <2>8, <2>9, <4>1
    <3> QED BY <3>1, <3>2
  <2>11. JsonAfter(rest) = None
    BY <2>9, <2>10, AfterOther
  <2>12. r = None
    BY <1>2, <2>1, <2>6, <2>11 DEF rest
  <2>13. ~Has(key) \/ Hidden(key)
    BY <1>5, <2>1
  <2> QED BY <2>12, <2>13, ReadingIs DEF Visible, r
<1>10. CASE FoundKey(key, f)
  <2>1. /\ at # {} /\ f # 0 /\ ~Hidden(key) /\ Min(at) = POffs[f - 1] + 2
        /\ POffs[f - 1] + 4 <= h
    BY <1>10 DEF FoundKey, at
  <2>2. f \in 1..NFields
    BY <1>6, <2>1
  <2>3. FieldAt(f, POffs[f - 1], h)
    BY <1>1, <2>2, FieldIsAt
  <2>4. Min(at) + 3 = (POffs[f - 1] + 4) + 1
    <3>1. POffs[f - 1] \in Nat
      BY <2>3 DEF FieldAt
    <3> QED BY <2>1, <3>1
  <2>5. ReadsField(f, JsonAfter(From(HeadText, (POffs[f - 1] + 4) + 1)))
    BY <1>1, <2>1, <2>2, FieldReads
  <2>6. ReadsField(f, r)
    BY <1>2, <2>1, <2>4, <2>5
  <2> DEFINE v == Trim(Fields[f].value)
  <2>7. v \in Seq(Chars)
    <3>1. RawShape(f)
      BY <2>2, RawIs
    <3>2. Fields[f].value \in Seq(Chars)
      BY <3>1, Zenon DEF RawShape
    <3> QED BY <3>2, TrimText
  <2>8. /\ Quoted(key) <=> Fields[f].quoted
        /\ Value(key) = IF Fields[f].quoted THEN Fields[f].value ELSE v
    BY Zenon DEF Quoted, Value, Fields, f
  <2> HIDE DEF v
  <2>9. POffs[f] <= h => r = Some(Value(key))
    BY <2>6, <2>8, Zenon DEF ReadsField, v
  <2>10. ~(POffs[f] <= h) =>
           r = None \/ \E u \in (IF Quoted(key) THEN {<<>>} ELSE Prefixes(Value(key))) : r = Some(u)
    <3> SUFFICES ASSUME ~(POffs[f] <= h)
                 PROVE  r = None \/ \E u \in (IF Quoted(key) THEN {<<>>} ELSE Prefixes(Value(key))) : r = Some(u)
      OBVIOUS
    <3>0. POffs[f] > h
      <4>1. ValueAt(f, POffs[f - 1], h)
        BY <1>1, <2>2, FieldIsAt
      <4>2. POffs[f] \in Nat /\ h \in Nat
        BY <2>3, <4>1 DEF ValueAt, FieldAt
      <4> HIDE DEF h
      <4> QED BY <4>2
    <3>1. CASE Fields[f].quoted
      <4>1. r = None \/ r = Some(<<>>)
        BY <2>6, <3>0, <3>1, Zenon DEF ReadsField
      <4> QED BY <2>8, <3>1, <4>1, Zenon
    <3>2. CASE ~Fields[f].quoted
      <4>1. r = None \/ \E u \in Seq(Chars) : IsPrefix(u, v) /\ r = Some(u)
        BY <2>6, <3>0, <3>2, Zenon DEF ReadsField, v
      <4>2. r = None \/ \E u \in Prefixes(v) : r = Some(u)
        BY <2>7, <4>1, PrefixAmong
      <4> QED BY <2>8, <3>2, <4>2, Zenon
    <3> QED BY <3>1, <3>2
  <2>11. Has(key) /\ ~Hidden(key)
    BY <1>5, <2>1
  <2>12. Cut(key) <=> ~(POffs[f] <= h)
    BY <1>7, <2>1
  <2> HIDE DEF h
  <2>13. /\ ~Has(key) \/ Hidden(key) => r = None
         /\ Has(key) /\ Visible(key) => r = Some(Value(key))
         /\ Has(key) /\ ~Hidden(key) /\ Cut(key) =>
              r = None \/ \E u \in (IF Quoted(key) THEN {<<>>} ELSE Prefixes(Value(key))) : r = Some(u)
    BY <2>9, <2>10, <2>11, <2>12 DEF Visible
  <2> QED BY <2>13, ReadingIs DEF r
<1> QED BY <1>3, <1>8, <1>9, <1>10

(* The generation of a KSP2 craft is told by its first character.          *)
LEMMA Ksp2IsJson ==
  ASSUME CraftKnown, written.generation = "Ksp2"
  PROVE  LooksLikeKsp2(HeadText)
<1>1. HeadText \in Seq(Chars) /\ HeadText[1] = "{" /\ HeadText # <<>>
  <2>1. Ksp2Laid
    BY Ksp2IsLaid
  <2>2. /\ HeadText \in Seq(Chars) /\ HeadText[1] = "{"
        /\ (Len(HeadText) = POffs[NFields] + 1 \/ Len(HeadText) = HEAD_BYTES)
    BY <2>1 DEF Ksp2Laid
  <2>3. POffs[NFields] \in Nat
    <3>1. Ksp2Offs
      BY Ksp2OffsAre
    <3> QED BY <3>1 DEF Ksp2Offs
  <2>4. Len(HeadText) # 0
    <3>1. Len(HeadText) = POffs[NFields] + 1 \/ Len(HeadText) = HEAD_BYTES
      BY <2>2
    <3>2. HEAD_BYTES \in Nat \ {0}
      BY HeadAssumption
    <3> QED BY ONLY <2>3, <3>1, <3>2
  <2> QED BY <2>2, <2>4, EmptySeq
<1> DEFINE text == TrimStart(HeadText)
<1>2. text = HeadText
  <2>1. HeadText[1] \notin Blank
    BY <1>1 DEF Blank
  <2> QED BY <1>1, <2>1, TrimStartText
<1> HIDE DEF text
<1>3. text # <<>> /\ text[1] \in {"{", "["}
  BY <1>1, <1>2
<1> QED BY <1>3, Zenon DEF LooksLikeKsp2, text

-----------------------------------------------------------------------------
(* What a reading says, and what names a hangar.                           *)

(* What a reading is: the value, a part of it, or nothing.                 *)
ReadingSays(key, r) ==
    /\ \/ r = None
       \/ Has(key) /\ \E v \in Seq(STRING) : r = Some(v) /\ IsPrefix(v, Value(key))
    /\ Has(key) /\ Visible(key) => r = Some(Value(key))
    /\ ~Has(key) => r = None

(* Each reading says so.                                                   *)
LEMMA ReadingsSay ==
  ASSUME CraftKnown, NEW key \in Chars, NEW r \in Readings(key)
  PROVE  ReadingSays(key, r)
<1> DEFINE V == Value(key)
           T == IF Quoted(key) THEN {<<>>} ELSE Prefixes(V)
           e == <<>>
<1>1. Readings(key) = CASE ~Has(key) \/ Hidden(key) -> {None}
                        [] Has(key) /\ Visible(key) -> {Some(V)}
                        [] OTHER -> {None} \cup {Some(v) : v \in T}
  BY DEF Readings, T
<1>2. Has(key) => V \in Seq(STRING)
  <2>1. IsFirst(First(key), NFields, KeyAt, key)
    BY FirstIs
  <2> SUFFICES ASSUME First(key) # 0 PROVE V \in Seq(STRING)
    BY DEF Has
  <2>2. First(key) \in 1..NFields
    <3>1. NFields \in Nat
      BY DEF CraftKnown
    <3> QED BY <2>1, <3>1 DEF IsFirst
  <2> DEFINE u == Fields[First(key)].value
  <2>3. u \in Seq(STRING)
    BY <2>2 DEF CraftKnown
  <2>4. V = IF Quoted(key) THEN u ELSE Trim(u)
    BY Zenon DEF Value, Fields
  <2> HIDE DEF u, V
  <2>5. Trim(u) \in Seq(STRING)
    BY <2>3, TrimText
  <2> QED BY <2>3, <2>4, <2>5
<1>3. \A v \in T : Has(key) => v \in Seq(STRING) /\ IsPrefix(v, V)
  <2> SUFFICES ASSUME NEW v \in T, Has(key) PROVE v \in Seq(STRING) /\ IsPrefix(v, V)
    OBVIOUS
  <2>1. V \in Seq(STRING) /\ Len(V) \in Nat
    BY <1>2, LenProperties
  <2> HIDE DEF V
  <2>2. \E l \in 0..Len(V) : v = SubSeq(V, 1, l)
    <3>1. CASE Quoted(key)
      <4>1. v = e
        BY <3>1
      <4>2. SubSeq(V, 1, 0) = e
        BY <2>1, FallsInTwo, EmptyText DEF e
      <4>3. 0 \in 0..Len(V)
        BY <2>1
      <4> QED BY <4>1, <4>2, <4>3
    <3>2. CASE ~Quoted(key)
      BY <3>2 DEF Prefixes
    <3> QED BY <3>1, <3>2
  <2>3. PICK l \in 0..Len(V) : v = SubSeq(V, 1, l)
    BY <2>2
  <2>4. v \in Seq(STRING) /\ Len(v) = l /\ \A i \in 1..l : v[i] = V[i]
    <3>1. /\ SubSeq(V, 1, l) \in Seq(STRING) /\ Len(SubSeq(V, 1, l)) = l
          /\ \A i \in 1..l : SubSeq(V, 1, l)[i] = V[i]
      BY <2>1, FallsInTwo
    <3> QED BY <2>3, <3>1
  <2>5. Len(v) <= Len(V)
    BY <2>1, <2>4
  <2> QED BY <2>1, <2>4, <2>5, PrefixIs
<1> HIDE DEF T, V
<1>4. IsPrefix(V, V) \/ ~Has(key)
  <2> SUFFICES ASSUME Has(key) PROVE IsPrefix(V, V)
    OBVIOUS
  <2>1. V \in Seq(STRING) /\ Len(V) \in Nat /\ Len(V) <= Len(V)
    BY <1>2, LenProperties
  <2> QED BY <2>1, PrefixIs
<1>5. CASE ~Has(key) \/ Hidden(key)
  <2>1. ~(Has(key) /\ Visible(key))
    BY <1>5 DEF Visible
  <2>2. Readings(key) = {None}
    BY <1>1, <1>5, <2>1
  <2>3. r = None
    BY <2>2
  <2> QED BY <2>1, <2>3, Zenon DEF ReadingSays
<1>6. CASE Has(key) /\ Visible(key)
  <2>1. ~(~Has(key) \/ Hidden(key))
    BY <1>6 DEF Visible
  <2>2. Readings(key) = {Some(V)}
    BY <1>1, <1>6, <2>1
  <2>3. r = Some(V)
    BY <2>2
  <2> QED BY <1>2, <1>4, <1>6, <2>3, Zenon DEF ReadingSays, V
<1>7. CASE ~(Has(key) /\ Visible(key)) /\ ~(~Has(key) \/ Hidden(key))
  <2>1. Readings(key) = {None} \cup {Some(v) : v \in T}
    BY <1>1, <1>7
  <2>2. r = None \/ \E v \in T : r = Some(v)
    BY <2>1
  <2>3. r = None \/ \E v \in Seq(STRING) : r = Some(v) /\ IsPrefix(v, V)
    BY <1>3, <1>7, <2>2
  <2> QED BY <1>7, <2>3, Zenon DEF ReadingSays, V
<1> QED BY <1>5, <1>6, <1>7

(* Hangars.                                                                *)
LEMMA HangarNames ==
  ASSUME NEW option
  PROVE  ShipNamed(option) \in {"Vab", "Sph", "Unknown"}
<1> DEFINE vab == \E s \in option : EqIgnoreCase(s, <<"VAB">>)
           sph == \E s \in option : EqIgnoreCase(s, <<"SPH">>)
<1>1. ShipNamed(option) = CASE vab -> "Vab" [] sph -> "Sph" [] OTHER -> "Unknown"
  BY Zenon DEF ShipNamed
<1> HIDE DEF vab, sph
<1>2. CASE vab /\ ~sph
  BY <1>1, <1>2
<1>3. CASE sph /\ ~vab
  BY <1>1, <1>3
<1>4. CASE ~vab /\ ~sph
  BY <1>1, <1>4
<1>5. CASE vab /\ sph
  BY <1>1, <1>5
<1> QED BY <1>2, <1>3, <1>4, <1>5

(* The first component of a path that names a hangar.                      *)
LEMMA PathNames ==
  ASSUME NEW S, NEW p \in Seq(S)
  PROVE  /\ ShipTypeFromPath(p) \in {"Vab", "Sph", "Unknown"}
         /\ \A n \in 1..Len(p) :
              /\ ShipNamed(Some(p[n])) # "Unknown"
              /\ \A i \in 1..(n - 1) : ShipNamed(Some(p[i])) = "Unknown"
              => ShipTypeFromPath(p) = ShipNamed(Some(p[n]))
<1> DEFINE Named(c) == ShipNamed(Some(c)) # "Unknown"
           In == {i \in 1..Len(p) : Named(p[i])}
           f == IF In # {} THEN Min(In) ELSE 0
<1>1. ShipTypeFromPath(p) = IF f = 0 THEN "Unknown" ELSE ShipNamed(Some(p[f]))
  BY Zenon DEF ShipTypeFromPath, SelectInSeq
<1> HIDE DEF f
<1>2. ShipTypeFromPath(p) \in {"Vab", "Sph", "Unknown"}
  BY <1>1, HangarNames
<1>3. ASSUME NEW n \in 1..Len(p), Named(p[n]), \A i \in 1..(n - 1) : ~Named(p[i])
      PROVE  f = n
  <2> HIDE DEF Named
  <2>1. n \in In /\ In \subseteq Nat /\ In # {}
    BY <1>3
  <2>2. Min(In) \in In /\ \A i \in In : Min(In) <= i
    <3> HIDE DEF In
    <3> QED BY <2>1, MinOfNats
  <2>3. Min(In) \in 1..Len(p) /\ Named(p[Min(In)]) /\ Min(In) <= n
    BY <2>1, <2>2
  <2>4. f = Min(In)
    BY <2>1 DEF f
  <2> HIDE DEF In
  <2>5. f \in 1..Len(p) /\ f <= n /\ ~(f \in 1..(n - 1))
    BY <1>3, <2>3, <2>4
  <2>6. Len(p) \in Nat
    BY LenProperties
  <2> QED BY ONLY n \in 1..Len(p), <2>5, <2>6
<1>4. ASSUME NEW n \in 1..Len(p), Named(p[n]), \A i \in 1..(n - 1) : ~Named(p[i])
      PROVE  ShipTypeFromPath(p) = ShipNamed(Some(p[n]))
  <2>1. f = n
    BY <1>3, <1>4
  <2>2. n # 0
    OBVIOUS
  <2> QED BY <1>1, <2>1, <2>2
<1> QED BY <1>2, <1>4

-----------------------------------------------------------------------------
(* What load returns, and the theorems.                                    *)

(* What load returns, in terms of what was written.                        *)
MetadataSays(m) ==
    /\ \E name \in Readings(NameKey) : m.name = UnwrapOr(name, FileStem(Last(path)))
    /\ m.ksp_version \in Readings(VersionKey)
    /\ m.generation = written.generation
    /\ \E type \in Readings("type"), shipType \in Readings("shipType") :
         LET said == IF written.generation = "Ksp2" /\ type = None THEN shipType ELSE type
         IN m.ship_type = IF ShipNamed(said) = "Unknown" THEN ShipTypeFromPath(path)
                                                         ELSE ShipNamed(said)

(* ... and what parse_metadata returns, before the path is looked at.      *)
HeaderSays(m) ==
    /\ \E name \in Readings(NameKey) : m.name = UnwrapOr(name, FileStem(Last(path)))
    /\ m.ksp_version \in Readings(VersionKey)
    /\ m.generation = written.generation
    /\ \E type \in Readings("type"), shipType \in Readings("shipType") :
         LET said == IF written.generation = "Ksp2" /\ type = None THEN shipType ELSE type
         IN m.ship_type = ShipNamed(said)

(* The keys load asks for.                                                 *)
LEMMA KeysKnown ==
  /\ "ship" \in Chars /\ "version" \in Chars /\ "type" \in Chars /\ "shipType" \in Chars
  /\ "name" \in Chars /\ "gameVersion" \in Chars
  /\ KeyLike("name") /\ KeyLike("gameVersion") /\ KeyLike("type") /\ KeyLike("shipType")
<1>1. /\ "ship" \in Chars /\ "version" \in Chars /\ "type" \in Chars /\ "shipType" \in Chars
      /\ "name" \in Chars /\ "gameVersion" \in Chars
  BY DEF Chars, Keys
<1>2. /\ "name" \notin {QUOTE, ":", ",", "}"} /\ "gameVersion" \notin {QUOTE, ":", ",", "}"}
      /\ "type" \notin {QUOTE, ":", ",", "}"} /\ "shipType" \notin {QUOTE, ":", ",", "}"}
  BY DEF QUOTE
<1> QED BY <1>1, <1>2 DEF KeyLike

(* The generation is told, and each key read, as written.                  *)
LEMMA HeaderIs ==
  ASSUME CraftKnown
  PROVE  HeaderSays(ParseMetadata(Bytes, path))
<1> DEFINE stem == FileStem(Last(path))
           cfg(key) == CfgField(HeadText, key)
           json(key) == JsonField(HeadText, key)
           ksp1 == [name |-> UnwrapOr(cfg("ship"), stem), ksp_version |-> cfg("version"),
                    ship_type |-> ShipNamed(cfg("type")), generation |-> "Ksp1"]
           typed == IF json("type") = None THEN json("shipType") ELSE json("type")
           ksp2 == [name |-> UnwrapOr(json("name"), stem), ksp_version |-> json("gameVersion"),
                    ship_type |-> ShipNamed(typed), generation |-> "Ksp2"]
<1>1. ParseMetadata(Bytes, path) = IF LooksLikeKsp2(HeadText) THEN ksp2 ELSE ksp1
  BY Zenon DEF ParseMetadata, HeadText
<1> HIDE DEF stem
<1>2. CASE written.generation = "Ksp1"
  <2>1. \A key \in Chars : cfg(key) \in Readings(key)
    BY <1>2, Ksp1Reads
  <2> HIDE DEF cfg
  <2>2. ParseMetadata(Bytes, path) = ksp1
    BY <1>1, <1>2, Ksp1IsCfg
  <2>3. NameKey = "ship" /\ VersionKey = "version"
    BY <1>2, Zenon DEF NameKey, VersionKey, Key
  <2>4. /\ cfg("ship") \in Readings(NameKey) /\ cfg("version") \in Readings(VersionKey)
        /\ cfg("type") \in Readings("type") /\ cfg("shipType") \in Readings("shipType")
    BY <2>1, <2>3, KeysKnown
  <2>5. /\ ksp1.name = UnwrapOr(cfg("ship"), stem) /\ ksp1.ksp_version = cfg("version")
        /\ ksp1.ship_type = ShipNamed(cfg("type")) /\ ksp1.generation = "Ksp1"
    OBVIOUS
  <2> HIDE DEF ksp1
  <2>6. "Ksp1" # "Ksp2"
    OBVIOUS
  <2>7. HeaderSays(ksp1)
    BY <1>2, <2>4, <2>5, <2>6, Zenon DEF HeaderSays, stem
  <2> QED BY <2>2, <2>7
<1>3. CASE written.generation = "Ksp2"
  <2>1. \A key : KeyLike(key) => json(key) \in Readings(key)
    BY <1>3, Ksp2Reads
  <2>2. NameKey = "name" /\ VersionKey = "gameVersion"
    <3>1. "Ksp2" # "Ksp1"
      OBVIOUS
    <3> QED BY <1>3, <3>1, Zenon DEF NameKey, VersionKey, Key
  <2> HIDE DEF json
  <2>3. ParseMetadata(Bytes, path) = ksp2
    BY <1>1, <1>3, Ksp2IsJson
  <2>4. /\ json("name") \in Readings(NameKey) /\ json("gameVersion") \in Readings(VersionKey)
        /\ json("type") \in Readings("type") /\ json("shipType") \in Readings("shipType")
    BY <2>1, <2>2, KeysKnown
  <2>5. /\ ksp2.name = UnwrapOr(json("name"), stem) /\ ksp2.ksp_version = json("gameVersion")
        /\ ksp2.ship_type = ShipNamed(typed) /\ ksp2.generation = "Ksp2"
    OBVIOUS
  <2> HIDE DEF ksp2
  <2>6. HeaderSays(ksp2)
    BY <1>3, <2>4, <2>5, Zenon DEF HeaderSays, stem
  <2> QED BY <2>3, <2>6
<1> QED BY <1>2, <1>3 DEF CraftKnown

(* An unknown hangar is that of the path.                                  *)
LEMMA MetadataIs ==
  ASSUME CraftKnown
  PROVE  MetadataSays(Metadata(Bytes, path))
<1> DEFINE meta == ParseMetadata(Bytes, path)
           ship == IF meta.ship_type = "Unknown" THEN ShipTypeFromPath(path) ELSE meta.ship_type
           m == [meta EXCEPT !.ship_type = ship]
<1>1. Metadata(Bytes, path) = m
  BY Zenon DEF Metadata
<1>2. HeaderSays(meta)
  BY HeaderIs
<1>3. /\ DOMAIN meta = {"name", "ksp_version", "ship_type", "generation"}
  BY Zenon DEF ParseMetadata
<1>4. /\ m.name = meta.name /\ m.ksp_version = meta.ksp_version
      /\ m.generation = meta.generation /\ m.ship_type = ship
  <2> HIDE DEF meta, ship
  <2> QED BY <1>3
<1> HIDE DEF m
<1>5. MetadataSays(m)
  BY <1>2, <1>4, Zenon DEF HeaderSays, MetadataSays
<1> QED BY <1>1, <1>5

(* The invariant: what is loaded is what load computes of the file.        *)
LoadedIs ==
    \/ loaded = Unread
    \/ loaded = [result |-> "InvalidCraft"]
    \/ loaded = [result |-> "Ok", metadata |-> Metadata(Bytes, path)]

CraftInv ==
    /\ written \in Craft
    /\ path \in Paths
    /\ LoadedIs

(* It holds at the start, and every step keeps it.                         *)
LEMMA InitInv == Init => CraftInv
BY DEF Init, CraftInv, LoadedIs

LEMMA NextInv == CraftInv /\ [Next]_vars => CraftInv'
<1> SUFFICES ASSUME CraftInv, [Next]_vars
             PROVE  CraftInv'
  OBVIOUS
<1>1. written' = written /\ path' = path
  BY DEF Next, Load, vars
<1>2. Bytes' = Bytes
  BY <1>1 DEF Bytes
<1>3. Metadata(Bytes, path)' = Metadata(Bytes, path)
  BY <1>1, <1>2
<1>4. CASE Load
  <2>1. \/ loaded' = [result |-> "InvalidCraft"]
        \/ loaded' = [result |-> "Ok", metadata |-> Metadata(Bytes, path)]
    BY <1>4 DEF Load
  <2>2. LoadedIs'
    BY <1>3, <2>1 DEF LoadedIs
  <2> QED BY <1>1, <2>2 DEF CraftInv
<1>5. CASE UNCHANGED vars
  <2>1. loaded' = loaded
    BY <1>5 DEF vars
  <2>2. LoadedIs'
    BY <1>3, <2>1 DEF LoadedIs, CraftInv, Unread
  <2> QED BY <1>1, <2>2 DEF CraftInv
<1> QED BY <1>4, <1>5 DEF Next

(* The invariant holds: a craft is not changed by loading it, and what is  *)
(* loaded is what load computes of its bytes and its path.                 *)
THEOREM CraftInductive == Spec => []CraftInv
<1>1. Init => CraftInv
  BY InitInv
<1>2. CraftInv /\ [Next]_vars => CraftInv'
  BY NextInv
<1> QED BY <1>1, <1>2, PTL DEF Spec

(* Of a file that was loaded.                                              *)
LEMMA WhenLoaded ==
  ASSUME CraftInv
  PROVE  /\ CraftKnown
         /\ loaded.result \in {"unread", "InvalidCraft", "Ok"}
         /\ loaded.result = "Ok" => MetadataSays(loaded.metadata)
<1>1. CraftKnown
  BY CraftIsKnown DEF CraftInv
<1> DEFINE m == Metadata(Bytes, path)
<1>2. MetadataSays(m)
  BY <1>1, MetadataIs
<1> HIDE DEF m
<1>3. \/ loaded = [result |-> "unread"]
      \/ loaded = [result |-> "InvalidCraft"]
      \/ loaded = [result |-> "Ok", metadata |-> m]
  BY DEF CraftInv, LoadedIs, Unread, m
<1>4. loaded.result \in {"unread", "InvalidCraft", "Ok"}
  BY <1>3
<1>5. loaded.result = "Ok" => loaded.metadata = m
  BY <1>3
<1> QED BY <1>1, <1>2, <1>4, <1>5

(* unwrap_or.                                                              *)
Unwraps(option, default) ==
    /\ option = None => UnwrapOr(option, default) = default
    /\ \A v : option = Some(v) => UnwrapOr(option, default) = v

LEMMA UnwrapIs ==
  ASSUME NEW option, NEW default
  PROVE  Unwraps(option, default)
<1>1. ASSUME NEW v, option = Some(v)
      PROVE  UnwrapOr(option, default) = v
  BY <1>1 DEF UnwrapOr, Some, None
<1>2. option = None => UnwrapOr(option, default) = default
  BY DEF UnwrapOr
<1> QED BY <1>1, <1>2, Zenon DEF Unwraps

(* The name of the file is a text.                                         *)
LEMMA StemText ==
  ASSUME path \in Paths
  PROVE  FileStem(Last(path)) \in Seq(STRING)
<1>1. path \in Seq(Seq(STRING)) /\ path # <<>>
  BY CraftFileAssumption
<1> DEFINE file == Last(path)
<1>2. file \in Seq(STRING)
  BY <1>1, FrontText
<1> HIDE DEF file
<1>3. HasExtension(file) => Front(file) \in Seq(STRING)
  <2> SUFFICES ASSUME Len(file) > 1 PROVE Front(file) \in Seq(STRING)
    BY DEF HasExtension
  <2>1. file # <<>>
    BY <1>2, EmptySeq
  <2> QED BY <1>2, <2>1, FrontText
<1>4. FileStem(file) \in Seq(STRING)
  BY <1>2, <1>3 DEF FileStem
<1> QED BY <1>4 DEF file

(* What the name can be.                                                   *)
NameIs(name, stem) ==
    /\ name \in Seq(STRING)
    /\ \/ name = stem
       \/ Has(NameKey) /\ IsPrefix(name, Value(NameKey))
    /\ Has(NameKey) /\ Visible(NameKey) => name = Value(NameKey)
    /\ ~Has(NameKey) => name = stem

(* A reading of the name, or the name of the file.                         *)
LEMMA NameRead ==
  ASSUME CraftKnown, NEW stem \in Seq(STRING), NEW r \in Readings(NameKey)
  PROVE  NameIs(UnwrapOr(r, stem), stem)
<1> DEFINE name == UnwrapOr(r, stem)
<1>1. NameKey \in Chars
  BY KeysKnown DEF NameKey, Key
<1>2. ReadingSays(NameKey, r)
  BY <1>1, ReadingsSay
<1>3. Unwraps(r, stem)
  BY UnwrapIs
<1>4. /\ r = None => name = stem
      /\ \A v : r = Some(v) => name = v
  BY <1>3, Zenon DEF Unwraps
<1> HIDE DEF name
<1>5. \/ name = stem
      \/ /\ Has(NameKey) /\ IsPrefix(name, Value(NameKey))
         /\ name \in Seq(STRING)
  BY <1>2, <1>4, Zenon DEF ReadingSays
<1>6. /\ Has(NameKey) /\ Visible(NameKey) => name = Value(NameKey)
      /\ ~Has(NameKey) => name = stem
  BY <1>2, <1>4, Zenon DEF ReadingSays
<1>7. NameIs(name, stem)
  BY <1>5, <1>6, Zenon DEF NameIs
<1> QED BY <1>7 DEF name

(* The invariant implies the properties of the runs.                       *)
LEMMA CraftTypes == CraftInv => TypeOK
<1> SUFFICES ASSUME CraftInv PROVE TypeOK
  OBVIOUS
<1>1. /\ CraftKnown
      /\ loaded.result \in {"unread", "InvalidCraft", "Ok"}
      /\ loaded.result = "Ok" => MetadataSays(loaded.metadata)
  BY WhenLoaded
<1>2. written.fields \in Seq(Field) /\ path \in Paths
  BY <1>1 DEF CraftKnown, Fields, CraftInv
<1> DEFINE m == loaded.metadata
<1>3. ASSUME loaded.result = "Ok"
      PROVE  /\ m.name \in Seq(STRING)
             /\ m.ship_type \in {"Vab", "Sph", "Unknown"}
             /\ m.generation = written.generation
  <2>1. MetadataSays(m)
    BY <1>1, <1>3
  <2> DEFINE stem == FileStem(Last(path))
  <2>2. stem \in Seq(STRING)
    BY <1>2, StemText
  <2> HIDE DEF m, stem
  <2>3. PICK r \in Readings(NameKey) : m.name = UnwrapOr(r, stem)
    BY <2>1, Zenon DEF MetadataSays, stem
  <2>4. NameIs(UnwrapOr(r, stem), stem)
    BY <1>1, <2>2, NameRead
  <2>5. m.name \in Seq(STRING)
    BY <2>3, <2>4, Zenon DEF NameIs
  <2>6. m.ship_type \in {"Vab", "Sph", "Unknown"}
    <3>1. m.ship_type = ShipTypeFromPath(path) \/ \E said : m.ship_type = ShipNamed(said)
      <4>1. PICK type \in Readings("type"), shipType \in Readings("shipType") :
              LET said == IF written.generation = "Ksp2" /\ type = None THEN shipType ELSE type
              IN m.ship_type = IF ShipNamed(said) = "Unknown" THEN ShipTypeFromPath(path)
                                                              ELSE ShipNamed(said)
        BY <2>1, Zenon DEF MetadataSays
      <4> DEFINE said == IF written.generation = "Ksp2" /\ type = None THEN shipType ELSE type
      <4>2. m.ship_type = IF ShipNamed(said) = "Unknown" THEN ShipTypeFromPath(path)
                                                         ELSE ShipNamed(said)
        BY <4>1, Zenon
      <4> HIDE DEF said
      <4> QED BY <4>2, Zenon
    <3>2. path \in Seq(Seq(STRING))
      BY <1>2, CraftFileAssumption
    <3> QED BY <3>1, <3>2, HangarNames, PathNames
  <2>7. m.generation = written.generation
    BY <2>1, Zenon DEF MetadataSays
  <2> QED BY <2>5, <2>6, <2>7
<1> HIDE DEF m
<1> QED BY <1>1, <1>2, <1>3 DEF TypeOK, m

LEMMA CraftFields == CraftInv => FieldsRead /\ NothingInvented
<1> SUFFICES ASSUME CraftInv, loaded.result = "Ok" PROVE FieldsRead /\ NothingInvented
  BY DEF FieldsRead, NothingInvented
<1> DEFINE m == loaded.metadata
           stem == FileStem(Last(path))
<1>1. CraftKnown /\ MetadataSays(m)
  BY WhenLoaded
<1>2. stem \in Seq(STRING)
  BY StemText DEF CraftInv
<1> HIDE DEF m, stem
<1>3. PICK r \in Readings(NameKey) : m.name = UnwrapOr(r, stem)
  BY <1>1, Zenon DEF MetadataSays, stem
<1>4. NameIs(m.name, stem)
  BY <1>1, <1>2, <1>3, NameRead
<1>5. ReadingSays(VersionKey, m.ksp_version)
  <2>1. VersionKey \in Chars
    BY KeysKnown DEF VersionKey, Key
  <2>2. m.ksp_version \in Readings(VersionKey)
    BY <1>1, Zenon DEF MetadataSays
  <2> QED BY <1>1, <2>1, <2>2, ReadingsSay
<1>6. FieldsRead
  BY <1>4, <1>5, Zenon DEF FieldsRead, NameIs, ReadingSays, m, stem
<1>7. \A v \in m.ksp_version : Has(VersionKey) /\ IsPrefix(v, Value(VersionKey))
  <2>1. \/ m.ksp_version = None
        \/ /\ Has(VersionKey)
           /\ \E v \in Seq(STRING) : m.ksp_version = Some(v) /\ IsPrefix(v, Value(VersionKey))
    BY <1>5, Zenon DEF ReadingSays
  <2> QED BY <2>1 DEF None, Some
<1>8. NothingInvented
  BY <1>4, <1>7, Zenon DEF NothingInvented, NameIs, m, stem
<1> QED BY <1>6, <1>8

LEMMA CraftHangar == CraftInv => HangarKnown
<1> SUFFICES ASSUME CraftInv, loaded.result = "Ok",
                    Len(path) > 1, ShipNamed(Some(Hangar)) # "Unknown",
                    \A i \in 1..(Len(path) - 2) : ShipNamed(Some(path[i])) = "Unknown"
             PROVE  HangarKnown
  BY DEF HangarKnown
<1> DEFINE m == loaded.metadata
           n == Len(path) - 1
<1>1. MetadataSays(m)
  BY WhenLoaded
<1>2. path \in Seq(Seq(STRING)) /\ Len(path) \in Nat
  BY CraftFileAssumption, LenProperties DEF CraftInv
<1>3. n \in 1..Len(path) /\ n - 1 = Len(path) - 2
  BY <1>2
<1> HIDE DEF n
<1>4. ShipNamed(Some(path[n])) # "Unknown" /\ Hangar = path[n]
  BY DEF Hangar, n
<1>5. \A i \in 1..(n - 1) : ShipNamed(Some(path[i])) = "Unknown"
  BY <1>3
<1>6. ShipTypeFromPath(path) = ShipNamed(Some(Hangar))
  BY <1>2, <1>3, <1>4, <1>5, PathNames
<1> HIDE DEF m
<1>7. PICK type \in Readings("type"), shipType \in Readings("shipType") :
        LET said == IF written.generation = "Ksp2" /\ type = None THEN shipType ELSE type
        IN m.ship_type = IF ShipNamed(said) = "Unknown" THEN ShipTypeFromPath(path)
                                                        ELSE ShipNamed(said)
  BY <1>1, Zenon DEF MetadataSays
<1> DEFINE said == IF written.generation = "Ksp2" /\ type = None THEN shipType ELSE type
<1>8. m.ship_type = IF ShipNamed(said) = "Unknown" THEN ShipTypeFromPath(path) ELSE ShipNamed(said)
  BY <1>7, Zenon
<1> HIDE DEF said
<1>9. m.ship_type = ShipNamed(IF ShipNamed(said) = "Unknown" THEN Some(Hangar) ELSE said)
  BY <1>6, <1>8, Zenon
<1> QED BY <1>9, Zenon DEF HangarKnown, said, m

(* CraftFile is type correct: what load returns has a name that is text, a *)
(* hangar, and the generation of the game that wrote the file, which is    *)
(* never taken for one of the other game.  (parser.rs:18-47)               *)
THEOREM CraftTypeCorrect == Spec => []TypeOK
BY CraftInductive, CraftTypes, PTL

(* A field that ends within the part of the file that is parsed is read as *)
(* KSP wrote it, whatever the other fields hold, however many there are    *)
(* and in whatever order; a name that is missing is that of the file.      *)
(* (parser.rs:26-104)                                                      *)
THEOREM FieldsAreRead == Spec => []FieldsRead
BY CraftInductive, CraftFields, PTL

(* Nothing is read that KSP did not write there: what is read of a field   *)
(* that is cut or hidden begins its value.  (parser.rs:27, 91-104)         *)
THEOREM NothingIsInvented == Spec => []NothingInvented
BY CraftInductive, CraftFields, PTL

(* A craft is given the hangar that is read of it, and one that says none, *)
(* or none that is known, the hangar it lies in.  (craft/mod.rs:33-62,     *)
(* parser.rs:40-47)                                                        *)
THEOREM HangarIsKnown == Spec => []HangarKnown
BY CraftInductive, CraftHangar, PTL
=============================================================================
