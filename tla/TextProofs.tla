----------------------------- MODULE TextProofs -----------------------------
(***************************************************************************)
(* Lemmas on the operators of Text: what they return are texts again, and  *)
(* what has no blank at its ends is not trimmed.  Then lemmas on sequences *)
(* that several proofs need: induction over sets of numbers, recursive     *)
(* functions on them, folds, how a text splits in two, what trimming takes *)
(* off, and where the parts of a text lie that are strung together.        *)
(***************************************************************************)
EXTENDS Text, SequenceTheorems, WellFoundedInduction, TLAPS

(* A set of natural numbers has a least element; if it is bounded, also a  *)
(* greatest.                                                               *)
LEMMA MinOfNats ==
  ASSUME NEW S, S \subseteq Nat, S # {}
  PROVE  Min(S) \in S /\ \A n \in S : Min(S) <= n
<1>1. PICK m \in S : \A n \in S : ~(<<n, m>> \in OpToRel(<, Nat))
  BY NatLessThanWellFounded, WFMin, Zenon
<1>2. \A n \in S : ~(n < m)
  BY <1>1, Zenon DEF OpToRel
<1>3. \A n \in S : m <= n
  BY <1>2
<1> QED BY <1>3 DEF Min

LEMMA MaxOfNats ==
  ASSUME NEW S, NEW top \in Nat, S \subseteq 0..top, S # {}
  PROVE  Max(S) \in S /\ \A n \in S : n <= Max(S)
<1> DEFINE below == {top - n : n \in S}
<1>1. below \subseteq Nat /\ below # {}
  <2>1. \A n \in S : top - n \in Nat
    OBVIOUS
  <2> QED BY <2>1, Zenon
<1>2. Min(below) \in below /\ \A n \in below : Min(below) <= n
  <2> HIDE DEF below
  <2> QED BY <1>1, MinOfNats
<1>3. PICK m \in S : top - m = Min(below)
  BY <1>2
<1>4. \A n \in S : top - m <= top - n
  <2>1. \A n \in S : top - n \in below
    OBVIOUS
  <2> QED BY <1>2, <1>3, <2>1, Zenon
<1>5. \A n \in S : n <= m
  BY <1>4
<1> QED BY <1>5 DEF Max

-----------------------------------------------------------------------------
(* A piece of a text is a text. *)
LEMMA SubSeqText ==
  ASSUME NEW S, NEW s \in Seq(S), NEW m \in Nat \ {0}, NEW n \in 0..Len(s)
  PROVE  /\ SubSeq(s, m, n) \in Seq(S)
         /\ Len(SubSeq(s, m, n)) = IF m <= n THEN n - m + 1 ELSE 0
         /\ \A i \in 1..Len(SubSeq(s, m, n)) : SubSeq(s, m, n)[i] = s[m + i - 1]
<1>1. n \in Int /\ m \in Int /\ \A i \in m..n : s[i] \in S
  BY LenProperties, ElementOfSeq
<1> QED BY <1>1, SubSeqProperties

(* What is given element by element is a text. *)
LEMMA FunctionText ==
  ASSUME NEW S, NEW n \in Nat, NEW f \in [1..n -> S]
  PROVE  f \in Seq(S) /\ Len(f) = n
<1> DEFINE t == SubSeq(f, 1, n)
<1>1. \A i \in 1..n : f[i] \in S
  OBVIOUS
<1>2. /\ t \in Seq(S) /\ Len(t) = IF 1 <= n THEN n - 1 + 1 ELSE 0
      /\ \A i \in 1..(n - 1 + 1) : t[i] = f[1 + i - 1]
  BY <1>1, SubSeqProperties
<1>3. Len(t) = n /\ \A i \in 1..n : t[i] = f[i]
  <2> HIDE DEF t
  <2> QED BY <1>2
<1>4. t \in [1..n -> S]
  <2> HIDE DEF t
  <2> QED BY <1>2, <1>3, LenProperties
<1>5. t = f
  <2> HIDE DEF t
  <2> QED BY <1>3, <1>4
<1> HIDE DEF t
<1> QED BY <1>2, <1>3, <1>5

(* SelectInSeq and SelectLastInSeq, spelt out for membership in a set. *)
LEMMA SelectIs ==
  ASSUME NEW s, NEW T
  PROVE  LET In == {i \in 1..Len(s) : s[i] \in T}
             Out == {i \in 1..Len(s) : s[i] \notin T}
         IN /\ SelectInSeq(s, LAMBDA c : c \in T) = IF In # {} THEN Min(In) ELSE 0
            /\ SelectInSeq(s, LAMBDA c : c \notin T) = IF Out # {} THEN Min(Out) ELSE 0
            /\ SelectLastInSeq(s, LAMBDA c : c \notin T) = IF Out # {} THEN Max(Out) ELSE 0
  BY Zenon DEF SelectInSeq, SelectLastInSeq

LEMMA IndexIn ==
  ASSUME NEW S, NEW s \in Seq(S), NEW I \in SUBSET (1..Len(s))
  PROVE  /\ I # {} => Min(I) \in I /\ Max(I) \in I
         /\ (IF I # {} THEN Min(I) ELSE 0) \in 0..Len(s)
         /\ (IF I # {} THEN Max(I) ELSE 0) \in 0..Len(s)
<1>1. Len(s) \in Nat
  BY LenProperties
<1>2. I \subseteq Nat /\ I \subseteq 0..Len(s)
  BY <1>1
<1>3. I # {} => Min(I) \in I
  BY <1>2, MinOfNats
<1>4. I # {} => Max(I) \in I
  BY <1>1, <1>2, MaxOfNats
<1>5. I # {} => Min(I) \in 0..Len(s) /\ Max(I) \in 0..Len(s)
  BY <1>2, <1>3, <1>4
<1>6. 0 \in 0..Len(s)
  BY <1>1
<1> QED BY <1>3, <1>4, <1>5, <1>6, Zenon

-----------------------------------------------------------------------------
(* The pieces that Text cuts off are texts. *)
LEMMA FromText ==
  ASSUME NEW S, NEW s \in Seq(S), NEW i \in Nat \ {0}
  PROVE  From(s, i) \in Seq(S)
<1>1. Len(s) \in 0..Len(s)
  BY LenProperties
<1> QED BY <1>1, SubSeqText DEF From

LEMMA FrontText ==
  ASSUME NEW S, NEW s \in Seq(S), s # <<>>
  PROVE  Front(s) \in Seq(S) /\ Last(s) \in S
<1>1. Len(s) \in Nat \ {0}
  BY LenProperties, EmptySeq
<1>2. Len(s) - 1 \in 0..Len(s) /\ Len(s) \in 1..Len(s)
  BY <1>1
<1> QED BY <1>2, SubSeqText, ElementOfSeq DEF Front, Last

LEMMA Singleton ==
  ASSUME NEW S, NEW c \in S
  PROVE  <<c>> \in Seq(S) /\ <<c>> # <<>> /\ Len(<<c>>) = 1 /\ <<c>>[1] = c
OBVIOUS

LEMMA FrontOfConcat ==
  ASSUME NEW S, NEW s \in Seq(S), NEW c \in S
  PROVE  /\ s \o <<c>> \in Seq(S)
         /\ Len(s \o <<c>>) = Len(s) + 1
         /\ Last(s \o <<c>>) = c
         /\ Front(s \o <<c>>) = s
<1> DEFINE t == s \o <<c>>
<1>1. <<c>> \in Seq(S) /\ Len(<<c>>) = 1 /\ <<c>>[1] = c
  BY Singleton
<1>2. /\ t \in Seq(S) /\ Len(t) = Len(s) + Len(<<c>>)
      /\ \A i \in 1..(Len(s) + Len(<<c>>)) :
           t[i] = IF i <= Len(s) THEN s[i] ELSE <<c>>[i - Len(s)]
  BY <1>1, ConcatProperties
<1>3. Len(s) \in Nat
  BY LenProperties
<1> HIDE DEF t
<1>4. Last(t) = c
  BY <1>1, <1>2, <1>3 DEF Last
<1>5. Front(t) = SubSeq(t, 1, Len(s)) /\ Len(s) \in 0..Len(t)
  BY <1>1, <1>2, <1>3 DEF Front
<1>6. /\ Front(t) \in Seq(S) /\ Len(Front(t)) = Len(s)
      /\ \A i \in 1..Len(Front(t)) : Front(t)[i] = s[i]
  BY <1>1, <1>2, <1>3, <1>5, SubSeqText
<1>7. Front(t) = s
  BY <1>6, SeqEqual
<1> QED BY <1>1, <1>2, <1>4, <1>7 DEF t

(* A text that is read piece by piece. *)
LEMMA SubSeqExtends ==
  ASSUME NEW S, NEW s \in Seq(S), NEW at \in Nat, NEW n \in Nat, at + n <= Len(s)
  PROVE  SubSeq(s, 1, at) \o SubSeq(s, at + 1, at + n) = SubSeq(s, 1, at + n)
<1> DEFINE a == SubSeq(s, 1, at)
           b == SubSeq(s, at + 1, at + n)
           c == SubSeq(s, 1, at + n)
<1>1. Len(s) \in Nat
  BY LenProperties
<1>2. /\ at \in 0..Len(s) /\ at + n \in 0..Len(s)
      /\ 1 \in Nat \ {0} /\ at + 1 \in Nat \ {0}
  BY <1>1
<1>3. a \in Seq(S) /\ Len(a) = at /\ \A i \in 1..at : a[i] = s[i]
  BY <1>2, SubSeqText
<1>4. b \in Seq(S) /\ Len(b) = n /\ \A i \in 1..n : b[i] = s[at + i]
  BY <1>2, SubSeqText
<1>5. c \in Seq(S) /\ Len(c) = at + n /\ \A i \in 1..(at + n) : c[i] = s[i]
  BY <1>2, SubSeqText
<1> HIDE DEF a, b, c
<1>6. /\ a \o b \in Seq(S) /\ Len(a \o b) = at + n
      /\ \A i \in 1..(at + n) : (a \o b)[i] = IF i <= at THEN a[i] ELSE b[i - at]
  BY <1>3, <1>4, ConcatProperties
<1>7. \A i \in 1..(at + n) : (a \o b)[i] = c[i]
  <2> SUFFICES ASSUME NEW i \in 1..(at + n)
               PROVE  (a \o b)[i] = c[i]
    OBVIOUS
  <2>1. CASE i <= at
    BY <1>3, <1>5, <1>6, <2>1
  <2>2. CASE ~(i <= at)
    <3>1. i - at \in 1..n /\ at + (i - at) = i
      BY <2>2
    <3> QED BY <1>4, <1>5, <1>6, <2>2, <3>1
  <2> QED BY <2>1, <2>2
<1>8. a \o b = c
  BY <1>5, <1>6, <1>7, SeqEqual
<1> QED BY <1>8 DEF a, b, c

LEMMA UpToText ==
  ASSUME NEW S, NEW s \in Seq(S), NEW stops
  PROVE  UpTo(s, stops) \in Seq(S)
<1> DEFINE In == {j \in 1..Len(s) : s[j] \in stops}
           i == IF In # {} THEN Min(In) ELSE 0
<1>1. UpTo(s, stops) = IF i = 0 THEN s ELSE SubSeq(s, 1, i - 1)
  <2>1. SelectInSeq(s, LAMBDA c : c \in stops) = i
    BY SelectIs, Zenon
  <2> HIDE DEF i
  <2> QED BY <2>1, Zenon DEF UpTo
<1>2. i \in 0..Len(s)
  <2>1. In \in SUBSET (1..Len(s))
    OBVIOUS
  <2> HIDE DEF In
  <2> QED BY <2>1, IndexIn
<1>3. i # 0 => i - 1 \in 0..Len(s)
  <2> HIDE DEF i
  <2> QED BY <1>2, LenProperties
<1>4. i # 0 => SubSeq(s, 1, i - 1) \in Seq(S)
  <2> HIDE DEF i
  <2> QED BY <1>3, SubSeqText
<1> QED
  <2> HIDE DEF i
  <2> QED BY <1>1, <1>4

LEMMA TrimEndText ==
  ASSUME NEW S, NEW s \in Seq(S), NEW chars
  PROVE  /\ TrimEnd(s, chars) \in Seq(S)
         /\ s # <<>> /\ Last(s) \notin chars => TrimEnd(s, chars) = s
<1> DEFINE Out == {j \in 1..Len(s) : s[j] \notin chars}
           i == IF Out # {} THEN Max(Out) ELSE 0
<1>1. TrimEnd(s, chars) = SubSeq(s, 1, i)
  BY SelectIs, Zenon DEF TrimEnd
<1>2. Len(s) \in Nat /\ Out \in SUBSET (1..Len(s))
  BY LenProperties
<1>3. i \in 0..Len(s)
  <2> HIDE DEF Out
  <2> QED BY <1>2, IndexIn
<1>4. SubSeq(s, 1, i) \in Seq(S)
  <2> HIDE DEF i
  <2> QED BY <1>3, SubSeqText
<1>5. ASSUME s # <<>>, Last(s) \notin chars
      PROVE  i = Len(s)
  <2>1. Len(s) \in Out
    BY <1>2, <1>5, EmptySeq DEF Last
  <2>2. Out \subseteq 0..Len(s) /\ Out # {}
    BY <2>1, <1>2
  <2>3. Max(Out) \in Out /\ \A n \in Out : n <= Max(Out)
    <3> HIDE DEF Out
    <3> QED BY <1>2, <2>2, MaxOfNats
  <2>4. Max(Out) \in 1..Len(s) /\ Len(s) <= Max(Out)
    BY <2>1, <2>3
  <2> HIDE DEF Out
  <2> QED BY <1>2, <2>2, <2>4
<1>6. SubSeq(s, 1, Len(s)) = s
  BY SubSeqFull
<1> QED
  <2> HIDE DEF i
  <2> QED BY <1>1, <1>4, <1>5, <1>6

LEMMA TrimStartText ==
  ASSUME NEW S, NEW s \in Seq(S)
  PROVE  /\ TrimStart(s) \in Seq(S)
         /\ s # <<>> /\ s[1] \notin Blank => TrimStart(s) = s
<1> DEFINE Out == {j \in 1..Len(s) : s[j] \notin Blank}
           i == IF Out # {} THEN Min(Out) ELSE 0
<1>1. TrimStart(s) = IF i = 0 THEN <<>> ELSE From(s, i)
  <2>1. SelectInSeq(s, LAMBDA c : c \notin Blank) = i
    BY SelectIs, Zenon
  <2> HIDE DEF i
  <2> QED BY <2>1, Zenon DEF TrimStart
<1>2. Len(s) \in Nat /\ Out \in SUBSET (1..Len(s))
  BY LenProperties
<1>3. i \in 0..Len(s)
  <2> HIDE DEF Out
  <2> QED BY <1>2, IndexIn
<1>4. i # 0 => From(s, i) \in Seq(S)
  <2> HIDE DEF i
  <2> QED BY <1>2, <1>3, FromText
<1>5. ASSUME s # <<>>, s[1] \notin Blank
      PROVE  i = 1
  <2>1. 1 \in Out
    BY <1>2, <1>5, EmptySeq
  <2>2. Out \subseteq Nat /\ Out # {}
    BY <2>1, <1>2
  <2>3. Min(Out) \in Out /\ \A n \in Out : Min(Out) <= n
    <3> HIDE DEF Out
    <3> QED BY <2>2, MinOfNats
  <2>4. Min(Out) \in 1..Len(s) /\ Min(Out) <= 1
    BY <2>1, <2>3
  <2> HIDE DEF Out
  <2> QED BY <1>2, <2>2, <2>4
<1>6. From(s, 1) = s /\ <<>> \in Seq(S)
  BY SubSeqFull, EmptySeq DEF From
<1> QED
  <2> HIDE DEF i
  <2> QED BY <1>1, <1>4, <1>5, <1>6

(* trim. *)
LEMMA TrimText ==
  ASSUME NEW S, NEW s \in Seq(S)
  PROVE  /\ Trim(s) \in Seq(S)
         /\ s # <<>> /\ s[1] \notin Blank /\ Last(s) \notin Blank => Trim(s) = s
<1>1. TrimEnd(s, Blank) \in Seq(S)
  BY TrimEndText
<1>2. Trim(s) \in Seq(S)
  BY <1>1, TrimStartText DEF Trim
<1>3. ASSUME s # <<>>, s[1] \notin Blank, Last(s) \notin Blank
      PROVE  Trim(s) = s
  BY <1>3, TrimEndText, TrimStartText DEF Trim
<1> QED BY <1>2, <1>3

-----------------------------------------------------------------------------
(* Induction, for a set instead of a predicate: a set that holds 0 and with *)
(* every number its successor holds all of Nat.                            *)
LEMMA SetInduction ==
  ASSUME NEW T, 0 \in T, \A n \in Nat : n \in T => n + 1 \in T
  PROVE  \A n \in Nat : n \in T
<1> SUFFICES ASSUME NEW m \in Nat, m \notin T
             PROVE  FALSE
  OBVIOUS
<1> DEFINE missing == {n \in Nat : n \notin T}
<1>1. Min(missing) \in missing /\ \A n \in missing : Min(missing) <= n
  <2>1. missing \subseteq Nat /\ missing # {}
    OBVIOUS
  <2> HIDE DEF missing
  <2> QED BY <2>1, MinOfNats
<1>2. PICK x \in Nat : x \notin T /\ \A n \in missing : x <= n
  BY <1>1
<1>3. x # 0 /\ x - 1 \in Nat
  BY <1>2
<1>4. x - 1 \in T
  <2>1. x - 1 \notin missing
    <3> HIDE DEF missing
    <3> QED BY <1>2, <1>3
  <2> QED BY <2>1, <1>3
<1> QED BY <1>2, <1>3, <1>4

(* A function may be defined by recursion on a bounded index.              *)
Recurs(n, V, base, step) ==
    \E run \in [0..n -> V] : run[0] = base /\ \A i \in 1..n : run[i] = step[i][run[i - 1]]

LEMMA BoundedRecursion ==
  ASSUME NEW V, NEW base \in V, NEW n \in Nat, NEW step \in [1..n -> [V -> V]]
  PROVE  Recurs(n, V, base, step)
<1> DEFINE Good(k, run) ==
             run[0] = base /\ \A i \in 1..k : run[i] = step[i][run[i - 1]]
           T == {k \in Nat : k <= n => \E run \in [0..k -> V] : Good(k, run)}
<1>1. 0 \in T
  <2> DEFINE run == [i \in 0..0 |-> base]
  <2>1. run \in [0..0 -> V] /\ Good(0, run)
    OBVIOUS
  <2> QED BY <2>1
<1>2. ASSUME NEW k \in Nat, k \in T
      PROVE  k + 1 \in T
  <2> SUFFICES ASSUME k + 1 <= n
               PROVE  \E run \in [0..(k + 1) -> V] : Good(k + 1, run)
    OBVIOUS
  <2>1. PICK run \in [0..k -> V] : Good(k, run)
    BY <1>2
  <2> DEFINE longer == [i \in 0..(k + 1) |-> IF i <= k THEN run[i] ELSE step[k + 1][run[k]]]
  <2>2. step[k + 1][run[k]] \in V
    OBVIOUS
  <2>3. longer \in [0..(k + 1) -> V]
    BY <2>2
  <2>4. longer[0] = base
    BY <2>1
  <2>5. ASSUME NEW i \in 1..(k + 1)
        PROVE  longer[i] = step[i][longer[i - 1]]
    <3>1. i - 1 \in 0..k /\ longer[i - 1] = run[i - 1]
      OBVIOUS
    <3>2. CASE i <= k
      <4>1. i \in 1..k /\ longer[i] = run[i]
        BY <3>2
      <4> HIDE DEF longer
      <4> QED BY <2>1, <3>1, <4>1
    <3>3. CASE ~(i <= k)
      <4>1. i = k + 1 /\ longer[i] = step[k + 1][run[k]] /\ i - 1 = k
        BY <3>3
      <4> HIDE DEF longer
      <4> QED BY <3>1, <4>1
    <3> QED BY <3>2, <3>3
  <2> HIDE DEF longer
  <2> QED BY <2>3, <2>4, <2>5
<1>3. n \in T
  <2> HIDE DEF T
  <2>1. \A k \in Nat : k \in T => k + 1 \in T
    BY <1>2
  <2> QED BY <1>1, <2>1, SetInduction
<1> QED BY <1>3 DEF Recurs

(* What MapThenFoldSet recurs on, when it takes the greatest first.        *)
LEMMA MaxOfInterval ==
  ASSUME NEW k \in Nat, NEW s, s \subseteq 1..(k + 1)
  PROVE  /\ k + 1 \in s => Max(s) = k + 1
         /\ s # {} => Max(s) \in s
         /\ s \ {k + 1} \subseteq 1..k
<1>1. s # {} => Max(s) \in s /\ \A i \in s : i <= Max(s)
  <2>1. s \subseteq 0..(k + 1) /\ k + 1 \in Nat
    OBVIOUS
  <2> QED BY <2>1, MaxOfNats
<1>2. s \ {k + 1} \subseteq 1..k
  OBVIOUS
<1>3. k + 1 \in s => Max(s) = k + 1
  <2> SUFFICES ASSUME k + 1 \in s
               PROVE  Max(s) = k + 1
    OBVIOUS
  <2>1. Max(s) \in 1..(k + 1) /\ k + 1 <= Max(s)
    BY <1>1
  <2> QED BY <2>1
<1> QED BY <1>1, <1>2, <1>3

Unfolds(iter, base, n, step) ==
    \A s \in SUBSET (1..n) :
      iter[s] = IF s = {} THEN base ELSE step[Max(s)][iter[s \ {Max(s)}]]

LEMMA FoldExists ==
  ASSUME NEW V, NEW base \in V, NEW n \in Nat, NEW step \in [1..n -> [V -> V]]
  PROVE  \E iter \in [SUBSET (1..n) -> V] : Unfolds(iter, base, n, step)
<1> DEFINE Good(k, iter) ==
             \A s \in SUBSET (1..k) :
               iter[s] = IF s = {} THEN base ELSE step[Max(s)][iter[s \ {Max(s)}]]
           Folds(k) == \E iter \in [SUBSET (1..k) -> V] : Good(k, iter)
           T == {k \in Nat : k <= n => Folds(k)}
<1>1. 0 \in T
  <2> DEFINE iter == [s \in SUBSET (1..0) |-> base]
  <2>1. \A s \in SUBSET (1..0) : s = {}
    OBVIOUS
  <2>2. iter \in [SUBSET (1..0) -> V] /\ Good(0, iter)
    BY <2>1
  <2>3. Folds(0)
    <3> HIDE DEF Good, iter
    <3> QED BY <2>2, Zenon
  <2> HIDE DEF Folds
  <2> QED BY <2>3
<1>2. ASSUME NEW k \in Nat, k \in T
      PROVE  k + 1 \in T
  <2> SUFFICES ASSUME k + 1 <= n
               PROVE  Folds(k + 1)
    <3> HIDE DEF Folds
    <3> QED OBVIOUS
  <2>0. Folds(k)
    <3> HIDE DEF Folds
    <3> QED BY <1>2
  <2>1. PICK iter \in [SUBSET (1..k) -> V] : Good(k, iter)
    BY <2>0, Zenon
  <2> DEFINE more == [s \in SUBSET (1..(k + 1)) |->
                        IF k + 1 \in s THEN step[k + 1][iter[s \ {k + 1}]] ELSE iter[s]]
  <2>2. \A s \in SUBSET (1..(k + 1)) : s \ {k + 1} \in SUBSET (1..k)
    OBVIOUS
  <2>3. \A s \in SUBSET (1..(k + 1)) : k + 1 \notin s => s \in SUBSET (1..k)
    OBVIOUS
  <2>4. step[k + 1] \in [V -> V]
    OBVIOUS
  <2>5. more \in [SUBSET (1..(k + 1)) -> V]
    BY <2>2, <2>3, <2>4
  <2>6. \A s \in SUBSET (1..k) : more[s] = iter[s]
    OBVIOUS
  <2>7. ASSUME NEW s \in SUBSET (1..(k + 1))
        PROVE  more[s] = IF s = {} THEN base ELSE step[Max(s)][more[s \ {Max(s)}]]
    <3>1. CASE k + 1 \in s
      <4>1. Max(s) = k + 1
        BY <3>1, MaxOfInterval
      <4>2. more[s] = step[k + 1][iter[s \ {k + 1}]]
        BY <3>1
      <4> HIDE DEF more
      <4> QED BY <2>2, <2>6, <3>1, <4>1, <4>2
    <3>2. CASE k + 1 \notin s
      <4>1. s \in SUBSET (1..k)
        BY <2>3, <3>2
      <4>2. s \ {Max(s)} \in SUBSET (1..k)
        BY <4>1
      <4>3. more[s] = iter[s] /\ more[s \ {Max(s)}] = iter[s \ {Max(s)}]
        BY <2>6, <4>1, <4>2
      <4> HIDE DEF more
      <4> QED BY <2>1, <4>1, <4>3
    <3> QED BY <3>1, <3>2
  <2> HIDE DEF more
  <2> QED BY <2>5, <2>7, Zenon
<1>3. n \in T
  <2> HIDE DEF T
  <2>1. \A k \in Nat : k \in T => k + 1 \in T
    BY <1>2
  <2> QED BY <1>1, <2>1, SetInduction
<1>4. Folds(n)
  <2> HIDE DEF Folds
  <2> QED BY <1>3
<1> QED BY <1>4, Zenon DEF Unfolds

LEMMA LastOfInterval ==
  ASSUME NEW i \in Nat \ {0}
  PROVE  1..i # {} /\ Max(1..i) = i /\ (1..i) \ {i} = 1..(i - 1)
<1>1. 1..i # {} /\ (1..i) \ {i} = 1..(i - 1)
  OBVIOUS
<1>2. Max(1..i) = i
  <2>1. PICK k \in Nat : i = k + 1
    <3>1. i - 1 \in Nat /\ i = (i - 1) + 1
      OBVIOUS
    <3> QED BY <3>1
  <2>2. 1..i \subseteq 1..(k + 1) /\ k + 1 \in 1..i
    BY <2>1
  <2> QED BY ONLY <2>1, <2>2, MaxOfInterval
<1> QED BY <1>1, <1>2

(* The greatest of what is left to fold is an index.                       *)
LEMMA MaxIsIndex ==
  ASSUME NEW n \in Nat, NEW s \in SUBSET (1..n), s # {}
  PROVE  Max(s) \in 1..n
<1>1. s \subseteq 0..n
  OBVIOUS
<1> QED BY <1>1, MaxOfNats

(* A front of a text and the one that is one element longer.               *)
LEMMA FrontGrows ==
  ASSUME NEW S, NEW s \in Seq(S), NEW k \in Nat, k < Len(s)
  PROVE  /\ SubSeq(s, 1, k) \in Seq(S) /\ Len(SubSeq(s, 1, k)) = k
         /\ s[k + 1] \in S
         /\ SubSeq(s, 1, k + 1) = Append(SubSeq(s, 1, k), s[k + 1])
<1> DEFINE a == SubSeq(s, 1, k)
           b == SubSeq(s, 1, k + 1)
<1>1. /\ Len(s) \in Nat /\ k \in 0..Len(s) /\ k + 1 \in 0..Len(s)
      /\ k + 1 \in 1..Len(s) /\ 1 \in Nat \ {0}
  BY LenProperties
<1>2. s[k + 1] \in S
  BY <1>1, ElementOfSeq
<1>3. a \in Seq(S) /\ Len(a) = k /\ \A i \in 1..k : a[i] = s[i]
  BY <1>1, SubSeqText
<1>4. b \in Seq(S) /\ Len(b) = k + 1 /\ \A i \in 1..(k + 1) : b[i] = s[i]
  BY <1>1, SubSeqText
<1> HIDE DEF a, b
<1> DEFINE c == Append(a, s[k + 1])
<1>5. /\ c \in Seq(S) /\ Len(c) = k + 1
      /\ \A i \in 1..k : c[i] = a[i]
      /\ c[k + 1] = s[k + 1]
  BY <1>2, <1>3, AppendProperties
<1> HIDE DEF c
<1>6. \A i \in 1..(k + 1) : b[i] = c[i]
  <2> SUFFICES ASSUME NEW i \in 1..(k + 1)
               PROVE  b[i] = c[i]
    OBVIOUS
  <2>1. i \in 1..k \/ i = k + 1
    OBVIOUS
  <2> QED BY <1>3, <1>4, <1>5, <2>1
<1>7. b = c
  BY <1>4, <1>5, <1>6, SeqEqual
<1> QED BY <1>2, <1>3, <1>7 DEF a, b, c

(* Two texts that agree as a whole and in the length of their fronts agree *)
(* in their fronts and in what follows.                                    *)
LEMMA SplitsAlike ==
  ASSUME NEW S, NEW a \in Seq(S), NEW b \in Seq(S), NEW c \in Seq(S), NEW d \in Seq(S),
         a \o b = c \o d, Len(a) = Len(c)
  PROVE  a = c /\ b = d
<1>1. Len(a) \in Nat /\ Len(b) \in Nat /\ Len(d) \in Nat
  BY LenProperties
<1>2. \A i \in 1..Len(a) : a[i] = c[i]
  <2> SUFFICES ASSUME NEW i \in 1..Len(a)
               PROVE  a[i] = c[i]
    OBVIOUS
  <2>1. i \in 1..(Len(a) + Len(b)) /\ i \in 1..(Len(c) + Len(d)) /\ i <= Len(a) /\ i <= Len(c)
    BY <1>1
  <2>2. (a \o b)[i] = a[i] /\ (c \o d)[i] = c[i]
    BY <2>1, ConcatProperties
  <2> QED BY <2>2
<1>3. a = c
  BY <1>2, SeqEqual
<1>4. a \o b = a \o d
  BY <1>3
<1> QED BY <1>3, <1>4, ConcatSimplifications
-----------------------------------------------------------------------------
(* A fold over a text, as the sequence of its intermediate results: O takes *)
(* a result and the next element.                                          *)
Runs(run, s, base, O) ==
    run[0] = base /\ \A i \in 1..Len(s) : run[i] = O[<<run[i - 1], s[i]>>]

(* What MapThenFoldSet recurs on exists,                                   *)
IsFold(it, V, s, base, O) ==
    /\ it[{}] = base
    /\ \A I \in SUBSET (1..Len(s)) :
         I # {} /\ it[I \ {Max(I)}] \in V => it[I] = O[<<it[I \ {Max(I)}], s[Max(I)]>>]

HasFold(V, s, base, O) ==
    \E it \in [SUBSET (1..Len(s)) -> V] : IsFold(it, V, s, base, O)

LEMMA FoldDefined ==
  ASSUME NEW V, NEW E, NEW base \in V, NEW O \in [V \X E -> V], NEW s \in Seq(E)
  PROVE  HasFold(V, s, base, O)
<1> DEFINE n == Len(s)
           step == [i \in 1..n |-> [v \in V |-> O[<<v, s[i]>>]]]
<1>1. n \in Nat /\ \A i \in 1..n : s[i] \in E
  BY LenProperties, ElementOfSeq
<1>2. step \in [1..n -> [V -> V]]
  BY <1>1
<1> HIDE DEF n
<1>3. PICK it \in [SUBSET (1..n) -> V] : Unfolds(it, base, n, step)
  <2> HIDE DEF step
  <2> QED BY <1>1, <1>2, FoldExists
<1>4. it[{}] = base
  BY <1>3 DEF Unfolds
<1>5. ASSUME NEW I \in SUBSET (1..n), I # {}
      PROVE  it[I] = O[<<it[I \ {Max(I)}], s[Max(I)]>>]
  <2>1. it[I] = step[Max(I)][it[I \ {Max(I)}]]
    <3> HIDE DEF step
    <3> QED BY <1>3, <1>5 DEF Unfolds
  <2>2. Max(I) \in 1..n
    BY <1>1, <1>5, MaxIsIndex
  <2>3. it[I \ {Max(I)}] \in V
    OBVIOUS
  <2> QED BY <2>1, <2>2, <2>3
<1>6. IsFold(it, V, s, base, O)
  BY <1>4, <1>5 DEF n, IsFold
<1> QED BY <1>6 DEF HasFold, n

(* and what satisfies this recursion is such a sequence of results.        *)
EndsRun(last, V, s, base, O) ==
    \E run \in [0..Len(s) -> V] : Runs(run, s, base, O) /\ last = run[Len(s)]

LEMMA FoldRuns ==
  ASSUME NEW V, NEW E, NEW base \in V, NEW O \in [V \X E -> V], NEW s \in Seq(E),
         NEW iter, IsFold(iter, V, s, base, O)
  PROVE  EndsRun(iter[1..Len(s)], V, s, base, O)
<1> USE DEF IsFold, EndsRun
<1> DEFINE n == Len(s)
           run == [i \in 0..n |-> iter[1..i]]
           T == {i \in Nat : i <= n => iter[1..i] \in V}
<1>1. n \in Nat /\ \A i \in 1..n : s[i] \in E
  BY LenProperties, ElementOfSeq
<1> HIDE DEF n
<1>2. iter[1..0] = base
  <2>1. 1..0 = {}
    OBVIOUS
  <2> QED BY <2>1
<1>3. ASSUME NEW i \in 1..n, iter[1..(i - 1)] \in V
      PROVE  iter[1..i] = O[<<iter[1..(i - 1)], s[i]>>] /\ iter[1..i] \in V
  <2>1. 1..i \in SUBSET (1..n) /\ i \in Nat \ {0}
    BY <1>1
  <2>2. 1..i # {} /\ Max(1..i) = i /\ (1..i) \ {i} = 1..(i - 1)
    BY <2>1, LastOfInterval
  <2>3. iter[(1..i) \ {Max(1..i)}] \in V
    BY <1>3, <2>2
  <2>4. iter[1..i] = O[<<iter[(1..i) \ {Max(1..i)}], s[Max(1..i)]>>]
    BY <2>1, <2>2, <2>3 DEF n
  <2>5. iter[1..i] = O[<<iter[1..(i - 1)], s[i]>>]
    BY <2>2, <2>4
  <2> QED BY <1>1, <1>3, <2>5
<1>4. \A i \in Nat : i \in T
  <2>1. 0 \in T
    BY <1>2
  <2>2. ASSUME NEW i \in Nat, i \in T
        PROVE  i + 1 \in T
    <3> SUFFICES ASSUME i + 1 <= n
                 PROVE  iter[1..(i + 1)] \in V
      OBVIOUS
    <3>1. i + 1 \in 1..n /\ (i + 1) - 1 = i /\ iter[1..i] \in V
      BY <1>1, <2>2
    <3> QED BY <1>3, <3>1
  <2> HIDE DEF T
  <2> QED BY <2>1, <2>2, SetInduction
<1>5. \A i \in 0..n : iter[1..i] \in V
  BY <1>1, <1>4
<1>6. run \in [0..n -> V]
  BY <1>5
<1>7. run[0] = base /\ run[n] = iter[1..n]
  BY <1>1, <1>2
<1>8. ASSUME NEW i \in 1..n
      PROVE  run[i] = O[<<run[i - 1], s[i]>>]
  <2>1. i \in 0..n /\ i - 1 \in 0..n
    BY <1>1
  <2>2. run[i] = iter[1..i] /\ run[i - 1] = iter[1..(i - 1)]
    BY <2>1
  <2> HIDE DEF run
  <2> QED BY <1>3, <1>5, <2>1, <2>2
<1> HIDE DEF run
<1> QED BY <1>6, <1>7, <1>8 DEF n, Runs

(* A function that gives the last of these results takes one step more for *)
(* one element more.                                                       *)
FoldedBy(F, V, E, base, O) == \A s \in Seq(E) : EndsRun(F[s], V, s, base, O)
Grows(F, V, E, base, O) ==
    /\ F[<<>>] = base
    /\ \A s \in Seq(E) : F[s] \in V
    /\ \A s \in Seq(E) : \A x \in E : F[Append(s, x)] = O[<<F[s], x>>]

LEMMA FoldGrows ==
  ASSUME NEW V, NEW E, NEW base \in V, NEW O \in [V \X E -> V], NEW F,
         FoldedBy(F, V, E, base, O)
  PROVE  Grows(F, V, E, base, O)
<1> USE DEF FoldedBy, EndsRun
<1>1. F[<<>>] = base
  BY EmptySeq DEF Runs
<1>2. ASSUME NEW s \in Seq(E)
      PROVE  F[s] \in V
  <2>1. Len(s) \in 0..Len(s)
    BY LenProperties
  <2> QED BY <2>1
<1>3. ASSUME NEW s \in Seq(E), NEW x \in E
      PROVE  F[Append(s, x)] = O[<<F[s], x>>]
  <2> DEFINE t == Append(s, x)
             n == Len(s)
  <2>1. /\ t \in Seq(E) /\ Len(t) = n + 1 /\ n \in Nat
        /\ \A i \in 1..n : t[i] = s[i]
        /\ t[n + 1] = x
    BY AppendProperties, LenProperties
  <2>2. PICK run \in [0..n -> V] : Runs(run, s, base, O) /\ F[s] = run[n]
    OBVIOUS
  <2> HIDE DEF t, n
  <2>3. PICK more \in [0..(n + 1) -> V] : Runs(more, t, base, O) /\ F[t] = more[n + 1]
    BY <2>1
  <2> DEFINE T == {i \in Nat : i <= n => more[i] = run[i]}
  <2>4. 0 \in T
    BY <2>2, <2>3 DEF Runs
  <2>5. ASSUME NEW i \in Nat, i \in T
        PROVE  i + 1 \in T
    <3> SUFFICES ASSUME i + 1 <= n
                 PROVE  more[i + 1] = run[i + 1]
      OBVIOUS
    <3>1. /\ i + 1 \in 1..n /\ i + 1 \in 1..(n + 1) /\ (i + 1) - 1 = i
          /\ more[i] = run[i]
      BY <2>1, <2>5
    <3>2. more[i + 1] = O[<<more[i], t[i + 1]>>] /\ run[i + 1] = O[<<run[i], s[i + 1]>>]
      BY <2>1, <2>2, <2>3, <3>1 DEF Runs, n
    <3> QED BY <2>1, <3>1, <3>2
  <2>6. n \in T
    <3> HIDE DEF T
    <3> QED BY <2>1, <2>4, <2>5, SetInduction
  <2>7. more[n] = run[n]
    BY <2>1, <2>6
  <2>8. more[n + 1] = O[<<more[n], t[n + 1]>>]
    BY <2>1, <2>3 DEF Runs
  <2> QED BY <2>1, <2>2, <2>3, <2>7, <2>8 DEF t
<1> QED BY <1>1, <1>2, <1>3, Zenon DEF Grows

(* FlattenSeq strings texts together. *)
LEMMA FlattenGrows ==
  ASSUME NEW S
  PROVE  /\ FlattenSeq(<<>>) = <<>>
         /\ \A ss \in Seq(Seq(S)) : FlattenSeq(ss) \in Seq(S)
         /\ \A ss \in Seq(Seq(S)) : \A s \in Seq(S) :
              FlattenSeq(Append(ss, s)) = FlattenSeq(ss) \o s
<1> DEFINE V == Seq(S)
           O == [p \in V \X V |-> p[1] \o p[2]]
           F == [ss \in Seq(V) |-> FlattenSeq(ss)]
<1>1. PICK e \in V : e = <<>> /\ \A u, v \in V : u \o v \in V
  BY EmptySeq, ConcatProperties
<1>2. O \in [V \X V -> V] /\ \A u, v \in V : O[<<u, v>>] = u \o v
  <2> HIDE DEF V
  <2> QED BY <1>1
<1>3. ASSUME NEW ss \in Seq(V)
      PROVE  \E run \in [0..Len(ss) -> V] : Runs(run, ss, <<>>, O) /\ F[ss] = run[Len(ss)]
  <2> DEFINE n == Len(ss)
             step == [i \in 1..n |-> [v \in V |-> v \o ss[i]]]
             Def(f) == [i \in 1..n |-> IF i = 1 THEN ss[i] ELSE f[i - 1] \o ss[i]]
  <2>1. n \in Nat /\ \A i \in 1..n : ss[i] \in V
    BY LenProperties, ElementOfSeq
  <2>2. step \in [1..n -> [V -> V]]
    BY <1>1, <2>1
  <2> HIDE DEF V, O, n
  <2>3. PICK run \in [0..n -> V] :
          run[0] = <<>> /\ \A i \in 1..n : run[i] = step[i][run[i - 1]]
    <3>1. e \in V /\ n \in Nat
      BY <1>1, <2>1
    <3> HIDE DEF step, Def
    <3>2. Recurs(n, V, e, step)
      BY ONLY <3>1, <2>2, BoundedRecursion
    <3> QED BY <1>1, <3>2, Zenon DEF Recurs
  <2>4. ASSUME NEW i \in 1..n
        PROVE  run[i] = run[i - 1] \o ss[i] /\ run[i - 1] \in V
    <3>1. run[i - 1] \in V
      BY <2>1
    <3> QED BY <2>3, <3>1
  <2>5. Runs(run, ss, <<>>, O)
    BY <1>2, <2>1, <2>3, <2>4 DEF Runs, n
  <2>6. n # 0 => FlattenSeq(ss) = run[n]
    <3> SUFFICES ASSUME n # 0
                 PROVE  FlattenSeq(ss) = run[n]
      OBVIOUS
    <3> DEFINE f == [i \in 1..n |-> run[i]]
               g == CHOOSE h : h = Def(h)
               T == {i \in Nat : i \in 1..n => g[i] = run[i]}
    <3>1. f = Def(f)
      <4>1. ASSUME NEW i \in 1..n
            PROVE  f[i] = IF i = 1 THEN ss[i] ELSE f[i - 1] \o ss[i]
        <5>1. CASE i = 1
          <6>1. <<>> \o ss[1] = ss[1]
            BY <2>1, <5>1, ConcatEmptySeq DEF V
          <6>2. f[i] = run[i] /\ run[i - 1] = <<>>
            BY <2>3, <5>1
          <6> HIDE DEF f
          <6> QED BY <2>4, <5>1, <6>1, <6>2
        <5>2. CASE i # 1
          <6>1. i - 1 \in 1..n
            BY <2>1, <5>2
          <6>2. f[i] = run[i] /\ f[i - 1] = run[i - 1]
            BY <6>1
          <6> HIDE DEF f
          <6> QED BY <2>4, <5>2, <6>2
        <5> QED BY <5>1, <5>2
      <4>2. f = [i \in 1..n |-> f[i]]
        OBVIOUS
      <4> HIDE DEF f
      <4> QED BY <4>1, <4>2
    <3>2. g = Def(g)
      <4> HIDE DEF f, Def
      <4> QED BY <3>1, Zenon
    <3> HIDE DEF f, g
    <3>3. \A i \in 1..n : g[i] = IF i = 1 THEN ss[i] ELSE g[i - 1] \o ss[i]
      BY <3>2
    <3>4. 0 \in T
      OBVIOUS
    <3>5. ASSUME NEW i \in Nat, i \in T
          PROVE  i + 1 \in T
      <4> SUFFICES ASSUME i + 1 \in 1..n
                   PROVE  g[i + 1] = run[i + 1]
        OBVIOUS
      <4>1. (i + 1) - 1 = i /\ g[i + 1] = IF i + 1 = 1 THEN ss[i + 1] ELSE g[i] \o ss[i + 1]
        BY <3>3
      <4>2. run[i + 1] = run[i] \o ss[i + 1]
        BY <2>4, <4>1
      <4>3. CASE i = 0
        <5>1. <<>> \o ss[1] = ss[1] /\ i + 1 = 1
          BY <2>1, <4>3, ConcatEmptySeq DEF V
        <5> QED BY <2>3, <4>1, <4>2, <4>3, <5>1
      <4>4. CASE i # 0
        <5>1. i \in 1..n /\ i + 1 # 1
          BY <2>1, <4>4
        <5> QED BY <3>5, <4>1, <4>2, <5>1
      <4> QED BY <4>3, <4>4
    <3>6. n \in T
      <4> HIDE DEF T
      <4> QED BY <2>1, <3>4, <3>5, SetInduction
    <3>7. g[n] = run[n]
      BY <2>1, <3>6
    <3>8. FlattenSeq(ss) = g[n]
      BY Zenon DEF FlattenSeq, n, g
    <3> QED BY <3>7, <3>8
  <2>7. n = 0 => FlattenSeq(ss) = run[n]
    <3>1. n = 0 => ss = <<>> /\ FlattenSeq(ss) = ss
      BY EmptySeq DEF FlattenSeq, n
    <3> QED BY <2>3, <3>1
  <2> HIDE DEF step
  <2> QED BY <2>5, <2>6, <2>7 DEF n
<1>4. /\ F[<<>>] = <<>>
      /\ \A ss \in Seq(V) : F[ss] \in V
      /\ \A ss \in Seq(V) : \A s \in V : F[Append(ss, s)] = O[<<F[ss], s>>]
  <2>1. e \in V /\ O \in [V \X V -> V]
    BY <1>1, <1>2
  <2> HIDE DEF V, O, F
  <2>2. \A ss \in Seq(V) :
          \E run \in [0..Len(ss) -> V] : Runs(run, ss, e, O) /\ F[ss] = run[Len(ss)]
    BY <1>1, <1>3
  <2>3. /\ F[<<>>] = e
        /\ \A ss \in Seq(V) : F[ss] \in V
        /\ \A ss \in Seq(V) : \A s \in V : F[Append(ss, s)] = O[<<F[ss], s>>]
    <3>1. FoldedBy(F, V, V, e, O)
      BY <2>2, Zenon DEF FoldedBy, EndsRun
    <3>2. Grows(F, V, V, e, O)
      BY ONLY <2>1, <3>1, FoldGrows
    <3> QED BY <3>2, Zenon DEF Grows
  <2> QED BY <1>1, <2>3
<1>5. <<>> \in Seq(V) /\ \A ss \in Seq(V) : \A s \in V : Append(ss, s) \in Seq(V)
  BY EmptySeq, AppendProperties
<1> HIDE DEF V, O
<1> QED BY <1>1, <1>2, <1>4, <1>5 DEF V
(* Induction over texts: what holds of the empty one, and of every text    *)
(* that is one element longer than one it holds of.                        *)
LEMMA SeqInduction ==
  ASSUME NEW S, NEW T, <<>> \in T,
         \A s \in Seq(S) : \A c \in S : s \in T => Append(s, c) \in T
  PROVE  \A s \in Seq(S) : s \in T
<1> DEFINE N == {n \in Nat : \A s \in Seq(S) : Len(s) = n => s \in T}
<1>1. 0 \in N
  BY EmptySeq
<1>2. ASSUME NEW n \in Nat, n \in N
      PROVE  n + 1 \in N
  <2> SUFFICES ASSUME NEW s \in Seq(S), Len(s) = n + 1
               PROVE  s \in T
    OBVIOUS
  <2>1. /\ SubSeq(s, 1, n) \in Seq(S) /\ Len(SubSeq(s, 1, n)) = n
        /\ s[n + 1] \in S
        /\ SubSeq(s, 1, n + 1) = Append(SubSeq(s, 1, n), s[n + 1])
    BY FrontGrows
  <2>2. SubSeq(s, 1, n + 1) = s
    BY SubSeqFull
  <2>3. SubSeq(s, 1, n) \in T
    BY <1>2, <2>1
  <2> QED BY <2>1, <2>2, <2>3
<1>3. \A n \in Nat : n \in N
  <2> HIDE DEF N
  <2> QED BY <1>1, <1>2, SetInduction
<1> QED BY <1>3, LenProperties

(* Prefixes, index by index, *)
LEMMA PrefixIs ==
  ASSUME NEW S, NEW p \in Seq(S), NEW s \in Seq(S)
  PROVE  IsPrefix(p, s) <=> Len(p) <= Len(s) /\ \A i \in 1..Len(p) : p[i] = s[i]
<1>1. Len(p) \in Nat /\ Len(s) \in Nat
  BY LenProperties
<1>2. SubSeq(p, 1, Len(p)) = p
  BY SubSeqFull
<1>3. ASSUME Len(p) <= Len(s)
      PROVE  SubSeq(p, 1, Len(p)) = SubSeq(s, 1, Len(p)) <=> \A i \in 1..Len(p) : p[i] = s[i]
  <2> DEFINE f == SubSeq(s, 1, Len(p))
  <2>1. Len(p) \in 0..Len(s) /\ 1 \in Nat \ {0}
    BY <1>1, <1>3
  <2>2. f \in Seq(S) /\ Len(f) = Len(p) /\ \A i \in 1..Len(p) : f[i] = s[i]
    BY <1>1, <2>1, SubSeqText
  <2> HIDE DEF f
  <2>3. (p = f) <=> \A i \in 1..Len(p) : p[i] = s[i]
    BY <2>2, SeqEqual
  <2> QED BY <1>2, <2>3 DEF f
<1> QED BY <1>3 DEF IsPrefix

(* and of two texts strung together.                                       *)
PrefixOfEither(S, p, x, y) ==
    \/ IsPrefix(p, x)
    \/ \E q \in Seq(S) : q # <<>> /\ IsPrefix(q, y) /\ p = x \o q

LEMMA PrefixOfConcat ==
  ASSUME NEW S, NEW p \in Seq(S), NEW x \in Seq(S), NEW y \in Seq(S), IsPrefix(p, x \o y)
  PROVE  PrefixOfEither(S, p, x, y)
<1> USE DEF PrefixOfEither
<1> DEFINE z == x \o y
<1>1. Len(p) \in Nat /\ Len(x) \in Nat /\ Len(y) \in Nat
  BY LenProperties
<1>2. /\ z \in Seq(S) /\ Len(z) = Len(x) + Len(y)
      /\ \A i \in 1..(Len(x) + Len(y)) : z[i] = IF i <= Len(x) THEN x[i] ELSE y[i - Len(x)]
  BY ConcatProperties
<1> HIDE DEF z
<1>3. Len(p) <= Len(z) /\ \A i \in 1..Len(p) : p[i] = z[i]
  BY <1>2, PrefixIs DEF z
<1>4. CASE Len(p) <= Len(x)
  <2>1. \A i \in 1..Len(p) : p[i] = x[i]
    BY <1>1, <1>2, <1>3, <1>4
  <2> QED BY <1>4, <2>1, PrefixIs
<1>5. CASE ~(Len(p) <= Len(x))
  <2> DEFINE n == Len(p) - Len(x)
             q == SubSeq(y, 1, n)
  <2>1. n \in 0..Len(y) /\ n # 0 /\ 1 \in Nat \ {0} /\ n \in Nat
    BY <1>1, <1>2, <1>3, <1>5
  <2>2. q \in Seq(S) /\ Len(q) = n /\ \A i \in 1..n : q[i] = y[i]
    <3> HIDE DEF n
    <3> QED BY <2>1, SubSeqText
  <2> HIDE DEF q
  <2>3. q # <<>> /\ IsPrefix(q, y)
    <3> HIDE DEF n
    <3>1. Len(q) <= Len(y) /\ \A i \in 1..Len(q) : q[i] = y[i]
      BY <1>1, <2>1, <2>2
    <3> QED BY <2>1, <2>2, <3>1, PrefixIs, EmptySeq
  <2> DEFINE r == x \o q
  <2>4. /\ r \in Seq(S) /\ Len(r) = Len(x) + Len(q)
        /\ \A i \in 1..(Len(x) + Len(q)) : r[i] = IF i <= Len(x) THEN x[i] ELSE q[i - Len(x)]
    BY <2>2, ConcatProperties
  <2> HIDE DEF r
  <2>5. Len(r) = Len(p)
    BY <1>1, <2>2, <2>4
  <2>6. ASSUME NEW i \in 1..Len(p)
        PROVE  p[i] = r[i]
    <3>1. p[i] = z[i]
      BY <1>3
    <3>2. CASE i <= Len(x)
      BY <1>1, <1>2, <1>3, <2>4, <2>5, <3>1, <3>2
    <3>3. CASE ~(i <= Len(x))
      <4>1. i - Len(x) \in 1..n /\ i \in 1..(Len(x) + Len(y)) /\ i \in 1..(Len(x) + Len(q))
        BY <1>1, <1>2, <1>3, <2>2, <3>3
      <4> HIDE DEF n
      <4> QED BY <1>2, <2>2, <2>4, <3>1, <3>3, <4>1
    <3> QED BY <3>2, <3>3
  <2>7. p = r
    BY <2>4, <2>5, <2>6, SeqEqual
  <2> QED BY <2>2, <2>3, <2>7 DEF r
<1> QED BY <1>4, <1>5

-----------------------------------------------------------------------------
(* A text and one element more,                                            *)
LEMMA AppendText ==
  ASSUME NEW S, NEW s \in Seq(S), NEW c \in S
  PROVE  /\ Append(s, c) \in Seq(S) /\ Append(s, c) # <<>>
         /\ Len(s) \in Nat /\ Len(Append(s, c)) = Len(s) + 1
         /\ DOMAIN s = 1..Len(s) /\ DOMAIN Append(s, c) = 1..(Len(s) + 1)
         /\ \A i \in 1..Len(s) : Append(s, c)[i] = s[i] /\ s[i] \in S
         /\ Append(s, c)[Len(s) + 1] = c
<1>1. /\ Append(s, c) \in Seq(S) /\ Append(s, c) # <<>>
      /\ Len(Append(s, c)) = Len(s) + 1
      /\ \A i \in 1..Len(s) : Append(s, c)[i] = s[i]
      /\ Append(s, c)[Len(s) + 1] = c
  BY AppendProperties
<1> QED BY <1>1, LenProperties, ElementOfSeq

(* and what it is told by.                                                 *)
LEMMA AppendIs ==
  ASSUME NEW S, NEW s \in Seq(S), NEW c \in S, NEW t \in Seq(S),
         Len(t) = Len(s) + 1, \A i \in 1..Len(s) : t[i] = s[i], t[Len(s) + 1] = c
  PROVE  t = Append(s, c)
<1> DEFINE a == Append(s, c)
<1>1. /\ a \in Seq(S) /\ Len(s) \in Nat /\ Len(a) = Len(s) + 1
      /\ \A i \in 1..Len(s) : a[i] = s[i]
      /\ a[Len(s) + 1] = c
  BY AppendText
<1> HIDE DEF a
<1>2. \A i \in 1..(Len(s) + 1) : i \in 1..Len(s) \/ i = Len(s) + 1
  BY <1>1
<1>3. \A i \in 1..Len(t) : t[i] = a[i]
  BY <1>1, <1>2
<1> QED BY <1>1, <1>3, SeqEqual DEF a

(* Texts strung together in two parts are strung together part by part.    *)
LEMMA FlattenConcat ==
  ASSUME NEW S, NEW ss \in Seq(Seq(S)), NEW tt \in Seq(Seq(S))
  PROVE  FlattenSeq(ss \o tt) = FlattenSeq(ss) \o FlattenSeq(tt)
<1> DEFINE V == Seq(S)
           T == {uu \in Seq(V) : FlattenSeq(ss \o uu) = FlattenSeq(ss) \o FlattenSeq(uu)}
<1>1. /\ FlattenSeq(<<>>) = <<>>
      /\ \A uu \in Seq(V) : FlattenSeq(uu) \in V
      /\ \A uu \in Seq(V) : \A u \in V : FlattenSeq(Append(uu, u)) = FlattenSeq(uu) \o u
  BY FlattenGrows
<1>2. <<>> \in T
  <2>1. <<>> \in Seq(V) /\ ss \o <<>> = ss
    BY EmptySeq, ConcatEmptySeq
  <2>2. FlattenSeq(ss) \o <<>> = FlattenSeq(ss)
    BY <1>1, ConcatEmptySeq
  <2> HIDE DEF V
  <2> QED BY <1>1, <2>1, <2>2
<1>3. ASSUME NEW uu \in Seq(V), NEW u \in V, uu \in T
      PROVE  Append(uu, u) \in T
  <2>1. Append(uu, u) \in Seq(V) /\ Append(uu, u) = uu \o <<u>> /\ <<u>> \in Seq(V)
    BY AppendProperties, AppendIsConcat
  <2>2. ss \o uu \in Seq(V)
    BY ConcatProperties
  <2>3. ss \o Append(uu, u) = Append(ss \o uu, u)
    <3>1. ss \o (uu \o <<u>>) = (ss \o uu) \o <<u>>
      BY <2>1, ConcatAssociative
    <3>2. Append(ss \o uu, u) = (ss \o uu) \o <<u>>
      BY <2>2, AppendIsConcat
    <3> QED BY <2>1, <3>1, <3>2
  <2>4. FlattenSeq(Append(ss \o uu, u)) = (FlattenSeq(ss) \o FlattenSeq(uu)) \o u
    BY <1>1, <1>3, <2>2
  <2>5. FlattenSeq(Append(uu, u)) = FlattenSeq(uu) \o u
    BY <1>1
  <2>6. (FlattenSeq(ss) \o FlattenSeq(uu)) \o u = FlattenSeq(ss) \o (FlattenSeq(uu) \o u)
    <3>1. FlattenSeq(ss) \in V /\ FlattenSeq(uu) \in V
      BY <1>1
    <3> QED BY <3>1, ConcatAssociative
  <2> HIDE DEF V
  <2> QED BY <2>1, <2>3, <2>4, <2>5, <2>6
<1>4. \A uu \in Seq(V) : uu \in T
  <2> HIDE DEF V, T
  <2> QED BY <1>2, <1>3, SeqInduction
<1> QED BY <1>4

(* Texts of two and three elements.                                        *)
LEMMA AppendTuples ==
  ASSUME NEW S, NEW a \in S, NEW b \in S, NEW c \in S
  PROVE  Append(<<a>>, b) = <<a, b>> /\ Append(<<a, b>>, c) = <<a, b, c>>
<1>0. <<a>> \in Seq(S) /\ <<a, b>> \in Seq(S) /\ <<a, b, c>> \in Seq(S)
  OBVIOUS
<1>1. PICK s \in Seq(S) : s = <<a>>
  BY <1>0
<1>2. PICK t \in Seq(S) : t = <<a, b>>
  BY <1>0
<1>3. PICK u \in Seq(S) : u = <<a, b, c>>
  BY <1>0
<1>4. Len(s) = 1 /\ Len(t) = 2 /\ Len(u) = 3
  BY <1>1, <1>2, <1>3
<1>5. Append(s, b) = t
  <2>1. Len(t) = Len(s) + 1 /\ \A i \in 1..Len(s) : t[i] = s[i]
    BY <1>1, <1>2, <1>4
  <2>2. t[Len(s) + 1] = b
    BY <1>2, <1>4
  <2> QED BY <2>1, <2>2, AppendIs
<1>6. Append(t, c) = u
  <2>1. Len(u) = Len(t) + 1 /\ \A i \in 1..Len(t) : u[i] = t[i]
    BY <1>2, <1>3, <1>4
  <2>2. u[Len(t) + 1] = c
    BY <1>3, <1>4
  <2> QED BY <2>1, <2>2, AppendIs
<1> QED BY <1>1, <1>2, <1>3, <1>5, <1>6

(* A text is a prefix of itself,                                           *)
LEMMA PrefixRefl ==
  ASSUME NEW S, NEW s \in Seq(S)
  PROVE  IsPrefix(s, s)
BY LenProperties, PrefixIs

(* and of itself and one element more;                                     *)
LEMMA PrefixOfAppend ==
  ASSUME NEW S, NEW s \in Seq(S), NEW c \in S
  PROVE  IsPrefix(s, Append(s, c))
<1> DEFINE t == Append(s, c)
<1>1. t \in Seq(S) /\ Len(s) \in Nat /\ Len(t) = Len(s) + 1 /\ \A i \in 1..Len(s) : t[i] = s[i]
  BY AppendText
<1> HIDE DEF t
<1>2. Len(s) <= Len(t) /\ \A i \in 1..Len(s) : s[i] = t[i]
  BY <1>1
<1>3. IsPrefix(s, t)
  BY <1>1, <1>2, PrefixIs
<1> QED BY <1>3 DEF t

(* a prefix of a prefix is a prefix,                                       *)
LEMMA PrefixTrans ==
  ASSUME NEW S, NEW p \in Seq(S), NEW s \in Seq(S), NEW t \in Seq(S),
         IsPrefix(p, s), IsPrefix(s, t)
  PROVE  IsPrefix(p, t)
<1>1. Len(p) \in Nat /\ Len(s) \in Nat /\ Len(t) \in Nat
  BY LenProperties
<1>2. Len(s) <= Len(t) /\ \A i \in 1..Len(s) : s[i] = t[i]
  BY PrefixIs
<1>3. Len(p) <= Len(s) /\ \A i \in 1..Len(p) : p[i] = s[i]
  BY PrefixIs
<1>4. Len(p) <= Len(t) /\ \A i \in 1..Len(p) : p[i] = t[i]
  BY <1>1, <1>2, <1>3
<1> QED BY <1>4, PrefixIs

(* a prefix as long as the text is the text,                               *)
LEMMA PrefixWhole ==
  ASSUME NEW S, NEW s \in Seq(S), NEW t \in Seq(S), IsPrefix(s, t), Len(s) = Len(t)
  PROVE  s = t
BY PrefixIs, SeqEqual

(* and the empty text has no other.                                        *)
LEMMA EmptyText ==
  ASSUME NEW S
  PROVE  /\ <<>> \in Seq(S)
         /\ \A s \in Seq(S) : Len(s) = 0 => s = <<>>
         /\ \A s \in Seq(S) : IsPrefix(s, <<>>) => s = <<>>
BY EmptySeq DEF IsPrefix

(* Split is a fold over the text: its pieces, never none,                  *)
LEMMA SplitFolds ==
  ASSUME NEW S, NEW sep \in S
  PROVE  LET V == Seq(Seq(S)) \ {<<>>}
             O == [p \in V \X S |->
                     IF p[2] = sep THEN Append(p[1], <<>>)
                     ELSE Append(Front(p[1]), Append(Last(p[1]), p[2]))]
             F == [s \in Seq(S) |-> Split(s, sep)]
         IN Grows(F, V, S, <<<<>>>>, O)
<1> DEFINE V == Seq(Seq(S)) \ {<<>>}
           op(v, c) == IF c = sep THEN Append(v, <<>>)
                       ELSE Append(Front(v), Append(Last(v), c))
           O == [p \in V \X S |-> op(p[1], p[2])]
           F == [s \in Seq(S) |-> Split(s, sep)]
<1>1. ASSUME NEW v \in V, NEW c \in S
      PROVE  op(v, c) \in V
  <2>1. v \in Seq(Seq(S)) /\ v # <<>> /\ <<>> \in Seq(S)
    BY EmptySeq
  <2>2. Front(v) \in Seq(Seq(S)) /\ Last(v) \in Seq(S)
    BY <2>1, FrontText
  <2>3. Append(v, <<>>) \in V
    BY <2>1, AppendProperties
  <2>4. Append(Last(v), c) \in Seq(S)
    BY <2>2, AppendProperties
  <2>5. Append(Front(v), Append(Last(v), c)) \in V
    <3> DEFINE W == Seq(S)
    <3>1. PICK f \in Seq(W), l \in W : f = Front(v) /\ l = Append(Last(v), c)
      BY <2>2, <2>4
    <3>2. V = Seq(W) \ {<<>>}
      OBVIOUS
    <3> HIDE DEF W, V
    <3>3. Append(f, l) \in Seq(W) /\ Append(f, l) # <<>>
      BY AppendProperties
    <3> QED BY <3>1, <3>2, <3>3
  <2> QED BY <2>3, <2>5
<1>2. PICK base \in V : base = <<<<>>>>
  <2>1. <<>> \in Seq(S)
    BY EmptySeq
  <2>2. <<<<>>>> \in Seq(Seq(S)) /\ <<<<>>>> # <<>>
    BY <2>1, Singleton
  <2> QED BY <2>2
<1> HIDE DEF V, op
<1>3. O \in [V \X S -> V] /\ \A v \in V : \A c \in S : O[<<v, c>>] = op(v, c)
  BY <1>1
<1> HIDE DEF O
<1>4. ASSUME NEW s \in Seq(S)
      PROVE  EndsRun(F[s], V, s, base, O)
  <2> DEFINE n == Len(s)
             Def(it) == [I \in SUBSET (DOMAIN s) |->
                           IF I = {} THEN <<<<>>>> ELSE op(it[I \ {Max(I)}], s[Max(I)])]
             iter == CHOOSE it : it = Def(it)
  <2>1. n \in Nat /\ DOMAIN s = 1..n /\ \A i \in 1..n : s[i] \in S
    BY LenProperties, ElementOfSeq
  <2>2. PICK it \in [SUBSET (1..n) -> V] : IsFold(it, V, s, base, O)
    <3>1. HasFold(V, s, base, O)
      BY ONLY <1>3, FoldDefined
    <3> QED BY <3>1, Zenon DEF HasFold
  <2>3. \A I \in SUBSET (1..n) : I # {} => Max(I) \in 1..n
    BY <2>1, MaxIsIndex
  <2>4. it = Def(it)
    <3>1. ASSUME NEW I \in SUBSET (1..n), I # {}
          PROVE  it[I] = op(it[I \ {Max(I)}], s[Max(I)])
      <4>1. it[I \ {Max(I)}] \in V /\ s[Max(I)] \in S
        BY <2>1, <2>3, <3>1
      <4> QED BY <1>3, <2>2, <3>1, <4>1 DEF IsFold
    <3> QED BY <1>2, <2>1, <2>2, <3>1 DEF IsFold
  <2>5. iter = Def(iter)
    <3> HIDE DEF Def
    <3> QED BY <2>4, Zenon
  <2> HIDE DEF iter
  <2>6. iter[{}] = base
    BY <1>2, <2>1, <2>5
  <2>7. ASSUME NEW I \in SUBSET (1..n), I # {}, iter[I \ {Max(I)}] \in V
        PROVE  iter[I] = O[<<iter[I \ {Max(I)}], s[Max(I)]>>]
    <3>1. iter[I] = op(iter[I \ {Max(I)}], s[Max(I)])
      BY <2>1, <2>5, <2>7
    <3> QED BY <1>3, <2>1, <2>3, <2>7, <3>1
  <2>8. EndsRun(iter[1..n], V, s, base, O)
    <3>1. IsFold(iter, V, s, base, O)
      BY <2>6, <2>7 DEF IsFold
    <3> QED BY ONLY <1>3, <3>1, FoldRuns
  <2>9. Split(s, sep) = iter[DOMAIN s]
    BY Zenon DEF Split, FoldLeft, MapThenFoldSet, iter, op
  <2> QED BY <2>1, <2>8, <2>9
<1>5. FoldedBy(F, V, S, base, O)
  <2> HIDE DEF F
  <2> QED BY <1>4, Zenon DEF FoldedBy
<1>6. Grows(F, V, S, base, O)
  <2> HIDE DEF F
  <2> QED BY ONLY <1>3, <1>5, FoldGrows
<1> QED BY <1>2, <1>6, Zenon DEF V, O, op

(* and what it does element by element.                                    *)
Splits(S, sep, e) ==
    /\ Split(e, sep) = <<e>>
    /\ \A s \in Seq(S) : Split(s, sep) \in Seq(Seq(S))
    /\ \A s \in Seq(S) : \A c \in S :
         Split(Append(s, c), sep) =
           IF c = sep THEN Append(Split(s, sep), e)
           ELSE Append(Front(Split(s, sep)), Append(Last(Split(s, sep)), c))

(* This holds of every text.                                               *)
LEMMA SplitGrows ==
  ASSUME NEW S, NEW sep \in S, NEW e \in Seq(S), e = <<>>
  PROVE  Splits(S, sep, e)
<1> DEFINE V == Seq(Seq(S)) \ {<<>>}
           O == [p \in V \X S |->
                   IF p[2] = sep THEN Append(p[1], <<>>)
                   ELSE Append(Front(p[1]), Append(Last(p[1]), p[2]))]
           F == [s \in Seq(S) |-> Split(s, sep)]
<1>1. Grows(F, V, S, <<<<>>>>, O)
  BY SplitFolds, Zenon
<1>2. <<>> \in Seq(S) /\ \A s \in Seq(S) : \A c \in S : Append(s, c) \in Seq(S)
  BY EmptySeq, AppendProperties
<1>3. \A v \in V : \A c \in S :
        O[<<v, c>>] = IF c = sep THEN Append(v, <<>>) ELSE Append(Front(v), Append(Last(v), c))
  <2> HIDE DEF V
  <2> QED OBVIOUS
<1> HIDE DEF O
<1>4. /\ F[<<>>] = <<<<>>>>
      /\ \A s \in Seq(S) : F[s] \in V
      /\ \A s \in Seq(S) : \A c \in S : F[Append(s, c)] = O[<<F[s], c>>]
  <2> HIDE DEF F, V
  <2> QED BY <1>1, Zenon DEF Grows
<1>5. F[<<>>] = Split(<<>>, sep) /\ \A s \in Seq(S) : F[s] = Split(s, sep)
  BY <1>2
<1> HIDE DEF F
<1>6. \A s \in Seq(S) : Split(s, sep) \in V
  BY <1>4, <1>5
<1>7. ASSUME NEW s \in Seq(S), NEW c \in S
      PROVE  Split(Append(s, c), sep) =
               IF c = sep THEN Append(Split(s, sep), <<>>)
               ELSE Append(Front(Split(s, sep)), Append(Last(Split(s, sep)), c))
  <2> HIDE DEF V
  <2>1. Split(Append(s, c), sep) = O[<<Split(s, sep), c>>]
    BY <1>2, <1>4, <1>5
  <2> QED BY <1>3, <1>6, <2>1
<1> QED BY <1>4, <1>5, <1>6, <1>7 DEF Splits

(* The last element, and what precedes it.                                 *)
LEMMA FrontOfAppend ==
  ASSUME NEW S, NEW s \in Seq(S), NEW c \in S
  PROVE  Front(Append(s, c)) = s /\ Last(Append(s, c)) = c
<1>1. Append(s, c) = s \o <<c>>
  BY AppendIsConcat
<1>2. Front(s \o <<c>>) = s /\ Last(s \o <<c>>) = c
  BY FrontOfConcat
<1> QED BY <1>1, <1>2

(* One element more, after two texts strung together.                      *)
LEMMA AppendOfConcat ==
  ASSUME NEW S, NEW s \in Seq(S), NEW t \in Seq(S), NEW c \in S
  PROVE  s \o Append(t, c) = Append(s \o t, c)
<1>1. <<c>> \in Seq(S) /\ s \o t \in Seq(S)
  BY Singleton, ConcatProperties
<1>2. Append(t, c) = t \o <<c>> /\ Append(s \o t, c) = (s \o t) \o <<c>>
  BY <1>1, AppendIsConcat
<1>3. s \o (t \o <<c>>) = (s \o t) \o <<c>>
  BY <1>1, ConcatAssociative
<1> QED BY <1>2, <1>3

(* Up to the first separator there is one piece, and after every separator *)
(* there is another.                                                       *)
Without(sep, text) == \A i \in 1..Len(text) : text[i] # sep

(* A text without a separator has none before its last element,            *)
LEMMA WithoutGrows ==
  ASSUME NEW S, NEW sep, NEW u \in Seq(S), NEW c \in S, Without(sep, Append(u, c))
  PROVE  Without(sep, u) /\ c # sep
<1> DEFINE t == Append(u, c)
<1>1. /\ Len(u) \in Nat /\ Len(t) = Len(u) + 1
      /\ \A i \in 1..Len(u) : t[i] = u[i]
      /\ t[Len(u) + 1] = c
  BY AppendText
<1> HIDE DEF t
<1>2. \A i \in 1..Len(t) : t[i] # sep
  BY DEF Without, t
<1> QED BY <1>1, <1>2 DEF Without

(* What follows the last separator is the last piece.                      *)
LEMMA SplitPieces ==
  ASSUME NEW S, NEW sep \in S, NEW u \in Seq(S), Without(sep, u)
  PROVE  /\ Split(u, sep) = <<u>>
         /\ \A y \in Seq(S) : Split(Append(y, sep) \o u, sep) = Append(Split(y, sep), u)
<1> DEFINE W == Seq(S)
           T == {t \in W :
                   Without(sep, t) =>
                     /\ Split(t, sep) = <<t>>
                     /\ \A y \in W : Split(Append(y, sep) \o t, sep) = Append(Split(y, sep), t)}
<1>1. PICK e \in W : e = <<>>
  BY EmptySeq
<1>2. /\ Split(e, sep) = <<e>>
      /\ \A s \in W : Split(s, sep) \in Seq(W)
      /\ \A s \in W : \A c \in S :
           Split(Append(s, c), sep) =
             IF c = sep THEN Append(Split(s, sep), e)
             ELSE Append(Front(Split(s, sep)), Append(Last(Split(s, sep)), c))
  <2>1. Splits(S, sep, e)
    BY <1>1, SplitGrows
  <2> HIDE DEF T
  <2> QED BY <2>1, Zenon DEF Splits
<1>3. \A y \in W : Append(y, sep) \in W /\ Append(y, sep) \o e = Append(y, sep)
  BY <1>1, AppendProperties, ConcatEmptySeq
<1>4. e \in T
  BY <1>2, <1>3
<1>5. ASSUME NEW t \in W, NEW c \in S, t \in T, Without(sep, Append(t, c))
      PROVE  /\ Split(Append(t, c), sep) = <<Append(t, c)>>
             /\ \A y \in W :
                  Split(Append(y, sep) \o Append(t, c), sep) = Append(Split(y, sep), Append(t, c))
  <2>1. Without(sep, t) /\ c # sep /\ Append(t, c) \in W
    BY <1>5, WithoutGrows, AppendProperties
  <2>2. /\ Split(t, sep) = <<t>>
        /\ \A y \in W : Split(Append(y, sep) \o t, sep) = Append(Split(y, sep), t)
    BY <1>5, <2>1
  <2> HIDE DEF T
  <2>3. Split(Append(t, c), sep) = <<Append(t, c)>>
    <3>1. Split(Append(t, c), sep) = Append(Front(<<t>>), Append(Last(<<t>>), c))
      BY <1>2, <2>1, <2>2
    <3> HIDE DEF W
    <3>2. PICK o \in Seq(W) : o = <<>>
      BY EmptySeq
    <3>3. Append(o, t) = <<t>> /\ Append(o, Append(t, c)) = <<Append(t, c)>>
      BY <2>1, <3>2
    <3>4. Front(<<t>>) = o /\ Last(<<t>>) = t
      BY <3>3, FrontOfAppend
    <3> QED BY <3>1, <3>3, <3>4
  <2>4. ASSUME NEW y \in W
        PROVE  Split(Append(y, sep) \o Append(t, c), sep) = Append(Split(y, sep), Append(t, c))
    <3>1. /\ Append(y, sep) \o t \in W
          /\ Append(y, sep) \o Append(t, c) = Append(Append(y, sep) \o t, c)
      BY <1>3, ConcatProperties, AppendOfConcat
    <3> DEFINE P == Append(Split(y, sep), t)
    <3>2. Split(Append(y, sep) \o Append(t, c), sep) = Append(Front(P), Append(Last(P), c))
      BY <1>2, <2>1, <2>2, <3>1
    <3>3. Split(y, sep) \in Seq(W)
      BY <1>2
    <3> HIDE DEF W
    <3>4. Front(P) = Split(y, sep) /\ Last(P) = t
      BY <3>3, FrontOfAppend
    <3> HIDE DEF P
    <3> QED BY <3>2, <3>4
  <2> QED BY <2>3, <2>4
<1>6. \A t \in Seq(S) : \A c \in S : t \in T => Append(t, c) \in T
  <2> SUFFICES ASSUME NEW t \in W, NEW c \in S, t \in T
               PROVE  Append(t, c) \in T
    OBVIOUS
  <2>1. Append(t, c) \in W
    BY AppendProperties
  <2> QED BY <1>5, <2>1
<1>7. \A t \in Seq(S) : t \in T
  <2> HIDE DEF T
  <2> QED BY <1>1, <1>4, <1>6, SeqInduction
<1> QED BY <1>7

(* What precedes the first of the stops,                                   *)
LEMMA UpToIs ==
  ASSUME NEW S, NEW x \in Seq(S), NEW y \in Seq(S), NEW stops,
         \A i \in 1..Len(x) : x[i] \notin stops, y = <<>> \/ y[1] \in stops
  PROVE  UpTo(x \o y, stops) = x
<1> DEFINE z == x \o y
           In == {j \in 1..Len(z) : z[j] \in stops}
           i == IF In # {} THEN Min(In) ELSE 0
<1>1. UpTo(z, stops) = IF i = 0 THEN z ELSE SubSeq(z, 1, i - 1)
  <2>1. SelectInSeq(z, LAMBDA c : c \in stops) = i
    BY SelectIs, Zenon
  <2> HIDE DEF i
  <2> QED BY <2>1, Zenon DEF UpTo
<1>2. Len(x) \in Nat /\ Len(y) \in Nat
  BY LenProperties
<1>3. /\ z \in Seq(S) /\ Len(z) = Len(x) + Len(y)
      /\ \A j \in 1..(Len(x) + Len(y)) : z[j] = IF j <= Len(x) THEN x[j] ELSE y[j - Len(x)]
  BY ConcatProperties
<1>4. In \subseteq Nat /\ \A j \in In : j > Len(x)
  <2> HIDE DEF z
  <2> QED BY <1>2, <1>3
<1>5. CASE y = <<>>
  <2>1. Len(y) = 0 /\ z = x
    BY <1>5, EmptySeq, ConcatEmptySeq
  <2>2. In = {}
    BY <1>2, <1>3, <1>4, <2>1
  <2> QED BY <1>1, <2>1, <2>2
<1>6. CASE y # <<>>
  <2>1. Len(y) \in Nat \ {0} /\ y[1] \in stops
    BY <1>6, EmptySeq
  <2>2. Len(x) + 1 \in In
    <3>1. /\ Len(x) + 1 \in 1..(Len(x) + Len(y)) /\ ~(Len(x) + 1 <= Len(x))
          /\ (Len(x) + 1) - Len(x) = 1
      BY <1>2, <2>1
    <3> HIDE DEF z
    <3> QED BY <1>2, <1>3, <2>1, <3>1
  <2> HIDE DEF In
  <2>3. Min(In) \in In /\ \A j \in In : Min(In) <= j
    BY <1>4, <2>2, MinOfNats
  <2>4. Min(In) = Len(x) + 1
    <3>1. Min(In) \in Nat /\ Min(In) <= Len(x) + 1 /\ Min(In) > Len(x)
      BY <1>4, <2>2, <2>3
    <3> HIDE DEF z
    <3> QED BY <1>2, <3>1
  <2>5. UpTo(z, stops) = SubSeq(z, 1, Len(x))
    <3>1. i = Len(x) + 1 /\ i # 0 /\ i - 1 = Len(x)
      BY <1>2, <2>2, <2>4
    <3> HIDE DEF i, z
    <3> QED BY <1>1, <3>1
  <2> DEFINE w == SubSeq(z, 1, Len(x))
  <2>6. w \in Seq(S) /\ Len(w) = Len(x) /\ \A j \in 1..Len(x) : w[j] = z[j]
    <3>1. Len(x) \in 0..Len(z) /\ 1 \in Nat \ {0}
      BY <1>2, <1>3
    <3> HIDE DEF z
    <3> QED BY <1>2, <1>3, <3>1, SubSeqText
  <2>7. \A j \in 1..Len(x) : w[j] = x[j]
    <3> HIDE DEF z, w
    <3> QED BY <1>2, <1>3, <2>6
  <2> HIDE DEF w
  <2>8. w = x
    BY <2>6, <2>7, SeqEqual
  <2> QED BY <2>5, <2>8 DEF w
<1> QED BY <1>5, <1>6

(* and what follows a text of known length.                                *)
LEMMA FromIs ==
  ASSUME NEW S, NEW x \in Seq(S), NEW y \in Seq(S)
  PROVE  From(x \o y, Len(x) + 1) = y
<1> DEFINE z == x \o y
           n == Len(x) + 1
           w == SubSeq(z, n, Len(z))
<1>1. Len(x) \in Nat /\ Len(y) \in Nat
  BY LenProperties
<1>2. /\ z \in Seq(S) /\ Len(z) = Len(x) + Len(y)
      /\ \A j \in 1..(Len(x) + Len(y)) : z[j] = IF j <= Len(x) THEN x[j] ELSE y[j - Len(x)]
  BY ConcatProperties
<1> HIDE DEF z
<1>3. n \in Nat \ {0} /\ Len(z) \in 0..Len(z)
  BY <1>1, <1>2
<1> HIDE DEF n
<1>4. /\ w \in Seq(S) /\ Len(w) = IF n <= Len(z) THEN Len(z) - n + 1 ELSE 0
      /\ \A i \in 1..Len(w) : w[i] = z[n + i - 1]
  BY <1>2, <1>3, SubSeqText
<1> HIDE DEF w
<1>5. Len(w) = Len(y)
  BY <1>1, <1>2, <1>4 DEF n
<1>6. ASSUME NEW i \in 1..Len(w)
      PROVE  w[i] = y[i]
  <2>1. /\ n + i - 1 = Len(x) + i /\ Len(x) + i \in 1..(Len(x) + Len(y))
        /\ ~(Len(x) + i <= Len(x)) /\ (Len(x) + i) - Len(x) = i
    BY <1>1, <1>5 DEF n
  <2> QED BY <1>2, <1>4, <2>1
<1>7. w = y
  BY <1>4, <1>5, <1>6, SeqEqual
<1> QED BY <1>7 DEF From, w, z, n

(* A prefix without its last element is a prefix.                          *)
LEMMA FrontPrefix ==
  ASSUME NEW S, NEW u \in Seq(S), NEW v \in Seq(S), IsPrefix(u, v), u # <<>>
  PROVE  IsPrefix(Front(u), v)
<1>1. /\ Len(u) \in Nat \ {0} /\ Len(u) - 1 \in 0..Len(u) /\ 1 \in Nat \ {0}
      /\ Len(v) \in Nat /\ Len(u) <= Len(v) /\ \A i \in 1..Len(u) : u[i] = v[i]
  BY EmptySeq, LenProperties, PrefixIs
<1> DEFINE n == Len(u) - 1
           f == SubSeq(u, 1, n)
<1>2. f \in Seq(S) /\ Len(f) = n /\ \A i \in 1..n : f[i] = u[i]
  <2>1. n \in 0..Len(u) /\ n \in Nat /\ 1 \in Nat \ {0}
    BY <1>1
  <2> HIDE DEF n
  <2> QED BY <2>1, SubSeqText
<1> HIDE DEF f
<1>3. Len(f) <= Len(v) /\ \A i \in 1..Len(f) : f[i] = v[i]
  BY <1>1, <1>2
<1> QED BY <1>2, <1>3, PrefixIs DEF Front, f

(* and two of them have none together.                                     *)
LEMMA WithoutConcat ==
  ASSUME NEW S, NEW sep, NEW x \in Seq(S), NEW y \in Seq(S), Without(sep, x), Without(sep, y)
  PROVE  Without(sep, x \o y)
<1> DEFINE z == x \o y
<1>1. Len(x) \in Nat /\ Len(y) \in Nat
  BY LenProperties
<1>2. /\ Len(z) = Len(x) + Len(y)
      /\ \A i \in 1..(Len(x) + Len(y)) : z[i] = IF i <= Len(x) THEN x[i] ELSE y[i - Len(x)]
  BY ConcatProperties
<1> HIDE DEF z
<1>3. Without(sep, z)
  BY <1>1, <1>2 DEF Without
<1> QED BY <1>3 DEF z

(* What occurs in a text and one element more.                             *)
LEMMA RangeOfAppend ==
  ASSUME NEW S, NEW s \in Seq(S), NEW c \in S
  PROVE  Range(Append(s, c)) = Range(s) \cup {c}
<1> DEFINE t == Append(s, c)
<1>1. /\ Len(s) \in Nat /\ DOMAIN s = 1..Len(s) /\ DOMAIN t = 1..(Len(s) + 1)
      /\ \A i \in 1..Len(s) : t[i] = s[i]
      /\ t[Len(s) + 1] = c
  BY AppendText
<1> HIDE DEF t
<1>2. \A i \in 1..(Len(s) + 1) : i \in 1..Len(s) \/ i = Len(s) + 1
  BY <1>1
<1>3. 1..Len(s) \subseteq 1..(Len(s) + 1) /\ Len(s) + 1 \in 1..(Len(s) + 1)
  BY <1>1
<1>4. Range(t) = Range(s) \cup {c}
  BY <1>1, <1>2, <1>3, Zenon DEF Range
<1> QED BY <1>4 DEF t

(* A text of some characters is a text of more.                            *)
LEMMA SeqSubset ==
  ASSUME NEW S, NEW T, S \subseteq T, NEW s \in Seq(S)
  PROVE  s \in Seq(T)
<1>1. Len(s) \in Nat /\ s \in [1..Len(s) -> S]
  BY LenProperties
<1>2. s \in [1..Len(s) -> T]
  BY <1>1
<1> QED BY <1>1, <1>2, FunctionText

(* A text after one element.                                               *)
LEMMA TailOfConcat ==
  ASSUME NEW S, NEW c \in S, NEW y \in Seq(S)
  PROVE  /\ <<c>> \o y # <<>> /\ (<<c>> \o y)[1] = c
         /\ Tail(<<c>> \o y) = y
<1> DEFINE z == <<c>> \o y
           w == Tail(z)
<1>1. <<c>> \in Seq(S) /\ Len(<<c>>) = 1 /\ <<c>>[1] = c /\ Len(y) \in Nat
  BY Singleton, LenProperties
<1>2. z \in Seq(S) /\ Len(z) = Len(<<c>>) + Len(y)
  BY <1>1, ConcatProperties
<1>3. \A i \in 1..(Len(<<c>>) + Len(y)) : z[i] = IF i <= Len(<<c>>) THEN <<c>>[i] ELSE y[i - Len(<<c>>)]
  BY <1>1, ConcatProperties
<1> HIDE DEF z
<1>4. Len(z) = 1 + Len(y) /\ \A i \in 1..(1 + Len(y)) : z[i] = IF i <= 1 THEN c ELSE y[i - 1]
  <2>1. \A i \in 1..(1 + Len(y)) : i <= 1 => i = 1
    BY <1>1
  <2> QED BY <1>1, <1>2, <1>3, <2>1
<1>5. z # <<>> /\ z[1] = c
  <2>1. Len(z) # 0 /\ 1 \in 1..(1 + Len(y))
    BY <1>1, <1>4
  <2> QED BY <1>2, <1>4, <2>1, EmptySeq
<1>6. w \in Seq(S) /\ Len(w) = Len(z) - 1 /\ \A i \in 1..Len(w) : w[i] = z[i + 1]
  BY <1>2, <1>5, HeadTailProperties
<1> HIDE DEF w
<1>7. Len(w) = Len(y)
  BY <1>1, <1>4, <1>6
<1>8. \A i \in 1..Len(w) : w[i] = y[i]
  <2> SUFFICES ASSUME NEW i \in 1..Len(w)
               PROVE  w[i] = y[i]
    OBVIOUS
  <2>1. i + 1 \in 1..(1 + Len(y)) /\ ~(i + 1 <= 1) /\ (i + 1) - 1 = i
    BY <1>1, <1>7
  <2> QED BY <1>4, <1>6, <2>1
<1>9. w = y
  BY <1>6, <1>7, <1>8, SeqEqual
<1> QED BY <1>5, <1>9 DEF w, z

(* The front of two texts strung together.                                 *)
LEMMA FrontIs ==
  ASSUME NEW S, NEW x \in Seq(S), NEW y \in Seq(S)
  PROVE  SubSeq(x \o y, 1, Len(x)) = x
<1> DEFINE z == x \o y
           w == SubSeq(z, 1, Len(x))
<1>1. Len(x) \in Nat /\ Len(y) \in Nat
  BY LenProperties
<1>2. /\ z \in Seq(S) /\ Len(z) = Len(x) + Len(y)
      /\ \A j \in 1..(Len(x) + Len(y)) : z[j] = IF j <= Len(x) THEN x[j] ELSE y[j - Len(x)]
  BY ConcatProperties
<1> HIDE DEF z
<1>3. Len(x) \in 0..Len(z) /\ 1 \in Nat \ {0}
  BY <1>1, <1>2
<1>4. w \in Seq(S) /\ Len(w) = Len(x) /\ \A j \in 1..Len(x) : w[j] = z[j]
  BY <1>1, <1>2, <1>3, SubSeqText
<1> HIDE DEF w
<1>5. \A j \in 1..Len(x) : w[j] = x[j]
  BY <1>1, <1>2, <1>4
<1>6. w = x
  BY <1>4, <1>5, SeqEqual
<1> QED BY <1>6 DEF w, z

(* A text falls in two at every place.                                     *)
LEMMA FallsInTwo ==
  ASSUME NEW S, NEW s \in Seq(S), NEW k \in 0..Len(s)
  PROVE  /\ SubSeq(s, 1, k) \in Seq(S) /\ Len(SubSeq(s, 1, k)) = k
         /\ \A i \in 1..k : SubSeq(s, 1, k)[i] = s[i]
         /\ From(s, k + 1) \in Seq(S) /\ Len(From(s, k + 1)) = Len(s) - k
         /\ \A i \in 1..(Len(s) - k) : From(s, k + 1)[i] = s[k + i]
         /\ s = SubSeq(s, 1, k) \o From(s, k + 1)
<1>1. Len(s) \in Nat /\ k \in Nat
  BY LenProperties
<1> DEFINE a == SubSeq(s, 1, k)
           b == SubSeq(s, k + 1, Len(s))
<1>2. a \in Seq(S) /\ Len(a) = k /\ \A i \in 1..k : a[i] = s[i]
  <2>1. 1 \in Nat \ {0}
    OBVIOUS
  <2> QED BY <1>1, <2>1, SubSeqText
<1>3. b \in Seq(S) /\ Len(b) = Len(s) - k /\ \A i \in 1..(Len(s) - k) : b[i] = s[k + i]
  <2>1. k + 1 \in Nat \ {0} /\ Len(s) \in 0..Len(s)
    BY <1>1
  <2>2. /\ b \in Seq(S)
        /\ Len(b) = IF k + 1 <= Len(s) THEN Len(s) - (k + 1) + 1 ELSE 0
        /\ \A i \in 1..Len(b) : b[i] = s[(k + 1) + i - 1]
    BY <2>1, SubSeqText
  <2> HIDE DEF b
  <2>3. Len(b) = Len(s) - k
    <3>1. (IF k + 1 <= Len(s) THEN Len(s) - (k + 1) + 1 ELSE 0) = Len(s) - k
      BY <1>1
    <3> QED BY ONLY <2>2, <3>1
  <2>4. \A i \in 1..(Len(s) - k) : (k + 1) + i - 1 = k + i
    BY <1>1
  <2> QED BY <2>2, <2>3, <2>4
<1>4. a \o b = s
  <2>1. PICK n \in Nat : n = Len(s) - k /\ k + n = Len(s) /\ k + n <= Len(s)
    BY <1>1
  <2> HIDE DEF a, b
  <2>2. SubSeq(s, 1, k) \o SubSeq(s, k + 1, k + n) = SubSeq(s, 1, k + n)
    BY <1>1, <2>1, SubSeqExtends
  <2>3. SubSeq(s, 1, Len(s)) = s
    BY SubSeqFull
  <2> QED BY <2>1, <2>2, <2>3 DEF a, b
<1> HIDE DEF a, b
<1>5. /\ a \in Seq(S) /\ Len(a) = k /\ \A i \in 1..k : a[i] = s[i]
      /\ b \in Seq(S) /\ Len(b) = Len(s) - k /\ \A i \in 1..(Len(s) - k) : b[i] = s[k + i]
      /\ s = a \o b
  BY <1>2, <1>3, <1>4
<1> QED BY <1>5, Zenon DEF a, b, From

-----------------------------------------------------------------------------
(* What trim_start, trim_end_matches and trim take off a text: what is     *)
(* blank, and all that is.                                                 *)
AllIn(s, T) == \A i \in 1..Len(s) : s[i] \in T

(* Blanks at the start, as long as what follows begins with none;          *)
LEMMA TrimStartIs ==
  ASSUME NEW S, NEW x \in Seq(S), NEW y \in Seq(S),
         AllIn(x, Blank), y = <<>> \/ y[1] \notin Blank
  PROVE  TrimStart(x \o y) = y
<1> DEFINE z == x \o y
           Out == {j \in 1..Len(z) : z[j] \notin Blank}
           i == IF Out # {} THEN Min(Out) ELSE 0
<1>1. TrimStart(z) = IF i = 0 THEN <<>> ELSE From(z, i)
  <2>1. SelectInSeq(z, LAMBDA c : c \notin Blank) = i
    BY SelectIs, Zenon
  <2> HIDE DEF i
  <2> QED BY <2>1, Zenon DEF TrimStart
<1>2. Len(x) \in Nat /\ Len(y) \in Nat
  BY LenProperties
<1>3. /\ z \in Seq(S) /\ Len(z) = Len(x) + Len(y)
      /\ \A j \in 1..(Len(x) + Len(y)) : z[j] = IF j <= Len(x) THEN x[j] ELSE y[j - Len(x)]
  BY ConcatProperties
<1>4. Out \subseteq Nat /\ \A j \in Out : j > Len(x)
  <2> HIDE DEF z
  <2> USE DEF AllIn
  <2>1. \A j \in 1..Len(z) : j \in Nat
    BY <1>2, <1>3
  <2>2. ASSUME NEW j \in 1..Len(z), j <= Len(x)
        PROVE  z[j] \in Blank
    <3>1. j \in 1..(Len(x) + Len(y)) /\ j \in 1..Len(x)
      BY <1>2, <1>3, <2>2
    <3>2. z[j] = x[j]
      BY ONLY <1>3, <3>1, <2>2
    <3>3. x[j] \in Blank
      BY <3>1, Zenon DEF AllIn
    <3> QED BY <3>2, <3>3
  <2>3. \A j \in 1..Len(z) : j <= Len(x) \/ j > Len(x)
    BY <1>2, <1>3
  <2> QED BY <2>1, <2>2, <2>3
<1>5. CASE y = <<>>
  <2>1. Len(y) = 0
    BY <1>5, EmptySeq
  <2>2. \A j \in 1..Len(z) : ~(j > Len(x))
    <3> HIDE DEF z
    <3> QED BY <1>2, <1>3, <2>1
  <2>3. Out = {}
    <3> HIDE DEF z
    <3> QED BY <1>4, <2>2
  <2> QED BY <1>1, <1>5, <2>3
<1>6. CASE y # <<>>
  <2>1. Len(y) \in Nat \ {0} /\ y[1] \notin Blank
    BY <1>6, EmptySeq
  <2>2. Len(x) + 1 \in Out
    <3>1. /\ Len(x) + 1 \in 1..(Len(x) + Len(y)) /\ ~(Len(x) + 1 <= Len(x))
          /\ (Len(x) + 1) - Len(x) = 1
      BY <1>2, <2>1
    <3> HIDE DEF z
    <3>2. z[Len(x) + 1] = y[1]
      BY ONLY <1>3, <3>1
    <3> QED BY <1>3, <2>1, <3>1, <3>2
  <2> HIDE DEF Out
  <2>3. Min(Out) \in Out /\ \A j \in Out : Min(Out) <= j
    BY <1>4, <2>2, MinOfNats
  <2>4. Min(Out) = Len(x) + 1
    <3>1. Min(Out) \in Nat /\ Min(Out) <= Len(x) + 1 /\ Min(Out) > Len(x)
      BY <1>4, <2>2, <2>3
    <3> HIDE DEF z
    <3> QED BY <1>2, <3>1
  <2>5. TrimStart(z) = From(z, Len(x) + 1)
    <3>1. i = Len(x) + 1 /\ i # 0
      BY <1>2, <2>2, <2>4
    <3> HIDE DEF i, z
    <3> QED BY <1>1, <3>1
  <2> QED BY <2>5, FromIs
<1> QED BY <1>5, <1>6

(* what is trimmed at the end, as long as what comes before ends with      *)
(* none.                                                                   *)
LEMMA TrimEndIs ==
  ASSUME NEW S, NEW chars, NEW x \in Seq(S), NEW y \in Seq(S),
         AllIn(y, chars), x = <<>> \/ Last(x) \notin chars
  PROVE  TrimEnd(x \o y, chars) = x
<1> DEFINE z == x \o y
           Out == {j \in 1..Len(z) : z[j] \notin chars}
           i == IF Out # {} THEN Max(Out) ELSE 0
<1>1. TrimEnd(z, chars) = SubSeq(z, 1, i)
  BY SelectIs, Zenon DEF TrimEnd
<1>2. Len(x) \in Nat /\ Len(y) \in Nat
  BY LenProperties
<1>3. /\ z \in Seq(S) /\ Len(z) = Len(x) + Len(y)
      /\ \A j \in 1..(Len(x) + Len(y)) : z[j] = IF j <= Len(x) THEN x[j] ELSE y[j - Len(x)]
  BY ConcatProperties
<1>4. Out \subseteq 1..Len(x)
  <2> HIDE DEF z
  <2> SUFFICES ASSUME NEW j \in 1..Len(z), z[j] \notin chars, ~(j <= Len(x))
               PROVE  FALSE
    BY <1>2, <1>3
  <2>1. j \in 1..(Len(x) + Len(y)) /\ j - Len(x) \in 1..Len(y)
    BY <1>2, <1>3
  <2>2. z[j] = y[j - Len(x)]
    BY ONLY <1>3, <2>1, ~(j <= Len(x))
  <2>3. y[j - Len(x)] \in chars
    BY <2>1, Zenon DEF AllIn
  <2> QED BY <2>2, <2>3
<1>5. i = Len(x)
  <2>1. CASE x = <<>>
    <3>1. Len(x) = 0
      BY <2>1, EmptySeq
    <3>2. Out = {}
      <4> HIDE DEF Out
      <4> QED BY <1>4, <3>1
    <3> QED BY <3>1, <3>2
  <2>2. CASE x # <<>>
    <3>1. Len(x) \in 1..Len(x) /\ x[Len(x)] \notin chars
      BY <1>2, <2>2, EmptySeq DEF Last
    <3>2. Len(x) \in Out
      <4> HIDE DEF z
      <4>1. Len(x) \in 1..(Len(x) + Len(y)) /\ Len(x) <= Len(x)
        BY <1>2, <3>1
      <4>2. z[Len(x)] = x[Len(x)]
        BY ONLY <1>3, <4>1
      <4> QED BY <1>3, <3>1, <4>1, <4>2
    <3> HIDE DEF Out
    <3>3. Out \subseteq 0..Len(x) /\ Out # {}
      BY <1>2, <1>4, <3>2
    <3>4. Max(Out) \in Out /\ \A n \in Out : n <= Max(Out)
      BY <1>2, <3>3, MaxOfNats
    <3>5. Max(Out) \in 1..Len(x) /\ Len(x) <= Max(Out)
      BY <1>4, <3>2, <3>4
    <3> QED BY <1>2, <3>3, <3>5
  <2> QED BY <2>1, <2>2
<1>6. SubSeq(z, 1, Len(x)) = x
  BY FrontIs
<1> HIDE DEF i, z
<1> QED BY <1>1, <1>5, <1>6 DEF z

(* Every text is what is taken off and what is left.                       *)
StartSplits(S, s) ==
    /\ TrimStart(s) \in Seq(S)
    /\ TrimStart(s) = <<>> \/ TrimStart(s)[1] \notin Blank
    /\ \E x \in Seq(S) : AllIn(x, Blank) /\ s = x \o TrimStart(s)

LEMMA StartSplit ==
  ASSUME NEW S, NEW s \in Seq(S)
  PROVE  StartSplits(S, s)
<1> DEFINE Out == {j \in 1..Len(s) : s[j] \notin Blank}
<1>1. Len(s) \in Nat
  BY LenProperties
<1>2. \E k \in 0..Len(s) : /\ \A i \in 1..k : s[i] \in Blank
                           /\ k < Len(s) => s[k + 1] \notin Blank
  <2>1. CASE Out = {}
    <3>1. Len(s) \in 0..Len(s) /\ ~(Len(s) < Len(s)) /\ \A i \in 1..Len(s) : s[i] \in Blank
      BY <1>1, <2>1
    <3> QED BY <3>1
  <2>2. CASE Out # {}
    <3>1. Min(Out) \in Out /\ \A n \in Out : Min(Out) <= n
      <4>1. Out \subseteq Nat
        OBVIOUS
      <4> HIDE DEF Out
      <4> QED BY <2>2, <4>1, MinOfNats
    <3> DEFINE m == Min(Out)
    <3>2. m \in 1..Len(s) /\ s[m] \notin Blank
      BY <3>1
    <3>3. ASSUME NEW i \in 1..(m - 1)
          PROVE  s[i] \in Blank
      <4>1. i \in 1..Len(s) /\ ~(m <= i)
        <5> HIDE DEF m
        <5> QED BY <1>1, <3>2
      <4>2. i \notin Out
        BY <3>1, <4>1
      <4> QED BY <4>1, <4>2
    <3> HIDE DEF m
    <3>4. m - 1 \in 0..Len(s) /\ (m - 1) + 1 = m
      BY <1>1, <3>2
    <3> QED BY <3>2, <3>3, <3>4
  <2> QED BY <2>1, <2>2
<1>3. PICK k \in 0..Len(s) : /\ \A i \in 1..k : s[i] \in Blank
                             /\ k < Len(s) => s[k + 1] \notin Blank
  BY <1>2
<1> DEFINE x == SubSeq(s, 1, k)
           y == From(s, k + 1)
<1>4. /\ x \in Seq(S) /\ Len(x) = k /\ \A i \in 1..k : x[i] = s[i]
      /\ y \in Seq(S) /\ Len(y) = Len(s) - k /\ \A i \in 1..(Len(s) - k) : y[i] = s[k + i]
      /\ s = x \o y
  BY FallsInTwo
<1> HIDE DEF x, y
<1>5. AllIn(x, Blank)
  BY <1>3, <1>4 DEF AllIn
<1>6. y = <<>> \/ y[1] \notin Blank
  <2>1. CASE Len(y) = 0
    BY <1>4, <2>1, EmptyText
  <2>2. CASE Len(y) # 0
    <3>1. k < Len(s) /\ 1 \in 1..(Len(s) - k)
      BY <1>1, <1>4, <2>2
    <3> QED BY <1>3, <1>4, <3>1
  <2> QED BY <2>1, <2>2
<1>7. TrimStart(s) = y
  BY <1>4, <1>5, <1>6, TrimStartIs
<1> QED BY <1>4, <1>5, <1>6, <1>7, Zenon DEF StartSplits

(* The same at the end.                                                    *)
EndSplits(S, s, chars) ==
    /\ TrimEnd(s, chars) \in Seq(S)
    /\ TrimEnd(s, chars) = <<>> \/ Last(TrimEnd(s, chars)) \notin chars
    /\ \E y \in Seq(S) : AllIn(y, chars) /\ s = TrimEnd(s, chars) \o y

LEMMA EndSplit ==
  ASSUME NEW S, NEW s \in Seq(S), NEW chars
  PROVE  EndSplits(S, s, chars)
<1> DEFINE Out == {j \in 1..Len(s) : s[j] \notin chars}
<1>1. Len(s) \in Nat
  BY LenProperties
<1>2. \E k \in 0..Len(s) : /\ \A i \in (k + 1)..Len(s) : s[i] \in chars
                           /\ k # 0 => s[k] \notin chars
  <2>1. CASE Out = {}
    <3>1. 0 \in 0..Len(s) /\ \A i \in (0 + 1)..Len(s) : s[i] \in chars
      BY <1>1, <2>1
    <3> QED BY <3>1
  <2>2. CASE Out # {}
    <3>1. Max(Out) \in Out /\ \A n \in Out : n <= Max(Out)
      <4>1. Out \subseteq 0..Len(s)
        OBVIOUS
      <4> HIDE DEF Out
      <4> QED BY <1>1, <2>2, <4>1, MaxOfNats
    <3> DEFINE m == Max(Out)
    <3>2. m \in 1..Len(s) /\ s[m] \notin chars
      BY <3>1
    <3>3. ASSUME NEW i \in (m + 1)..Len(s)
          PROVE  s[i] \in chars
      <4>1. i \in 1..Len(s) /\ ~(i <= m)
        <5> HIDE DEF m
        <5> QED BY <1>1, <3>2
      <4>2. i \notin Out
        BY <3>1, <4>1
      <4> QED BY <4>1, <4>2
    <3> HIDE DEF m
    <3>4. m \in 0..Len(s)
      BY <1>1, <3>2
    <3> QED BY <3>2, <3>3, <3>4
  <2> QED BY <2>1, <2>2
<1>3. PICK k \in 0..Len(s) : /\ \A i \in (k + 1)..Len(s) : s[i] \in chars
                             /\ k # 0 => s[k] \notin chars
  BY <1>2
<1> DEFINE x == SubSeq(s, 1, k)
           y == From(s, k + 1)
<1>4. /\ x \in Seq(S) /\ Len(x) = k /\ \A i \in 1..k : x[i] = s[i]
      /\ y \in Seq(S) /\ Len(y) = Len(s) - k /\ \A i \in 1..(Len(s) - k) : y[i] = s[k + i]
      /\ s = x \o y
  BY FallsInTwo
<1> HIDE DEF x, y
<1>5. AllIn(y, chars)
  <2> SUFFICES ASSUME NEW i \in 1..(Len(s) - k)
               PROVE  y[i] \in chars
    BY <1>4 DEF AllIn
  <2>1. k + i \in (k + 1)..Len(s)
    BY <1>1
  <2> QED BY <1>3, <1>4, <2>1
<1>6. x = <<>> \/ Last(x) \notin chars
  <2>1. CASE k = 0
    BY <1>4, <2>1, EmptyText
  <2>2. CASE k # 0
    <3>1. k \in 1..k
      BY <1>1, <2>2
    <3> QED BY <1>3, <1>4, <2>2, <3>1 DEF Last
  <2> QED BY <2>1, <2>2
<1>7. TrimEnd(s, chars) = x
  BY <1>4, <1>5, <1>6, TrimEndIs
<1> QED BY <1>4, <1>5, <1>6, <1>7, Zenon DEF EndSplits

(* No blank at either end.                                                 *)
Trimmed(t) == t # <<>> => (t[1] \notin Blank /\ Last(t) \notin Blank)

(* Two texts of such characters strung together.                           *)
LEMMA WithinConcat ==
  ASSUME NEW S, NEW T, NEW x \in Seq(S), NEW y \in Seq(S), AllIn(x, T), AllIn(y, T)
  PROVE  AllIn(x \o y, T)
<1> DEFINE z == x \o y
<1>1. Len(x) \in Nat /\ Len(y) \in Nat
  BY LenProperties
<1>2. /\ Len(z) = Len(x) + Len(y)
      /\ \A i \in 1..(Len(x) + Len(y)) : z[i] = IF i <= Len(x) THEN x[i] ELSE y[i - Len(x)]
  BY ConcatProperties
<1> HIDE DEF z
<1>3. \A i \in 1..(Len(x) + Len(y)) : i <= Len(x) => i \in 1..Len(x)
  BY <1>1
<1>4. \A i \in 1..(Len(x) + Len(y)) : ~(i <= Len(x)) => i - Len(x) \in 1..Len(y)
  BY <1>1
<1>5. \A i \in 1..Len(z) : z[i] \in T
  BY <1>2, <1>3, <1>4 DEF AllIn
<1> QED BY <1>5 DEF AllIn, z

(* The last character of two texts strung together.                        *)
LEMMA LastOfConcat ==
  ASSUME NEW S, NEW x \in Seq(S), NEW y \in Seq(S), y # <<>>
  PROVE  x \o y # <<>> /\ Last(x \o y) = Last(y)
<1> DEFINE z == x \o y
<1>1. Len(x) \in Nat /\ Len(y) \in Nat \ {0}
  BY LenProperties, EmptySeq
<1>2. /\ z \in Seq(S) /\ Len(z) = Len(x) + Len(y)
      /\ \A i \in 1..(Len(x) + Len(y)) : z[i] = IF i <= Len(x) THEN x[i] ELSE y[i - Len(x)]
  BY ConcatProperties
<1> HIDE DEF z
<1>3. /\ Len(x) + Len(y) \in 1..(Len(x) + Len(y)) /\ ~(Len(x) + Len(y) <= Len(x))
      /\ (Len(x) + Len(y)) - Len(x) = Len(y)
  BY <1>1
<1>4. z[Len(z)] = y[Len(y)]
  BY ONLY <1>2, <1>3
<1>5. z # <<>>
  BY <1>1, <1>2, <1>3, EmptySeq
<1> QED BY <1>4, <1>5 DEF Last, z

(* trim takes off the blanks around a text.                                *)
LEMMA TrimIs ==
  ASSUME NEW S, NEW x \in Seq(S), NEW t \in Seq(S), NEW y \in Seq(S),
         AllIn(x, Blank), Trimmed(t), AllIn(y, Blank)
  PROVE  Trim((x \o t) \o y) = t
<1>0. PICK e \in Seq(S) : e = <<>> /\ AllIn(e, Blank)
  <2>1. PICK e \in Seq(S) : e = <<>> /\ Len(e) = 0
    BY EmptySeq
  <2>2. AllIn(e, Blank)
    BY <2>1 DEF AllIn
  <2> QED BY <2>1, <2>2
<1>1. CASE t = <<>>
  <2>1. x \o t = x /\ x \o y \in Seq(S) /\ AllIn(x \o y, Blank)
    BY <1>1, ConcatProperties, WithinConcat, ConcatEmptySeq
  <2>2. e \o (x \o y) = x \o y /\ e \o e = e
    BY <1>0, <2>1, ConcatEmptySeq
  <2>3. TrimEnd(x \o y, Blank) = e
    BY <1>0, <2>1, <2>2, TrimEndIs
  <2>4. TrimStart(e) = e
    BY <1>0, <2>2, TrimStartIs
  <2> QED BY <1>0, <1>1, <2>1, <2>3, <2>4 DEF Trim
<1>2. CASE t # <<>>
  <2>1. x \o t \in Seq(S) /\ Last(x \o t) \notin Blank /\ t[1] \notin Blank
    BY <1>2, ConcatProperties, LastOfConcat DEF Trimmed
  <2>2. TrimEnd((x \o t) \o y, Blank) = x \o t
    BY <2>1, TrimEndIs
  <2>3. TrimStart(x \o t) = t
    BY <2>1, TrimStartIs
  <2> QED BY <2>2, <2>3 DEF Trim
<1> QED BY <1>1, <1>2

(* Every text is such a text, and the blanks around it.                    *)
TrimSplits(S, s) ==
    /\ Trim(s) \in Seq(S) /\ Trimmed(Trim(s))
    /\ \E x \in Seq(S), y \in Seq(S) :
         AllIn(x, Blank) /\ AllIn(y, Blank) /\ s = (x \o Trim(s)) \o y

LEMMA TrimSplit ==
  ASSUME NEW S, NEW s \in Seq(S)
  PROVE  TrimSplits(S, s)
<1> DEFINE u == TrimEnd(s, Blank)
           t == TrimStart(u)
<1>1. PICK y \in Seq(S) : /\ u \in Seq(S)
                          /\ u = <<>> \/ Last(u) \notin Blank
                          /\ AllIn(y, Blank) /\ s = u \o y
  BY EndSplit DEF EndSplits
<1> HIDE DEF u
<1>2. PICK x \in Seq(S) : /\ t \in Seq(S)
                          /\ t = <<>> \/ t[1] \notin Blank
                          /\ AllIn(x, Blank) /\ u = x \o t
  BY <1>1, StartSplit DEF StartSplits
<1> HIDE DEF t
<1>3. Trim(s) = t
  BY DEF Trim, t, u
<1>4. Trimmed(t)
  <2>1. CASE t # <<>>
    BY <1>1, <1>2, <2>1, LastOfConcat DEF Trimmed
  <2> QED BY <2>1 DEF Trimmed
<1>5. s = (x \o t) \o y
  BY <1>1, <1>2
<1> QED BY <1>1, <1>2, <1>3, <1>4, <1>5, Zenon DEF TrimSplits

(* The front of two texts strung together is a prefix of both.             *)
LEMMA PrefixOfConcatenation ==
  ASSUME NEW S, NEW x \in Seq(S), NEW y \in Seq(S)
  PROVE  IsPrefix(x, x \o y)
<1> DEFINE z == x \o y
<1>1. Len(x) \in Nat /\ Len(y) \in Nat
  BY LenProperties
<1>2. /\ z \in Seq(S) /\ Len(z) = Len(x) + Len(y)
      /\ \A j \in 1..(Len(x) + Len(y)) : z[j] = IF j <= Len(x) THEN x[j] ELSE y[j - Len(x)]
  BY ConcatProperties
<1> HIDE DEF z
<1>3. Len(x) <= Len(z) /\ \A i \in 1..Len(x) : x[i] = z[i]
  BY <1>1, <1>2
<1>4. IsPrefix(x, z)
  BY <1>2, <1>3, PrefixIs
<1> QED BY <1>4 DEF z

(* A front of such a text.                                                 *)
LEMMA WithinPrefix ==
  ASSUME NEW S, NEW T, NEW p \in Seq(S), NEW s \in Seq(S), IsPrefix(p, s), AllIn(s, T)
  PROVE  AllIn(p, T)
<1>1. Len(p) \in Nat /\ Len(s) \in Nat /\ Len(p) <= Len(s) /\ \A i \in 1..Len(p) : p[i] = s[i]
  BY LenProperties, PrefixIs
<1> QED BY <1>1 DEF AllIn

(* Of blanks, trim leaves nothing.                                         *)
LEMMA TrimBlank ==
  ASSUME NEW S, NEW s \in Seq(S), AllIn(s, Blank)
  PROVE  Trim(s) = <<>>
<1>1. PICK e \in Seq(S) : e = <<>>
  BY EmptySeq
<1>2. (s \o e) \o e = s
  BY <1>1, ConcatEmptySeq
<1>3. Trimmed(e) /\ AllIn(e, Blank)
  <2>1. Len(e) = 0
    BY <1>1, EmptySeq
  <2> QED BY <1>1, <2>1 DEF Trimmed, AllIn
<1>4. Trim((s \o e) \o e) = e
  BY <1>3, TrimIs
<1> QED BY <1>1, <1>2, <1>4

(* Stringing texts together is associative.                                *)
LEMMA Associates ==
  ASSUME NEW S, NEW x \in Seq(S), NEW y \in Seq(S), NEW z \in Seq(S)
  PROVE  x \o (y \o z) = (x \o y) \o z
BY ConcatAssociative

(* What trim leaves of a front that begins with blanks.                    *)
LEMMA TrimOfFront ==
  ASSUME NEW S, NEW x \in Seq(S), NEW t \in Seq(S), NEW q \in Seq(S),
         AllIn(x, Blank), Trimmed(t), IsPrefix(q, t)
  PROVE  IsPrefix(Trim(x \o q), t)
<1> DEFINE left == TrimEnd(q, Blank)
<1>1. PICK b \in Seq(S) : /\ left \in Seq(S)
                          /\ left = <<>> \/ Last(left) \notin Blank
                          /\ AllIn(b, Blank) /\ q = left \o b
  <2>1. EndSplits(S, q, Blank)
    BY EndSplit
  <2> QED BY <2>1, Zenon DEF EndSplits
<1> HIDE DEF left
<1>2. IsPrefix(left, q) /\ IsPrefix(left, t)
  <2>1. IsPrefix(left, q)
    BY <1>1, PrefixOfConcatenation
  <2> QED BY <1>1, <2>1, PrefixTrans
<1>3. Trimmed(left)
  <2>1. CASE left # <<>>
    <3>1. Len(left) \in Nat \ {0} /\ Len(t) \in Nat /\ Len(left) <= Len(t)
          /\ \A i \in 1..Len(left) : left[i] = t[i]
      BY <1>1, <1>2, <2>1, LenProperties, EmptySeq, PrefixIs
    <3>2. left[1] = t[1] /\ Len(t) # 0
      BY <3>1
    <3>3. t # <<>>
      BY <3>2, EmptySeq
    <3> QED BY <1>1, <2>1, <3>2, <3>3 DEF Trimmed
  <2> QED BY <2>1 DEF Trimmed
<1>4. x \o q = (x \o left) \o b
  <2>1. q = left \o b /\ left \in Seq(S)
    BY <1>1
  <2>2. (x \o left) \o b = x \o (left \o b)
    BY <2>1, ConcatAssociative
  <2> QED BY <2>1, <2>2
<1>5. Trim(x \o q) = left
  BY <1>1, <1>3, <1>4, TrimIs
<1> QED BY <1>2, <1>5

(* A prefix, trimmed, is a prefix of the trimmed text.                     *)
LEMMA TrimPrefix ==
  ASSUME NEW S, NEW p \in Seq(S), NEW s \in Seq(S), IsPrefix(p, s)
  PROVE  IsPrefix(Trim(p), Trim(s))
<1> DEFINE t == Trim(s)
<1>1. PICK x \in Seq(S), y \in Seq(S) :
        /\ t \in Seq(S) /\ Trimmed(t)
        /\ AllIn(x, Blank) /\ AllIn(y, Blank) /\ s = (x \o t) \o y
  BY TrimSplit DEF TrimSplits
<1> HIDE DEF t
<1>2. x \o t \in Seq(S)
  BY <1>1, ConcatProperties
<1>3. CASE IsPrefix(p, x \o t)
  <2>1. PrefixOfEither(S, p, x, t)
    BY <1>1, <1>3, PrefixOfConcat
  <2>2. CASE IsPrefix(p, x)
    <3>1. Trim(p) = <<>>
      BY <1>1, <2>2, WithinPrefix, TrimBlank
    <3>2. PICK e \in Seq(S) : e = <<>> /\ Len(e) = 0
      BY EmptySeq
    <3>3. Len(t) \in Nat
      BY <1>1, LenProperties
    <3>4. IsPrefix(e, t)
      <4>1. Len(e) <= Len(t) /\ \A i \in 1..Len(e) : e[i] = t[i]
        BY <3>2, <3>3
      <4> QED BY <1>1, <4>1, PrefixIs
    <3> QED BY <3>1, <3>2, <3>4 DEF t
  <2>3. ASSUME NEW q \in Seq(S), q # <<>>, IsPrefix(q, t), p = x \o q
        PROVE  IsPrefix(Trim(p), Trim(s))
    <3>1. IsPrefix(Trim(x \o q), t)
      BY <1>1, <2>3, TrimOfFront
    <3> QED BY <2>3, <3>1 DEF t
  <2> QED BY <2>1, <2>2, <2>3 DEF PrefixOfEither
<1>4. ASSUME NEW q \in Seq(S), q # <<>>, IsPrefix(q, y), p = (x \o t) \o q
      PROVE  IsPrefix(Trim(p), Trim(s))
  <2>1. AllIn(q, Blank)
    BY <1>1, <1>4, WithinPrefix
  <2>2. Trim(p) = t
    BY <1>1, <1>4, <2>1, TrimIs
  <2>3. IsPrefix(t, t)
    BY <1>1, PrefixRefl
  <2> QED BY <2>2, <2>3 DEF t
<1>5. PrefixOfEither(S, p, x \o t, y)
  BY <1>1, <1>2, PrefixOfConcat
<1> QED BY <1>3, <1>4, <1>5 DEF PrefixOfEither

-----------------------------------------------------------------------------
(* Parts strung together: where each of them lies.                         *)
FlatTo(part, n) == FlattenSeq([i \in 1..n |-> part[i]])

(* One part after the other.                                               *)
LEMMA FlatToGrows ==
  ASSUME NEW S, NEW N \in Nat, NEW part \in [1..N -> Seq(S)]
  PROVE  /\ FlatTo(part, 0) = <<>>
         /\ \A n \in 0..N : FlatTo(part, n) \in Seq(S)
         /\ \A n \in 1..N : FlatTo(part, n) = FlatTo(part, n - 1) \o part[n]
<1> DEFINE V == Seq(S)
           front(n) == [i \in 1..n |-> part[i]]
<1>1. /\ FlattenSeq(<<>>) = <<>>
      /\ \A ss \in Seq(V) : FlattenSeq(ss) \in V
      /\ \A ss \in Seq(V) : \A s \in V : FlattenSeq(Append(ss, s)) = FlattenSeq(ss) \o s
  BY FlattenGrows
<1> HIDE DEF V
<1>2. part \in [1..N -> V]
  BY DEF V
<1>3. ASSUME NEW n \in 0..N
      PROVE  front(n) \in Seq(V) /\ Len(front(n)) = n
  <2>1. n \in Nat /\ front(n) \in [1..n -> V]
    BY <1>2
  <2> HIDE DEF front
  <2> QED BY <2>1, FunctionText
<1>4. front(0) = <<>>
  <2>1. Len(front(0)) = 0 /\ front(0) \in Seq(V)
    BY <1>3
  <2> HIDE DEF front
  <2> QED BY <2>1, EmptyText
<1>5. ASSUME NEW n \in 1..N
      PROVE  front(n) = Append(front(n - 1), part[n])
  <2>1. n - 1 \in 0..N /\ n \in 0..N /\ n = (n - 1) + 1 /\ part[n] \in V
    BY <1>2
  <2>2. \A i \in 1..(n - 1) : front(n)[i] = front(n - 1)[i]
    BY <2>1
  <2>3. front(n)[n] = part[n]
    OBVIOUS
  <2>4. front(n) \in Seq(V) /\ Len(front(n)) = n /\ front(n - 1) \in Seq(V) /\ Len(front(n - 1)) = n - 1
    BY <1>3, <2>1
  <2> HIDE DEF front
  <2> QED BY <2>1, <2>2, <2>3, <2>4, AppendIs
<1>6. ASSUME NEW n \in 1..N
      PROVE  FlatTo(part, n) = FlatTo(part, n - 1) \o part[n]
  <2>1. n - 1 \in 0..N /\ part[n] \in V
    BY <1>2
  <2>2. front(n - 1) \in Seq(V) /\ front(n) = Append(front(n - 1), part[n])
    BY <1>3, <1>5, <2>1
  <2>3. FlattenSeq(front(n)) = FlattenSeq(front(n - 1)) \o part[n]
    BY <1>1, <2>1, <2>2
  <2> QED BY <2>3 DEF FlatTo
<1>7. \A n \in 0..N : FlatTo(part, n) \in V
  BY <1>1, <1>3 DEF FlatTo
<1>8. FlatTo(part, 0) = <<>>
  BY <1>1, <1>4 DEF FlatTo
<1> QED BY <1>6, <1>7, <1>8 DEF V

(* The parts of G begin after off[0] < off[1] < ...                        *)
Laid(S, N, part, G, off) ==
    /\ G \in Seq(S) /\ off \in [0..N -> Nat]
    /\ off[0] = 0 /\ off[N] = Len(G)
    /\ \A i \in 1..N : i - 1 \in 0..N /\ off[i] = off[i - 1] + Len(part[i])
    /\ \A i \in 0..N : \A j \in i..N : off[i] <= off[j]
    /\ \A i \in 1..N : \A k \in 1..Len(part[i]) : G[off[i - 1] + k] = part[i][k]
    /\ \A p \in 1..Len(G) : \E i \in 1..N : off[i - 1] < p /\ p <= off[i]

(* Where the parts end.                                                    *)
OffsTo(part, N) == [n \in 0..N |-> Len(FlatTo(part, n))]

LEMMA FlatLaid ==
  ASSUME NEW S, NEW N \in Nat, NEW part \in [1..N -> Seq(S)]
  PROVE  Laid(S, N, part, FlatTo(part, N), OffsTo(part, N))
<1> DEFINE F(n) == FlatTo(part, n)
           off == OffsTo(part, N)
<1>1. /\ F(0) = <<>>
      /\ \A n \in 0..N : F(n) \in Seq(S)
      /\ \A n \in 1..N : F(n) = F(n - 1) \o part[n]
  BY FlatToGrows
<1>2. off \in [0..N -> Nat] /\ \A n \in 0..N : off[n] = Len(F(n))
  BY <1>1, LenProperties DEF OffsTo
<1> HIDE DEF off, F
<1>3. ASSUME NEW i \in 1..N
      PROVE  /\ i - 1 \in 0..N /\ i \in 0..N
             /\ part[i] \in Seq(S) /\ Len(part[i]) \in Nat
             /\ F(i - 1) \in Seq(S) /\ F(i) \in Seq(S)
             /\ off[i - 1] \in Nat /\ off[i] \in Nat
             /\ off[i] = off[i - 1] + Len(part[i])
             /\ \A k \in 1..Len(part[i]) : F(i)[off[i - 1] + k] = part[i][k]
             /\ \A k \in 1..off[i - 1] : F(i)[k] = F(i - 1)[k]
  <2>1. i - 1 \in 0..N /\ i \in 0..N /\ part[i] \in Seq(S)
    OBVIOUS
  <2>2. Len(part[i]) \in Nat
    BY <2>1, LenProperties
  <2>3. /\ F(i - 1) \in Seq(S) /\ F(i) \in Seq(S) /\ F(i) = F(i - 1) \o part[i]
        /\ off[i - 1] \in Nat /\ off[i] \in Nat
        /\ off[i - 1] = Len(F(i - 1)) /\ off[i] = Len(F(i))
    BY <1>1, <1>2, <2>1
  <2>4. /\ Len(F(i)) = Len(F(i - 1)) + Len(part[i])
        /\ \A j \in 1..(Len(F(i - 1)) + Len(part[i])) :
             F(i)[j] = IF j <= Len(F(i - 1)) THEN F(i - 1)[j] ELSE part[i][j - Len(F(i - 1))]
    BY <2>1, <2>3, ConcatProperties
  <2>5. \A m, n \in Nat : \A k \in 1..n : m + k \in 1..(m + n) /\ ~(m + k <= m) /\ (m + k) - m = k
    OBVIOUS
  <2>6. \A m, n \in Nat : \A k \in 1..m : k \in 1..(m + n) /\ k <= m
    OBVIOUS
  <2>7. \A k \in 1..Len(part[i]) : F(i)[off[i - 1] + k] = part[i][k]
    BY ONLY <2>2, <2>3, <2>4, <2>5
  <2>8. \A k \in 1..off[i - 1] : F(i)[k] = F(i - 1)[k]
    BY ONLY <2>2, <2>3, <2>4, <2>6
  <2> QED BY <2>1, <2>2, <2>3, <2>4, <2>7, <2>8
<1>4. \A n \in Nat : n <= N => \A i \in 0..n : off[i] <= off[n] /\ \A k \in 1..off[i] : F(n)[k] = F(i)[k]
  <2> DEFINE T == {n \in Nat : n <= N => \A i \in 0..n : off[i] <= off[n] /\ \A k \in 1..off[i] : F(n)[k] = F(i)[k]}
  <2>1. 0 \in T
    <3>1. \A i \in 0..0 : i = 0 /\ off[i] \in Nat
      BY <1>2
    <3> QED BY <3>1
  <2>2. ASSUME NEW n \in Nat, n \in T
        PROVE  n + 1 \in T
    <3> SUFFICES ASSUME n + 1 <= N, NEW i \in 0..(n + 1)
                 PROVE  off[i] <= off[n + 1] /\ \A k \in 1..off[i] : F(n + 1)[k] = F(i)[k]
      OBVIOUS
    <3>1. n + 1 \in 1..N /\ (n + 1) - 1 = n /\ off[i] \in Nat
      BY <1>2
    <3>2. /\ off[n] \in Nat /\ off[n + 1] \in Nat /\ Len(part[n + 1]) \in Nat
          /\ off[n + 1] = off[n] + Len(part[n + 1])
          /\ \A k \in 1..off[n] : F(n + 1)[k] = F(n)[k]
      BY <1>3, <3>1
    <3>3. CASE i = n + 1
      BY <3>2, <3>3
    <3>4. CASE i # n + 1
      <4>1. i \in 0..n /\ n <= N
        BY <3>4
      <4>2. off[i] <= off[n] /\ \A k \in 1..off[i] : F(n)[k] = F(i)[k]
        BY <2>2, <4>1
      <4>3. off[i] <= off[n + 1] /\ \A k \in 1..off[i] : k \in 1..off[n]
        BY <3>1, <3>2, <4>2
      <4> QED BY <3>2, <4>2, <4>3
    <3> QED BY <3>3, <3>4
  <2> HIDE DEF T
  <2>3. \A n \in Nat : n \in T
    BY <2>1, <2>2, SetInduction
  <2> QED BY <2>3 DEF T
<1>5. \A n \in Nat : n <= N => \A p \in 1..off[n] : \E i \in 1..N : off[i - 1] < p /\ p <= off[i]
  <2> DEFINE T == {n \in Nat : n <= N => \A p \in 1..off[n] : \E i \in 1..N : off[i - 1] < p /\ p <= off[i]}
  <2>1. 0 \in T
    <3>1. Len(F(0)) = 0 /\ off[0] = Len(F(0))
      BY <1>1, <1>2, EmptySeq
    <3> QED BY <3>1
  <2>2. ASSUME NEW n \in Nat, n \in T
        PROVE  n + 1 \in T
    <3> SUFFICES ASSUME n + 1 <= N, NEW p \in 1..off[n + 1]
                 PROVE  \E i \in 1..N : off[i - 1] < p /\ p <= off[i]
      OBVIOUS
    <3>1. n + 1 \in 1..N /\ (n + 1) - 1 = n /\ off[n] \in Nat /\ off[n + 1] \in Nat
      BY <1>2
    <3>2. CASE p \in 1..off[n]
      BY <2>2, <3>2
    <3>3. CASE p \notin 1..off[n]
      <4>1. off[n] < p /\ p <= off[n + 1]
        BY <3>1, <3>3
      <4> QED BY <3>1, <4>1
    <3> QED BY <3>2, <3>3
  <2> HIDE DEF T
  <2>3. \A n \in Nat : n \in T
    BY <2>1, <2>2, SetInduction
  <2> QED BY <2>3 DEF T
<1>6. off[0] = 0 /\ off[N] = Len(F(N)) /\ F(N) \in Seq(S)
  <2>1. off[0] = Len(F(0)) /\ Len(F(0)) = 0
    BY <1>1, <1>2, EmptySeq
  <2> QED BY <1>1, <1>2, <2>1
<1>7. \A i \in 0..N : \A j \in i..N : off[i] <= off[j]
  <2>1. \A i \in 0..N : \A j \in i..N : j \in Nat /\ j <= N /\ i \in 0..j
    OBVIOUS
  <2> QED BY <1>4, <2>1
<1>8. ASSUME NEW i \in 1..N, NEW k \in 1..Len(part[i])
      PROVE  F(N)[off[i - 1] + k] = part[i][k]
  <2>1. off[i - 1] + k \in 1..off[i] /\ F(i)[off[i - 1] + k] = part[i][k]
    BY <1>3
  <2>2. N <= N /\ i \in 0..N
    OBVIOUS
  <2> QED BY <1>4, <2>1, <2>2
<1>9. \A p \in 1..Len(F(N)) : \E i \in 1..N : off[i - 1] < p /\ p <= off[i]
  BY <1>5, <1>6
<1>10. Laid(S, N, part, F(N), off)
  BY <1>2, <1>3, <1>6, <1>7, <1>8, <1>9 DEF Laid
<1> QED BY <1>10 DEF F, off

(* Facts on texts strung together that the provers instantiate as a whole. *)
Joined(S, x, y) == x \o y \in Seq(S)
Assoc(x, y, z) == x \o (y \o z) = (x \o y) \o z

LEMMA ConcatText ==
  ASSUME NEW S, NEW x \in Seq(S), NEW y \in Seq(S)
  PROVE  Joined(S, x, y)
BY ConcatProperties DEF Joined

LEMMA Associate ==
  ASSUME NEW S, NEW x \in Seq(S), NEW y \in Seq(S), NEW z \in Seq(S)
  PROVE  Assoc(x, y, z)
BY ConcatAssociative DEF Assoc

(* What a prefix is, as a whole.                                           *)
PrefixReads(p, s) ==
    IsPrefix(p, s) <=> Len(p) <= Len(s) /\ \A i \in 1..Len(p) : p[i] = s[i]

LEMMA PrefixRead ==
  ASSUME NEW S, NEW p \in Seq(S), NEW s \in Seq(S)
  PROVE  PrefixReads(p, s)
BY PrefixIs DEF PrefixReads
=============================================================================
