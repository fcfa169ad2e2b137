---------------------------- MODULE FramingProofs ----------------------------
(***************************************************************************)
(* Proofs about Framing, for every byte and header size, every limit and   *)
(* all payloads: the two ends agree at every byte on where the frames      *)
(* begin, and the bytes implement the channel of whole frames that Session *)
(* uses.                                                                   *)
(***************************************************************************)
EXTENDS Framing, TextProofs

(* The weights are the powers of BASE. *)
LEMMA Weights ==
  /\ Weight \in [0..HEADER_BYTES -> Nat \ {0}]
  /\ Weight[0] = 1
  /\ \A i \in 1..HEADER_BYTES : Weight[i] = BASE * Weight[i - 1]
<1> DEFINE V == Nat \ {0}
           Def(w) == [i \in 0..HEADER_BYTES |-> IF i = 0 THEN 1 ELSE BASE * w[i - 1]]
<1>0. BASE \in V /\ HEADER_BYTES \in Nat
  BY FramingAssumption
<1>1. PICK w \in [0..HEADER_BYTES -> V] :
        w[0] = 1 /\ \A i \in 1..HEADER_BYTES : w[i] = BASE * w[i - 1]
  <2> DEFINE step == [i \in 1..HEADER_BYTES |-> [v \in V |-> BASE * v]]
  <2>1. step \in [1..HEADER_BYTES -> [V -> V]] /\ 1 \in V
    BY <1>0
  <2>2. PICK run \in [0..HEADER_BYTES -> V] :
          run[0] = 1 /\ \A i \in 1..HEADER_BYTES : run[i] = step[i][run[i - 1]]
    <3> HIDE DEF step, V
    <3>1. Recurs(HEADER_BYTES, V, 1, step)
      BY <1>0, <2>1, BoundedRecursion
    <3> QED BY <3>1, Zenon DEF Recurs
  <2>3. ASSUME NEW i \in 1..HEADER_BYTES
        PROVE  run[i] = BASE * run[i - 1]
    <3>1. run[i - 1] \in V
      BY <1>0
    <3> QED BY <2>2, <3>1
  <2> QED BY <2>2, <2>3
<1>2. w = Def(w)
  <2>1. \A i \in 0..HEADER_BYTES : w[i] = IF i = 0 THEN 1 ELSE BASE * w[i - 1]
    BY <1>0, <1>1
  <2> QED BY <2>1, Zenon
<1>3. Weight = Def(Weight)
  <2>1. Weight = CHOOSE g : g = Def(g)
    BY Zenon DEF Weight
  <2> HIDE DEF Def
  <2> QED BY <1>2, <2>1, Zenon
<1>4. /\ Weight[0] = 1
      /\ \A i \in 1..HEADER_BYTES : Weight[i] = BASE * Weight[i - 1]
  BY <1>0, <1>3
<1>5. \A i \in 0..HEADER_BYTES : Weight[i] \in V
  <2> DEFINE T == {i \in Nat : i <= HEADER_BYTES => Weight[i] \in V}
  <2>1. 0 \in T
    BY <1>4
  <2>2. ASSUME NEW i \in Nat, i \in T
        PROVE  i + 1 \in T
    <3> SUFFICES ASSUME i + 1 <= HEADER_BYTES
                 PROVE  Weight[i + 1] \in V
      OBVIOUS
    <3>1. i + 1 \in 1..HEADER_BYTES /\ Weight[i] \in V /\ (i + 1) - 1 = i
      BY <1>0, <2>2
    <3>2. Weight[i + 1] = BASE * Weight[i]
      BY <1>4, <3>1
    <3> QED BY <1>0, <3>1, <3>2
  <2>3. \A i \in Nat : i \in T
    <3> HIDE DEF T
    <3> QED BY <2>1, <2>2, SetInduction
  <2> QED BY <1>0, <2>3
<1>6. Weight \in [0..HEADER_BYTES -> V]
  <2>1. Weight = [i \in 0..HEADER_BYTES |-> Weight[i]]
    BY <1>3, Zenon
  <2> QED BY <1>5, <2>1
<1> QED BY <1>4, <1>6

-----------------------------------------------------------------------------
(* LengthIn reads one digit after the other.                               *)
LEMMA LengthInRuns ==
  ASSUME NEW h \in Seq(Byte)
  PROVE  \E run \in [0..Len(h) -> Nat] :
           /\ run[0] = 0
           /\ \A i \in 1..Len(h) : run[i] = run[i - 1] * BASE + h[i]
           /\ LengthIn(h) = run[Len(h)]
<1> DEFINE n == Len(h)
           Def(it) == [s \in SUBSET DOMAIN h |->
                         IF s = {} THEN 0 ELSE it[s \ {Max(s)}] * BASE + h[Max(s)]]
<1>0. /\ n \in Nat /\ DOMAIN h = 1..n /\ BASE \in Nat
      /\ \A i \in 1..n : h[i] \in Byte /\ h[i] \in Nat
  <2>1. \A i \in 1..n : h[i] \in Byte
    BY ElementOfSeq
  <2> QED BY <2>1, LenProperties, FramingAssumption DEF Byte
<1> HIDE DEF n
<1>1. PICK it \in [SUBSET (1..n) -> Nat] : it = Def(it)
  <2> DEFINE step == [i \in 1..n |-> [v \in Nat |-> v * BASE + h[i]]]
  <2>1. step \in [1..n -> [Nat -> Nat]] /\ 0 \in Nat
    BY <1>0
  <2>2. PICK it \in [SUBSET (1..n) -> Nat] :
          \A s \in SUBSET (1..n) :
            it[s] = IF s = {} THEN 0 ELSE step[Max(s)][it[s \ {Max(s)}]]
    <3>1. n \in Nat
      BY <1>0
    <3> HIDE DEF step, Def
    <3>2. \E it \in [SUBSET (1..n) -> Nat] : Unfolds(it, 0, n, step)
      BY ONLY <3>1, <2>1, FoldExists
    <3> QED BY <3>2, Zenon DEF Unfolds
  <2>3. ASSUME NEW s \in SUBSET (1..n), s # {}
        PROVE  it[s] = it[s \ {Max(s)}] * BASE + h[Max(s)]
    <3>1. Max(s) \in 1..n
      BY <1>0, <2>3, MaxIsIndex
    <3>2. it[s \ {Max(s)}] \in Nat
      OBVIOUS
    <3> QED BY <2>2, <2>3, <3>1, <3>2
  <2>4. it[{}] = 0
    BY <2>2
  <2> HIDE DEF step
  <2>5. it = [s \in SUBSET (1..n) |-> IF s = {} THEN 0 ELSE it[s \ {Max(s)}] * BASE + h[Max(s)]]
    BY <2>3, <2>4
  <2> QED BY <1>0, <2>5, Zenon
<1> DEFINE iter == CHOOSE f : f = Def(f)
<1>2. iter = Def(iter)
  <2> HIDE DEF Def
  <2> QED BY <1>1, Zenon
<1>3. LengthIn(h) = iter[1..n]
  BY <1>0, Zenon DEF LengthIn, FoldLeft, MapThenFoldSet
<1> HIDE DEF iter
<1>4. /\ iter[{}] = 0
      /\ \A s \in SUBSET (1..n) : s # {} => iter[s] = iter[s \ {Max(s)}] * BASE + h[Max(s)]
  BY <1>0, <1>2, Zenon
<1> HIDE DEF Def
<1> DEFINE run == [i \in 0..n |-> iter[1..i]]
<1>5. run[0] = 0
  <2>1. 1..0 = {} /\ 0 \in 0..n
    BY <1>0
  <2> QED BY <1>4, <2>1
<1>6. ASSUME NEW i \in 1..n
      PROVE  run[i] = run[i - 1] * BASE + h[i]
  <2>1. 1..i \in SUBSET (1..n) /\ i \in Nat \ {0} /\ i \in 0..n /\ i - 1 \in 0..n
    BY <1>0
  <2>2. 1..i # {} /\ Max(1..i) = i /\ (1..i) \ {i} = 1..(i - 1)
    BY <2>1, LastOfInterval
  <2>3. iter[1..i] = iter[(1..i) \ {Max(1..i)}] * BASE + h[Max(1..i)]
    <3> HIDE DEF run
    <3> QED BY <1>4, <2>1, <2>2, Zenon
  <2>4. iter[1..i] = iter[1..(i - 1)] * BASE + h[i]
    <3> HIDE DEF run
    <3> QED BY <2>2, <2>3, Zenon
  <2> QED BY <2>1, <2>4
<1>7. LengthIn(h) = run[n]
  <2>1. n \in 0..n
    BY <1>0
  <2> QED BY <1>3, <2>1
<1>8. run \in [0..n -> Nat]
  <2> DEFINE T == {i \in Nat : i <= n => run[i] \in Nat}
  <2>1. 0 \in T
    BY <1>5
  <2>2. ASSUME NEW i \in Nat, i \in T
        PROVE  i + 1 \in T
    <3> SUFFICES ASSUME i + 1 <= n
                 PROVE  run[i + 1] \in Nat
      <4> HIDE DEF run
      <4> QED OBVIOUS
    <3>1. i + 1 \in 1..n /\ run[i] \in Nat /\ (i + 1) - 1 = i
      <4> HIDE DEF run
      <4> QED BY <1>0, <2>2
    <3> HIDE DEF run
    <3>2. run[i + 1] = run[i] * BASE + h[i + 1]
      BY <1>6, <3>1
    <3>3. \A a, b, c \in Nat : a * b + c \in Nat
      OBVIOUS
    <3>4. BASE \in Nat /\ h[i + 1] \in Nat
      BY <1>0, <3>1
    <3> QED BY ONLY <3>1, <3>2, <3>3, <3>4
  <2>3. \A i \in Nat : i \in T
    <3> HIDE DEF T
    <3> QED BY <2>1, <2>2, SetInduction
  <2>4. \A i \in 0..n : run[i] \in Nat
    <3> HIDE DEF run
    <3> QED BY <1>0, <2>3
  <2>5. run = [i \in 0..n |-> run[i]]
    BY Zenon
  <2> HIDE DEF run
  <2> QED BY <2>4, <2>5
<1> HIDE DEF run
<1> QED BY <1>5, <1>6, <1>7, <1>8 DEF n

(* A header is HEADER_BYTES bytes.                                         *)
LEMMA HeaderBytes ==
  ASSUME NEW n \in Nat
  PROVE  Header(n) \in Seq(Byte) /\ Len(Header(n)) = HEADER_BYTES
<1>1. BASE \in Nat /\ BASE > 1 /\ HEADER_BYTES \in Nat
  BY FramingAssumption
<1>2. ASSUME NEW i \in 1..HEADER_BYTES
      PROVE  (n \div Weight[HEADER_BYTES - i]) % BASE \in Byte
  <2>1. PICK w \in Nat \ {0} : w = Weight[HEADER_BYTES - i]
    <3>1. HEADER_BYTES - i \in 0..HEADER_BYTES
      BY <1>1
    <3> QED BY <3>1, Weights
  <2>2. n \div w \in Nat
    OBVIOUS
  <2>3. (n \div w) % BASE \in 0..(BASE - 1)
    BY <1>1, <2>2
  <2> QED BY <2>1, <2>3 DEF Byte
<1>3. Header(n) \in [1..HEADER_BYTES -> Byte]
  BY <1>2 DEF Header
<1> QED BY <1>1, <1>3, FunctionText

(* Division by a product, and what a division leaves.                      *)
LEMMA Division ==
  ASSUME NEW n \in Nat, NEW v \in Nat \ {0}, NEW b \in Nat \ {0}
  PROVE  /\ n \div v \in Nat
         /\ (n \div v) \div b = n \div (v * b)
         /\ (n \div b) * b + (n % b) = n
<1>1. (n \div v) \div b = n \div (v * b)
  OBVIOUS
<1>2. (n \div b) * b + (n % b) = n
  OBVIOUS
<1> QED BY <1>1, <1>2

(* from_be_bytes undoes to_be_bytes for every length that the header holds. *)
LEMMA LengthOfHeader ==
  ASSUME NEW n \in Nat, n < Weight[HEADER_BYTES]
  PROVE  LengthIn(Header(n)) = n
<1> DEFINE H == HEADER_BYTES
           w(i) == Weight[H - i]
<1>1. BASE \in Nat \ {0} /\ H \in Nat
  BY FramingAssumption
<1>2. PICK run \in [0..H -> Nat] :
        /\ run[0] = 0
        /\ \A i \in 1..H : run[i] = run[i - 1] * BASE + Header(n)[i]
        /\ LengthIn(Header(n)) = run[H]
  BY HeaderBytes, LengthInRuns
<1>3. \A i \in 0..H : w(i) \in Nat \ {0}
  BY <1>1, Weights
<1>4. \A i \in 1..H : w(i - 1) = BASE * w(i)
  <2> SUFFICES ASSUME NEW i \in 1..H
               PROVE  Weight[H - (i - 1)] = BASE * Weight[H - i]
    OBVIOUS
  <2>1. PICK j \in 1..H : j = H - (i - 1)
    BY <1>1
  <2>2. j - 1 = H - i
    BY <1>1, <2>1
  <2>3. Weight[j] = BASE * Weight[j - 1]
    BY Weights
  <2> QED BY <2>1, <2>2, <2>3
<1>5. \A i \in 1..H : Header(n)[i] = (n \div w(i)) % BASE
  BY DEF Header
<1> DEFINE T == {i \in Nat : i <= H => run[i] = n \div w(i)}
<1>6. 0 \in T
  <2>1. w(0) = Weight[HEADER_BYTES] /\ w(0) \in Nat \ {0}
    BY <1>1, <1>3
  <2>2. \A m \in Nat \ {0} : n < m => n \div m = 0
    OBVIOUS
  <2> QED BY <1>2, <2>1, <2>2
<1>7. ASSUME NEW i \in Nat, i \in T
      PROVE  i + 1 \in T
  <2> SUFFICES ASSUME i + 1 <= H
               PROVE  run[i + 1] = n \div w(i + 1)
    <3> HIDE DEF w
    <3> QED OBVIOUS
  <2>1. i + 1 \in 1..H /\ (i + 1) - 1 = i /\ i + 1 \in 0..H
    BY <1>1
  <2>2. run[i] = n \div w(i)
    <3> HIDE DEF w
    <3> QED BY <1>1, <1>7
  <2> HIDE DEF w, T
  <2>3. PICK v \in Nat \ {0} : v = w(i + 1)
    BY <1>3, <2>1
  <2>4. w(i) = BASE * v
    BY <1>4, <2>1, <2>3
  <2>5. PICK q \in Nat : q = n \div v
    BY Division, <1>1
  <2>6. n \div (v * BASE) = q \div BASE /\ (q \div BASE) * BASE + (q % BASE) = q
    BY Division, <1>1, <2>5
  <2>7. BASE * v = v * BASE
    BY <1>1
  <2>8. run[i] = q \div BASE
    BY <2>2, <2>4, <2>6, <2>7
  <2>9. Header(n)[i + 1] = q % BASE
    BY <1>5, <2>1, <2>3, <2>5
  <2>10. run[i + 1] = run[i] * BASE + Header(n)[i + 1]
    BY <1>2, <2>1
  <2> QED BY <2>3, <2>5, <2>6, <2>8, <2>9, <2>10
<1>8. run[H] = n \div w(H)
  <2>1. \A i \in Nat : i \in T
    <3> HIDE DEF T
    <3> QED BY <1>6, <1>7, SetInduction
  <2> HIDE DEF w
  <2> QED BY <1>1, <2>1
<1>9. w(H) = 1 /\ n \div 1 = n
  <2>1. H - H = 0
    BY <1>1
  <2> QED BY <2>1, Weights
<1> HIDE DEF w, T
<1> QED BY <1>2, <1>8, <1>9

LEMMA FramedBytes ==
  ASSUME NEW payload \in Payload
  PROVE  /\ payload \in Seq(Byte) /\ Len(payload) \in Nat
         /\ Framed(payload) \in Seq(Byte)
<1>1. payload \in Seq(Byte) /\ Len(payload) \in Nat
  BY FramingAssumption, LenProperties
<1> QED BY <1>1, HeaderBytes, ConcatProperties DEF Framed

-----------------------------------------------------------------------------
(* Bytes strings one frame after the other.                                *)
LEMMA BytesRun ==
  ASSUME NEW frames \in Seq(Payload)
  PROVE  \E run \in [0..Len(frames) -> Seq(Byte)] :
           /\ run[0] = <<>>
           /\ \A i \in 1..Len(frames) : run[i] = run[i - 1] \o Framed(frames[i])
           /\ Bytes(frames) = run[Len(frames)]
<1> DEFINE n == Len(frames)
           V == Seq(Byte)
           Def(it) == [s \in SUBSET DOMAIN frames |->
                         IF s = {} THEN <<>> ELSE it[s \ {Max(s)}] \o Framed(frames[Max(s)])]
<1>0. /\ n \in Nat /\ DOMAIN frames = 1..n /\ <<>> \in V
      /\ \A i \in 1..n : Framed(frames[i]) \in V
  <2>1. \A i \in 1..n : frames[i] \in Payload
    BY ElementOfSeq
  <2> QED BY <2>1, LenProperties, EmptySeq, FramedBytes
<1>1. \A u, v \in V : u \o v \in V
  BY ConcatProperties
<1> HIDE DEF n, V
<1>2. PICK it \in [SUBSET (1..n) -> V] : it = Def(it)
  <2> DEFINE step == [i \in 1..n |-> [v \in V |-> v \o Framed(frames[i])]]
  <2>1. step \in [1..n -> [V -> V]]
    BY <1>0, <1>1
  <2>2. PICK it \in [SUBSET (1..n) -> V] :
          \A s \in SUBSET (1..n) :
            it[s] = IF s = {} THEN <<>> ELSE step[Max(s)][it[s \ {Max(s)}]]
    <3>1. n \in Nat /\ <<>> \in V
      BY <1>0
    <3> HIDE DEF step, Def
    <3>2. \E it \in [SUBSET (1..n) -> V] : Unfolds(it, <<>>, n, step)
      BY ONLY <3>1, <2>1, FoldExists
    <3> QED BY <3>2, Zenon DEF Unfolds
  <2>3. ASSUME NEW s \in SUBSET (1..n), s # {}
        PROVE  it[s] = it[s \ {Max(s)}] \o Framed(frames[Max(s)])
    <3>1. Max(s) \in 1..n
      BY <1>0, <2>3, MaxIsIndex
    <3>2. it[s \ {Max(s)}] \in V
      OBVIOUS
    <3> QED BY <2>2, <2>3, <3>1, <3>2
  <2>4. it[{}] = <<>>
    BY <2>2
  <2> HIDE DEF step
  <2>5. it = [s \in SUBSET (1..n) |->
                IF s = {} THEN <<>> ELSE it[s \ {Max(s)}] \o Framed(frames[Max(s)])]
    BY <2>3, <2>4
  <2> QED BY <1>0, <2>5, Zenon
<1> DEFINE iter == CHOOSE f : f = Def(f)
<1>3. iter = Def(iter)
  <2> HIDE DEF Def
  <2> QED BY <1>2, Zenon
<1>4. Bytes(frames) = iter[1..n]
  BY <1>0, Zenon DEF Bytes, FoldLeft, MapThenFoldSet
<1> HIDE DEF iter
<1>5. /\ iter[{}] = <<>>
      /\ \A s \in SUBSET (1..n) : s # {} => iter[s] = iter[s \ {Max(s)}] \o Framed(frames[Max(s)])
  BY <1>0, <1>3, Zenon
<1> HIDE DEF Def
<1> DEFINE run == [i \in 0..n |-> iter[1..i]]
<1>6. run[0] = <<>>
  <2>1. 1..0 = {} /\ 0 \in 0..n
    BY <1>0
  <2> QED BY <1>5, <2>1
<1>7. ASSUME NEW i \in 1..n
      PROVE  run[i] = run[i - 1] \o Framed(frames[i])
  <2>1. 1..i \in SUBSET (1..n) /\ i \in Nat \ {0} /\ i \in 0..n /\ i - 1 \in 0..n
    BY <1>0
  <2>2. 1..i # {} /\ Max(1..i) = i /\ (1..i) \ {i} = 1..(i - 1)
    BY <2>1, LastOfInterval
  <2>3. iter[1..i] = iter[(1..i) \ {Max(1..i)}] \o Framed(frames[Max(1..i)])
    <3> HIDE DEF run
    <3> QED BY <1>5, <2>1, <2>2, Zenon
  <2>4. iter[1..i] = iter[1..(i - 1)] \o Framed(frames[i])
    <3> HIDE DEF run
    <3> QED BY <2>2, <2>3, Zenon
  <2> QED BY <2>1, <2>4
<1>8. Bytes(frames) = run[n]
  <2>1. n \in 0..n
    BY <1>0
  <2> QED BY <1>4, <2>1
<1>9. run \in [0..n -> V]
  <2> DEFINE T == {i \in Nat : i <= n => run[i] \in V}
  <2>1. 0 \in T
    BY <1>0, <1>6
  <2>2. ASSUME NEW i \in Nat, i \in T
        PROVE  i + 1 \in T
    <3> SUFFICES ASSUME i + 1 <= n
                 PROVE  run[i + 1] \in V
      <4> HIDE DEF run
      <4> QED OBVIOUS
    <3>1. i + 1 \in 1..n /\ run[i] \in V /\ (i + 1) - 1 = i
      <4> HIDE DEF run
      <4> QED BY <1>0, <2>2
    <3> HIDE DEF run
    <3>2. run[i + 1] = run[i] \o Framed(frames[i + 1])
      BY <1>7, <3>1
    <3> QED BY <1>0, <1>1, <3>1, <3>2
  <2>3. \A i \in Nat : i \in T
    <3> HIDE DEF T
    <3> QED BY <2>1, <2>2, SetInduction
  <2>4. \A i \in 0..n : run[i] \in V
    <3> HIDE DEF run
    <3> QED BY <1>0, <2>3
  <2>5. run = [i \in 0..n |-> run[i]]
    BY Zenon
  <2> HIDE DEF run
  <2> QED BY <2>4, <2>5
<1> HIDE DEF run
<1> QED BY <1>6, <1>7, <1>8, <1>9 DEF n, V

LEMMA BytesGrow ==
  /\ Bytes(<<>>) = <<>>
  /\ \A s \in Seq(Payload) : Bytes(s) \in Seq(Byte)
  /\ \A s \in Seq(Payload), p \in Payload : Bytes(Append(s, p)) = Bytes(s) \o Framed(p)
<1>1. Bytes(<<>>) = <<>>
  BY BytesRun, EmptySeq
<1>2. \A s \in Seq(Payload) : Bytes(s) \in Seq(Byte)
  <2> SUFFICES ASSUME NEW s \in Seq(Payload)
               PROVE  Bytes(s) \in Seq(Byte)
    OBVIOUS
  <2>1. Len(s) \in 0..Len(s)
    BY LenProperties
  <2> QED BY <2>1, BytesRun
<1>3. ASSUME NEW s \in Seq(Payload), NEW p \in Payload
      PROVE  Bytes(Append(s, p)) = Bytes(s) \o Framed(p)
  <2> DEFINE t == Append(s, p)
             n == Len(s)
  <2>1. /\ n \in Nat /\ t \in Seq(Payload) /\ Len(t) = n + 1
        /\ \A i \in 1..n : t[i] = s[i]
        /\ t[n + 1] = p
    BY LenProperties, AppendProperties
  <2> HIDE DEF t, n
  <2>2. PICK a \in [0..n -> Seq(Byte)] :
          /\ a[0] = <<>>
          /\ \A i \in 1..n : a[i] = a[i - 1] \o Framed(s[i])
          /\ Bytes(s) = a[n]
    BY BytesRun DEF n
  <2>3. PICK b \in [0..(n + 1) -> Seq(Byte)] :
          /\ b[0] = <<>>
          /\ \A i \in 1..(n + 1) : b[i] = b[i - 1] \o Framed(t[i])
          /\ Bytes(t) = b[n + 1]
    BY <2>1, BytesRun
  <2> DEFINE T == {i \in Nat : i <= n => a[i] = b[i]}
  <2>4. 0 \in T
    BY <2>2, <2>3
  <2>5. ASSUME NEW i \in Nat, i \in T
        PROVE  i + 1 \in T
    <3> SUFFICES ASSUME i + 1 <= n
                 PROVE  a[i + 1] = b[i + 1]
      OBVIOUS
    <3>1. i + 1 \in 1..n /\ i + 1 \in 1..(n + 1) /\ (i + 1) - 1 = i
      BY <2>1
    <3>2. a[i] = b[i]
      BY <2>1, <2>5
    <3>3. /\ a[i + 1] = a[i] \o Framed(s[i + 1])
          /\ b[i + 1] = b[i] \o Framed(t[i + 1])
          /\ t[i + 1] = s[i + 1]
      BY <2>1, <2>2, <2>3, <3>1
    <3> QED BY <3>2, <3>3
  <2>6. a[n] = b[n]
    <3>1. \A i \in Nat : i \in T
      <4> HIDE DEF T
      <4> QED BY <2>4, <2>5, SetInduction
    <3> QED BY <2>1, <3>1
  <2>7. n + 1 \in 1..(n + 1) /\ (n + 1) - 1 = n
    BY <2>1
  <2>8. b[n + 1] = b[n] \o Framed(p)
    BY <2>1, <2>3, <2>7
  <2> QED BY <2>2, <2>3, <2>6, <2>8 DEF t
<1> QED BY <1>1, <1>2, <1>3

(* Strings of bytes, by the laws of concatenation alone.                   *)
ByteString == Seq(Byte)

LEMMA StringLaws ==
  /\ <<>> \in ByteString
  /\ \A u \in ByteString : u \o <<>> = u /\ <<>> \o u = u
  /\ \A u, v \in ByteString : u \o v \in ByteString
  /\ \A u, v, w \in ByteString : (u \o v) \o w = u \o (v \o w)
  BY EmptySeq, ConcatEmptySeq, ConcatProperties, ConcatAssociative DEF ByteString

LEMMA StringsAssociate ==
  \A u, v, w \in ByteString : (u \o v) \o w = u \o (v \o w)
BY StringLaws

(* The same, with the concatenation named: the provers then calculate with *)
(* these laws and nothing else.                                            *)
Join(u, v) == u \o v

LEMMA JoinLaws ==
  /\ \A u, v \in ByteString : Join(u, v) \in ByteString
  /\ \A u, v, w \in ByteString : Join(Join(u, v), w) = Join(u, Join(v, w))
BY StringLaws DEF Join

LEMMA StringsCancel ==
  \A u, v, w \in ByteString : u \o v = u \o w => v = w
BY ConcatSimplifications DEF ByteString

(* The bytes of some frames begin with those of the first of them; the     *)
(* next frame follows.                                                     *)
LEMMA BytesBegin ==
  ASSUME NEW s \in Seq(Payload), NEW k \in Nat, k < Len(s)
  PROVE  \E more \in Seq(Byte) :
           Bytes(s) = Bytes(SubSeq(s, 1, k)) \o (Framed(s[k + 1]) \o more)
<1> DEFINE B(j) == Bytes(SubSeq(s, 1, j))
           frame == Framed(s[k + 1])
           Begins(j) == \E more \in Seq(Byte) : B(j) = B(k) \o (frame \o more)
           T == {d \in Nat : k + 1 + d <= Len(s) => Begins(k + 1 + d)}
<1>1. Len(s) \in Nat
  BY LenProperties
<1>2. \A j \in 0..Len(s) : B(j) \in Seq(Byte)
  <2>1. \A j \in 0..Len(s) : SubSeq(s, 1, j) \in Seq(Payload)
    BY SubSeqText
  <2> QED BY <2>1, BytesGrow
<1>3. \A j \in Nat : j < Len(s) =>
        B(j + 1) = B(j) \o Framed(s[j + 1]) /\ Framed(s[j + 1]) \in Seq(Byte)
  BY FrontGrows, BytesGrow, FramedBytes
<1> HIDE DEF B
<1>4. 0 \in T
  <2>1. B(k + 1) = B(k) \o frame /\ frame \in Seq(Byte)
    BY <1>3
  <2> HIDE DEF frame
  <2>2. frame \o <<>> = frame /\ <<>> \in Seq(Byte)
    BY <2>1, ConcatEmptySeq, EmptySeq
  <2>3. Begins(k + 1)
    <3>1. B(k + 1) = B(k) \o (frame \o <<>>)
      BY <2>1, <2>2
    <3> QED BY <2>2, <3>1, Zenon
  <2>4. k + 1 + 0 = k + 1
    OBVIOUS
  <2> HIDE DEF Begins
  <2> QED BY <2>3, <2>4
<1>5. ASSUME NEW d \in Nat, d \in T
      PROVE  d + 1 \in T
  <2> SUFFICES ASSUME k + 1 + (d + 1) <= Len(s)
               PROVE  Begins(k + 1 + (d + 1))
    <3> HIDE DEF Begins
    <3> QED OBVIOUS
  <2>1. PICK j \in Nat : j = k + 1 + d
    OBVIOUS
  <2>2. j < Len(s) /\ k + 1 + (d + 1) = j + 1 /\ k \in 0..Len(s)
    BY <1>1, <2>1
  <2>0. Begins(j)
    <3> HIDE DEF Begins
    <3> QED BY <1>1, <1>5, <2>1, <2>2
  <2>3. PICK more \in ByteString : B(j) = B(k) \o (frame \o more)
    BY <2>0 DEF ByteString
  <2>4. frame \in ByteString /\ B(k) \in ByteString
    BY <1>2, <1>3, <2>2 DEF ByteString
  <2>5. PICK last \in ByteString : B(j + 1) = B(j) \o last
    BY <1>3, <2>2 DEF ByteString
  <2> HIDE DEF frame, T, Begins
  <2>6. /\ more \o last \in ByteString
        /\ B(j + 1) = B(k) \o (frame \o (more \o last))
    <3>1. frame \o more \in ByteString /\ more \o last \in ByteString
      BY <2>4, StringLaws, Zenon
    <3>2. (B(k) \o (frame \o more)) \o last = B(k) \o ((frame \o more) \o last)
      BY <2>4, <3>1, StringLaws
    <3>3. (frame \o more) \o last = frame \o (more \o last)
      BY <2>4, StringLaws
    <3> QED BY <2>3, <2>5, <3>1, <3>2, <3>3, Zenon
  <2>7. Begins(j + 1)
    BY <2>6, Zenon DEF Begins, ByteString
  <2> QED BY <2>2, <2>7
<1>6. \A d \in Nat : d \in T
  <2> HIDE DEF T
  <2> QED BY <1>4, <1>5, SetInduction
<1>7. PICK d \in Nat : k + 1 + d = Len(s)
  <2>1. Len(s) - (k + 1) \in Nat /\ k + 1 + (Len(s) - (k + 1)) = Len(s)
    BY <1>1
  <2> QED BY <2>1
<1>8. B(Len(s)) = Bytes(s)
  BY SubSeqFull DEF B
<1>9. Begins(Len(s))
  <2> HIDE DEF Begins
  <2>1. Begins(k + 1 + d)
    <3>1. k + 1 + d <= Len(s)
      BY <1>1, <1>7
    <3> QED BY <1>6, <3>1, Zenon
  <2> QED BY <1>7, <2>1, Zenon
<1>10. PICK more \in Seq(Byte) : B(Len(s)) = B(k) \o (frame \o more)
  BY <1>9
<1> QED BY <1>8, <1>10 DEF B

-----------------------------------------------------------------------------
(* What the two ends keep: a frame is either taken whole or left, and all  *)
(* that was read, is in flight or is not yet written are the frames sent.  *)
(* After a crash of the writer some of it (lost) never arrives.            *)
Begun == (IF reader = "payload" THEN Header(expected) ELSE <<>>) \o partial

Tracks(lost) ==
    /\ Bytes(sent) = Bytes(received) \o (Begun \o (stream \o lost))
    /\ writer # "Crashed" => lost = outgoing

Tracked == reader \notin ReaderEnds => \E lost \in ByteString : Tracks(lost)

InTurn ==
    /\ Len(received) <= Len(sent)
    /\ \A i \in 1..Len(received) : received[i] = sent[i]

Within ==
    /\ \A i \in 1..Len(sent) : Len(sent[i]) <= MAX_FRAME_BYTES
    /\ reader # "TooLarge"
    /\ writer \in {"idle", "Closed", "TooLarge"} => outgoing = <<>>

FramesKept == Tracked /\ InTurn /\ Within

(* A piece of what is written or in flight.                                *)
LEMMA Pieces ==
  ASSUME NEW s \in Seq(Byte), NEW n \in 1..Len(s)
  PROVE  /\ Take(s, n) \in Seq(Byte) /\ Len(Take(s, n)) = n
         /\ Drop(s, n) \in Seq(Byte) /\ Len(Drop(s, n)) = Len(s) - n
         /\ Take(s, n) \o Drop(s, n) = s
<1>1. /\ Len(s) \in Nat /\ n \in Nat /\ n \in 0..Len(s) /\ Len(s) \in 0..Len(s)
      /\ 1 \in Nat \ {0} /\ n + 1 \in Nat \ {0}
  BY LenProperties
<1>2. Take(s, n) \in Seq(Byte) /\ Len(Take(s, n)) = n
  BY <1>1, SubSeqText DEF Take
<1>3. Drop(s, n) \in Seq(Byte) /\ Len(Drop(s, n)) = Len(s) - n
  BY <1>1, SubSeqText DEF Drop
<1>4. Take(s, n) \o Drop(s, n) = s
  <2>1. PICK m \in Nat : Len(s) = n + m
    <3>1. Len(s) - n \in Nat /\ Len(s) = n + (Len(s) - n)
      BY <1>1
    <3> QED BY <3>1
  <2>2. SubSeq(s, 1, n) \o SubSeq(s, n + 1, n + m) = SubSeq(s, 1, n + m)
    BY <1>1, <2>1, SubSeqExtends
  <2>3. SubSeq(s, 1, n + m) = s
    BY <2>1, SubSeqFull
  <2> QED BY <2>1, <2>2, <2>3 DEF Take, Drop
<1> QED BY <1>2, <1>3, <1>4

(* A read takes a from the stream and leaves r: it reads on, or a header   *)
(* or a payload is complete.                                               *)
ReadsOn(b) ==
    /\ Len(b) < Wanted
    /\ partial' = b
    /\ UNCHANGED <<expected, reader, received>>

ReadsHeader(b) ==
    /\ reader = "header"
    /\ Len(b) = HEADER_BYTES
    /\ HeaderRead(b)

ReadsPayload(b) ==
    /\ reader = "payload"
    /\ Len(b) = expected
    /\ Deliver(b)

ReadOf(a, r) ==
    /\ reader \in {"header", "payload"}
    /\ stream = a \o r
    /\ stream # <<>>
    /\ Len(r) <= Len(stream)
    /\ stream' = r
    /\ \/ ReadsOn(partial \o a)
       \/ ReadsHeader(partial \o a)
       \/ ReadsPayload(partial \o a)
    /\ UNCHANGED writerVars

LEMMA ReadIs ==
  ASSUME TypeOK, Read
  PROVE  \E a, r \in Seq(Byte) : ReadOf(a, r)
<1>1. PICK n \in 1..Len(stream) :
        /\ Len(partial) + n <= Wanted
        /\ stream' = Drop(stream, n)
        /\ LET bytes == partial \o Take(stream, n) IN
             IF ~Exactly(n)
             THEN /\ partial' = bytes
                  /\ UNCHANGED <<expected, reader, received>>
             ELSE IF reader = "header" THEN HeaderRead(bytes) ELSE Deliver(bytes)
  BY DEF Read
<1>2. PICK a \in Seq(Byte) : a = Take(stream, n)
  BY Pieces DEF TypeOK
<1>3. PICK r \in Seq(Byte) : r = Drop(stream, n)
  BY Pieces DEF TypeOK
<1>4. Len(a) = n /\ a \o r = stream /\ Len(r) = Len(stream) - n
  BY <1>2, <1>3, Pieces DEF TypeOK
<1>5. /\ Len(stream) \in Nat /\ Len(partial) \in Nat /\ stream # <<>>
      /\ Wanted \in Nat
      /\ Len(partial \o a) = Len(partial) + n
  <2>1. Len(partial \o a) = Len(partial) + Len(a)
    BY ConcatProperties DEF TypeOK
  <2>2. Len(stream) # 0 /\ Len(stream) \in Nat /\ Len(partial) \in Nat
    BY LenProperties DEF TypeOK
  <2> QED BY <1>4, <2>1, <2>2, EmptySeq, FramingAssumption DEF Wanted, TypeOK
<1>6. reader \in {"header", "payload"} /\ UNCHANGED writerVars
  BY DEF Read, TypeOK
<1>7. ReadsOn(partial \o a) \/ ReadsHeader(partial \o a) \/ ReadsPayload(partial \o a)
  <2>1. PICK b \in Seq(Byte) : b = partial \o a
    BY ConcatProperties DEF TypeOK
  <2>2. Len(b) = Len(partial) + n /\ Len(b) <= Wanted
    BY <1>1, <1>5, <2>1
  <2>3. CASE ~Exactly(n)
    <3>1. partial' = b /\ UNCHANGED <<expected, reader, received>>
      BY <1>1, <1>2, <2>1, <2>3
    <3>2. Len(b) < Wanted
      BY <1>5, <2>2, <2>3 DEF Exactly
    <3>3. ReadsOn(b)
      BY <3>1, <3>2 DEF ReadsOn
    <3> QED BY <2>1, <3>3
  <2>4. CASE Exactly(n)
    <3>1. IF reader = "header" THEN HeaderRead(b) ELSE Deliver(b)
      BY <1>1, <1>2, <2>1, <2>4, Zenon
    <3>2. Len(b) = Wanted
      BY <1>5, <2>2, <2>4 DEF Exactly
    <3>3. ReadsHeader(b) \/ ReadsPayload(b)
      BY <1>6, <3>1, <3>2 DEF ReadsHeader, ReadsPayload, Wanted
    <3> QED BY <2>1, <3>3
  <2> QED BY <2>3, <2>4
<1>8. stream' = r /\ Len(r) <= Len(stream)
  BY <1>1, <1>3, <1>4, <1>5
<1> QED BY <1>4, <1>5, <1>6, <1>7, <1>8, Zenon DEF ReadOf

LEMMA TypeInit == Init => TypeOK
<1> SUFFICES ASSUME Init
             PROVE  TypeOK
  OBVIOUS
<1>1. toSend \in Seq(Payload)
  <2>1. PICK m \in Nat : toSend \in [1..m -> Payload]
    BY FramingAssumption DEF Init, BoundedSeq, SeqOf
  <2> QED BY <2>1, FunctionText
<1> QED BY <1>1, EmptySeq, FramingAssumption DEF Init, TypeOK, ReaderEnds, ReaderFailures, Wanted

-----------------------------------------------------------------------------
(* What a read takes from the stream joins what was read before.           *)
LEMMA Shift ==
  ASSUME NEW h \in ByteString, NEW p \in ByteString, NEW a \in ByteString,
         NEW r \in ByteString, NEW l \in ByteString
  PROVE  /\ Join(Join(h, p), Join(Join(a, r), l)) = Join(h, Join(Join(p, a), Join(r, l)))
         /\ Join(Join(h, p), Join(Join(a, r), l)) = Join(Join(h, Join(p, a)), Join(r, l))
<1>1. Join(Join(h, p), Join(Join(a, r), l)) = Join(h, Join(Join(p, a), Join(r, l)))
  BY JoinLaws
<1>2. Join(Join(h, p), Join(Join(a, r), l)) = Join(Join(h, Join(p, a)), Join(r, l))
  BY JoinLaws
<1> QED BY <1>1, <1>2

LEMMA LimitFits == MAX_FRAME_BYTES \in Nat /\ MAX_FRAME_BYTES < Weight[HEADER_BYTES]
                   /\ Weight[HEADER_BYTES] \in Nat
<1>1. HEADER_BYTES \in 0..HEADER_BYTES
  BY FramingAssumption
<1>2. Weight[HEADER_BYTES] \in Nat
  BY <1>1, Weights
<1> QED BY <1>2, FramingAssumption

(* Where there is something to read, a frame is not yet delivered, and     *)
(* what was begun, is in flight and is missing begins with that frame.     *)
Arrival(p, lost, more) ==
    /\ Len(received) < Len(sent)
    /\ p = sent[Len(received) + 1]
    /\ Len(p) <= MAX_FRAME_BYTES
    /\ Bytes(sent) = Bytes(received) \o (Begun \o (stream \o lost))
    /\ Begun \o (stream \o lost) = Framed(p) \o more
    /\ writer # "Crashed" => lost = outgoing

LEMMA BegunBytes ==
  ASSUME TypeOK
  PROVE  /\ Begun \in ByteString /\ stream \in ByteString
         /\ (IF reader = "payload" THEN Header(expected) ELSE <<>>) \in ByteString
         /\ partial \in ByteString
<1>1. expected \in Nat
  BY FramingAssumption DEF TypeOK
<1>2. (IF reader = "payload" THEN Header(expected) ELSE <<>>) \in ByteString
  BY <1>1, HeaderBytes, StringLaws DEF ByteString
<1>3. partial \in ByteString /\ stream \in ByteString
  BY DEF TypeOK, ByteString
<1>4. Begun \in ByteString
  <2>1. \A u, v \in ByteString : u \o v \in ByteString
    BY StringLaws
  <2> QED BY <1>2, <1>3, <2>1, Zenon DEF Begun
<1> QED BY <1>2, <1>3, <1>4

LEMMA Arrives ==
  ASSUME TypeOK, FramesKept, reader \notin ReaderEnds, stream # <<>>
  PROVE  \E p \in Payload, lost, more \in ByteString : Arrival(p, lost, more)
<1>1. PICK lost \in ByteString :
        /\ Bytes(sent) = Bytes(received) \o (Begun \o (stream \o lost))
        /\ writer # "Crashed" => lost = outgoing
  BY DEF FramesKept, Tracked, Tracks
<1> DEFINE k == Len(received)
           rest == Begun \o (stream \o lost)
<1>2. /\ sent \in Seq(Payload) /\ received \in Seq(Payload)
      /\ k \in Nat /\ Len(sent) \in Nat /\ k <= Len(sent)
      /\ \A i \in 1..k : received[i] = sent[i]
  BY LenProperties DEF TypeOK, FramesKept, InTurn
<1>3. stream \o lost \in ByteString /\ rest \in ByteString
  BY BegunBytes, StringLaws
<1>4. Bytes(sent) \in Seq(Byte) /\ Bytes(received) \in Seq(Byte)
  BY <1>2, BytesGrow
<1>5. k < Len(sent)
  <2> SUFFICES ASSUME k = Len(sent)
               PROVE  FALSE
    BY <1>2
  <2>1. received = sent
    BY <1>2, SeqEqual
  <2>2. rest = <<>>
    <3>1. Bytes(sent) = Bytes(sent) \o rest
      BY <1>1, <2>1
    <3> HIDE DEF rest
    <3> QED BY <1>3, <1>4, <3>1, ConcatSimplifications DEF ByteString
  <2>3. stream \o lost = <<>>
    BY <1>3, <2>2, BegunBytes, ConcatSimplifications DEF ByteString
  <2>4. stream = <<>>
    BY <2>3, BegunBytes, ConcatSimplifications DEF ByteString
  <2> QED BY <2>4
<1>6. SubSeq(sent, 1, k) = received
  <2>1. k \in 0..Len(sent) /\ 1 \in Nat \ {0}
    BY <1>2
  <2>2. /\ SubSeq(sent, 1, k) \in Seq(Payload) /\ Len(SubSeq(sent, 1, k)) = k
        /\ \A i \in 1..k : SubSeq(sent, 1, k)[i] = sent[i]
    BY <1>2, <2>1, SubSeqText
  <2> QED BY <1>2, <2>2, SeqEqual
<1>7. PICK more \in ByteString : Bytes(sent) = Bytes(received) \o (Framed(sent[k + 1]) \o more)
  BY <1>2, <1>5, <1>6, BytesBegin DEF ByteString
<1>8. k + 1 \in 1..Len(sent) /\ sent[k + 1] \in Payload /\ Len(sent[k + 1]) <= MAX_FRAME_BYTES
  <2>1. k + 1 \in 1..Len(sent)
    BY <1>2, <1>5
  <2> QED BY <1>2, <2>1, ElementOfSeq DEF FramesKept, Within
<1>9. Framed(sent[k + 1]) \in ByteString
  BY <1>8, FramedBytes DEF ByteString
<1>10. rest = Framed(sent[k + 1]) \o more
  <2>1. Framed(sent[k + 1]) \o more \in ByteString
    BY <1>9, StringLaws
  <2> HIDE DEF rest
  <2>2. Bytes(received) \o rest = Bytes(received) \o (Framed(sent[k + 1]) \o more)
    BY <1>1, <1>7 DEF rest
  <2>3. Bytes(received) \in ByteString
    BY <1>4 DEF ByteString
  <2> HIDE DEF k
  <2> QED BY ONLY <1>3, <2>1, <2>2, <2>3, StringsCancel
<1>11. Arrival(sent[k + 1], lost, more)
  BY <1>1, <1>5, <1>8, <1>10 DEF Arrival
<1> QED BY <1>8, <1>11, Zenon

(* A read takes a, when a frame is on its way whose header was read (h).   *)
Incoming(p, lost, more, a, r, h) ==
    /\ Arrival(p, lost, more)
    /\ stream = a \o r
    /\ h = IF reader = "payload" THEN Header(expected) ELSE <<>>

Shifted(p, lost, more, a, r, h) ==
    /\ h \o ((partial \o a) \o (r \o lost)) = Header(Len(p)) \o (p \o more)
    /\ Bytes(sent) = Bytes(received) \o ((h \o (partial \o a)) \o (r \o lost))
    /\ Header(Len(p)) \in ByteString /\ p \in ByteString
    /\ Len(p) \in Nat /\ Len(p) <= MAX_FRAME_BYTES
    /\ partial \o a \in ByteString /\ r \o lost \in ByteString
    /\ p \o more \in ByteString

LEMMA ArrivalShifts ==
  ASSUME TypeOK, NEW p \in Payload, NEW lost \in ByteString, NEW more \in ByteString,
         NEW a \in ByteString, NEW r \in ByteString, NEW h \in ByteString,
         Incoming(p, lost, more, a, r, h)
  PROVE  Shifted(p, lost, more, a, r, h)
<1>1. partial \in ByteString
  BY BegunBytes
<1>0. /\ Arrival(p, lost, more) /\ stream = a \o r
      /\ h = IF reader = "payload" THEN Header(expected) ELSE <<>>
  BY DEF Incoming
<1>2. p \in ByteString /\ Len(p) \in Nat /\ Len(p) <= MAX_FRAME_BYTES
  BY <1>0, FramedBytes DEF ByteString, Arrival
<1>3. Header(Len(p)) \in ByteString
  BY <1>2, HeaderBytes DEF ByteString
<1>4. Framed(p) \o more = Header(Len(p)) \o (p \o more)
  <2>1. PICK k \in ByteString : k = Header(Len(p))
    BY <1>3
  <2>2. (k \o p) \o more = k \o (p \o more)
    BY ONLY <1>2, StringsAssociate
  <2> QED BY <2>1, <2>2, Zenon DEF Framed
<1>5. Begun = h \o partial
  BY <1>0 DEF Begun
<1>6. /\ (h \o partial) \o ((a \o r) \o lost) = Framed(p) \o more
      /\ Bytes(sent) = Bytes(received) \o ((h \o partial) \o ((a \o r) \o lost))
  BY <1>0, <1>5, Zenon DEF Arrival
<1>7. /\ (h \o partial) \o ((a \o r) \o lost) = h \o ((partial \o a) \o (r \o lost))
      /\ (h \o partial) \o ((a \o r) \o lost) = (h \o (partial \o a)) \o (r \o lost)
  <2>1. PICK q \in ByteString : q = partial
    BY <1>1
  <2>2. /\ (h \o q) \o ((a \o r) \o lost) = h \o ((q \o a) \o (r \o lost))
        /\ (h \o q) \o ((a \o r) \o lost) = (h \o (q \o a)) \o (r \o lost)
    <3>1. /\ Join(Join(h, q), Join(Join(a, r), lost)) = Join(h, Join(Join(q, a), Join(r, lost)))
          /\ Join(Join(h, q), Join(Join(a, r), lost)) = Join(Join(h, Join(q, a)), Join(r, lost))
      BY ONLY Shift
    <3> QED BY ONLY <3>1 DEF Join
  <2> QED BY <2>1, <2>2, Zenon
<1>8. /\ partial \o a \in ByteString /\ r \o lost \in ByteString /\ p \o more \in ByteString
  <2>1. \A u, v \in ByteString : u \o v \in ByteString
    BY StringLaws
  <2> QED BY <1>1, <1>2, <2>1, Zenon
<1>9. h \o ((partial \o a) \o (r \o lost)) = Header(Len(p)) \o (p \o more)
  BY <1>4, <1>6, <1>7, Zenon
<1>10. Bytes(sent) = Bytes(received) \o ((h \o (partial \o a)) \o (r \o lost))
  BY <1>6, <1>7, Zenon
<1> QED BY <1>2, <1>3, <1>8, <1>9, <1>10, Zenon DEF Shifted

(* A whole header is that of the frame on its way.                         *)
LEMMA HeaderArrives ==
  ASSUME TypeOK, NEW p \in Payload, NEW lost \in ByteString, NEW more \in ByteString,
         Arrival(p, lost, more),
         NEW a \in ByteString, NEW r \in ByteString, stream = a \o r,
         reader = "header", Len(partial \o a) = HEADER_BYTES
  PROVE  partial \o a = Header(Len(p)) /\ LengthIn(partial \o a) = Len(p)
<1>1. PICK h \in ByteString : h = <<>>
  BY StringLaws
<1>2. Incoming(p, lost, more, a, r, h)
  BY <1>1 DEF Incoming
<1>3. /\ h \o ((partial \o a) \o (r \o lost)) = Header(Len(p)) \o (p \o more)
      /\ Header(Len(p)) \in ByteString
      /\ Len(p) \in Nat /\ Len(p) <= MAX_FRAME_BYTES
      /\ partial \o a \in ByteString /\ r \o lost \in ByteString
      /\ p \o more \in ByteString
  <2>1. Shifted(p, lost, more, a, r, h)
    BY <1>2, ArrivalShifts
  <2> QED BY <2>1, Zenon DEF Shifted
<1>4. PICK b \in ByteString : b = partial \o a
  BY <1>3
<1>5. PICK c \in ByteString : c = Header(Len(p))
  BY <1>3
<1>6. PICK x \in ByteString : x = r \o lost
  BY <1>3
<1>7. PICK y \in ByteString : y = p \o more
  BY <1>3
<1>8. h \o (b \o x) = b \o x
  <2>1. b \o x \in ByteString
    BY StringLaws
  <2> QED BY <1>1, <2>1, StringLaws
<1>9. b \o x = c \o y
  BY <1>3, <1>4, <1>5, <1>6, <1>7, <1>8, Zenon
<1>10. Len(b) = Len(c)
  BY <1>3, <1>4, <1>5, HeaderBytes
<1>11. b = c
  BY ONLY <1>9, <1>10, SplitsAlike DEF ByteString
<1>12. LengthIn(Header(Len(p))) = Len(p)
  <2>1. Len(p) < Weight[HEADER_BYTES]
    BY <1>3, LimitFits
  <2> QED BY <1>3, <2>1, LengthOfHeader
<1> QED BY <1>4, <1>5, <1>11, <1>12, Zenon

(* A whole payload is that of the frame on its way.                        *)
LEMMA PayloadArrives ==
  ASSUME TypeOK, NEW p \in Payload, NEW lost \in ByteString, NEW more \in ByteString,
         Arrival(p, lost, more),
         NEW a \in ByteString, NEW r \in ByteString, stream = a \o r,
         reader = "payload", Len(partial \o a) = expected
  PROVE  partial \o a = p /\ expected = Len(p)
<1>0. expected \in Nat /\ expected <= MAX_FRAME_BYTES
  BY FramingAssumption DEF TypeOK
<1>1. PICK h \in ByteString : h = Header(expected) /\ Len(h) = HEADER_BYTES
  BY <1>0, HeaderBytes DEF ByteString
<1>2. Incoming(p, lost, more, a, r, h)
  BY <1>1 DEF Incoming
<1>3. /\ h \o ((partial \o a) \o (r \o lost)) = Header(Len(p)) \o (p \o more)
      /\ Header(Len(p)) \in ByteString /\ p \in ByteString
      /\ Len(p) \in Nat /\ Len(p) <= MAX_FRAME_BYTES
      /\ partial \o a \in ByteString /\ r \o lost \in ByteString
      /\ p \o more \in ByteString
  <2>1. Shifted(p, lost, more, a, r, h)
    BY <1>2, ArrivalShifts
  <2> QED BY <2>1, Zenon DEF Shifted
<1>4. PICK b \in ByteString : b = partial \o a
  BY <1>3
<1>5. PICK c \in ByteString : c = Header(Len(p))
  BY <1>3
<1>6. PICK x \in ByteString : x = r \o lost
  BY <1>3
<1>7. b \o x \in ByteString /\ p \o more \in ByteString
  BY <1>3, <1>4, <1>6, Zenon, StringLaws
<1>8. h \o (b \o x) = c \o (p \o more)
  BY <1>3, <1>4, <1>5, <1>6, Zenon
<1>9. Len(h) = Len(c)
  BY <1>1, <1>3, <1>5, HeaderBytes
<1>10. h = c /\ b \o x = p \o more
  <2>1. PICK u \in ByteString : u = b \o x
    BY <1>7
  <2>2. PICK v \in ByteString : v = p \o more
    BY <1>7
  <2>3. h \o u = c \o v
    BY <1>8, <2>1, <2>2, Zenon
  <2>4. h = c /\ u = v
    BY ONLY <1>9, <2>3, SplitsAlike DEF ByteString
  <2> QED BY <2>1, <2>2, <2>4, Zenon
<1>11. expected = Len(p)
  <2>1. expected < Weight[HEADER_BYTES] /\ Len(p) < Weight[HEADER_BYTES]
    BY <1>0, <1>3, LimitFits
  <2>2. LengthIn(Header(expected)) = expected /\ LengthIn(Header(Len(p))) = Len(p)
    BY <1>0, <1>3, <2>1, LengthOfHeader
  <2> QED BY <1>1, <1>5, <1>10, <2>2, Zenon
<1>12. Len(b) = Len(p)
  BY <1>4, <1>11
<1>13. b = p
  BY ONLY <1>3, <1>10, <1>12, SplitsAlike DEF ByteString
<1> QED BY <1>4, <1>11, <1>13

(* So a read reads on, or has the header of the frame on its way, or has   *)
(* that frame.                                                             *)
HasHeader(p, b) ==
    /\ reader = "header" /\ b = Header(Len(p)) /\ Len(p) # 0
    /\ reader' = "payload" /\ partial' = <<>> /\ expected' = Len(p)
    /\ UNCHANGED received

HasFrame(p, b, h) == h \o b = Framed(p) /\ Deliver(p)

Reads(p, lost, more, a, r, h) ==
    /\ Incoming(p, lost, more, a, r, h)
    /\ \/ ReadsOn(partial \o a)
       \/ HasHeader(p, partial \o a)
       \/ HasFrame(p, partial \o a, h)

LEMMA ReadArrives ==
  ASSUME TypeOK, FramesKept, NEW a \in ByteString, NEW r \in ByteString, ReadOf(a, r)
  PROVE  \E p \in Payload, lost, more, h \in ByteString : Reads(p, lost, more, a, r, h)
<1>1. reader \in {"header", "payload"} /\ stream = a \o r /\ stream # <<>>
  BY DEF ReadOf
<1>2. PICK p \in Payload, lost, more \in ByteString : Arrival(p, lost, more)
  BY <1>1, Arrives DEF ReaderEnds, ReaderFailures
<1>3. PICK h \in ByteString : h = IF reader = "payload" THEN Header(expected) ELSE <<>>
  BY BegunBytes
<1>4. Incoming(p, lost, more, a, r, h)
  BY <1>1, <1>2, <1>3 DEF Incoming
<1>5. PICK b \in ByteString : b = partial \o a
  <2>1. \A u, v \in ByteString : u \o v \in ByteString
    BY StringLaws
  <2> QED BY <2>1, BegunBytes
<1>6. Len(p) \in Nat /\ Len(p) <= MAX_FRAME_BYTES /\ p \in ByteString
  BY <1>2, FramedBytes DEF Arrival, ByteString
<1>7. CASE ReadsHeader(b)
  <2>1. reader = "header" /\ Len(b) = HEADER_BYTES /\ HeaderRead(b)
    BY <1>7 DEF ReadsHeader
  <2>2. b = Header(Len(p)) /\ LengthIn(b) = Len(p)
    BY <1>1, <1>2, <1>5, <2>1, HeaderArrives
  <2>3. CASE Len(p) = 0
    <3>1. p = <<>>
      BY <1>6, <2>3, EmptySeq DEF ByteString
    <3>2. h = <<>>
      BY <1>3, <2>1
    <3>3. Deliver(<<>>)
      BY <1>6, <2>1, <2>2, <2>3, FramingAssumption DEF HeaderRead
    <3>4. h \o b = Framed(p)
      <4>1. b \o <<>> = b /\ <<>> \o b = b
        BY StringLaws
      <4>2. h \o b = b
        BY <3>2, <4>1
      <4>3. Framed(p) = b
        BY <2>2, <3>1, <4>1, Zenon DEF Framed
      <4> QED BY <4>2, <4>3
    <3>5. HasFrame(p, b, h)
      BY <3>1, <3>3, <3>4, Zenon DEF HasFrame
    <3>6. Reads(p, lost, more, a, r, h)
      BY <1>4, <1>5, <3>5 DEF Reads
    <3> QED BY <3>6
  <2>4. CASE Len(p) # 0
    <3>1. reader' = "payload" /\ partial' = <<>> /\ expected' = Len(p) /\ UNCHANGED received
      <4>1. ~(LengthIn(b) > MAX_FRAME_BYTES) /\ LengthIn(b) # 0
        BY <1>6, <2>2, <2>4, FramingAssumption
      <4> QED BY <2>1, <2>2, <4>1 DEF HeaderRead
    <3>2. HasHeader(p, b)
      BY <2>1, <2>2, <2>4, <3>1 DEF HasHeader
    <3>3. Reads(p, lost, more, a, r, h)
      BY <1>4, <1>5, <3>2 DEF Reads
    <3> QED BY <3>3
  <2> QED BY <2>3, <2>4
<1>8. CASE ReadsPayload(b)
  <2>1. reader = "payload" /\ Len(b) = expected /\ Deliver(b)
    BY <1>8 DEF ReadsPayload
  <2>2. b = p /\ expected = Len(p)
    BY <1>1, <1>2, <1>5, <2>1, PayloadArrives
  <2>3. h \o b = Framed(p)
    BY <1>3, <2>1, <2>2, Zenon DEF Framed
  <2>4. HasFrame(p, b, h)
    BY <2>1, <2>2, <2>3 DEF HasFrame
  <2>5. Reads(p, lost, more, a, r, h)
    BY <1>4, <1>5, <2>4 DEF Reads
  <2> QED BY <2>5
<1>9. CASE ReadsOn(b)
  <2>1. Reads(p, lost, more, a, r, h)
    BY <1>4, <1>5, <1>9 DEF Reads
  <2> QED BY <2>1
<1> QED BY <1>5, <1>7, <1>8, <1>9 DEF ReadOf

LEMMA ReadKeepsTypes ==
  ASSUME TypeOK, FramesKept, Read
  PROVE  TypeOK'
<1>1. PICK a, r \in ByteString : ReadOf(a, r)
  BY ReadIs DEF ByteString
<1>2. PICK p \in Payload, lost, more, h \in ByteString : Reads(p, lost, more, a, r, h)
  BY <1>1, ReadArrives
<1>3. /\ stream' \in Seq(Byte) /\ Len(stream') <= STREAM_BYTES
      /\ UNCHANGED writerVars
  <2>1. Len(r) <= Len(stream) /\ stream' = r /\ UNCHANGED writerVars
    BY <1>1 DEF ReadOf
  <2>2. Len(r) \in Nat /\ Len(stream) \in Nat /\ Len(stream) <= STREAM_BYTES
    BY LenProperties DEF TypeOK, ByteString
  <2> QED BY <2>1, <2>2, FramingAssumption DEF ByteString
<1>4. Len(p) \in Nat /\ Len(p) <= MAX_FRAME_BYTES
  BY <1>2, FramedBytes DEF Reads, Incoming, Arrival
<1>5. reader \in {"header", "payload"}
  BY <1>1 DEF ReadOf
<1>6. CASE ReadsOn(partial \o a)
  <2>1. PICK b \in ByteString : b = partial \o a
    <3>1. \A u, v \in ByteString : u \o v \in ByteString
      BY StringLaws
    <3> QED BY <3>1, BegunBytes
  <2>2. /\ partial' = b /\ Len(b) < Wanted
        /\ UNCHANGED <<expected, reader, received>>
    BY <1>6, <2>1 DEF ReadsOn
  <2>3. partial' \in Seq(Byte) /\ Len(partial') < Wanted'
    BY <2>2 DEF ByteString, Wanted
  <2> QED BY <1>3, <2>2, <2>3 DEF TypeOK, writerVars
<1>7. CASE HasHeader(p, partial \o a)
  <2>1. /\ reader' = "payload" /\ partial' = <<>> /\ expected' = Len(p)
        /\ UNCHANGED received /\ Len(p) # 0
    BY <1>7 DEF HasHeader
  <2>2. Len(partial') < Wanted' /\ expected' \in 0..MAX_FRAME_BYTES
    BY <1>4, <2>1, EmptySeq, FramingAssumption DEF Wanted
  <2> QED BY <1>3, <2>1, <2>2, EmptySeq DEF TypeOK, writerVars
<1>8. CASE HasFrame(p, partial \o a, h)
  <2>1. /\ received' = Append(received, p)
        /\ reader' = "header" /\ partial' = <<>> /\ expected' = 0
    BY <1>8 DEF HasFrame, Deliver
  <2>2. received' \in Seq(Payload)
    BY <2>1, AppendProperties DEF TypeOK
  <2>3. Len(partial') < Wanted' /\ expected' \in 0..MAX_FRAME_BYTES
    BY <2>1, EmptySeq, FramingAssumption DEF Wanted
  <2> QED BY <1>3, <2>1, <2>2, <2>3, EmptySeq DEF TypeOK, writerVars
<1> QED BY <1>2, <1>6, <1>7, <1>8 DEF Reads

LEMMA ReadKeepsFrames ==
  ASSUME TypeOK, FramesKept, Read
  PROVE  FramesKept'
<1>1. PICK a, r \in ByteString : ReadOf(a, r)
  BY ReadIs DEF ByteString
<1>2. PICK p \in Payload, lost, more, h \in ByteString : Reads(p, lost, more, a, r, h)
  BY <1>1, ReadArrives
<1>3. /\ stream' = r /\ sent' = sent /\ writer' = writer /\ outgoing' = outgoing
      /\ reader \in {"header", "payload"}
  BY <1>1 DEF ReadOf, writerVars
<1>4. Incoming(p, lost, more, a, r, h)
  BY <1>2 DEF Reads
<1>5. /\ Bytes(sent) = Bytes(received) \o ((h \o (partial \o a)) \o (r \o lost))
      /\ partial \o a \in ByteString /\ r \o lost \in ByteString
  <2>1. Shifted(p, lost, more, a, r, h)
    BY <1>4, ArrivalShifts
  <2> QED BY <2>1, Zenon DEF Shifted
<1>6. PICK b \in ByteString : b = partial \o a
  BY <1>5
<1>7. PICK x \in ByteString : x = r \o lost
  BY <1>5
<1>8. Bytes(sent) = Bytes(received) \o ((h \o b) \o x)
  BY <1>5, <1>6, <1>7, Zenon
<1>9. /\ h = IF reader = "payload" THEN Header(expected) ELSE <<>>
      /\ writer # "Crashed" => lost = outgoing
      /\ Len(received) < Len(sent) /\ p = sent[Len(received) + 1]
  BY <1>4 DEF Incoming, Arrival
<1>10. /\ Len(received) \in Nat /\ Len(sent) \in Nat
       /\ \A i \in 1..Len(received) : received[i] = sent[i]
  BY LenProperties DEF TypeOK, FramesKept, InTurn
<1>11. /\ \A i \in 1..Len(sent) : Len(sent[i]) <= MAX_FRAME_BYTES
       /\ writer \in {"idle", "Closed", "TooLarge"} => outgoing = <<>>
  BY DEF FramesKept, Within
<1>12. Bytes(received) \in ByteString /\ h \o b \in ByteString
  <2>1. Bytes(received) \in ByteString
    BY BytesGrow DEF ByteString, TypeOK
  <2> QED BY <2>1, StringLaws, Zenon
<1>13. CASE ReadsOn(b)
  <2>1. partial' = b /\ expected' = expected /\ reader' = reader /\ received' = received
    BY <1>13 DEF ReadsOn
  <2>2. Begun' = h \o b
    BY <1>9, <2>1, Zenon DEF Begun
  <2>3. Bytes(sent') = Bytes(received') \o (Begun' \o (stream' \o lost))
    BY <1>3, <1>7, <1>8, <2>1, <2>2, Zenon
  <2>4. Tracks(lost)'
    BY <1>3, <1>9, <2>3, Zenon DEF Tracks
  <2>5. Tracked'
    BY <2>4, Zenon DEF Tracked
  <2>6. InTurn'
    BY <1>3, <2>1 DEF InTurn, FramesKept
  <2>7. Within'
    BY <1>3, <1>11, <2>1 DEF Within
  <2> QED BY <2>5, <2>6, <2>7 DEF FramesKept
<1>14. CASE HasHeader(p, b)
  <2>1. /\ reader = "header" /\ b = Header(Len(p))
        /\ reader' = "payload" /\ partial' = <<>> /\ expected' = Len(p)
        /\ received' = received
    BY <1>14 DEF HasHeader
  <2>2. Begun' = h \o b
    <3>1. h \o b = b /\ b \o <<>> = b
      <4>1. h = <<>>
        BY <1>9, <2>1
      <4> QED BY <4>1, StringLaws
    <3>2. Begun' = Header(expected') \o <<>>
      BY <2>1 DEF Begun
    <3> QED BY <2>1, <3>1, <3>2, Zenon
  <2>3. Bytes(sent') = Bytes(received') \o (Begun' \o (stream' \o lost))
    BY <1>3, <1>7, <1>8, <2>1, <2>2, Zenon
  <2>4. Tracks(lost)'
    BY <1>3, <1>9, <2>3, Zenon DEF Tracks
  <2>5. Tracked'
    BY <2>4, Zenon DEF Tracked
  <2>6. InTurn'
    BY <1>3, <2>1 DEF InTurn, FramesKept
  <2>7. Within'
    BY <1>3, <1>11, <2>1 DEF Within
  <2> QED BY <2>5, <2>6, <2>7 DEF FramesKept
<1>15. CASE HasFrame(p, b, h)
  <2>1. /\ h \o b = Framed(p)
        /\ received' = Append(received, p)
        /\ reader' = "header" /\ partial' = <<>> /\ expected' = 0
    BY <1>15 DEF HasFrame, Deliver
  <2>2. Begun' = <<>>
    BY <2>1, StringLaws DEF Begun
  <2>3. Bytes(received') = Bytes(received) \o (h \o b)
    BY <2>1, BytesGrow DEF TypeOK
  <2>4. Bytes(sent') = Bytes(received') \o (Begun' \o (stream' \o lost))
    <3>1. <<>> \o x = x
      BY StringLaws
    <3>2. PICK y \in ByteString : y = Bytes(received)
      BY <1>12
    <3>3. PICK z \in ByteString : z = h \o b
      BY <1>12
    <3>4. (y \o z) \o x = y \o (z \o x)
      <4>1. Join(Join(y, z), x) = Join(y, Join(z, x))
        BY JoinLaws
      <4> QED BY ONLY <4>1 DEF Join
    <3>5. Begun' \o (stream' \o lost) = x
      BY <1>3, <1>7, <2>2, <3>1, Zenon
    <3> QED BY <1>3, <1>8, <2>3, <3>2, <3>3, <3>4, <3>5, Zenon
  <2>5. Tracks(lost)'
    BY <1>3, <1>9, <2>4, Zenon DEF Tracks
  <2>6. Tracked'
    BY <2>5, Zenon DEF Tracked
  <2>7. InTurn'
    <3>1. /\ Len(received') = Len(received) + 1
          /\ \A i \in 1..Len(received) : received'[i] = received[i]
          /\ received'[Len(received) + 1] = p
      BY <2>1, AppendProperties DEF TypeOK
    <3>2. Len(received') <= Len(sent')
      BY <1>3, <1>9, <1>10, <3>1
    <3>3. \A i \in 1..Len(received') : received'[i] = sent'[i]
      BY <1>3, <1>9, <1>10, <3>1
    <3> QED BY <3>2, <3>3 DEF InTurn
  <2>8. Within'
    BY <1>3, <1>11, <2>1 DEF Within
  <2> QED BY <2>6, <2>7, <2>8 DEF FramesKept
<1> QED BY <1>2, <1>6, <1>13, <1>14, <1>15 DEF Reads

-----------------------------------------------------------------------------
(* The writer's steps, the crashes and the ends.                           *)
LEMMA SendKeeps ==
  ASSUME TypeOK, FramesKept, SendFrame
  PROVE  TypeOK' /\ FramesKept'
<1>1. /\ writer = "idle" /\ toSend # <<>> /\ toSend' = Tail(toSend)
      /\ UNCHANGED <<stream, partial, expected, reader, received>>
  BY DEF SendFrame, readerVars
<1>2. PICK p \in Payload : p = Head(toSend)
  BY <1>1, HeadTailProperties DEF TypeOK
<1>3. toSend' \in Seq(Payload)
  BY <1>1, HeadTailProperties DEF TypeOK
<1>4. outgoing = <<>>
  BY <1>1 DEF FramesKept, Within
<1>5. Begun' = Begun /\ Wanted' = Wanted
  BY <1>1 DEF Begun, Wanted
<1>6. CASE WithinLimit(p) /\ outgoing' = Framed(p) /\ sent' = Append(sent, p) /\ writer' = "writing"
  <2>1. Framed(p) \in Seq(Byte)
    BY FramedBytes
  <2>2. /\ sent' \in Seq(Payload) /\ Len(sent) \in Nat /\ Len(sent') = Len(sent) + 1
        /\ \A i \in 1..Len(sent) : sent'[i] = sent[i]
        /\ sent'[Len(sent) + 1] = p
    BY <1>6, AppendProperties, LenProperties DEF TypeOK
  <2>3. TypeOK'
    BY <1>1, <1>3, <1>5, <1>6, <2>1, <2>2 DEF TypeOK
  <2>4. Tracked'
    <3> SUFFICES ASSUME reader \notin ReaderEnds
                 PROVE  Tracked'
      BY <1>1 DEF Tracked
    <3>1. PICK lost \in ByteString : Tracks(lost)
      BY DEF FramesKept, Tracked
    <3>2. Bytes(sent) = Bytes(received) \o (Begun \o (stream \o lost)) /\ lost = <<>>
      BY <1>1, <1>4, <3>1 DEF Tracks
    <3>3. PICK u \in ByteString : u = Bytes(received)
      BY BytesGrow DEF ByteString, TypeOK
    <3>4. PICK v \in ByteString : v = Begun
      BY BegunBytes
    <3>5. PICK w \in ByteString : w = stream
      BY BegunBytes
    <3>6. PICK f \in ByteString : f = Framed(p)
      BY <2>1 DEF ByteString
    <3>7. Bytes(sent) = u \o (v \o w)
      <4>1. w \o <<>> = w
        BY StringLaws
      <4> QED BY <3>2, <3>3, <3>4, <3>5, <4>1, Zenon
    <3>8. Bytes(sent') = (u \o (v \o w)) \o f
      <4>1. Bytes(sent') = Bytes(sent) \o Framed(p)
        BY <1>6, BytesGrow DEF TypeOK
      <4> QED BY <3>6, <3>7, <4>1, Zenon
    <3>9. (u \o (v \o w)) \o f = u \o (v \o (w \o f))
      <4>1. Join(Join(u, Join(v, w)), f) = Join(u, Join(v, Join(w, f)))
        BY JoinLaws
      <4> QED BY ONLY <4>1 DEF Join
    <3>10. Bytes(sent') = Bytes(received') \o (Begun' \o (stream' \o f))
      BY <1>1, <1>5, <3>3, <3>4, <3>5, <3>8, <3>9, Zenon
    <3>11. Tracks(f)'
      BY <1>6, <3>6, <3>10, Zenon DEF Tracks
    <3> QED BY <3>11, Zenon DEF Tracked
  <2>5. InTurn'
    BY <1>1, <2>2, LenProperties DEF InTurn, FramesKept, TypeOK
  <2>6. Within'
    <3>1. Len(p) <= MAX_FRAME_BYTES
      BY <1>6 DEF WithinLimit
    <3>2. \A i \in 1..Len(sent') : Len(sent'[i]) <= MAX_FRAME_BYTES
      BY <2>2, <3>1 DEF FramesKept, Within
    <3> QED BY <1>1, <1>6, <3>2 DEF FramesKept, Within
  <2> QED BY <2>3, <2>4, <2>5, <2>6 DEF FramesKept
<1>7. CASE writer' = "TooLarge" /\ outgoing' = outgoing /\ sent' = sent
  <2>1. TypeOK'
    BY <1>1, <1>3, <1>5, <1>7 DEF TypeOK, WriterEnds
  <2>2. Tracked'
    <3> SUFFICES ASSUME reader \notin ReaderEnds
                 PROVE  Tracked'
      BY <1>1 DEF Tracked
    <3>1. PICK lost \in ByteString : Tracks(lost)
      BY DEF FramesKept, Tracked
    <3>2. Tracks(lost)'
      BY <1>1, <1>5, <1>7, <3>1 DEF Tracks
    <3> QED BY <3>2, Zenon DEF Tracked
  <2>3. InTurn' /\ Within'
    BY <1>1, <1>4, <1>7 DEF FramesKept, InTurn, Within
  <2> QED BY <2>1, <2>2, <2>3 DEF FramesKept
<1> QED BY <1>2, <1>6, <1>7 DEF SendFrame, Framed

LEMMA WriteKeeps ==
  ASSUME TypeOK, FramesKept, Write
  PROVE  TypeOK' /\ FramesKept'
<1>1. /\ writer = "writing"
      /\ UNCHANGED <<toSend, sent, partial, expected, reader, received>>
  BY DEF Write, readerVars
<1>2. PICK n \in 1..Len(outgoing) :
        /\ Len(stream) + n <= STREAM_BYTES
        /\ stream' = stream \o Take(outgoing, n)
        /\ outgoing' = Drop(outgoing, n)
        /\ writer' = IF n = Len(outgoing) THEN "idle" ELSE "writing"
  BY DEF Write
<1>3. PICK a \in ByteString : a = Take(outgoing, n)
  BY Pieces DEF TypeOK, ByteString
<1>4. PICK b \in ByteString : b = Drop(outgoing, n)
  BY Pieces DEF TypeOK, ByteString
<1>5. /\ Len(a) = n /\ Len(b) = Len(outgoing) - n /\ outgoing = a \o b
      /\ Len(outgoing) \in Nat /\ Len(stream) \in Nat
  BY <1>3, <1>4, Pieces, LenProperties DEF TypeOK
<1>6. PICK w \in ByteString : w = stream
  BY BegunBytes
<1>7. stream' = w \o a /\ outgoing' = b
  BY <1>2, <1>3, <1>4, <1>6
<1>8. Begun' = Begun /\ Wanted' = Wanted
  BY <1>1 DEF Begun, Wanted
<1>9. TypeOK'
  <2>1. w \o a \in Seq(Byte) /\ Len(w \o a) = Len(w) + Len(a)
    BY ConcatProperties DEF ByteString
  <2>2. stream' \in Seq(Byte) /\ Len(stream') <= STREAM_BYTES
    BY <1>2, <1>5, <1>6, <1>7, <2>1
  <2>3. outgoing' \in Seq(Byte) /\ writer' \in {"idle", "writing"}
    BY <1>2, <1>7 DEF ByteString
  <2> QED BY <1>1, <1>8, <2>2, <2>3 DEF TypeOK
<1>10. Tracked'
  <2> SUFFICES ASSUME reader \notin ReaderEnds
               PROVE  Tracked'
    BY <1>1 DEF Tracked
  <2>1. PICK lost \in ByteString : Tracks(lost)
    BY DEF FramesKept, Tracked
  <2>2. PICK v \in ByteString : v = Begun
    BY BegunBytes
  <2>3. Bytes(sent) = Bytes(received) \o (v \o (w \o (a \o b)))
    BY <1>1, <1>5, <1>6, <2>1, <2>2 DEF Tracks
  <2>4. w \o (a \o b) = (w \o a) \o b
    <3>1. Join(w, Join(a, b)) = Join(Join(w, a), b)
      BY JoinLaws
    <3> QED BY ONLY <3>1 DEF Join
  <2>5. Bytes(sent') = Bytes(received') \o (Begun' \o (stream' \o b))
    BY <1>1, <1>7, <1>8, <2>2, <2>3, <2>4, Zenon
  <2>6. Tracks(b)'
    BY <1>7, <2>5, Zenon DEF Tracks
  <2> QED BY <2>6, Zenon DEF Tracked
<1>11. Within'
  <2>1. writer' = "idle" => outgoing' = <<>>
    <3> SUFFICES ASSUME writer' = "idle"
                 PROVE  b = <<>>
      BY <1>7
    <3>1. Len(b) = 0
      BY <1>2, <1>5
    <3> QED BY <3>1, EmptySeq DEF ByteString
  <2> QED BY <1>1, <1>2, <2>1 DEF FramesKept, Within
<1>12. InTurn'
  BY <1>1 DEF FramesKept, InTurn
<1> QED BY <1>9, <1>10, <1>11, <1>12 DEF FramesKept

LEMMA CutKeeps ==
  ASSUME TypeOK, FramesKept, Cut
  PROVE  TypeOK' /\ FramesKept'
<1>1. /\ writer' = "Crashed"
      /\ UNCHANGED <<toSend, outgoing, sent, partial, expected, reader, received>>
  BY DEF Cut, readerVars
<1>2. PICK a \in ByteString, b \in ByteString :
        stream' = a /\ stream = a \o b /\ Len(a) <= STREAM_BYTES
  <2>1. stream \in ByteString /\ Len(stream) <= STREAM_BYTES /\ Len(stream) \in Nat
    BY LenProperties DEF TypeOK, ByteString
  <2>2. CASE UNCHANGED stream
    <3>1. stream = stream \o <<>> /\ <<>> \in ByteString
      BY <2>1, StringLaws
    <3>2. stream' = stream
      BY <2>2
    <3> QED BY <2>1, <3>1, <3>2, Zenon
  <2>3. CASE stream' \in Prefixes(stream)
    <3>1. PICK m \in 0..Len(stream) : stream' = SubSeq(stream, 1, m)
      BY <2>3 DEF Prefixes
    <3>2. CASE m = 0
      <4>1. stream' = <<>>
        BY <2>1, <3>1, <3>2, SubSeqText, EmptySeq DEF ByteString
      <4>2. stream = <<>> \o stream /\ <<>> \in ByteString /\ Len(<<>>) <= STREAM_BYTES
        BY <2>1, StringLaws, EmptySeq, FramingAssumption
      <4> QED BY <2>1, <4>1, <4>2, Zenon
    <3>3. CASE m # 0
      <4>1. m \in 1..Len(stream)
        BY <2>1, <3>3
      <4>2. PICK a \in ByteString : a = Take(stream, m) /\ Len(a) = m
        BY <2>1, <4>1, Pieces DEF ByteString
      <4>3. PICK b \in ByteString : b = Drop(stream, m)
        BY <2>1, <4>1, Pieces DEF ByteString
      <4>4. a \o b = stream
        BY <2>1, <4>1, <4>2, <4>3, Pieces DEF ByteString
      <4>5. stream' = a /\ Len(a) <= STREAM_BYTES
        BY <2>1, <3>1, <4>1, <4>2, FramingAssumption DEF Take
      <4> QED BY <4>4, <4>5, Zenon
    <3> QED BY <3>2, <3>3
  <2> QED BY <2>2, <2>3 DEF Cut
<1>3. Begun' = Begun /\ Wanted' = Wanted
  BY <1>1 DEF Begun, Wanted
<1>4. TypeOK'
  BY <1>1, <1>2, <1>3 DEF TypeOK, WriterEnds, ByteString
<1>5. Tracked'
  <2> SUFFICES ASSUME reader \notin ReaderEnds
               PROVE  Tracked'
    BY <1>1 DEF Tracked
  <2>1. PICK lost \in ByteString : Tracks(lost)
    BY DEF FramesKept, Tracked
  <2>2. PICK v \in ByteString : v = Begun
    BY BegunBytes
  <2>3. PICK rest \in ByteString : rest = b \o lost
    BY StringLaws
  <2>4. Bytes(sent) = Bytes(received) \o (v \o ((a \o b) \o lost))
    BY <1>2, <2>1, <2>2 DEF Tracks
  <2>5. (a \o b) \o lost = a \o rest
    <3>1. Join(Join(a, b), lost) = Join(a, Join(b, lost))
      BY JoinLaws
    <3> QED BY ONLY <2>3, <3>1 DEF Join
  <2>6. Bytes(sent') = Bytes(received') \o (Begun' \o (stream' \o rest))
    BY <1>1, <1>2, <1>3, <2>2, <2>4, <2>5, Zenon
  <2>7. Tracks(rest)'
    BY <1>1, <2>6 DEF Tracks
  <2> QED BY <2>7, Zenon DEF Tracked
<1>6. InTurn' /\ Within'
  BY <1>1 DEF FramesKept, InTurn, Within
<1> QED BY <1>4, <1>5, <1>6 DEF FramesKept

LEMMA EndsKeep ==
  ASSUME TypeOK, FramesKept,
         WriteFails \/ Close \/ ReadEof \/ ReaderCrash \/ UNCHANGED vars
  PROVE  TypeOK' /\ FramesKept'
<1>1. /\ UNCHANGED <<toSend, outgoing, sent, stream, partial, expected, received>>
      /\ \/ reader' = reader /\ writer' \in {writer, "Closed", "IoError"}
         \/ reader' \in {"UnexpectedEof", "Crashed"} /\ writer' = writer
      /\ writer' = "Closed" => writer \in {"idle", "Closed"}
      /\ writer = "Crashed" => writer' = "Crashed"
  BY DEF WriteFails, Close, ReadEof, ReaderCrash, vars, writerVars, readerVars, WriterEnds
<1>2. TypeOK'
  <2>1. Wanted' = Wanted \/ reader' \in ReaderEnds
    BY <1>1 DEF Wanted, ReaderEnds, ReaderFailures
  <2>2. reader' \in {"header", "payload"} \cup ReaderEnds /\ writer' \in {"idle", "writing"} \cup WriterEnds
    BY <1>1 DEF TypeOK, ReaderEnds, ReaderFailures, WriterEnds
  <2>3. reader' \notin ReaderEnds => reader' = reader
    BY <1>1 DEF ReaderEnds, ReaderFailures
  <2> QED BY <1>1, <2>1, <2>2, <2>3 DEF TypeOK
<1>3. Tracked'
  <2> SUFFICES ASSUME reader' \notin ReaderEnds
               PROVE  Tracked'
    BY DEF Tracked
  <2>1. reader' = reader
    BY <1>1 DEF ReaderEnds, ReaderFailures
  <2>2. PICK lost \in ByteString : Tracks(lost)
    BY <2>1 DEF FramesKept, Tracked
  <2>3. Begun' = Begun
    BY <1>1, <2>1 DEF Begun
  <2>4. Tracks(lost)'
    BY <1>1, <2>2, <2>3 DEF Tracks
  <2> QED BY <2>4, Zenon DEF Tracked
<1>4. InTurn' /\ Within'
  BY <1>1 DEF FramesKept, InTurn, Within
<1> QED BY <1>2, <1>3, <1>4 DEF FramesKept

-----------------------------------------------------------------------------
LEMMA FramesInit == Init => FramesKept
<1> SUFFICES ASSUME Init
             PROVE  FramesKept
  OBVIOUS
<1>1. Tracks(<<>>)
  <2>1. Begun = <<>> /\ <<>> \o <<>> = <<>>
    BY StringLaws DEF Init, Begun
  <2>2. Bytes(<<>>) = <<>>
    BY BytesGrow
  <2> QED BY <2>1, <2>2 DEF Init, Tracks
<1>2. Tracked
  BY <1>1, StringLaws DEF Tracked
<1>3. InTurn /\ Within
  BY EmptySeq DEF Init, InTurn, Within
<1> QED BY <1>2, <1>3 DEF FramesKept

LEMMA FramesNext == TypeOK /\ FramesKept /\ [Next]_vars => TypeOK' /\ FramesKept'
<1> SUFFICES ASSUME TypeOK, FramesKept, [Next]_vars
             PROVE  TypeOK' /\ FramesKept'
  OBVIOUS
<1>1. CASE SendFrame
  BY <1>1, SendKeeps
<1>2. CASE Write
  BY <1>2, WriteKeeps
<1>3. CASE Read
  BY <1>3, ReadKeepsTypes, ReadKeepsFrames
<1>4. CASE Cut
  BY <1>4, CutKeeps
<1>5. CASE WriteFails \/ Close \/ ReadEof \/ ReaderCrash \/ UNCHANGED vars
  BY <1>5, EndsKeep
<1> QED BY <1>1, <1>2, <1>3, <1>4, <1>5 DEF Next, WriterStep, ReaderStep

(* Every reachable state is well typed, and both ends keep their place in  *)
(* the frames.                                                             *)
THEOREM FramesInductive == Spec => [](TypeOK /\ FramesKept)
<1>1. Init => TypeOK /\ FramesKept
  BY TypeInit, FramesInit
<1>2. TypeOK /\ FramesKept /\ [Next]_vars => (TypeOK /\ FramesKept)'
  BY FramesNext
<1> QED BY <1>1, <1>2, PTL DEF Spec

(* Type correctness, the limit on what a reader holds included.            *)
(* (tcp.rs:19-47)                                                          *)
THEOREM FramingTypeCorrect == Spec => []TypeOK
BY FramesInductive, PTL

LEMMA KeptAligned == TypeOK /\ FramesKept => Aligned
<1> SUFFICES ASSUME TypeOK, FramesKept, reader \notin ReaderEnds
             PROVE  IF writer = "Crashed"
                    THEN IsPrefix(Consumed \o stream, Bytes(sent))
                    ELSE Consumed \o stream \o outgoing = Bytes(sent)
  BY DEF Aligned
<1>1. PICK lost \in ByteString : Tracks(lost)
  BY DEF FramesKept, Tracked
<1>2. PICK u \in ByteString : u = Bytes(received)
  BY BytesGrow DEF ByteString, TypeOK
<1>3. PICK h \in ByteString : h = IF reader = "payload" THEN Header(expected) ELSE <<>>
  BY BegunBytes
<1>4. PICK p \in ByteString : p = partial
  BY BegunBytes
<1>5. PICK w \in ByteString : w = stream
  BY BegunBytes
<1>6. Bytes(sent) = u \o ((h \o p) \o (w \o lost))
  BY <1>1, <1>2, <1>3, <1>4, <1>5, Zenon DEF Tracks, Begun
<1>7. Consumed = (u \o h) \o p
  BY <1>2, <1>3, <1>4, Zenon DEF Consumed
<1>8. u \o ((h \o p) \o (w \o lost)) = (((u \o h) \o p) \o w) \o lost
  <2>1. Join(u, Join(Join(h, p), Join(w, lost))) = Join(Join(Join(Join(u, h), p), w), lost)
    <3>1. Join(Join(u, h), p) = Join(u, Join(h, p))
      BY JoinLaws
    <3>2. PICK q \in ByteString : q = Join(h, p)
      BY JoinLaws
    <3>3. Join(u, Join(q, Join(w, lost))) = Join(Join(Join(u, q), w), lost)
      BY JoinLaws
    <3> QED BY ONLY <3>1, <3>2, <3>3
  <2> QED BY ONLY <2>1 DEF Join
<1>9. PICK c \in ByteString : c = ((u \o h) \o p) \o w
  <2>1. Join(Join(Join(u, h), p), w) \in ByteString
    BY JoinLaws
  <2> QED BY ONLY <2>1 DEF Join
<1>10. Consumed \o stream = c /\ Bytes(sent) = c \o lost
  BY <1>5, <1>6, <1>7, <1>8, <1>9, Zenon
<1>11. CASE writer = "Crashed"
  <2>1. /\ Len(c) \in Nat /\ Len(lost) \in Nat /\ Len(c \o lost) = Len(c) + Len(lost)
        /\ c \o lost \in Seq(Byte) /\ c \in Seq(Byte)
        /\ \A i \in 1..Len(c) : (c \o lost)[i] = c[i]
    BY ConcatProperties, LenProperties DEF ByteString
  <2>2. PICK t \in Seq(Byte) : t = c \o lost
    BY <2>1
  <2>3. Len(c) \in 0..Len(t) /\ Len(c) \in 0..Len(c) /\ 1 \in Nat \ {0} /\ Len(t) \in Nat
    BY <2>1, <2>2, LenProperties
  <2>4. SubSeq(c, 1, Len(c)) = SubSeq(t, 1, Len(c))
    <3>1. /\ SubSeq(c, 1, Len(c)) \in Seq(Byte) /\ Len(SubSeq(c, 1, Len(c))) = Len(c)
          /\ \A i \in 1..Len(c) : SubSeq(c, 1, Len(c))[i] = c[i]
      BY <2>1, <2>3, SubSeqText
    <3>2. /\ SubSeq(t, 1, Len(c)) \in Seq(Byte) /\ Len(SubSeq(t, 1, Len(c))) = Len(c)
          /\ \A i \in 1..Len(c) : SubSeq(t, 1, Len(c))[i] = t[i]
      BY <2>1, <2>3, SubSeqText
    <3>3. \A i \in 1..Len(c) : t[i] = c[i]
      BY <2>1, <2>2
    <3> QED BY <3>1, <3>2, <3>3, SeqEqual
  <2>5. IsPrefix(c, t)
    BY <2>3, <2>4, SubSeqFull DEF IsPrefix
  <2> QED BY <1>10, <1>11, <2>2, <2>5, Zenon
<1>12. CASE writer # "Crashed"
  <2>1. lost = outgoing
    BY <1>1, <1>12 DEF Tracks
  <2> QED BY <1>10, <1>12, <2>1, Zenon
<1> QED BY <1>11, <1>12

(* At every byte the two ends agree on where the frames begin.             *)
(* (tcp.rs:27-28, 34-44)                                                   *)
THEOREM FramesAligned == Spec => []Aligned
BY FramesInductive, KeptAligned, PTL

LEMMA KeptLimits == TypeOK /\ FramesKept => LimitsAgree
<1> SUFFICES ASSUME TypeOK, FramesKept
             PROVE  LimitsAgree
  OBVIOUS
<1>1. Len(received) \in Nat /\ Len(sent) \in Nat /\ DOMAIN received = 1..Len(received)
  BY LenProperties DEF TypeOK
<1>2. \A i \in 1..Len(received) : Len(received[i]) <= MAX_FRAME_BYTES
  BY <1>1 DEF FramesKept, InTurn, Within
<1> QED BY <1>1, <1>2 DEF LimitsAgree, FramesKept, Within

(* A reader never refuses what a writer lets pass.  (tcp.rs:21 and 37)     *)
THEOREM FrameLimits == Spec => []LimitsAgree
BY FramesInductive, KeptLimits, PTL

(* Every step is a step of the channel of whole frames, or none of it.     *)
LEMMA StepsOfFrames == TypeOK /\ FramesKept /\ [Next]_vars => [F!Next]_(F!vars)
<1> SUFFICES ASSUME TypeOK, FramesKept, [Next]_vars
             PROVE  F!Next \/ UNCHANGED F!vars
  BY DEF F!vars
<1>1. CASE SendFrame
  <2>1. /\ writer = "idle" /\ toSend # <<>>
        /\ received' = received /\ reader' = reader
    BY <1>1 DEF SendFrame, readerVars
  <2>2. PICK p \in Payload : p = Head(toSend)
    BY <2>1, HeadTailProperties DEF TypeOK
  <2>3. \/ sent' = Append(sent, p) /\ writer' = "writing"
        \/ sent' = sent /\ writer' = "TooLarge"
    BY <1>1, <2>2 DEF SendFrame
  <2>4. F!Send \/ F!End
    BY <2>1, <2>3 DEF F!Send, F!End, WriterEnds
  <2> QED BY <2>4 DEF F!Next
<1>2. CASE Write
  <2>1. writer = "writing" /\ writer' \in {"idle", "writing"}
    BY <1>2 DEF Write
  <2> QED BY <1>2, <2>1 DEF Write, readerVars, WriterEnds, F!vars
<1>3. CASE WriteFails \/ Close \/ Cut
  <2>1. /\ writer \notin WriterEnds /\ writer' \in WriterEnds
        /\ sent' = sent /\ received' = received /\ reader' = reader
    BY <1>3 DEF WriteFails, Close, Cut, readerVars, WriterEnds
  <2> QED BY <2>1 DEF F!Next, F!End
<1>4. CASE Read
  <2>1. PICK a, r \in ByteString : ReadOf(a, r)
    BY <1>4, ReadIs DEF ByteString
  <2>2. PICK p \in Payload, lost, more, h \in ByteString : Reads(p, lost, more, a, r, h)
    BY <2>1, ReadArrives
  <2>3. /\ reader \in {"header", "payload"} /\ sent' = sent /\ writer' = writer
        /\ Len(received) < Len(sent) /\ p = sent[Len(received) + 1]
    BY <2>1, <2>2 DEF ReadOf, writerVars, Reads, Incoming, Arrival
  <2>4. CASE ReadsOn(partial \o a)
    BY <2>3, <2>4 DEF ReadsOn, F!vars
  <2>5. CASE HasHeader(p, partial \o a)
    BY <2>3, <2>5 DEF HasHeader, F!vars, ReaderFailures
  <2>6. CASE HasFrame(p, partial \o a, h)
    <3>1. received' = Append(received, p) /\ reader' = "header"
      BY <2>6 DEF HasFrame, Deliver
    <3>2. F!Receive
      BY <2>3, <3>1 DEF F!Receive, ReaderFailures
    <3> QED BY <3>2 DEF F!Next
  <2> QED BY <2>2, <2>4, <2>5, <2>6 DEF Reads
<1>5. CASE ReadEof
  <2>1. /\ reader \notin ReaderEnds /\ writer \in WriterEnds /\ reader' = "UnexpectedEof"
        /\ received' = received /\ sent' = sent /\ writer' = writer
    BY <1>5 DEF ReadEof, writerVars
  <2>2. F!ReaderFails
    BY <2>1 DEF F!ReaderFails, ReaderEnds, ReaderFailures
  <2> QED BY <2>2 DEF F!Next
<1>6. CASE ReaderCrash
  <2>1. /\ reader \notin ReaderEnds /\ reader' = "Crashed"
        /\ received' = received /\ sent' = sent /\ writer' = writer
    BY <1>6 DEF ReaderCrash, writerVars
  <2> QED BY <2>1 DEF F!vars, ReaderEnds, ReaderFailures
<1>7. CASE UNCHANGED vars
  BY <1>7 DEF vars, writerVars, readerVars, F!vars
<1> QED BY <1>1, <1>2, <1>3, <1>4, <1>5, <1>6, <1>7 DEF Next, WriterStep, ReaderStep

(* The bytes implement the channel of whole frames that Session assumes.   *)
(* (tcp.rs:19-47, p2p.rs:41-72)                                            *)
THEOREM FramesRefine == Spec => ImplementsFrameChannel
<1>1. Init => F!Init
  BY DEF Init, F!Init, WriterEnds, ReaderFailures
<1>2. TypeOK /\ FramesKept /\ [Next]_vars => [F!Next]_(F!vars)
  BY StepsOfFrames
<1> QED BY <1>1, <1>2, FramesInductive, PTL DEF Spec, F!Spec, ImplementsFrameChannel
=============================================================================
