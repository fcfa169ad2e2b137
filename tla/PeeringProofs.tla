---------------------------- MODULE PeeringProofs ----------------------------
(***************************************************************************)
(* Of modules Ticket and Peering, for all addresses, any number of senders *)
(* and receivers, and whatever becomes of the tickets: a ticket that       *)
(* arrives whole is decoded to what was encoded, one that has lost its end *)
(* is refused or still names its sender, and a sender serves one receiver. *)
(*                                                                         *)
(* The lemmas follow the text of a ticket from the inside: escapes, the    *)
(* addresses, one field, the fields of a query, the whole.  What a fold    *)
(* does, encoding or decoding, is stated element by element and then used  *)
(* by induction over the list.                                             *)
(***************************************************************************)
EXTENDS Peering, TextProofs

-----------------------------------------------------------------------------
(* Percent escapes.  The table of the codes,                               *)
LEMMA Codes ==
  /\ DOMAIN Code = {"%", "&", "=", "?", "[", "]"}
  /\ Code["%"] = 37 /\ Code["&"] = 38 /\ Code["="] = 61
  /\ Code["?"] = 63 /\ Code["["] = 91 /\ Code["]"] = 93
<1>1. /\ "%" # "&" /\ "%" # "=" /\ "%" # "?" /\ "%" # "[" /\ "%" # "]"
      /\ "&" # "=" /\ "&" # "?" /\ "&" # "[" /\ "&" # "]"
      /\ "=" # "?" /\ "=" # "[" /\ "=" # "]"
      /\ "?" # "[" /\ "?" # "]" /\ "[" # "]"
  OBVIOUS
<1> QED BY <1>1, Zenon DEF Code

(* and of the digits they are written with.                                *)
LEMMA HexValues ==
  /\ \A d \in DOMAIN HexValue : d \notin {"%", "&", "=", "?"}
  /\ \A n \in 0..15 : HexDigit(n) \in Chars \cap DOMAIN HexValue /\ HexValue[HexDigit(n)] = n
<1> DEFINE Is(d, n) == d \in {HexDigits[n + 1], LowerHexDigits[n + 1]}
           reserved == {"%", "&", "=", "?"}
<1>1. /\ \A n \in 1..16 : HexDigits[n] \in Chars
      /\ \A n \in 1..16 : HexDigits[n] \notin {"%", "&", "=", "?"}
      /\ \A n \in 1..16 : LowerHexDigits[n] \notin {"%", "&", "=", "?"}
  <2>1. DOMAIN HexDigits = 1..16
    BY DEF HexDigits
  <2>2. \A n \in 1..16 : HexDigits[n] \in Chars
    BY <2>1, TicketAssumption DEF Range
  <2> QED BY <2>2 DEF HexDigits, LowerHexDigits
<1>2. DOMAIN HexDigits = 1..16 /\ DOMAIN LowerHexDigits = 1..16
  BY DEF HexDigits, LowerHexDigits
<1>4. \A m, n \in 0..15 : Is(HexDigits[m + 1], n) => m = n
  BY DEF HexDigits, LowerHexDigits
<1> DEFINE digits == Range(HexDigits) \cup Range(LowerHexDigits)
<1>5. HexValue = [d \in digits |-> CHOOSE n \in 0..15 : Is(d, n)]
  BY DEF HexValue
<1>6. /\ \A d \in digits : d \notin reserved
      /\ \A n \in 0..15 : HexDigits[n + 1] \in digits
  <2> HIDE DEF reserved
  <2> QED BY <1>1, <1>2 DEF Range, reserved
<1>7. ASSUME NEW n \in 0..15
      PROVE  HexValue[HexDigits[n + 1]] = n
  <2> HIDE DEF digits
  <2>1. HexValue[HexDigits[n + 1]] = CHOOSE m \in 0..15 : Is(HexDigits[n + 1], m)
    BY <1>5, <1>6
  <2>2. Is(HexDigits[n + 1], n)
    OBVIOUS
  <2> HIDE DEF Is
  <2> QED BY <1>4, <2>1, <2>2
<1> HIDE DEF digits
<1> QED BY <1>1, <1>5, <1>6, <1>7 DEF HexDigit

(* What a character becomes:                                               *)
Block(c) ==
    IF c \in DOMAIN Code THEN <<"%", HexDigit(Code[c] \div 16), HexDigit(Code[c] % 16)>>
    ELSE <<c>>

(* an escape of three characters, or itself.                               *)
IsEscape(b, c) ==
    /\ b = <<"%", b[2], b[3]>> /\ b[2] \in DOMAIN HexValue /\ b[3] \in DOMAIN HexValue
    /\ c = CHOOSE d \in DOMAIN Code : Code[d] = 16 * HexValue[b[2]] + HexValue[b[3]]

(* Its escape reads back as the character.                                 *)
LEMMA BlockIs ==
  ASSUME NEW c \in Chars
  PROVE  /\ Block(c) \in Seq(Chars) /\ Block(c) # <<>>
         /\ \/ Block(c) = <<c>> /\ c \notin {"%", "&", "=", "?"}
            \/ IsEscape(Block(c), c)
<1>1. CASE c \notin DOMAIN Code
  BY <1>1, Codes DEF Block
<1>2. CASE c \in DOMAIN Code
  <2> DEFINE h == Code[c] \div 16
             l == (Code[c] % 16)
  <2>1. h \in 0..15 /\ l \in 0..15 /\ 16 * h + l = Code[c]
    BY <1>2, Codes
  <2>2. \A d, e \in DOMAIN Code : Code[d] = Code[e] => d = e
    BY Codes
  <2>3. Block(c) = <<"%", HexDigit(h), HexDigit(l)>>
    BY <1>2 DEF Block
  <2> HIDE DEF h, l
  <2>4. /\ HexDigit(h) \in DOMAIN HexValue /\ HexValue[HexDigit(h)] = h
        /\ HexDigit(l) \in DOMAIN HexValue /\ HexValue[HexDigit(l)] = l
    BY <2>1, HexValues
  <2>5. c = CHOOSE d \in DOMAIN Code : Code[d] = 16 * h + l
    BY <1>2, <2>1, <2>2
  <2>6. HexDigit(h) \in Chars /\ HexDigit(l) \in Chars
    BY <2>1, HexValues
  <2> DEFINE b == Block(c)
  <2>0. "%" \in Chars
    BY TicketAssumption, Codes
  <2>7. /\ b \in Seq(Chars) /\ b # <<>>
        /\ b[2] = HexDigit(h) /\ b[3] = HexDigit(l) /\ b = <<"%", b[2], b[3]>>
    BY <2>3, <2>6, <2>0
  <2> HIDE DEF b
  <2>8. IsEscape(b, c)
    BY <2>4, <2>5, <2>7 DEF IsEscape
  <2> QED BY <2>7, <2>8 DEF b
<1> QED BY <1>1, <1>2

(* The encoding of a text, character by character.                         *)
LEMMA EncodeGrows ==
  /\ PercentEncode(<<>>) = <<>>
  /\ \A v \in Seq(Chars) : PercentEncode(v) \in Seq(Chars)
  /\ \A v \in Seq(Chars) : \A c \in Chars :
       PercentEncode(Append(v, c)) = PercentEncode(v) \o Block(c)
<1> DEFINE blocks(v) == [i \in DOMAIN v |-> Block(v[i])]
<1>1. \A v : PercentEncode(v) = FlattenSeq(blocks(v))
  BY DEF PercentEncode, Block
<1>2. ASSUME NEW v \in Seq(Chars)
      PROVE  blocks(v) \in Seq(Seq(Chars)) /\ Len(blocks(v)) = Len(v)
  <2>1. /\ Len(v) \in Nat /\ DOMAIN v = 1..Len(v)
        /\ \A i \in 1..Len(v) : Block(v[i]) \in Seq(Chars)
    BY LenProperties, BlockIs
  <2>2. blocks(v) \in [1..Len(v) -> Seq(Chars)]
    BY <2>1
  <2> HIDE DEF blocks
  <2> QED BY <2>1, <2>2, FunctionText
<1>3. ASSUME NEW v \in Seq(Chars), NEW c \in Chars
      PROVE  blocks(Append(v, c)) = Append(blocks(v), Block(c))
  <2> DEFINE w == Append(v, c)
  <2>1. /\ w \in Seq(Chars) /\ Len(v) \in Nat /\ Len(w) = Len(v) + 1
        /\ DOMAIN v = 1..Len(v) /\ DOMAIN w = 1..(Len(v) + 1)
        /\ \A i \in 1..Len(v) : w[i] = v[i]
        /\ w[Len(v) + 1] = c
    BY AppendText
  <2> HIDE DEF w
  <2>2. /\ \A i \in 1..Len(v) : blocks(w)[i] = blocks(v)[i]
        /\ blocks(w)[Len(v) + 1] = Block(c)
    BY <2>1
  <2>3. /\ blocks(w) \in Seq(Seq(Chars)) /\ Len(blocks(w)) = Len(v) + 1
        /\ blocks(v) \in Seq(Seq(Chars)) /\ Len(blocks(v)) = Len(v) /\ Block(c) \in Seq(Chars)
    BY <1>2, <2>1, BlockIs
  <2> HIDE DEF blocks
  <2> QED BY <2>2, <2>3, AppendIs DEF w
<1>4. PercentEncode(<<>>) = <<>>
  <2>1. blocks(<<>>) = <<>>
    BY EmptySeq
  <2> HIDE DEF blocks
  <2> QED BY <1>1, <2>1, FlattenGrows
<1> HIDE DEF blocks
<1> QED BY <1>1, <1>2, <1>3, <1>4, FlattenGrows, BlockIs

(* No escape is cut short by the end.                                      *)
NoCut(text) == \A i \in 1..Len(text) : text[i] = "%" => i + 2 <= Len(text)

(* Texts whose escapes are whole have whole escapes together.              *)
LEMMA NoCutConcat ==
  ASSUME NEW x \in Seq(Chars), NEW y \in Seq(Chars)
  PROVE  /\ NoCut(x) /\ NoCut(y) => NoCut(x \o y)
         /\ EscapesOk(x) /\ EscapesOk(y) => EscapesOk(x \o y)
         /\ EscapesOk(x) => NoCut(x)
<1> DEFINE z == x \o y
<1>1. Len(x) \in Nat /\ Len(y) \in Nat /\ DOMAIN x = 1..Len(x) /\ DOMAIN y = 1..Len(y)
  BY LenProperties
<1>2. /\ z \in Seq(Chars) /\ Len(z) = Len(x) + Len(y)
      /\ \A i \in 1..(Len(x) + Len(y)) : z[i] = IF i <= Len(x) THEN x[i] ELSE y[i - Len(x)]
  BY ConcatProperties
<1> HIDE DEF z
<1>3. DOMAIN z = 1..(Len(x) + Len(y))
  BY <1>2, LenProperties
<1>4. ASSUME NEW i \in 1..(Len(x) + Len(y)), NoCut(x), NoCut(y), z[i] = "%"
      PROVE  i + 2 <= Len(z)
  <2>1. CASE i <= Len(x)
    BY <1>1, <1>2, <1>4, <2>1 DEF NoCut
  <2>2. CASE ~(i <= Len(x))
    <3>1. i - Len(x) \in 1..Len(y) /\ y[i - Len(x)] = "%"
      BY <1>1, <1>2, <1>4, <2>2
    <3> QED BY <1>1, <1>2, <1>4, <3>1 DEF NoCut
  <2> QED BY <2>1, <2>2
<1>5. ASSUME NEW i \in 1..(Len(x) + Len(y)), EscapesOk(x), EscapesOk(y), z[i] = "%"
      PROVE  /\ i + 2 <= Len(z)
             /\ z[i + 1] \in DOMAIN HexValue /\ z[i + 2] \in DOMAIN HexValue
  <2>1. CASE i <= Len(x)
    <3>0. x[i] = "%" /\ i \in DOMAIN x
      BY <1>1, <1>2, <1>5, <2>1
    <3>1. i + 2 <= Len(x) /\ x[i + 1] \in DOMAIN HexValue /\ x[i + 2] \in DOMAIN HexValue
      BY <1>5, <3>0 DEF EscapesOk
    <3>2. /\ i + 1 \in 1..(Len(x) + Len(y)) /\ i + 2 \in 1..(Len(x) + Len(y))
          /\ i + 1 <= Len(x) /\ i + 2 <= Len(x)
      BY <1>1, <3>1
    <3> QED BY <1>1, <1>2, <3>1, <3>2
  <2>2. CASE ~(i <= Len(x))
    <3> DEFINE j == i - Len(x)
    <3>1. j \in 1..Len(y) /\ y[j] = "%"
      BY <1>1, <1>2, <1>5, <2>2
    <3>2. j + 2 <= Len(y) /\ y[j + 1] \in DOMAIN HexValue /\ y[j + 2] \in DOMAIN HexValue
      BY <1>1, <1>5, <3>1 DEF EscapesOk
    <3>3. /\ i + 1 \in 1..(Len(x) + Len(y)) /\ i + 2 \in 1..(Len(x) + Len(y))
          /\ ~(i + 1 <= Len(x)) /\ ~(i + 2 <= Len(x))
          /\ (i + 1) - Len(x) = j + 1 /\ (i + 2) - Len(x) = j + 2
      BY <1>1, <2>2, <3>2
    <3> QED BY <1>1, <1>2, <3>2, <3>3
  <2> QED BY <2>1, <2>2
<1>6. NoCut(x) /\ NoCut(y) => NoCut(z)
  BY <1>2, <1>4 DEF NoCut
<1>7. EscapesOk(x) /\ EscapesOk(y) => EscapesOk(z)
  BY <1>3, <1>5 DEF EscapesOk
<1> QED BY <1>1, <1>6, <1>7 DEF z, EscapesOk, NoCut

(* What PercentDecode makes of a text, place by place: where its escapes   *)
(* begin,                                                                  *)
Escapes(text) == {i \in DOMAIN text : text[i] = "%" /\ i + 2 <= Len(text)}

(* the character of one,                                                   *)
Byte(text, i) == CHOOSE c \in DOMAIN Code : Code[c] = 16 * HexValue[text[i + 1]] + HexValue[text[i + 2]]

(* and what it puts in the place of each character.                        *)
Piece(text, i) ==
    IF i \in Escapes(text) THEN <<Byte(text, i)>>
    ELSE IF i - 1 \in Escapes(text) \/ i - 2 \in Escapes(text) THEN <<>>
    ELSE <<text[i]>>
Pieces(text) == [i \in DOMAIN text |-> Piece(text, i)]

(* The texts that PercentDecode is meant for.                              *)
Decodable(text) == EscapesOk(text) /\ Pieces(text) \in Seq(Seq(Chars))

(* It strings the pieces together,                                         *)
LEMMA DecodesPieces ==
  ASSUME NEW text \in Seq(Chars), Decodable(text)
  PROVE  PercentDecode(text) = FlattenSeq(Pieces(text))
<1> DEFINE escape == {i \in DOMAIN text : text[i] = "%" /\ i + 2 <= Len(text)}
           byte(i) == 16 * HexValue[text[i + 1]] + HexValue[text[i + 2]]
           piece(i) == CASE i \in escape -> <<CHOOSE c \in DOMAIN Code : Code[c] = byte(i)>>
                         [] {i - 1, i - 2} \cap escape # {} -> <<>>
                         [] OTHER -> <<text[i]>>
<1>1. PercentDecode(text) = FlattenSeq([i \in DOMAIN text |-> piece(i)])
  BY DEF PercentDecode
<1>2. DOMAIN text = 1..Len(text) /\ Len(text) \in Nat
  BY LenProperties
<1>3. escape = Escapes(text)
  BY DEF Escapes
<1>4. ASSUME NEW i \in DOMAIN text
      PROVE  piece(i) = Piece(text, i)
  <2>1. ~ (i \in escape /\ {i - 1, i - 2} \cap escape # {})
    <3> SUFFICES ASSUME i \in escape, NEW j \in {i - 1, i - 2}, j \in escape
                 PROVE  FALSE
      OBVIOUS
    <3>1. text[j] = "%" /\ j \in DOMAIN text
      OBVIOUS
    <3>2. text[j + 1] \in DOMAIN HexValue /\ text[j + 2] \in DOMAIN HexValue
      BY <3>1 DEF Decodable, EscapesOk
    <3>3. i = j + 1 \/ i = j + 2
      BY <1>2
    <3>4. text[i] \in DOMAIN HexValue /\ text[i] = "%"
      BY <3>2, <3>3
    <3> QED BY <3>4, HexValues
  <2>2. {i - 1, i - 2} \cap escape # {} <=> i - 1 \in escape \/ i - 2 \in escape
    OBVIOUS
  <2>3. Byte(text, i) = CHOOSE c \in DOMAIN Code : Code[c] = byte(i)
    BY DEF Byte
  <2> HIDE DEF escape, byte
  <2> DEFINE p == i \in escape
             q == {i - 1, i - 2} \cap escape # {}
             a == <<CHOOSE c \in DOMAIN Code : Code[c] = byte(i)>>
  <2>5. piece(i) = IF p THEN a ELSE IF q THEN <<>> ELSE <<text[i]>>
    <3>1. CASE p
      <4>1. p /\ ~q
        BY <2>1, <3>1
      <4>2. piece(i) = a
        BY <4>1, Zenon
      <4> HIDE DEF piece, p, q, a
      <4> QED BY <4>1, <4>2
    <3>2. CASE q
      <4>1. ~p /\ q
        BY <2>1, <3>2
      <4>2. piece(i) = <<>>
        BY <4>1, Zenon
      <4> HIDE DEF piece, p, q
      <4> QED BY <4>1, <4>2
    <3>3. CASE ~p /\ ~q
      BY <3>3, Zenon
    <3> QED BY <3>1, <3>2, <3>3
  <2> HIDE DEF piece
  <2> QED BY <1>3, <2>2, <2>3, <2>5 DEF Piece
<1> HIDE DEF piece
<1> QED BY <1>1, <1>4 DEF Pieces

(* and decodes two texts one after the other.                              *)
LEMMA PiecesConcat ==
  ASSUME NEW x \in Seq(Chars), NEW y \in Seq(Chars), Decodable(x), Decodable(y)
  PROVE  Decodable(x \o y) /\ PercentDecode(x \o y) = PercentDecode(x) \o PercentDecode(y)
<1> DEFINE z == x \o y
           n == Len(x)
           m == Len(y)
           P == Pieces(x) \o Pieces(y)
<1>1. n \in Nat /\ m \in Nat /\ DOMAIN x = 1..n /\ DOMAIN y = 1..m
  BY LenProperties
<1>2. /\ z \in Seq(Chars) /\ Len(z) = n + m
      /\ \A i \in 1..(n + m) : z[i] = IF i <= n THEN x[i] ELSE y[i - n]
  BY ConcatProperties
<1>3. EscapesOk(x) /\ EscapesOk(y) /\ EscapesOk(z)
  BY NoCutConcat DEF Decodable
<1> HIDE DEF z, n, m
<1>4. DOMAIN z = 1..(n + m)
  BY <1>2, LenProperties
<1>5. \A i \in 1..n : z[i] = x[i]
  BY <1>1, <1>2
<1>6. \A i \in 1..m : z[n + i] = y[i]
  <2> SUFFICES ASSUME NEW i \in 1..m
               PROVE  z[n + i] = y[i]
    OBVIOUS
  <2>1. n + i \in 1..(n + m) /\ ~(n + i <= n) /\ (n + i) - n = i
    BY <1>1
  <2> QED BY <1>2, <2>1
<1>7. \A i \in Int : i <= n => (i \in Escapes(z) <=> i \in Escapes(x))
  <2> SUFFICES ASSUME NEW i \in Int, i <= n
               PROVE  i \in Escapes(z) <=> i \in Escapes(x)
    OBVIOUS
  <2>1. i \in Escapes(x) => i \in 1..n /\ x[i] = "%" /\ i + 2 <= n
    BY <1>1 DEF Escapes, n
  <2>2. i \in Escapes(z) => i \in 1..n /\ z[i] = "%"
    BY <1>1, <1>4 DEF Escapes
  <2>3. ASSUME i \in 1..n, x[i] = "%"
        PROVE  i + 2 <= n
    BY <1>1, <1>3, <2>3 DEF EscapesOk, n
  <2> QED BY <1>1, <1>2, <1>4, <1>5, <2>1, <2>2, <2>3 DEF Escapes, n
<1>8. \A i \in Int : i >= 1 - 2 => (n + i \in Escapes(z) <=> i \in Escapes(y))
  <2> SUFFICES ASSUME NEW i \in Int, i >= 1 - 2
               PROVE  n + i \in Escapes(z) <=> i \in Escapes(y)
    OBVIOUS
  <2>1. CASE i \in 1..m
    <3>1. n + i \in 1..(n + m) /\ (n + i) + 2 <= n + m <=> i + 2 <= m
      BY <1>1, <2>1
    <3> QED BY <1>1, <1>2, <1>4, <1>6, <2>1, <3>1 DEF Escapes, m
  <2>2. CASE i \notin 1..m
    <3>1. i \notin Escapes(y)
      BY <1>1, <2>2 DEF Escapes
    <3>2. ASSUME n + i \in Escapes(z)
          PROVE  FALSE
      <4>1. n + i \in 1..(n + m) /\ z[n + i] = "%"
        BY <1>4, <3>2 DEF Escapes
      <4>2. n + i \in 1..n /\ (n + i) + 2 > n
        BY <1>1, <2>2, <4>1
      <4>3. x[n + i] = "%" /\ n + i \in DOMAIN x
        BY <1>1, <1>5, <4>1, <4>2
      <4>4. (n + i) + 2 <= n
        BY <1>3, <4>3 DEF EscapesOk, n
      <4> QED BY <1>1, <4>2, <4>4
    <3> QED BY <3>1, <3>2
  <2> QED BY <2>1, <2>2
<1>9. ASSUME NEW i \in 1..n
      PROVE  Piece(z, i) = Piece(x, i)
  <2>1. /\ i \in Escapes(z) <=> i \in Escapes(x)
        /\ i - 1 \in Escapes(z) <=> i - 1 \in Escapes(x)
        /\ i - 2 \in Escapes(z) <=> i - 2 \in Escapes(x)
    BY <1>1, <1>7
  <2>2. i \in Escapes(x) => i + 1 \in 1..n /\ i + 2 \in 1..n
    BY <1>1 DEF Escapes, n
  <2>3. i \in Escapes(x) => Byte(z, i) = Byte(x, i)
    BY <1>5, <2>2 DEF Byte
  <2> QED BY <1>5, <2>1, <2>3 DEF Piece
<1>10. ASSUME NEW i \in 1..m
       PROVE  Piece(z, n + i) = Piece(y, i)
  <2>1. /\ n + i \in Escapes(z) <=> i \in Escapes(y)
        /\ (n + i) - 1 \in Escapes(z) <=> i - 1 \in Escapes(y)
        /\ (n + i) - 2 \in Escapes(z) <=> i - 2 \in Escapes(y)
    <3>1. (n + i) - 1 = n + (i - 1) /\ (n + i) - 2 = n + (i - 2)
      BY <1>1
    <3>2. i \in Int /\ i - 1 \in Int /\ i - 2 \in Int
          /\ i >= 1 - 2 /\ i - 1 >= 1 - 2 /\ i - 2 >= 1 - 2
      BY <1>1
    <3> QED BY <1>8, <3>1, <3>2
  <2>2. i \in Escapes(y) => i + 1 \in 1..m /\ i + 2 \in 1..m
    BY <1>1 DEF Escapes, m
  <2>3. i \in Escapes(y) => Byte(z, n + i) = Byte(y, i)
    <3>1. (n + i) + 1 = n + (i + 1) /\ (n + i) + 2 = n + (i + 2)
      BY <1>1
    <3> QED BY <1>6, <2>2, <3>1 DEF Byte
  <2> QED BY <1>6, <2>1, <2>3 DEF Piece
<1>11. /\ Pieces(x) \in Seq(Seq(Chars)) /\ Pieces(y) \in Seq(Seq(Chars))
       /\ Len(Pieces(x)) = n /\ Len(Pieces(y)) = m
       /\ \A i \in 1..n : Pieces(x)[i] = Piece(x, i)
       /\ \A i \in 1..m : Pieces(y)[i] = Piece(y, i)
  <2>1. /\ Pieces(x) \in Seq(Seq(Chars)) /\ Pieces(y) \in Seq(Seq(Chars))
    BY DEF Decodable
  <2>2. DOMAIN Pieces(x) = 1..n /\ DOMAIN Pieces(y) = 1..m
    BY <1>1 DEF Pieces
  <2>3. Len(Pieces(x)) = n /\ Len(Pieces(y)) = m
    BY <1>1, <2>1, <2>2, LenProperties
  <2> QED BY <1>1, <2>1, <2>3 DEF Pieces
<1>12. /\ P \in Seq(Seq(Chars)) /\ Len(P) = n + m
       /\ \A i \in 1..(n + m) : P[i] = IF i <= n THEN Pieces(x)[i] ELSE Pieces(y)[i - n]
  BY <1>11, ConcatProperties
<1> HIDE DEF P
<1>13. Pieces(z) = P
  <2>1. ASSUME NEW i \in 1..(n + m)
        PROVE  Piece(z, i) = P[i]
    <3>1. CASE i <= n
      BY <1>1, <1>9, <1>11, <1>12, <3>1
    <3>2. CASE ~(i <= n)
      <4>1. i - n \in 1..m /\ n + (i - n) = i
        BY <1>1, <3>2
      <4>2. Piece(z, n + (i - n)) = Piece(y, i - n)
        BY <1>10, <4>1
      <4>3. P[i] = Pieces(y)[i - n]
        BY <1>12, <3>2
      <4> QED BY <1>11, <4>1, <4>2, <4>3
    <3> QED BY <3>1, <3>2
  <2>2. P \in [1..(n + m) -> Seq(Chars)]
    BY <1>12, LenProperties
  <2> QED BY <1>4, <2>1, <2>2 DEF Pieces
<1>14. Decodable(z)
  BY <1>3, <1>12, <1>13 DEF Decodable
<1>15. FlattenSeq(P) = FlattenSeq(Pieces(x)) \o FlattenSeq(Pieces(y))
  BY <1>11, FlattenConcat DEF P
<1>16. PercentDecode(z) = FlattenSeq(Pieces(z))
  BY <1>2, <1>14, DecodesPieces
<1>17. PercentDecode(x) = FlattenSeq(Pieces(x)) /\ PercentDecode(y) = FlattenSeq(Pieces(y))
  BY DecodesPieces
<1> QED BY <1>13, <1>14, <1>15, <1>16, <1>17 DEF z

(* Marks that structure a ticket do not occur in what is encoded.          *)
Plain(text) == \A i \in 1..Len(text) : text[i] \notin {"&", "=", "?"}

(* What a character becomes is decoded to it.                              *)
LEMMA BlockDecodes ==
  ASSUME NEW c \in Chars
  PROVE  Decodable(Block(c)) /\ PercentDecode(Block(c)) = <<c>> /\ Plain(Block(c))
<1> DEFINE b == Block(c)
<1>1. b \in Seq(Chars)
  BY BlockIs
<1>2. CASE b = <<c>> /\ c \notin {"%", "&", "=", "?"}
  <2> HIDE DEF b
  <2>1. Len(b) = 1 /\ DOMAIN b = 1..1 /\ b[1] = c
    BY <1>2
  <2>2. Escapes(b) = {} /\ EscapesOk(b)
    BY <1>2, <2>1 DEF Escapes, EscapesOk
  <2>3. Piece(b, 1) = <<c>>
    BY <2>1, <2>2 DEF Piece
  <2>4. Pieces(b) = <<<<c>>>>
    BY <2>1, <2>3 DEF Pieces
  <2>5. <<c>> \in Seq(Chars) /\ <<<<c>>>> \in Seq(Seq(Chars))
    OBVIOUS
  <2>6. Decodable(b)
    BY <2>2, <2>4, <2>5 DEF Decodable
  <2>7. FlattenSeq(<<<<c>>>>) = <<c>>
    <3>1. PICK e \in Seq(Seq(Chars)) : e = <<>> /\ FlattenSeq(e) = <<>>
      BY EmptySeq, FlattenGrows
    <3>2. Append(e, <<c>>) = <<<<c>>>>
      BY <2>5, <3>1
    <3>3. FlattenSeq(Append(e, <<c>>)) = <<>> \o <<c>>
      BY <2>5, <3>1, FlattenGrows
    <3> QED BY <2>5, <3>2, <3>3, ConcatEmptySeq
  <2>8. Plain(b)
    BY <1>2, <2>1 DEF Plain
  <2> QED BY <1>1, <2>4, <2>6, <2>7, <2>8, DecodesPieces DEF b
<1>3. CASE IsEscape(b, c)
  <2> HIDE DEF b
  <2>1. /\ Len(b) = 3 /\ DOMAIN b = 1..3 /\ b[1] = "%"
        /\ b[2] \in DOMAIN HexValue /\ b[3] \in DOMAIN HexValue
        /\ b[2] \notin {"%", "&", "=", "?"} /\ b[3] \notin {"%", "&", "=", "?"}
    <3>1. /\ b = <<"%", b[2], b[3]>> /\ b[2] \in DOMAIN HexValue /\ b[3] \in DOMAIN HexValue
      BY <1>3 DEF IsEscape
    <3> QED BY <3>1, HexValues
  <2>2. Escapes(b) = {1} /\ EscapesOk(b)
    BY <2>1 DEF Escapes, EscapesOk
  <2>3. Byte(b, 1) = c
    BY <1>3 DEF IsEscape, Byte
  <2>4. Piece(b, 1) = <<c>> /\ Piece(b, 2) = <<>> /\ Piece(b, 3) = <<>>
    BY <2>2, <2>3 DEF Piece
  <2>5. Pieces(b) = <<<<c>>, <<>>, <<>>>>
    BY <2>1, <2>4 DEF Pieces
  <2>6. <<c>> \in Seq(Chars) /\ <<<<c>>, <<>>, <<>>>> \in Seq(Seq(Chars))
    OBVIOUS
  <2>7. Decodable(b)
    BY <2>2, <2>5, <2>6 DEF Decodable
  <2>8. FlattenSeq(<<<<c>>, <<>>, <<>>>>) = <<c>>
    <3>1. PICK e \in Seq(Seq(Chars)) : e = <<>> /\ FlattenSeq(e) = <<>>
      BY EmptySeq, FlattenGrows
    <3>2. PICK o \in Seq(Chars) : o = <<>>
      BY EmptySeq
    <3> DEFINE e1 == Append(e, <<c>>)
               e2 == Append(e1, o)
               e3 == Append(e2, o)
    <3>3. e3 = <<<<c>>, <<>>, <<>>>>
      <4> DEFINE V == Seq(Chars)
      <4>1. e1 = <<<<c>>>>
        BY <2>6, <3>1
      <4>2. <<c>> \in V /\ o \in V
        BY <2>6
      <4> HIDE DEF V, e1
      <4> QED BY <3>2, <4>1, <4>2, AppendTuples
    <3>4. e1 \in Seq(Seq(Chars)) /\ FlattenSeq(e1) = <<>> \o <<c>>
      BY <2>6, <3>1, FlattenGrows, AppendProperties
    <3> HIDE DEF e1
    <3>5. e2 \in Seq(Seq(Chars)) /\ FlattenSeq(e2) = FlattenSeq(e1) \o o
      BY <3>4, FlattenGrows, AppendProperties
    <3> HIDE DEF e2
    <3>6. FlattenSeq(e3) = FlattenSeq(e2) \o o
      BY <3>5, FlattenGrows
    <3>7. <<>> \o <<c>> = <<c>> /\ <<c>> \o o = <<c>>
      BY <2>6, <3>2, ConcatEmptySeq
    <3> QED BY <3>3, <3>4, <3>5, <3>6, <3>7
  <2>9. Plain(b)
    BY <2>1 DEF Plain
  <2> QED BY <1>1, <2>5, <2>7, <2>8, <2>9, DecodesPieces DEF b
<1> QED BY <1>2, <1>3, BlockIs

(* An encoded text can be decoded, and what is left of it when its end is  *)
(* lost is the encoding of a shorter text, or has an escape cut short.     *)
Encodes(e, v) ==
    /\ Decodable(e) /\ PercentDecode(e) = v /\ Plain(e)
    /\ \A w \in Seq(Chars) :
         IsPrefix(w, e) /\ EscapesOk(w) =>
           \E u \in Seq(Chars) : IsPrefix(u, v) /\ w = PercentEncode(u)

(* Every text, by induction over its characters.                           *)
LEMMA PercentRoundTrip ==
  ASSUME NEW v \in Seq(Chars)
  PROVE  Encodes(PercentEncode(v), v)
<1> DEFINE T == {u \in Seq(Chars) : Encodes(PercentEncode(u), u)}
<1>1. <<>> \in T
  <2>1. PICK e \in Seq(Chars) : e = <<>> /\ Len(e) = 0 /\ DOMAIN e = {}
    <3>1. PICK e \in Seq(Chars) : e = <<>>
      BY EmptySeq
    <3>2. Len(e) = 0 /\ DOMAIN e = {}
      BY <3>1
    <3> QED BY <3>1, <3>2
  <2>2. PercentEncode(e) = e
    BY <2>1, EncodeGrows
  <2>3. EscapesOk(e) /\ Plain(e)
    BY <2>1 DEF EscapesOk, Plain
  <2>4. Pieces(e) = <<>> /\ <<>> \in Seq(Seq(Chars))
    BY <2>1, EmptySeq DEF Pieces
  <2>5. Decodable(e)
    BY <2>3, <2>4 DEF Decodable
  <2>6. PercentDecode(e) = e
    BY <2>1, <2>4, <2>5, DecodesPieces, FlattenGrows
  <2>7. \A w \in Seq(Chars) : IsPrefix(w, e) => IsPrefix(e, e) /\ w = PercentEncode(e)
    BY <2>1, <2>2, EmptyText, PrefixRefl
  <2> QED BY <2>1, <2>2, <2>3, <2>5, <2>6, <2>7 DEF Encodes
<1>2. ASSUME NEW u \in Seq(Chars), NEW c \in Chars, u \in T
      PROVE  Append(u, c) \in T
  <2> DEFINE e == PercentEncode(u)
             b == Block(c)
             t == Append(u, c)
  <2>0. /\ e \in Seq(Chars) /\ b \in Seq(Chars) /\ t \in Seq(Chars)
        /\ PercentEncode(t) = e \o b
    BY EncodeGrows, BlockIs, AppendText
  <2>1. /\ e \in Seq(Chars) /\ b \in Seq(Chars) /\ t \in Seq(Chars)
        /\ PercentEncode(t) = e \o b /\ t = u \o <<c>> /\ IsPrefix(u, t)
        /\ e \o b \in Seq(Chars)
    <3>1. t = u \o <<c>> /\ IsPrefix(u, t)
      BY AppendIsConcat, PrefixOfAppend
    <3>2. e \o b \in Seq(Chars)
      BY <2>0, ConcatProperties
    <3> QED BY <2>0, <3>1, <3>2
  <2>2. Encodes(e, u)
    BY <1>2
  <2> HIDE DEF e, b, t
  <2>3. Decodable(e \o b) /\ PercentDecode(e \o b) = t
    <3>1. /\ Decodable(e) /\ PercentDecode(e) = u
          /\ Decodable(b) /\ PercentDecode(b) = <<c>>
      BY <2>2, BlockDecodes DEF Encodes, b
    <3>2. Decodable(e \o b) /\ PercentDecode(e \o b) = PercentDecode(e) \o PercentDecode(b)
      BY ONLY <2>0, <3>1, PiecesConcat
    <3> QED BY <2>1, <3>1, <3>2
  <2>4. Plain(e \o b)
    <3>1. Plain(e) /\ Plain(b)
      BY <2>2, BlockDecodes DEF Encodes, b
    <3>2. /\ Len(e) \in Nat /\ Len(b) \in Nat /\ Len(e \o b) = Len(e) + Len(b)
          /\ \A i \in 1..(Len(e) + Len(b)) : (e \o b)[i] = IF i <= Len(e) THEN e[i] ELSE b[i - Len(e)]
      BY <2>1, ConcatProperties, LenProperties
    <3> QED BY <3>1, <3>2 DEF Plain
  <2>5. ASSUME NEW w \in Seq(Chars), IsPrefix(w, e \o b), EscapesOk(w)
        PROVE  \E x \in Seq(Chars) : IsPrefix(x, t) /\ w = PercentEncode(x)
    <3>1. CASE IsPrefix(w, e)
      <4>1. PICK x \in Seq(Chars) : IsPrefix(x, u) /\ w = PercentEncode(x)
        BY <2>2, <2>5, <3>1 DEF Encodes
      <4>2. IsPrefix(x, t)
        BY <2>1, <4>1, PrefixTrans
      <4> QED BY <4>1, <4>2
    <3>2. ASSUME NEW q \in Seq(Chars), q # <<>>, IsPrefix(q, b), w = e \o q
          PROVE  q = b
      <4>1. /\ Len(q) \in Nat \ {0} /\ Len(e) \in Nat /\ Len(b) \in Nat
            /\ Len(q) <= Len(b) /\ \A i \in 1..Len(q) : q[i] = b[i]
        BY <2>1, <3>2, EmptySeq, LenProperties, PrefixIs
      <4>2. CASE b = <<c>>
        BY <2>1, <3>2, <4>1, <4>2, PrefixWhole
      <4>3. CASE IsEscape(b, c)
        <5>1. Len(b) = 3 /\ b[1] = "%"
          BY <4>3 DEF IsEscape
        <5>2. /\ Len(w) = Len(e) + Len(q) /\ Len(e) + 1 \in 1..Len(w)
              /\ w[Len(e) + 1] = q[1] /\ DOMAIN w = 1..Len(w)
          <6>1. Len(e) + 1 \in 1..(Len(e) + Len(q)) /\ ~(Len(e) + 1 <= Len(e))
                /\ (Len(e) + 1) - Len(e) = 1
            BY <4>1
          <6>2. Len(e \o q) = Len(e) + Len(q) /\ (e \o q)[Len(e) + 1] = q[1]
            BY <2>1, <6>1, ConcatProperties
          <6> QED BY <3>2, <6>1, <6>2, LenProperties
        <5>3. (Len(e) + 1) + 2 <= Len(w)
          <6>1. w[Len(e) + 1] = "%" /\ Len(e) + 1 \in DOMAIN w
            BY <4>1, <5>1, <5>2
          <6> QED BY <2>5, <6>1 DEF EscapesOk
        <5>4. Len(q) = Len(b)
          <6>1. Len(q) <= 3 /\ (Len(e) + 1) + 2 <= Len(e) + Len(q)
            BY <4>1, <5>1, <5>2, <5>3
          <6>2. Len(q) \in Nat /\ Len(e) \in Nat
            BY <4>1
          <6>3. \A m, k \in Nat : k <= 3 /\ (m + 1) + 2 <= m + k => k = 3
            OBVIOUS
          <6>4. Len(q) = 3
            BY ONLY <6>1, <6>2, <6>3
          <6> QED BY <5>1, <6>4
        <5> QED BY <2>1, <3>2, <5>4, PrefixWhole
      <4> QED BY <4>2, <4>3, BlockIs DEF b
    <3>3. \/ IsPrefix(w, e)
          \/ \E q \in Seq(Chars) : q # <<>> /\ IsPrefix(q, b) /\ w = e \o q
      <4>1. PrefixOfEither(Chars, w, e, b)
        BY <2>1, <2>5, PrefixOfConcat
      <4> QED BY <4>1, Zenon DEF PrefixOfEither
    <3>4. ASSUME NEW q \in Seq(Chars), q # <<>>, IsPrefix(q, b), w = e \o q
          PROVE  IsPrefix(t, t) /\ w = PercentEncode(t)
      <4>1. q = b
        BY <3>2, <3>4
      <4> QED BY <2>1, <3>4, <4>1, PrefixRefl
    <3> QED BY <2>1, <3>1, <3>3, <3>4
  <2>6. Encodes(e \o b, t)
    BY <2>3, <2>4, <2>5 DEF Encodes
  <2> QED BY <2>1, <2>6 DEF t
<1>3. \A u \in Seq(Chars) : u \in T
  <2> HIDE DEF T
  <2> QED BY <1>1, <1>2, SeqInduction
<1> QED BY <1>3

-----------------------------------------------------------------------------
(* The addresses that a URL is printed as are the ones that are read;      *)
LEMMA RelayParses ==
  ASSUME NEW u \in Seq(Chars), NEW url \in ParseRelayUrl(u)
  PROVE  /\ ParseRelayUrl(u) = {url} /\ url \in Seq(Chars) /\ u # <<>>
         /\ ParseRelayUrl(url) = {url} /\ (url = u \/ url = Append(u, "/"))
<1>1. /\ Len(u) > 1 /\ u[1] = "https://" /\ u[2] \notin {"/", "?"}
      /\ url = IF Contains(u, "/") THEN u ELSE Append(u, "/")
      /\ ParseRelayUrl(u) = {url}
  BY DEF ParseRelayUrl, Some, None
<1>2. u # <<>>
  BY <1>1, EmptySeq
<1>3. CASE Contains(u, "/")
  BY <1>1, <1>2, <1>3
<1>4. CASE ~Contains(u, "/")
  <2> DEFINE w == Append(u, "/")
  <2>1. "/" \in Chars
    BY TicketAssumption
  <2>2. /\ w \in Seq(Chars) /\ Len(u) \in Nat /\ Len(w) = Len(u) + 1
        /\ \A i \in 1..Len(u) : w[i] = u[i]
        /\ w[Len(u) + 1] = "/"
    BY <2>1, AppendText
  <2> HIDE DEF w
  <2>3. Len(w) > 1 /\ w[1] = u[1] /\ w[2] = u[2] /\ Contains(w, "/")
    BY <1>1, <2>2 DEF Contains
  <2>4. ParseRelayUrl(w) = {w}
    BY <1>1, <2>3 DEF ParseRelayUrl, Some
  <2> QED BY <1>1, <1>2, <1>4, <2>2, <2>4 DEF w
<1> QED BY <1>3, <1>4

(* so are those of a socket address.                                       *)
LEMMA SocketParses ==
  ASSUME NEW u \in Seq(Chars), NEW a \in ParseSocketAddr(u)
  PROVE  ParseSocketAddr(u) = {u} /\ a = u /\ u # <<>>
<1>1. a = u /\ ParseSocketAddr(u) = {u}
  BY DEF ParseSocketAddr, Some, None
<1>2. \E host \in Ip : Len(u) > Len(host) + 1
  BY DEF ParseSocketAddr, Some, None
<1>3. \A host \in Ip : Len(host) \in Nat
  BY DEF Ip
<1>4. Len(u) # 0
  BY <1>2, <1>3, LenProperties
<1> QED BY <1>1, <1>4, EmptySeq

(* The addresses that a ticket can name,                                   *)
Nameable == {a \in TransportAddr : a.kind # "Custom" /\ Valid(a)}

(* and what a ticket that is cut within one may name in its stead.         *)
IsCutOf(b, a) ==
    b \in Nameable /\ b.kind = a.kind /\ IsPrefix(Front(b.value), a.value)

(* What such an address is.                                                *)
LEMMA NameableIs ==
  ASSUME NEW a \in Nameable
  PROVE  /\ a.kind \in {"Relay", "Ip"} /\ a.value \in Seq(Chars)
         /\ a = [kind |-> a.kind, value |-> a.value]
         /\ a.kind = "Relay" => ParseRelayUrl(a.value) = {a.value}
         /\ a.kind = "Ip" => ParseSocketAddr(a.value) = {a.value}
         /\ a.value # <<>>
         /\ Key[a.kind] \in Chars \ {"%", "&", "=", "?"}
<1>1. /\ a \in [kind : {"Relay", "Ip", "Custom"}, value : Seq(Chars)] /\ a.kind # "Custom"
      /\ a.kind = "Relay" => ParseRelayUrl(a.value) = {a.value}
      /\ a.kind = "Ip" => ParseSocketAddr(a.value) = {a.value}
  BY DEF Nameable, TransportAddr, Valid, Some
<1>2. a.kind \in {"Relay", "Ip"} /\ a.value \in Seq(Chars)
  BY <1>1
<1>3. a.value # <<>>
  BY <1>1, <1>2, RelayParses, SocketParses
<1>4. Key[a.kind] \in Chars \ {"%", "&", "=", "?"}
  BY <1>2, TicketAssumption DEF Key
<1> QED BY <1>1, <1>2, <1>3, <1>4

(* What ParseField makes of a value.                                       *)
Values(kind, u) == IF kind = "Relay" THEN ParseRelayUrl(u) ELSE ParseSocketAddr(u)
Named(kind, u) == {[kind |-> kind, value |-> v] : v \in Values(kind, u)}

(* The beginning of an address is refused, or read as an address that      *)
(* differs by its end.                                                     *)
LEMMA NamedIs ==
  ASSUME NEW a \in Nameable, NEW u \in Seq(Chars), IsPrefix(u, a.value)
  PROVE  /\ Named(a.kind, u) = {} \/ \E b : Named(a.kind, u) = {b} /\ IsCutOf(b, a)
         /\ Named(a.kind, a.value) = {a}
<1>1. /\ a.kind \in {"Relay", "Ip"} /\ a.value \in Seq(Chars)
      /\ a = [kind |-> a.kind, value |-> a.value]
      /\ a.kind = "Relay" => ParseRelayUrl(a.value) = {a.value}
      /\ a.kind = "Ip" => ParseSocketAddr(a.value) = {a.value}
  BY NameableIs
<1>2. Named(a.kind, a.value) = {a}
  BY <1>1 DEF Named, Values
<1>3. ASSUME NEW v \in Values(a.kind, u)
      PROVE  \E b : Named(a.kind, u) = {b} /\ IsCutOf(b, a)
  <2> DEFINE b == [kind |-> a.kind, value |-> v]
  <2>1. /\ v \in Seq(Chars) /\ (v = u \/ v = Append(u, "/")) /\ u # <<>>
        /\ a.kind = "Relay" => ParseRelayUrl(u) = {v} /\ ParseRelayUrl(v) = {v}
        /\ a.kind = "Ip" => ParseSocketAddr(u) = {v} /\ ParseSocketAddr(v) = {v}
    BY <1>1, <1>3, RelayParses, SocketParses DEF Values
  <2>2. Named(a.kind, u) = {b}
    BY <1>1, <2>1 DEF Named, Values
  <2>3. IsPrefix(Front(v), a.value)
    <3>1. CASE v = u
      BY <1>1, <2>1, <3>1, FrontPrefix
    <3>2. CASE v = Append(u, "/")
      <4>1. "/" \in Chars
        BY TicketAssumption
      <4>2. Front(v) = u
        BY <3>2, <4>1, FrontOfAppend
      <4> QED BY <4>2
    <3> QED BY <2>1, <3>1, <3>2
  <2>4. b \in Nameable
    BY <1>1, <2>1 DEF Nameable, TransportAddr, Valid, Some
  <2>5. IsCutOf(b, a)
    BY <2>3, <2>4 DEF IsCutOf
  <2> QED BY <2>2, <2>5
<1>4. Values(a.kind, u) = {} => Named(a.kind, u) = {}
  BY DEF Named, Values
<1> QED BY <1>2, <1>3, <1>4

(* One field.                                                              *)
FieldText(a) == <<Key[a.kind], "=">> \o PercentEncode(a.value)

(* It is split where it was put together.                                  *)
LEMMA FieldParses ==
  ASSUME NEW a \in Nameable, NEW w \in Seq(Chars)
  PROVE  ParseField(<<Key[a.kind], "=">> \o w) =
           IF EscapesOk(w) THEN Named(a.kind, PercentDecode(w)) ELSE {}
<1> DEFINE k == Key[a.kind]
           kv == <<k, "=">> \o w
<1>1. /\ a.kind \in {"Relay", "Ip"} /\ k \in Chars \ {"%", "&", "=", "?"} /\ "=" \in Chars
  BY NameableIs, TicketAssumption, Codes
<1>2. k = IF a.kind = "Relay" THEN "relay" ELSE "direct"
  BY <1>1 DEF Key
<1> HIDE DEF k
<1>3. /\ <<k>> \in Seq(Chars) /\ <<"=">> \in Seq(Chars) /\ <<k, "=">> \in Seq(Chars)
      /\ <<k>> \o <<"=">> = <<k, "=">> /\ Len(<<k>>) = 1 /\ Len(<<k, "=">>) = 2
      /\ <<k>>[1] = k /\ <<k, "=">>[2] = "="
  <2>1. PICK o \in Seq(Chars) : o = <<k>>
    BY <1>1, Singleton
  <2>2. Append(o, "=") = o \o <<"=">> /\ Append(o, "=") = <<k, "=">>
    BY <1>1, <2>1, AppendIsConcat, AppendTuples
  <2>3. /\ <<k>> \in Seq(Chars) /\ <<"=">> \in Seq(Chars) /\ <<k, "=">> \in Seq(Chars)
    BY <1>1
  <2>4. /\ Len(<<k>>) = 1 /\ Len(<<k, "=">>) = 2
        /\ <<k>>[1] = k /\ <<k, "=">>[2] = "="
    OBVIOUS
  <2> QED BY <2>1, <2>2, <2>3, <2>4
<1>4. kv \in Seq(Chars) /\ Len(kv) = 2 + Len(w) /\ kv[2] = "=" /\ Len(w) \in Nat
  <2>1. Len(w) \in Nat
    BY LenProperties
  <2> QED BY <1>3, <2>1, ConcatProperties
<1>5. Contains(kv, "=")
  <2>1. 2 \in 1..Len(kv)
    BY <1>4
  <2> QED BY <1>4, <2>1 DEF Contains
<1>6. UpTo(kv, {"="}) = <<k>>
  <2>1. PICK x \in Seq(Chars) : x = <<k>>
    BY <1>3
  <2>2. PICK y \in Seq(Chars) : y = <<"=">> \o w /\ y[1] = "="
    <3>1. <<"=">> \o w \in Seq(Chars) /\ (<<"=">> \o w)[1] = "="
      <4>1. Len(<<"=">>) = 1 /\ <<"=">>[1] = "=" /\ 1 \in 1..(1 + Len(w))
        BY <1>4
      <4> QED BY <1>3, <4>1, ConcatProperties
    <3> QED BY <3>1
  <2>3. kv = x \o y
    BY <1>3, <2>1, <2>2, ConcatAssociative
  <2>4. \A i \in 1..Len(x) : x[i] \notin {"="}
    BY <1>1, <1>3, <2>1
  <2>5. UpTo(x \o y, {"="}) = x
    BY <2>2, <2>4, UpToIs
  <2> QED BY <2>1, <2>3, <2>5
<1>7. From(kv, Len(<<k>>) + 2) = w
  <2>1. From(kv, Len(<<k, "=">>) + 1) = w
    BY <1>3, FromIs
  <2>2. Len(<<k, "=">>) + 1 = Len(<<k>>) + 2
    BY <1>3
  <2> QED BY <2>1, <2>2
<1> HIDE DEF kv
<1> DEFINE v == PercentDecode(w)
<1>8. ParseField(kv) = IF ~EscapesOk(w) THEN None ELSE ParseAddr(<<k>>, v)
  BY <1>5, <1>6, <1>7 DEF ParseField
<1>9. CASE a.kind = "Relay"
  <2>1. k = "relay" /\ <<k>> = <<"relay">> /\ <<k>> # <<"direct">>
    BY <1>2, <1>9
  <2>2. Named(a.kind, v) = {[kind |-> "Relay", value |-> url] : url \in ParseRelayUrl(v)}
    BY <1>9 DEF Named, Values
  <2> HIDE DEF v
  <2>3. ParseAddr(<<k>>, v) = Named(a.kind, v)
    BY <2>1, <2>2, Zenon DEF ParseAddr
  <2> QED BY <1>8, <2>3 DEF v, kv, k, None
<1>10. CASE a.kind = "Ip"
  <2>1. k = "direct" /\ <<k>> = <<"direct">> /\ <<k>> # <<"relay">>
    BY <1>2, <1>10
  <2>2. Named(a.kind, v) = {[kind |-> "Ip", value |-> x] : x \in ParseSocketAddr(v)}
    BY <1>10 DEF Named, Values
  <2> HIDE DEF v
  <2>3. ParseAddr(<<k>>, v) = Named(a.kind, v)
    BY <2>1, <2>2, Zenon DEF ParseAddr
  <2> QED BY <1>8, <2>3 DEF v, kv, k, None
<1> QED BY <1>1, <1>9, <1>10

(* A field that is whole gives its address; one that is cut gives none, or *)
(* one in its stead.                                                       *)
Reads(g, a) ==
    \/ ParseField(g) = {}
    \/ NoCut(g) /\ \E b : ParseField(g) = {b} /\ IsCutOf(b, a)

(* What a field is made of.                                                *)
LEMMA FieldIs ==
  ASSUME NEW a \in Nameable
  PROVE  /\ <<Key[a.kind], "=">> \in Seq(Chars) /\ Len(<<Key[a.kind], "=">>) = 2
         /\ NoCut(<<Key[a.kind], "=">>) /\ Without("&", <<Key[a.kind], "=">>)
         /\ PercentEncode(a.value) \in Seq(Chars) /\ Encodes(PercentEncode(a.value), a.value)
         /\ FieldText(a) \in Seq(Chars) /\ FieldText(a) # <<>>
<1> DEFINE k == Key[a.kind]
           x == <<k, "=">>
           e == PercentEncode(a.value)
<1>1. k \in Chars \ {"%", "&", "=", "?"} /\ "=" \in Chars /\ a.value \in Seq(Chars)
  BY NameableIs, TicketAssumption, Codes
<1>2. e \in Seq(Chars) /\ Encodes(e, a.value)
  BY <1>1, EncodeGrows, PercentRoundTrip
<1> HIDE DEF k, e
<1>3. x \in Seq(Chars) /\ Len(x) = 2 /\ x[1] = k /\ x[2] = "="
  BY <1>1
<1>4. NoCut(x) /\ Without("&", x)
  BY <1>1, <1>3 DEF NoCut, Without
<1> HIDE DEF x
<1>5. x \o e \in Seq(Chars) /\ Len(x \o e) = 2 + Len(e)
  <2>1. x \in Seq(Chars) /\ e \in Seq(Chars)
    BY <1>2, <1>3
  <2>2. x \o e \in Seq(Chars) /\ Len(x \o e) = Len(x) + Len(e)
    BY ONLY <2>1, ConcatProperties
  <2> QED BY <1>3, <2>2
<1>6. x \o e # <<>>
  <2>1. Len(e) \in Nat
    BY <1>2, LenProperties
  <2>2. Len(x \o e) # 0
    BY <1>5, <2>1
  <2> QED BY <1>5, <2>2, EmptySeq
<1> QED BY <1>2, <1>3, <1>4, <1>5, <1>6 DEF k, x, e, FieldText

(* Every beginning of a field reads so.                                    *)
LEMMA FieldReads ==
  ASSUME NEW a \in Nameable, NEW g \in Seq(Chars), g # <<>>, IsPrefix(g, FieldText(a))
  PROVE  /\ Without("&", g) /\ Reads(g, a)
         /\ g = FieldText(a) => ParseField(g) = {a} /\ NoCut(g)
<1> DEFINE k == Key[a.kind]
           x == <<k, "=">>
           e == PercentEncode(a.value)
<1>1. /\ x \in Seq(Chars) /\ Len(x) = 2 /\ NoCut(x) /\ Without("&", x)
      /\ e \in Seq(Chars) /\ Encodes(e, a.value) /\ FieldText(a) = x \o e
  BY FieldIs DEF FieldText
<1>2. k \in Chars \ {"%", "&", "=", "?"} /\ "=" \in Chars /\ a.value \in Seq(Chars)
  BY NameableIs, TicketAssumption, Codes
<1>3. x[1] = k /\ x[2] = "="
  OBVIOUS
<1> HIDE DEF x, e, k
<1>4. ASSUME NEW w \in Seq(Chars), IsPrefix(w, e), g = x \o w
      PROVE  Without("&", g) /\ Reads(g, a)
  <2>1. Without("&", g)
    <3>1. Plain(e) /\ Len(w) <= Len(e) /\ \A i \in 1..Len(w) : w[i] = e[i]
      BY <1>1, <1>4, PrefixIs DEF Encodes
    <3>2. Len(w) \in Nat /\ Len(e) \in Nat
      BY <1>1, LenProperties
    <3>3. Without("&", w)
      BY <3>1, <3>2 DEF Plain, Without
    <3> QED BY <1>1, <1>4, <3>3, WithoutConcat
  <2>2. ParseField(g) = IF EscapesOk(w) THEN Named(a.kind, PercentDecode(w)) ELSE {}
    BY <1>4, FieldParses DEF x, k
  <2>3. ASSUME EscapesOk(w)
        PROVE  Reads(g, a)
    <3>1. PICK u \in Seq(Chars) : IsPrefix(u, a.value) /\ w = PercentEncode(u)
      BY <1>1, <1>4, <2>3 DEF Encodes
    <3>2. PercentDecode(w) = u
      BY <3>1, PercentRoundTrip DEF Encodes
    <3>3. NoCut(g)
      BY <1>1, <1>4, <2>3, NoCutConcat
    <3>4. ParseField(g) = Named(a.kind, u)
      BY <2>2, <2>3, <3>2
    <3> QED BY <3>1, <3>3, <3>4, NamedIs DEF Reads
  <2> QED BY <2>1, <2>2, <2>3 DEF Reads
<1>5. ASSUME IsPrefix(g, x)
      PROVE  Without("&", g) /\ Reads(g, a)
  <2>1. Len(g) \in Nat /\ Len(g) # 0
    BY LenProperties, EmptySeq
  <2>2. Len(g) <= Len(x) /\ \A i \in 1..Len(g) : g[i] = x[i]
    <3>1. x \in Seq(Chars) /\ g \in Seq(Chars)
      BY <1>1
    <3>2. IsPrefix(g, x) <=> Len(g) <= Len(x) /\ \A i \in 1..Len(g) : g[i] = x[i]
      BY <3>1, PrefixIs
    <3> QED BY <3>2, <1>5
  <2>3. ASSUME Len(g) = 1
        PROVE  Without("&", g) /\ Reads(g, a)
    <3>1. \A i \in 1..Len(g) : g[i] = k
      BY <1>3, <2>2, <2>3
    <3>2. Without("&", g)
      BY <1>2, <3>1 DEF Without
    <3>3. ~Contains(g, "=")
      BY <1>2, <3>1 DEF Contains
    <3>4. ParseField(g) = {}
      BY <3>3 DEF ParseField, None
    <3> QED BY <3>2, <3>4 DEF Reads
  <2>4. ASSUME Len(g) = 2
        PROVE  Without("&", g) /\ Reads(g, a)
    <3>1. g = x
      BY <1>1, <2>2, <2>4, SeqEqual
    <3>2. PICK w \in Seq(Chars) : w = <<>> /\ IsPrefix(w, e)
      <4>1. PICK w \in Seq(Chars) : w = <<>> /\ Len(w) = 0
        BY EmptySeq
      <4>2. Len(e) \in Nat
        BY <1>1, LenProperties
      <4>3. Len(w) <= Len(e) /\ \A i \in 1..Len(w) : w[i] = e[i]
        BY <4>1, <4>2
      <4>4. IsPrefix(w, e)
        BY <1>1, <4>3, PrefixIs
      <4> QED BY <4>1, <4>4
    <3>3. g = x \o w
      BY <1>1, <3>1, <3>2, ConcatEmptySeq
    <3> QED BY <1>4, <3>2, <3>3
  <2>5. Len(g) = 1 \/ Len(g) = 2
    <3>1. Len(x) = 2
      BY <1>1
    <3>2. \A n \in Nat : n # 0 /\ n <= 2 => n = 1 \/ n = 2
      OBVIOUS
    <3> QED BY ONLY <2>1, <2>2, <3>1, <3>2
  <2> QED BY <2>3, <2>4, <2>5
<1>6. Without("&", g) /\ Reads(g, a)
  <2>1. PrefixOfEither(Chars, g, x, e)
    BY <1>1, PrefixOfConcat
  <2>2. \/ IsPrefix(g, x)
        \/ \E q \in Seq(Chars) : q # <<>> /\ IsPrefix(q, e) /\ g = x \o q
    BY <2>1, Zenon DEF PrefixOfEither
  <2> QED BY <1>4, <1>5, <2>2
<1>7. ASSUME g = FieldText(a)
      PROVE  ParseField(g) = {a} /\ NoCut(g)
  <2>1. EscapesOk(e) /\ PercentDecode(e) = a.value
    BY <1>1 DEF Encodes, Decodable
  <2>2. ParseField(g) = Named(a.kind, a.value)
    BY <1>1, <1>7, <2>1, FieldParses DEF x, k
  <2>3. Named(a.kind, a.value) = {a}
    BY <1>2, PrefixRefl, NamedIs
  <2> QED BY <1>1, <1>7, <2>1, <2>2, <2>3, NoCutConcat
<1> QED BY <1>6, <1>7

-----------------------------------------------------------------------------
(* The tickets, and the one that names given addresses.                    *)
Texts == Seq(Chars)
Tickets == [id : EndpointIds, relay : {None} \cup {Some(w) : w \in Texts}, direct : Seq(Texts)]
TicketOf(id, xs) == FoldLeft(WithAddr, NoAddrs(id), xs)

(* An address more,                                                        *)
LEMMA WithAddrIs ==
  ASSUME NEW t \in Tickets, NEW a \in TransportAddr
  PROVE  /\ WithAddr(t, a) \in Tickets /\ WithAddr(t, a).id = t.id
         /\ a.kind = "Custom" => WithAddr(t, a) = t
         /\ a.kind = "Relay" => /\ WithAddr(t, a).relay = {a.value}
                                /\ WithAddr(t, a).direct = t.direct
         /\ a.kind = "Ip" => /\ WithAddr(t, a).relay = t.relay
                             /\ WithAddr(t, a).direct = Append(t.direct, a.value)
<1>1. a.kind \in {"Relay", "Ip", "Custom"} /\ a.value \in Texts
  BY DEF TransportAddr, Texts
<1>2. /\ t.id \in EndpointIds /\ t.direct \in Seq(Texts)
      /\ t = [id |-> t.id, relay |-> t.relay, direct |-> t.direct]
      /\ t.relay \in {None} \cup {Some(w) : w \in Texts}
  BY DEF Tickets
<1>3. Append(t.direct, a.value) \in Seq(Texts)
  BY <1>1, <1>2, AppendProperties
<1>4. a.kind = "Relay" => WithAddr(t, a) = [t EXCEPT !.relay = Some(a.value)]
  BY Zenon DEF WithAddr
<1>5. a.kind = "Ip" => WithAddr(t, a) = [t EXCEPT !.direct = Append(t.direct, a.value)]
  <2>1. "Ip" # "Relay"
    OBVIOUS
  <2> QED BY <2>1, Zenon DEF WithAddr
<1>6. a.kind = "Custom" => WithAddr(t, a) = t
  <2>1. "Custom" # "Relay" /\ "Custom" # "Ip"
    OBVIOUS
  <2> QED BY <2>1, Zenon DEF WithAddr
<1>7. CASE a.kind = "Relay"
  <2>1. WithAddr(t, a) = [id |-> t.id, relay |-> Some(a.value), direct |-> t.direct]
    BY <1>2, <1>4, <1>7
  <2> QED BY <1>1, <1>2, <1>7, <2>1 DEF Tickets, Some
<1>8. CASE a.kind = "Ip"
  <2>1. WithAddr(t, a) = [id |-> t.id, relay |-> t.relay, direct |-> Append(t.direct, a.value)]
    BY <1>2, <1>5, <1>8
  <2> QED BY <1>2, <1>3, <1>8, <2>1 DEF Tickets
<1> QED BY <1>1, <1>6, <1>7, <1>8

(* and none.                                                               *)
LEMMA NoAddrsIs ==
  ASSUME NEW id \in EndpointIds
  PROVE  NoAddrs(id) \in Tickets /\ NoAddrs(id).id = id
<1>1. <<>> \in Seq(Texts)
  BY EmptySeq
<1> QED BY <1>1 DEF NoAddrs, Tickets

(* The ticket for a list of addresses, address by address.                 *)
TicketsOf(id, e) ==
    /\ TicketOf(id, e) = NoAddrs(id)
    /\ \A xs \in Seq(TransportAddr) : TicketOf(id, xs) \in Tickets
    /\ \A xs \in Seq(TransportAddr) : \A a \in TransportAddr :
         TicketOf(id, Append(xs, a)) = WithAddr(TicketOf(id, xs), a)

(* It is so for every list, since FromAddr is a fold.                      *)
LEMMA TicketGrows ==
  ASSUME NEW id \in EndpointIds, NEW e \in Seq(TransportAddr), e = <<>>
  PROVE  TicketsOf(id, e)
<1> DEFINE V == Tickets
           S == TransportAddr
           base == NoAddrs(id)
           O == [p \in V \X S |-> WithAddr(p[1], p[2])]
           F == [s \in Seq(S) |-> TicketOf(id, s)]
<1>1. base \in V
  BY NoAddrsIs
<1>2. ASSUME NEW v \in V, NEW c \in S
      PROVE  WithAddr(v, c) \in V
  BY WithAddrIs
<1> HIDE DEF V, S, base
<1>3. O \in [V \X S -> V] /\ \A v \in V : \A c \in S : O[<<v, c>>] = WithAddr(v, c)
  BY <1>2
<1> HIDE DEF O
<1>4. ASSUME NEW s \in Seq(S)
      PROVE  EndsRun(F[s], V, s, base, O)
  <2> DEFINE n == Len(s)
             Def(it) == [I \in SUBSET (DOMAIN s) |->
                           IF I = {} THEN base ELSE WithAddr(it[I \ {Max(I)}], s[Max(I)])]
             iter == CHOOSE it : it = Def(it)
  <2>1. n \in Nat /\ DOMAIN s = 1..n /\ \A i \in 1..n : s[i] \in S
    BY LenProperties, ElementOfSeq
  <2>2. PICK it \in [SUBSET (1..n) -> V] : IsFold(it, V, s, base, O)
    <3>1. HasFold(V, s, base, O)
      BY ONLY <1>1, <1>3, FoldDefined
    <3> QED BY <3>1, Zenon DEF HasFold
  <2>3. \A I \in SUBSET (1..n) : I # {} => Max(I) \in 1..n
    BY <2>1, MaxIsIndex
  <2>4. it = Def(it)
    <3>1. ASSUME NEW I \in SUBSET (1..n), I # {}
          PROVE  it[I] = WithAddr(it[I \ {Max(I)}], s[Max(I)])
      <4>1. it[I \ {Max(I)}] \in V /\ s[Max(I)] \in S
        BY <2>1, <2>3, <3>1
      <4> QED BY <1>3, <2>2, <3>1, <4>1 DEF IsFold
    <3> QED BY <2>1, <2>2, <3>1 DEF IsFold
  <2>5. iter = Def(iter)
    <3> HIDE DEF Def
    <3> QED BY <2>4, Zenon
  <2> HIDE DEF iter
  <2>6. iter[{}] = base
    BY <2>1, <2>5
  <2>7. ASSUME NEW I \in SUBSET (1..n), I # {}, iter[I \ {Max(I)}] \in V
        PROVE  iter[I] = O[<<iter[I \ {Max(I)}], s[Max(I)]>>]
    <3>1. iter[I] = WithAddr(iter[I \ {Max(I)}], s[Max(I)])
      BY <2>1, <2>5, <2>7
    <3> QED BY <1>3, <2>1, <2>3, <2>7, <3>1
  <2>8. EndsRun(iter[1..n], V, s, base, O)
    <3>1. IsFold(iter, V, s, base, O)
      BY <2>6, <2>7 DEF IsFold
    <3> QED BY ONLY <1>1, <1>3, <3>1, FoldRuns
  <2>9. TicketOf(id, s) = iter[DOMAIN s]
    BY Zenon DEF TicketOf, FoldLeft, MapThenFoldSet, iter, base
  <2> QED BY <2>1, <2>8, <2>9
<1>5. Grows(F, V, S, base, O)
  <2> HIDE DEF F
  <2>1. FoldedBy(F, V, S, base, O)
    BY <1>4, Zenon DEF FoldedBy
  <2> QED BY ONLY <1>1, <1>3, <2>1, FoldGrows
<1>6. e \in Seq(S) /\ \A s \in Seq(S) : \A c \in S : Append(s, c) \in Seq(S)
  BY AppendProperties DEF S
<1>7. F[e] = TicketOf(id, e) /\ \A s \in Seq(S) : F[s] = TicketOf(id, s)
  BY <1>6
<1> HIDE DEF F
<1>8. F[e] = base /\ \A s \in Seq(S) : F[s] \in V
  BY <1>5 DEF Grows
<1>9. \A s \in Seq(S) : \A c \in S : F[Append(s, c)] = O[<<F[s], c>>]
  BY <1>5, Zenon DEF Grows
<1>10. \A s \in Seq(S) : \A c \in S : TicketOf(id, Append(s, c)) = WithAddr(TicketOf(id, s), c)
  <2> SUFFICES ASSUME NEW s \in Seq(S), NEW c \in S
               PROVE  TicketOf(id, Append(s, c)) = WithAddr(TicketOf(id, s), c)
    OBVIOUS
  <2>1. TicketOf(id, s) = F[s] /\ F[s] \in V /\ TicketOf(id, Append(s, c)) = F[Append(s, c)]
    BY <1>6, <1>7, <1>8
  <2>2. F[Append(s, c)] = O[<<F[s], c>>]
    BY <1>9
  <2> QED BY <1>3, <2>1, <2>2
<1> QED BY <1>7, <1>8, <1>10 DEF TicketsOf, V, S, base

(* The addresses of a ticket: its relay,                                   *)
RelayOf(t) ==
    IF t.relay = None THEN <<>> ELSE <<[kind |-> "Relay", value |-> UnwrapOr(t.relay, <<>>)]>>

(* and the others.                                                         *)
DirectOf(t) == [i \in DOMAIN t.direct |-> [kind |-> "Ip", value |-> t.direct[i]]]

(* There is at most one relay,                                             *)
LEMMA RelayIs ==
  ASSUME NEW t \in Tickets
  PROVE  /\ RelayOf(t) \in Seq(TransportAddr)
         /\ \/ t.relay = None /\ RelayOf(t) = <<>> /\ Len(RelayOf(t)) = 0
            \/ /\ t.relay # None /\ Len(RelayOf(t)) = 1
               /\ \E w \in Texts : /\ t.relay = {w}
                                   /\ RelayOf(t) = <<[kind |-> "Relay", value |-> w]>>
<1>1. t.relay \in {None} \cup {Some(w) : w \in Texts}
  BY DEF Tickets
<1>2. CASE t.relay = None
  BY <1>2, EmptySeq DEF RelayOf
<1>3. CASE t.relay # None
  <2>1. PICK w \in Texts : t.relay = {w}
    BY <1>1, <1>3 DEF Some
  <2>2. UnwrapOr(t.relay, <<>>) = w
    BY <1>3, <2>1 DEF UnwrapOr
  <2> DEFINE a == [kind |-> "Relay", value |-> w]
  <2>3. RelayOf(t) = <<a>>
    BY <1>3, <2>2 DEF RelayOf
  <2>4. a \in TransportAddr
    BY DEF TransportAddr, Texts
  <2> HIDE DEF a
  <2>5. <<a>> \in Seq(TransportAddr) /\ Len(<<a>>) = 1
    BY <2>4, Singleton
  <2> QED BY <1>3, <2>1, <2>3, <2>5 DEF a
<1> QED BY <1>2, <1>3

(* and an IP address for every direct one.                                 *)
LEMMA DirectIs ==
  ASSUME NEW t \in Tickets
  PROVE  /\ Len(t.direct) \in Nat /\ DirectOf(t) \in Seq(TransportAddr)
         /\ Len(DirectOf(t)) = Len(t.direct)
         /\ \A i \in 1..Len(t.direct) :
              t.direct[i] \in Texts /\ DirectOf(t)[i] = [kind |-> "Ip", value |-> t.direct[i]]
         /\ Addrs(t) = RelayOf(t) \o DirectOf(t)
<1> DEFINE n == Len(t.direct)
<1>1. t.direct \in Seq(Texts)
  BY DEF Tickets
<1>2. n \in Nat /\ DOMAIN t.direct = 1..n /\ \A i \in 1..n : t.direct[i] \in Texts
  BY <1>1, LenProperties, ElementOfSeq
<1>3. \A i \in 1..n : [kind |-> "Ip", value |-> t.direct[i]] \in TransportAddr
  BY <1>2 DEF TransportAddr, Texts
<1>4. DirectOf(t) \in [1..n -> TransportAddr]
  BY <1>2, <1>3 DEF DirectOf
<1>5. DirectOf(t) \in Seq(TransportAddr) /\ Len(DirectOf(t)) = n
  <2> HIDE DEF n
  <2> QED BY <1>2, <1>4, FunctionText
<1>6. \A i \in 1..n : DirectOf(t)[i] = [kind |-> "Ip", value |-> t.direct[i]]
  BY <1>2 DEF DirectOf
<1>7. Addrs(t) = RelayOf(t) \o DirectOf(t)
  BY DEF Addrs, RelayOf, DirectOf
<1> QED BY <1>2, <1>5, <1>6, <1>7

(* The addresses of a ticket without any,                                  *)
LEMMA AddrsOfNone ==
  ASSUME NEW id \in EndpointIds
  PROVE  Addrs(NoAddrs(id)) = <<>> /\ DirectOf(NoAddrs(id)) = <<>>
<1> DEFINE t == NoAddrs(id)
<1>1. t \in Tickets
  BY NoAddrsIs
<1>2. t.relay = None /\ t.direct = <<>>
  BY DEF NoAddrs
<1> HIDE DEF t
<1>3. RelayOf(t) = <<>>
  BY <1>2 DEF RelayOf
<1>4. Len(t.direct) = 0
  BY <1>2
<1>5. DirectOf(t) = <<>>
  <2>1. DirectOf(t) \in Seq(TransportAddr) /\ Len(DirectOf(t)) = 0
    BY <1>1, <1>4, DirectIs
  <2> QED BY <2>1, EmptySeq
<1>6. Addrs(t) = RelayOf(t) \o DirectOf(t)
  BY <1>1, DirectIs
<1>7. <<>> \o <<>> = <<>>
  BY ConcatEmptySeq, EmptySeq
<1> QED BY <1>3, <1>5, <1>6, <1>7 DEF t

(* with an IP address more,                                                *)
LEMMA AddrsOfIp ==
  ASSUME NEW t \in Tickets, NEW a \in TransportAddr, a.kind = "Ip"
  PROVE  Addrs(WithAddr(t, a)) = Append(Addrs(t), a)
<1> DEFINE u == WithAddr(t, a)
<1>1. /\ u \in Tickets /\ u.relay = t.relay /\ u.direct = Append(t.direct, a.value)
  BY WithAddrIs
<1> HIDE DEF u
<1>2. RelayOf(u) = RelayOf(t)
  BY <1>1 DEF RelayOf
<1>3. DirectOf(u) = Append(DirectOf(t), a)
  <2>1. t.direct \in Seq(Texts) /\ a.value \in Texts /\ a = [kind |-> "Ip", value |-> a.value]
    BY DEF Tickets, TransportAddr, Texts
  <2>2. /\ Len(u.direct) = Len(t.direct) + 1 /\ u.direct[Len(t.direct) + 1] = a.value
        /\ \A i \in 1..Len(t.direct) : u.direct[i] = t.direct[i]
    BY <1>1, <2>1, AppendText
  <2>3. /\ Len(t.direct) \in Nat /\ DirectOf(t) \in Seq(TransportAddr)
        /\ Len(DirectOf(t)) = Len(t.direct)
        /\ \A i \in 1..Len(t.direct) : DirectOf(t)[i] = [kind |-> "Ip", value |-> t.direct[i]]
    BY DirectIs
  <2>4. /\ DirectOf(u) \in Seq(TransportAddr)
        /\ Len(DirectOf(u)) = Len(u.direct)
        /\ \A i \in 1..Len(u.direct) : DirectOf(u)[i] = [kind |-> "Ip", value |-> u.direct[i]]
    BY <1>1, DirectIs
  <2>5. \A i \in 1..Len(DirectOf(t)) : DirectOf(u)[i] = DirectOf(t)[i]
    <3> SUFFICES ASSUME NEW i \in 1..Len(t.direct)
                 PROVE  DirectOf(u)[i] = DirectOf(t)[i]
      BY <2>3
    <3>1. i \in 1..Len(u.direct) /\ u.direct[i] = t.direct[i]
      BY <2>2, <2>3
    <3> QED BY <2>3, <2>4, <3>1
  <2>6. DirectOf(u)[Len(DirectOf(t)) + 1] = a
    <3>1. Len(t.direct) + 1 \in 1..Len(u.direct)
      BY <2>2, <2>3
    <3>2. DirectOf(u)[Len(t.direct) + 1] = [kind |-> "Ip", value |-> u.direct[Len(t.direct) + 1]]
      BY <2>4, <3>1
    <3> QED BY <2>1, <2>2, <2>3, <3>2
  <2>7. Len(DirectOf(u)) = Len(DirectOf(t)) + 1
    BY <2>2, <2>3, <2>4
  <2>8. DirectOf(t) \in Seq(TransportAddr) /\ DirectOf(u) \in Seq(TransportAddr)
    BY <2>3, <2>4
  <2> QED BY ONLY <2>5, <2>6, <2>7, <2>8, a \in TransportAddr, AppendIs
<1>4. Addrs(t) = RelayOf(t) \o DirectOf(t) /\ Addrs(u) = RelayOf(u) \o DirectOf(u)
  BY <1>1, DirectIs
<1>5. RelayOf(t) \o Append(DirectOf(t), a) = Append(RelayOf(t) \o DirectOf(t), a)
  BY RelayIs, DirectIs, AppendOfConcat
<1> QED BY <1>2, <1>3, <1>4, <1>5 DEF u

(* and with another relay, which replaces the first;                       *)
LEMMA AddrsOfRelay ==
  ASSUME NEW t \in Tickets, NEW a \in TransportAddr, a.kind = "Relay"
  PROVE  /\ Addrs(WithAddr(t, a)) = <<a>> \o DirectOf(t)
<1> DEFINE u == WithAddr(t, a)
<1>1. /\ u \in Tickets /\ u.relay = {a.value} /\ u.direct = t.direct
  BY WithAddrIs
<1> HIDE DEF u
<1>2. a = [kind |-> "Relay", value |-> a.value]
  BY DEF TransportAddr
<1>3. RelayOf(u) = <<a>>
  <2>1. PICK w : u.relay = {w} /\ RelayOf(u) = <<[kind |-> "Relay", value |-> w]>>
    BY <1>1, RelayIs DEF None
  <2>2. w = a.value
    BY <1>1, <2>1
  <2> QED BY <1>2, <2>1, <2>2
<1>4. DirectOf(u) = DirectOf(t)
  BY <1>1 DEF DirectOf
<1>5. Addrs(u) = RelayOf(u) \o DirectOf(u)
  BY <1>1, DirectIs
<1> QED BY <1>3, <1>4, <1>5 DEF u

(* of any ticket.                                                          *)
LEMMA AddrsAre ==
  ASSUME NEW t \in Tickets
  PROVE  /\ Addrs(t) \in Seq(TransportAddr)
         /\ \A i \in 1..Len(Addrs(t)) : i # 1 => Addrs(t)[i].kind = "Ip"
         /\ \A x : x \in Range(DirectOf(t)) <=> x \in Range(Addrs(t)) /\ x.kind = "Ip"
<1> DEFINE R == RelayOf(t)
           D == DirectOf(t)
           z == R \o D
<1>1. /\ R \in Seq(TransportAddr) /\ D \in Seq(TransportAddr)
      /\ Addrs(t) = z /\ Len(R) \in {0, 1}
      /\ \A i \in 1..Len(R) : R[i].kind # "Ip"
  BY RelayIs, DirectIs
<1>2. \A i \in 1..Len(D) : D[i].kind = "Ip"
  <2>1. Len(D) = Len(t.direct) /\ \A i \in 1..Len(t.direct) : D[i] = [kind |-> "Ip", value |-> t.direct[i]]
    BY DirectIs
  <2> HIDE DEF D
  <2> SUFFICES ASSUME NEW i \in 1..Len(D)
               PROVE  D[i].kind = "Ip"
    OBVIOUS
  <2>2. D[i] = [kind |-> "Ip", value |-> t.direct[i]]
    BY <2>1
  <2> QED BY <2>2
<1> HIDE DEF R, D
<1>3. z \in Seq(TransportAddr) /\ Len(z) = Len(R) + Len(D)
  BY <1>1, ConcatProperties
<1>4. \A i \in 1..(Len(R) + Len(D)) : z[i] = IF i <= Len(R) THEN R[i] ELSE D[i - Len(R)]
  BY <1>1, ConcatProperties
<1>5. Len(R) \in Nat /\ Len(D) \in Nat
  BY <1>1, LenProperties
<1> HIDE DEF z
<1>6. \A i \in 1..Len(z) : i # 1 => z[i].kind = "Ip"
  <2> SUFFICES ASSUME NEW i \in 1..Len(z), i # 1
               PROVE  z[i].kind = "Ip"
    OBVIOUS
  <2>1. ~(i <= Len(R)) /\ i - Len(R) \in 1..Len(D)
    BY <1>1, <1>3, <1>5
  <2> QED BY <1>2, <1>3, <1>4, <2>1
<1>7. DOMAIN z = 1..Len(z) /\ DOMAIN D = 1..Len(D)
  BY <1>1, <1>3, LenProperties
<1>8. ASSUME NEW x \in Range(D)
      PROVE  x \in Range(z) /\ x.kind = "Ip"
  <2>1. PICK i \in 1..Len(D) : x = D[i]
    BY <1>7 DEF Range
  <2>2. /\ i + Len(R) \in 1..(Len(R) + Len(D)) /\ ~(i + Len(R) <= Len(R))
        /\ (i + Len(R)) - Len(R) = i
    BY <1>5
  <2>3. z[i + Len(R)] = x
    BY <1>4, <2>1, <2>2
  <2>4. i + Len(R) \in DOMAIN z
    BY <1>3, <1>7, <2>2
  <2> QED BY <1>2, <2>1, <2>3, <2>4 DEF Range
<1>9. ASSUME NEW x \in Range(z), x.kind = "Ip"
      PROVE  x \in Range(D)
  <2>1. PICK i \in 1..Len(z) : x = z[i]
    BY <1>7 DEF Range
  <2>2. ~(i <= Len(R))
    <3>1. i <= Len(R) => i \in 1..Len(R) /\ z[i] = R[i]
      BY <1>3, <1>4, <1>5
    <3> QED BY <1>1, <1>9, <2>1, <3>1
  <2>3. i - Len(R) \in 1..Len(D) /\ z[i] = D[i - Len(R)]
    BY <1>3, <1>4, <1>5, <2>2
  <2> QED BY <1>7, <2>1, <2>3 DEF Range
<1> QED BY <1>1, <1>3, <1>6, <1>8, <1>9 DEF D

(* What Told is of the addresses of an endpoint.                           *)
Counts(addrs, j) ==
    \/ addrs[j].kind = "Ip"
    \/ /\ addrs[j].kind = "Relay"
       /\ \A k \in (j + 1)..Len(addrs) : addrs[k].kind # "Relay"
ToldOf(addrs) == {addrs[i] : i \in {j \in DOMAIN addrs : Counts(addrs, j)}}

(* With an address more: a relay makes those before it forgotten.          *)
LEMMA ToldGrows ==
  ASSUME NEW xs \in Seq(TransportAddr), NEW a \in TransportAddr
  PROVE  /\ a.kind = "Custom" => ToldOf(Append(xs, a)) = ToldOf(xs)
         /\ a.kind = "Ip" => ToldOf(Append(xs, a)) = ToldOf(xs) \cup {a}
         /\ a.kind = "Relay" =>
              ToldOf(Append(xs, a)) = {x \in ToldOf(xs) : x.kind = "Ip"} \cup {a}
<1> DEFINE t == Append(xs, a)
           n == Len(xs)
<1>1. /\ n \in Nat /\ Len(t) = n + 1 /\ DOMAIN xs = 1..n /\ DOMAIN t = 1..(n + 1)
      /\ \A i \in 1..n : t[i] = xs[i]
      /\ t[n + 1] = a
  <2>1. /\ Len(xs) \in Nat /\ Len(t) = Len(xs) + 1
        /\ DOMAIN xs = 1..Len(xs) /\ DOMAIN t = 1..(Len(xs) + 1)
        /\ \A i \in 1..Len(xs) : t[i] = xs[i]
        /\ t[Len(xs) + 1] = a
    <3>1. /\ Append(xs, a) \in Seq(TransportAddr) /\ Len(xs) \in Nat
          /\ Len(Append(xs, a)) = Len(xs) + 1
      BY AppendText
    <3>2. DOMAIN xs = 1..Len(xs) /\ DOMAIN Append(xs, a) = 1..(Len(xs) + 1)
      BY AppendText
    <3>3. \A i \in 1..Len(xs) : Append(xs, a)[i] = xs[i]
      BY AppendText
    <3>4. Append(xs, a)[Len(xs) + 1] = a
      BY AppendProperties
    <3> QED BY <3>1, <3>2, <3>3, <3>4
  <2> HIDE DEF t
  <2> QED BY <2>1
<1> HIDE DEF t, n
<1>3. /\ \A j \in 1..(n + 1) : j \in 1..n \/ j = n + 1
      /\ \A j \in 1..n : j \in 1..(n + 1) /\ n + 1 \in (j + 1)..(n + 1)
      /\ \A j \in 1..n : \A k \in (j + 1)..n : k \in 1..n /\ k \in (j + 1)..(n + 1)
      /\ \A j \in 1..n : \A k \in (j + 1)..(n + 1) : k \in (j + 1)..n \/ k = n + 1
      /\ \A k \in ((n + 1) + 1)..(n + 1) : FALSE
      /\ n + 1 \in 1..(n + 1)
  <2>1. n \in Nat
    BY <1>1
  <2> QED BY ONLY <2>1
<1>4. a.kind \in {"Relay", "Ip", "Custom"} /\ \A j \in 1..n : xs[j].kind \in {"Relay", "Ip", "Custom"}
  <2>1. \A j \in 1..n : xs[j] \in TransportAddr
    BY <1>1, ElementOfSeq DEF n
  <2> QED BY <2>1 DEF TransportAddr
<1> HIDE DEF t, n
<1>5. ASSUME NEW j \in 1..n
      PROVE  /\ a.kind # "Relay" => (Counts(t, j) <=> Counts(xs, j))
             /\ a.kind = "Relay" => (Counts(t, j) <=> xs[j].kind = "Ip")
  <2>1. t[j] = xs[j]
    BY <1>1
  <2>2. a.kind = "Relay" => ~ \A k \in (j + 1)..Len(t) : t[k].kind # "Relay"
    BY <1>1, <1>3
  <2>3. a.kind # "Relay" => ((\A k \in (j + 1)..Len(t) : t[k].kind # "Relay")
                              <=> \A k \in (j + 1)..Len(xs) : xs[k].kind # "Relay")
    <3>1. \A k \in (j + 1)..n : t[k] = xs[k] /\ k \in (j + 1)..(n + 1)
      BY <1>1, <1>3
    <3>2. \A k \in (j + 1)..(n + 1) : k \in (j + 1)..n \/ t[k] = a
      BY <1>1, <1>3
    <3>3. Len(t) = n + 1 /\ Len(xs) = n
      BY <1>1 DEF n
    <3> QED BY ONLY <3>1, <3>2, <3>3, Zenon
  <2> QED BY <2>1, <2>2, <2>3 DEF Counts
<1>6. /\ a.kind = "Custom" => ~Counts(t, n + 1)
      /\ a.kind # "Custom" => Counts(t, n + 1)
  BY <1>1, <1>3, <1>4 DEF Counts
<1>7. \A j \in 1..n : xs[j].kind = "Ip" => Counts(xs, j)
  BY DEF Counts
<1>8. ToldOf(t) = {xs[j] : j \in {i \in 1..n : Counts(t, i)}} \cup {x \in {a} : Counts(t, n + 1)}
  <2>1. ToldOf(t) = {t[j] : j \in {i \in 1..(n + 1) : Counts(t, i)}}
    BY <1>1 DEF ToldOf
  <2> HIDE DEF Counts
  <2>2. ASSUME NEW x \in ToldOf(t)
        PROVE  x \in {xs[j] : j \in {i \in 1..n : Counts(t, i)}} \/ (x = a /\ Counts(t, n + 1))
    <3>1. PICK j \in 1..(n + 1) : Counts(t, j) /\ x = t[j]
      BY <2>1
    <3>2. CASE j \in 1..n
      BY <1>1, <3>1, <3>2
    <3>3. CASE j = n + 1
      BY <1>1, <3>1, <3>3
    <3> QED BY <1>3, <3>2, <3>3
  <2>3. ASSUME NEW j \in 1..n, Counts(t, j)
        PROVE  xs[j] \in ToldOf(t)
    <3>1. j \in 1..(n + 1) /\ t[j] = xs[j]
      BY <1>1, <1>3
    <3> QED BY <2>1, <2>3, <3>1
  <2>4. Counts(t, n + 1) => a \in ToldOf(t)
    BY <1>1, <1>3, <2>1
  <2> QED BY <2>2, <2>3, <2>4
<1>9. ToldOf(xs) = {xs[j] : j \in {i \in 1..n : Counts(xs, i)}}
  BY <1>1 DEF ToldOf
<1> HIDE DEF Counts
<1>10. ASSUME a.kind = "Custom"
       PROVE  ToldOf(t) = ToldOf(xs)
  <2>1. \A j \in 1..n : Counts(t, j) <=> Counts(xs, j)
    BY <1>5, <1>10
  <2>2. ~Counts(t, n + 1)
    BY <1>6, <1>10
  <2> QED BY <1>8, <1>9, <2>1, <2>2
<1>11. ASSUME a.kind = "Ip"
       PROVE  ToldOf(t) = ToldOf(xs) \cup {a}
  <2>1. \A j \in 1..n : Counts(t, j) <=> Counts(xs, j)
    BY <1>5, <1>11
  <2>2. Counts(t, n + 1)
    BY <1>6, <1>11
  <2> QED BY <1>8, <1>9, <2>1, <2>2
<1>12. ASSUME a.kind = "Relay"
       PROVE  ToldOf(t) = {x \in ToldOf(xs) : x.kind = "Ip"} \cup {a}
  <2>1. \A j \in 1..n : Counts(t, j) <=> xs[j].kind = "Ip"
    BY <1>5, <1>12
  <2>2. Counts(t, n + 1)
    BY <1>6, <1>12
  <2> QED BY <1>7, <1>8, <1>9, <2>1, <2>2
<1> QED BY <1>10, <1>11, <1>12 DEF t

(* A ticket names the addresses it has room for.                           *)
LEMMA TicketNames ==
  ASSUME NEW id \in EndpointIds, NEW addrs \in Seq(TransportAddr)
  PROVE  /\ TicketOf(id, addrs) \in Tickets /\ TicketOf(id, addrs).id = id
         /\ Range(Addrs(TicketOf(id, addrs))) = ToldOf(addrs)
<1> DEFINE S == TransportAddr
           T == {xs \in Seq(S) : /\ TicketOf(id, xs).id = id
                                 /\ Range(Addrs(TicketOf(id, xs))) = ToldOf(xs)}
<1>1. PICK e \in Seq(S) : e = <<>> /\ DOMAIN e = {}
  <2>1. <<>> \in Seq(S) /\ DOMAIN <<>> = {}
    BY EmptySeq
  <2> QED BY <2>1
<1>2. TicketsOf(id, e)
  BY <1>1, TicketGrows
<1>3. e \in T
  <2>1. TicketOf(id, e) = NoAddrs(id)
    BY <1>2, Zenon DEF TicketsOf
  <2>2. Addrs(NoAddrs(id)) = e /\ NoAddrs(id).id = id
    BY <1>1, AddrsOfNone, NoAddrsIs
  <2>3. Range(e) = {} /\ ToldOf(e) = {}
    BY <1>1 DEF Range, ToldOf
  <2> QED BY <2>1, <2>2, <2>3
<1>4. ASSUME NEW xs \in Seq(S), NEW a \in S, xs \in T
      PROVE  Append(xs, a) \in T
  <2> DEFINE t == TicketOf(id, xs)
             b == Append(xs, a)
  <2>1. t \in Tickets /\ TicketOf(id, b) = WithAddr(t, a)
    BY <1>2, Zenon DEF TicketsOf
  <2>2. b \in Seq(S)
    BY AppendProperties
  <2>3. t.id = id /\ Range(Addrs(t)) = ToldOf(xs)
    BY <1>4
  <2>4. a.kind \in {"Relay", "Ip", "Custom"}
    BY DEF TransportAddr
  <2> HIDE DEF t, b
  <2>5. WithAddr(t, a).id = id
    BY <2>1, <2>3, WithAddrIs
  <2>6. a.kind = "Custom" => Range(Addrs(WithAddr(t, a))) = ToldOf(b)
    BY <2>1, <2>3, WithAddrIs, ToldGrows DEF b
  <2>7. a.kind = "Ip" => Range(Addrs(WithAddr(t, a))) = ToldOf(b)
    <3> SUFFICES ASSUME a.kind = "Ip"
                 PROVE  Range(Addrs(WithAddr(t, a))) = ToldOf(b)
      OBVIOUS
    <3>1. Addrs(WithAddr(t, a)) = Append(Addrs(t), a)
      BY <2>1, AddrsOfIp
    <3>2. Addrs(t) \in Seq(S)
      BY <2>1, AddrsAre
    <3>3. Range(Append(Addrs(t), a)) = Range(Addrs(t)) \cup {a}
      BY <3>2, RangeOfAppend
    <3>4. ToldOf(b) = ToldOf(xs) \cup {a}
      BY ToldGrows DEF b
    <3> QED BY <2>3, <3>1, <3>3, <3>4
  <2>8. a.kind = "Relay" => Range(Addrs(WithAddr(t, a))) = ToldOf(b)
    <3> SUFFICES ASSUME a.kind = "Relay"
                 PROVE  Range(Addrs(WithAddr(t, a))) = ToldOf(b)
      OBVIOUS
    <3> DEFINE D == DirectOf(t)
    <3>1. Addrs(WithAddr(t, a)) = <<a>> \o D /\ D \in Seq(S) /\ <<a>> \in Seq(S)
      BY <2>1, AddrsOfRelay, DirectIs, Singleton
    <3>2. \A x : x \in Range(D) <=> x \in ToldOf(xs) /\ x.kind = "Ip"
      BY <2>1, <2>3, AddrsAre
    <3> HIDE DEF D
    <3>3. Range(<<a>> \o D) = {a} \cup Range(D)
      <4>1. Range(<<a>>) = {a}
        BY DEF Range
      <4>2. Range(<<a>> \o D) = Range(<<a>>) \cup Range(D)
        BY ONLY <3>1, RangeConcatenation
      <4> QED BY <4>1, <4>2
    <3>4. ToldOf(b) = {x \in ToldOf(xs) : x.kind = "Ip"} \cup {a}
      BY ToldGrows DEF b
    <3> QED BY <3>1, <3>2, <3>3, <3>4
  <2> QED BY <2>1, <2>2, <2>4, <2>5, <2>6, <2>7, <2>8 DEF b
<1>5. addrs \in T
  <2> HIDE DEF T
  <2> QED BY <1>1, <1>3, <1>4, SeqInduction
<1>6. TicketOf(id, addrs) \in Tickets
  BY <1>2, Zenon DEF TicketsOf
<1> QED BY <1>5, <1>6

(* The addresses in the order in which a ticket names them.                *)
Orderly(xs) ==
    xs \in Seq(Nameable) /\ \A i \in 1..Len(xs) : i # 1 => xs[i].kind = "Ip"

(* They are addresses.                                                     *)
LEMMA NameableAddrs ==
  /\ Nameable \subseteq TransportAddr
  /\ \A s \in Seq(Nameable) : s \in Seq(TransportAddr)
<1>1. Nameable \subseteq TransportAddr
  BY DEF Nameable
<1> QED BY <1>1, SeqSubset

(* Only the first may be a relay.                                          *)
LEMMA OrderlyGrows ==
  ASSUME NEW xs \in Seq(Nameable), NEW a \in Nameable
  PROVE  Orderly(Append(xs, a)) <=> Orderly(xs) /\ (xs = <<>> \/ a.kind = "Ip")
<1> DEFINE t == Append(xs, a)
<1>0. t \in Seq(Nameable) /\ Len(xs) \in Nat /\ Len(t) = Len(xs) + 1
  BY AppendText
<1>1. \A i \in 1..Len(xs) : t[i] = xs[i]
  BY AppendText
<1>2. t[Len(xs) + 1] = a
  BY AppendProperties
<1>3. xs = <<>> <=> Len(xs) = 0
  BY EmptySeq
<1> HIDE DEF t
<1>10. \A n \in Nat : /\ \A i \in 1..(n + 1) : i \in 1..n \/ i = n + 1
                      /\ \A i \in 1..n : i \in 1..(n + 1)
                      /\ n + 1 \in 1..(n + 1) /\ (n + 1 = 1 <=> n = 0)
  OBVIOUS
<1>4. \A i \in 1..Len(t) : i \in 1..Len(xs) \/ i = Len(xs) + 1
  BY ONLY <1>0, <1>10
<1>5. \A i \in 1..Len(xs) : i \in 1..Len(t)
  BY ONLY <1>0, <1>10
<1>6. Len(xs) + 1 \in 1..Len(t) /\ (Len(xs) + 1 = 1 <=> Len(xs) = 0)
  BY ONLY <1>0, <1>10
<1>7. Orderly(t) <=> Orderly(xs) /\ (xs = <<>> \/ a.kind = "Ip")
  <2>1. ASSUME Orderly(t)
        PROVE  Orderly(xs) /\ (xs = <<>> \/ a.kind = "Ip")
    <3>1. \A i \in 1..Len(t) : i # 1 => t[i].kind = "Ip"
      BY <2>1 DEF Orderly
    <3>2. \A i \in 1..Len(xs) : i # 1 => xs[i].kind = "Ip"
      BY <1>1, <1>5, <3>1
    <3>3. xs = <<>> \/ a.kind = "Ip"
      BY <1>2, <1>3, <1>6, <3>1
    <3> QED BY <3>2, <3>3 DEF Orderly
  <2>2. ASSUME Orderly(xs), xs = <<>> \/ a.kind = "Ip"
        PROVE  Orderly(t)
    <3> SUFFICES ASSUME NEW i \in 1..Len(t), i # 1
                 PROVE  t[i].kind = "Ip"
      BY <1>0 DEF Orderly
    <3>1. CASE i \in 1..Len(xs)
      BY <1>1, <2>2, <3>1 DEF Orderly
    <3>2. CASE i = Len(xs) + 1
      BY <1>2, <1>3, <1>6, <2>2, <3>2
    <3> QED BY <1>4, <3>1, <3>2
  <2> QED BY <2>1, <2>2
<1> QED BY <1>7 DEF t

LEMMA OrderlyEmpty == Orderly(<<>>)
<1>1. <<>> \in Seq(Nameable) /\ Len(<<>>) = 0
  BY EmptySeq
<1> QED BY <1>1 DEF Orderly

(* A ticket for orderly addresses names them in their order,               *)
LEMMA TicketOfOrderly ==
  ASSUME NEW id \in EndpointIds, NEW addrs, Orderly(addrs)
  PROVE  Addrs(TicketOf(id, addrs)) = addrs
<1> DEFINE S == Nameable
           T == {xs \in Seq(S) : Orderly(xs) => Addrs(TicketOf(id, xs)) = xs}
<1>1. PICK e \in Seq(TransportAddr) : e = <<>>
  BY EmptySeq
<1>2. TicketsOf(id, e)
  BY <1>1, TicketGrows
<1>3. <<>> \in T
  <2>1. TicketOf(id, e) = NoAddrs(id)
    BY <1>2, Zenon DEF TicketsOf
  <2>2. Addrs(NoAddrs(id)) = <<>>
    BY AddrsOfNone
  <2>3. <<>> \in Seq(S)
    BY EmptySeq
  <2> QED BY <1>1, <2>1, <2>2, <2>3
<1>4. ASSUME NEW xs \in Seq(S), NEW a \in S, xs \in T
      PROVE  Append(xs, a) \in T
  <2> SUFFICES ASSUME Orderly(Append(xs, a))
               PROVE  Addrs(TicketOf(id, Append(xs, a))) = Append(xs, a)
    <3>1. Append(xs, a) \in Seq(S)
      BY AppendProperties
    <3> QED BY <3>1
  <2>1. Orderly(xs) /\ (xs = <<>> \/ a.kind = "Ip")
    BY OrderlyGrows
  <2> DEFINE t == TicketOf(id, xs)
  <2>2. Addrs(t) = xs
    BY <1>4, <2>1
  <2>3. a \in TransportAddr /\ xs \in Seq(TransportAddr) /\ a.kind \in {"Relay", "Ip"}
    BY NameableAddrs, NameableIs
  <2>4. t \in Tickets /\ TicketOf(id, Append(xs, a)) = WithAddr(t, a)
    BY <1>2, <2>3, Zenon DEF TicketsOf
  <2>5. CASE a.kind = "Ip"
    <3> HIDE DEF t
    <3> QED BY <2>2, <2>3, <2>4, <2>5, AddrsOfIp
  <2>6. CASE a.kind = "Relay"
    <3>1. xs = <<>>
      BY <2>1, <2>6
    <3>2. t = NoAddrs(id)
      BY <1>1, <1>2, <3>1, Zenon DEF TicketsOf
    <3>3. DirectOf(t) = <<>>
      BY <3>2, AddrsOfNone
    <3>4. Addrs(WithAddr(t, a)) = <<a>> \o <<>>
      <4> HIDE DEF t
      <4> QED BY <2>3, <2>4, <2>6, <3>3, AddrsOfRelay
    <3>5. <<a>> \in Seq(TransportAddr) /\ Append(<<>>, a) = <<a>>
      BY <2>3, Singleton
    <3>6. <<a>> \o <<>> = <<a>>
      BY ONLY <3>5, ConcatEmptySeq
    <3> QED BY <2>4, <3>1, <3>4, <3>5, <3>6
  <2> QED BY <2>3, <2>5, <2>6
<1>5. addrs \in Seq(S)
  BY DEF Orderly
<1>6. addrs \in T
  <2> HIDE DEF T
  <2> QED BY <1>3, <1>4, <1>5, SeqInduction
<1> QED BY <1>6

(* and every ticket names its addresses so.                                *)
LEMMA AddrsOrderly ==
  ASSUME NEW t \in Tickets, Range(Addrs(t)) \subseteq Nameable
  PROVE  Orderly(Addrs(t))
<1> DEFINE xs == Addrs(t)
<1>1. xs \in Seq(TransportAddr) /\ \A i \in 1..Len(xs) : i # 1 => xs[i].kind = "Ip"
  BY AddrsAre
<1> HIDE DEF xs
<1>2. xs \in Seq(Range(xs))
  BY <1>1, SeqOfRange
<1>3. xs \in Seq(Nameable)
  BY <1>2, SeqSubset DEF xs
<1> QED BY <1>1, <1>3 DEF Orderly, xs

(* What an endpoint's ticket has room for can be named.                    *)
LEMMA ToldNameable ==
  ASSUME NEW addrs \in Seq(TransportAddr), \A a \in Range(addrs) : Valid(a)
  PROVE  ToldOf(addrs) \subseteq Nameable
<1>1. \A i \in DOMAIN addrs : addrs[i] \in TransportAddr /\ addrs[i] \in Range(addrs)
  <2>1. \A i \in DOMAIN addrs : addrs[i] \in TransportAddr
    BY ElementOfSeq, LenProperties
  <2> QED BY <2>1 DEF Range
<1> QED BY <1>1 DEF ToldOf, Counts, Nameable

-----------------------------------------------------------------------------
(* The loop over the fields of a query.                                    *)
Legible == {kv \in Seq(Chars) : ParseField(kv) \subseteq TransportAddr}
ReadFields(id, fields) == FoldLeft(AddField, Some(NoAddrs(id)), fields)

(* It has a ticket, or has failed,                                         *)
LEMMA AddFieldIs ==
  ASSUME NEW v \in SUBSET Tickets, NEW kv \in Legible
  PROVE  AddField(v, kv) \in SUBSET Tickets
<1>1. CASE kv = <<>>
  BY <1>1 DEF AddField
<1>2. CASE kv # <<>>
  <2>1. AddField(v, kv) = {WithAddr(t, a) : t \in v, a \in ParseField(kv)}
    BY <1>2 DEF AddField
  <2>2. \A t \in v : \A a \in ParseField(kv) : WithAddr(t, a) \in Tickets
    BY WithAddrIs DEF Legible
  <2> QED BY <2>1, <2>2
<1> QED BY <1>1, <1>2

(* field by field.                                                         *)
ReadsOf(id, e) ==
    /\ ReadFields(id, e) = {NoAddrs(id)}
    /\ \A fs \in Seq(Legible) : ReadFields(id, fs) \in SUBSET Tickets
    /\ \A fs \in Seq(Legible) : \A kv \in Legible :
         ReadFields(id, Append(fs, kv)) = AddField(ReadFields(id, fs), kv)

(* It does so for every query, since it is a fold.                         *)
LEMMA ReadGrows ==
  ASSUME NEW id \in EndpointIds, NEW e \in Seq(Legible), e = <<>>
  PROVE  ReadsOf(id, e)
<1> DEFINE V == SUBSET Tickets
           S == Legible
           base == Some(NoAddrs(id))
           O == [p \in V \X S |-> AddField(p[1], p[2])]
           F == [s \in Seq(S) |-> ReadFields(id, s)]
<1>1. base \in V /\ base = {NoAddrs(id)}
  BY NoAddrsIs DEF Some
<1>2. ASSUME NEW v \in V, NEW c \in S
      PROVE  AddField(v, c) \in V
  BY AddFieldIs
<1> HIDE DEF V, S, base
<1>3. O \in [V \X S -> V] /\ \A v \in V : \A c \in S : O[<<v, c>>] = AddField(v, c)
  BY <1>2
<1> HIDE DEF O
<1>4. ASSUME NEW s \in Seq(S)
      PROVE  EndsRun(F[s], V, s, base, O)
  <2> DEFINE n == Len(s)
             Def(it) == [I \in SUBSET (DOMAIN s) |->
                           IF I = {} THEN base ELSE AddField(it[I \ {Max(I)}], s[Max(I)])]
             iter == CHOOSE it : it = Def(it)
  <2>1. n \in Nat /\ DOMAIN s = 1..n /\ \A i \in 1..n : s[i] \in S
    BY LenProperties, ElementOfSeq
  <2>2. PICK it \in [SUBSET (1..n) -> V] : IsFold(it, V, s, base, O)
    <3>1. HasFold(V, s, base, O)
      BY ONLY <1>1, <1>3, FoldDefined
    <3> QED BY <3>1, Zenon DEF HasFold
  <2>3. \A I \in SUBSET (1..n) : I # {} => Max(I) \in 1..n
    BY <2>1, MaxIsIndex
  <2>4. it = Def(it)
    <3>1. ASSUME NEW I \in SUBSET (1..n), I # {}
          PROVE  it[I] = AddField(it[I \ {Max(I)}], s[Max(I)])
      <4>1. it[I \ {Max(I)}] \in V /\ s[Max(I)] \in S
        BY <2>1, <2>3, <3>1
      <4> QED BY <1>3, <2>2, <3>1, <4>1 DEF IsFold
    <3> QED BY <2>1, <2>2, <3>1 DEF IsFold
  <2>5. iter = Def(iter)
    <3> HIDE DEF Def
    <3> QED BY <2>4, Zenon
  <2> HIDE DEF iter
  <2>6. iter[{}] = base
    BY <2>1, <2>5
  <2>7. ASSUME NEW I \in SUBSET (1..n), I # {}, iter[I \ {Max(I)}] \in V
        PROVE  iter[I] = O[<<iter[I \ {Max(I)}], s[Max(I)]>>]
    <3>1. iter[I] = AddField(iter[I \ {Max(I)}], s[Max(I)])
      BY <2>1, <2>5, <2>7
    <3> QED BY <1>3, <2>1, <2>3, <2>7, <3>1
  <2>8. EndsRun(iter[1..n], V, s, base, O)
    <3>1. IsFold(iter, V, s, base, O)
      BY <2>6, <2>7 DEF IsFold
    <3> QED BY ONLY <1>1, <1>3, <3>1, FoldRuns
  <2>9. ReadFields(id, s) = iter[DOMAIN s]
    BY Zenon DEF ReadFields, FoldLeft, MapThenFoldSet, iter, base
  <2> QED BY <2>1, <2>8, <2>9
<1>5. Grows(F, V, S, base, O)
  <2> HIDE DEF F
  <2>1. FoldedBy(F, V, S, base, O)
    BY <1>4, Zenon DEF FoldedBy
  <2> QED BY ONLY <1>1, <1>3, <2>1, FoldGrows
<1>6. e \in Seq(S) /\ \A s \in Seq(S) : \A c \in S : Append(s, c) \in Seq(S)
  BY AppendProperties DEF S
<1>7. F[e] = ReadFields(id, e) /\ \A s \in Seq(S) : F[s] = ReadFields(id, s)
  BY <1>6
<1> HIDE DEF F
<1>8. F[e] = base /\ \A s \in Seq(S) : F[s] \in V
  BY <1>5 DEF Grows
<1>9. \A s \in Seq(S) : \A c \in S : F[Append(s, c)] = O[<<F[s], c>>]
  BY <1>5, Zenon DEF Grows
<1>10. \A s \in Seq(S) : \A c \in S : ReadFields(id, Append(s, c)) = AddField(ReadFields(id, s), c)
  <2> SUFFICES ASSUME NEW s \in Seq(S), NEW c \in S
               PROVE  ReadFields(id, Append(s, c)) = AddField(ReadFields(id, s), c)
    OBVIOUS
  <2>1. ReadFields(id, s) = F[s] /\ F[s] \in V /\ ReadFields(id, Append(s, c)) = F[Append(s, c)]
    BY <1>6, <1>7, <1>8
  <2>2. F[Append(s, c)] = O[<<F[s], c>>]
    BY <1>9
  <2> QED BY <1>3, <2>1, <2>2
<1> QED BY <1>1, <1>7, <1>8, <1>10 DEF ReadsOf, V, S

(* The fields of a ticket, one after the other.                            *)
Fields(xs) == FlattenSeq([i \in DOMAIN xs |-> Field(IF i = 1 THEN "?" ELSE "&", xs[i])])

(* A field follows its separator.                                          *)
LEMMA FieldStarts ==
  ASSUME NEW a \in Nameable, NEW sep \in {"?", "&"}
  PROVE  /\ sep \in Chars /\ <<sep>> \in Seq(Chars)
         /\ Field(sep, a) \in Seq(Chars) /\ Field(sep, a) = <<sep>> \o FieldText(a)
<1> DEFINE k == Key[a.kind]
           e == PercentEncode(a.value)
<1>1. k \in Chars /\ "=" \in Chars /\ sep \in Chars
  BY NameableIs, TicketAssumption, Codes
<1>2. e \in Seq(Chars)
  BY FieldIs
<1> HIDE DEF k, e
<1>3. <<sep>> \in Seq(Chars) /\ <<k>> \in Seq(Chars) /\ <<"=">> \in Seq(Chars)
  BY <1>1, Singleton
<1>4. <<sep, k>> \in Seq(Chars) /\ <<k, "=">> \in Seq(Chars)
  BY <1>1
<1>5. <<sep, k>> = <<sep>> \o <<k>> /\ <<k, "=">> = <<k>> \o <<"=">>
      /\ <<sep, k, "=">> = <<sep, k>> \o <<"=">>
  <2>1. Append(<<sep>>, k) = <<sep, k>> /\ Append(<<sep, k>>, "=") = <<sep, k, "=">>
    BY <1>1, AppendTuples
  <2>2. Append(<<k>>, "=") = <<k, "=">>
    BY <1>1, AppendTuples
  <2>3. Append(<<sep>>, k) = <<sep>> \o <<k>>
    BY <1>1, <1>3, AppendIsConcat
  <2>4. Append(<<k>>, "=") = <<k>> \o <<"=">>
    BY <1>1, <1>3, AppendIsConcat
  <2>5. Append(<<sep, k>>, "=") = <<sep, k>> \o <<"=">>
    BY <1>1, <1>4, AppendIsConcat
  <2> QED BY <2>1, <2>2, <2>3, <2>4, <2>5
<1>6. <<sep, k, "=">> = <<sep>> \o <<k, "=">>
  <2>1. (<<sep>> \o <<k>>) \o <<"=">> = <<sep>> \o (<<k>> \o <<"=">>)
    BY <1>3, ConcatAssociative
  <2> QED BY <1>5, <2>1
<1>7. (<<sep>> \o <<k, "=">>) \o e = <<sep>> \o (<<k, "=">> \o e)
  BY <1>2, <1>3, <1>4, ConcatAssociative
<1>8. Field(sep, a) = <<sep>> \o FieldText(a)
  BY <1>6, <1>7 DEF Field, FieldText, k, e
<1>9. FieldText(a) \in Seq(Chars)
  BY FieldIs
<1> QED BY <1>1, <1>3, <1>8, <1>9, ConcatProperties

(* A field more is the field of the last address.                          *)
LEMMA FieldsGrow ==
  /\ Fields(<<>>) = <<>>
  /\ \A xs \in Seq(Nameable) : Fields(xs) \in Seq(Chars)
  /\ \A xs \in Seq(Nameable) : \A a \in Nameable :
       Fields(Append(xs, a)) = Fields(xs) \o Field(IF xs = <<>> THEN "?" ELSE "&", a)
<1> DEFINE S == Nameable
           one(i, a) == Field(IF i = 1 THEN "?" ELSE "&", a)
           parts(xs) == [i \in DOMAIN xs |-> one(i, xs[i])]
<1>1. \A xs : Fields(xs) = FlattenSeq(parts(xs))
  BY DEF Fields
<1>2. ASSUME NEW a \in S, NEW i
      PROVE  one(i, a) \in Seq(Chars)
  BY FieldStarts
<1> HIDE DEF one
<1>3. ASSUME NEW v \in Seq(S)
      PROVE  parts(v) \in Seq(Seq(Chars)) /\ Len(parts(v)) = Len(v)
  <2>1. /\ Len(v) \in Nat /\ DOMAIN v = 1..Len(v)
        /\ \A i \in 1..Len(v) : one(i, v[i]) \in Seq(Chars)
    BY <1>2, LenProperties, ElementOfSeq
  <2>2. parts(v) \in [1..Len(v) -> Seq(Chars)]
    BY <2>1
  <2> HIDE DEF parts
  <2> QED BY <2>1, <2>2, FunctionText
<1>4. ASSUME NEW v \in Seq(S), NEW c \in S
      PROVE  parts(Append(v, c)) = Append(parts(v), one(Len(v) + 1, c))
  <2> DEFINE w == Append(v, c)
             m == Len(v) + 1
  <2>1. /\ w \in Seq(S) /\ Len(v) \in Nat /\ Len(w) = m
        /\ DOMAIN v = 1..Len(v) /\ DOMAIN w = 1..m
        /\ \A i \in 1..Len(v) : w[i] = v[i]
    BY AppendText
  <2>2. w[m] = c
    BY AppendProperties
  <2>3. m \in 1..m /\ \A i \in 1..Len(v) : i \in 1..m
    BY <2>1
  <2> HIDE DEF w, m
  <2>4. /\ \A i \in 1..Len(v) : parts(w)[i] = parts(v)[i]
        /\ parts(w)[m] = one(m, c)
    BY <2>1, <2>2, <2>3
  <2>5. /\ parts(w) \in Seq(Seq(Chars)) /\ Len(parts(w)) = Len(v) + 1
        /\ parts(v) \in Seq(Seq(Chars)) /\ Len(parts(v)) = Len(v) /\ one(m, c) \in Seq(Chars)
    BY <1>2, <1>3, <2>1 DEF m
  <2> HIDE DEF parts
  <2>6. parts(w)[Len(parts(v)) + 1] = one(m, c)
    BY <2>4, <2>5 DEF m
  <2>7. \A i \in 1..Len(parts(v)) : parts(w)[i] = parts(v)[i]
    BY <2>4, <2>5
  <2>8. Len(parts(w)) = Len(parts(v)) + 1
    BY <2>5
  <2>9. parts(w) = Append(parts(v), one(m, c))
    BY ONLY <2>5, <2>6, <2>7, <2>8, AppendIs
  <2> QED BY <2>9 DEF w, m
<1>5. Fields(<<>>) = <<>>
  <2>1. parts(<<>>) = <<>>
    BY EmptySeq
  <2> HIDE DEF parts
  <2> QED BY <1>1, <2>1, FlattenGrows
<1>6. \A xs \in Seq(S) : \A a \in S :
        one(Len(xs) + 1, a) = Field(IF xs = <<>> THEN "?" ELSE "&", a)
  <2> SUFFICES ASSUME NEW xs \in Seq(S), NEW a \in S
               PROVE  one(Len(xs) + 1, a) = Field(IF xs = <<>> THEN "?" ELSE "&", a)
    OBVIOUS
  <2>1. Len(xs) + 1 = 1 <=> xs = <<>>
    <3>1. Len(xs) \in Nat /\ (xs = <<>> <=> Len(xs) = 0)
      BY EmptySeq, LenProperties
    <3>2. \A n \in Nat : n + 1 = 1 <=> n = 0
      OBVIOUS
    <3> QED BY ONLY <3>1, <3>2
  <2> QED BY <2>1 DEF one
<1> HIDE DEF parts
<1>7. \A xs \in Seq(S) : \A a \in S :
        Fields(Append(xs, a)) = Fields(xs) \o one(Len(xs) + 1, a)
  BY <1>1, <1>2, <1>3, <1>4, FlattenGrows
<1>8. \A xs \in Seq(S) : Fields(xs) \in Seq(Chars)
  BY <1>1, <1>3, FlattenGrows
<1> QED BY <1>5, <1>6, <1>7, <1>8

(* What a query is read as, when it is whole and when its end is lost: the *)
(* addresses up to one of them, which may be cut, or nothing.              *)
Reading(id, p) == ReadFields(id, Split(p, "&"))

IsReading(bs, xs) ==
    /\ Orderly(bs)
    /\ \E cs \in Seq(Nameable) :
         /\ IsPrefix(cs, xs)
         /\ bs = cs \/ \E b : (\E a \in Range(xs) : IsCutOf(b, a)) /\ bs = Append(cs, b)

CutRead(id, p, xs) ==
    \/ Reading(id, p) = {}
    \/ NoCut(p) /\ \E bs : IsReading(bs, xs) /\ Reading(id, p) = {TicketOf(id, bs)}

WholeRead(id, q, xs) ==
    /\ q \in Seq(Chars) /\ NoCut(q)
    /\ Split(q, "&") \in Seq(Legible) /\ Reading(id, q) = {TicketOf(id, xs)}

ReadsBack(id, q, xs) ==
    WholeRead(id, q, xs) /\ \A p \in Seq(Chars) : IsPrefix(p, q) => CutRead(id, p, xs)

(* A reading of some addresses is one of more,                             *)
LEMMA ReadingGrows ==
  ASSUME NEW xs \in Seq(Nameable), NEW a \in Nameable, NEW bs, IsReading(bs, xs)
  PROVE  IsReading(bs, Append(xs, a))
<1> DEFINE t == Append(xs, a)
<1>1. PICK cs \in Seq(Nameable) :
        /\ IsPrefix(cs, xs)
        /\ bs = cs \/ \E b : (\E x \in Range(xs) : IsCutOf(b, x)) /\ bs = Append(cs, b)
  BY DEF IsReading
<1>2. t \in Seq(Nameable)
  BY AppendProperties
<1>3. IsPrefix(xs, t)
  BY PrefixOfAppend
<1>4. Range(xs) \subseteq Range(t)
  <2>1. Range(t) = Range(xs) \cup {a}
    BY RangeOfAppend
  <2> HIDE DEF t
  <2> QED BY <2>1
<1> HIDE DEF t
<1>5. IsPrefix(cs, t)
  BY <1>1, <1>2, <1>3, PrefixTrans
<1>6. bs = cs \/ \E b : (\E x \in Range(t) : IsCutOf(b, x)) /\ bs = Append(cs, b)
  BY <1>1, <1>4
<1> QED BY <1>5, <1>6 DEF IsReading, t

(* and the addresses are one of their own.                                 *)
LEMMA ReadingWhole ==
  ASSUME NEW xs, Orderly(xs)
  PROVE  IsReading(xs, xs)
<1>1. xs \in Seq(Nameable)
  BY DEF Orderly
<1>2. IsPrefix(xs, xs)
  BY <1>1, PrefixRefl
<1> QED BY <1>1, <1>2 DEF IsReading

(* One field more, whole or cut.                                           *)
AddsOne(id, xs, a, g, R) ==
    \/ R = {}
    \/ NoCut(g) /\ \E bs : IsReading(bs, Append(xs, a)) /\ R = {TicketOf(id, bs)}

FieldAdded(id, xs, a, g, fs) ==
    /\ Without("&", g) /\ g \in Legible
    /\ AddsOne(id, xs, a, g, ReadFields(id, Append(fs, g)))
    /\ g = FieldText(a) => /\ NoCut(g)
                           /\ ReadFields(id, Append(fs, g)) = {TicketOf(id, Append(xs, a))}

(* It is read after the fields before it, or refused.                      *)
LEMMA FieldAdds ==
  ASSUME NEW id \in EndpointIds, NEW xs \in Seq(Nameable), NEW a \in Nameable,
         Orderly(Append(xs, a)),
         NEW g \in Seq(Chars), g # <<>>, IsPrefix(g, FieldText(a)),
         NEW fs \in Seq(Legible), ReadFields(id, fs) = {TicketOf(id, xs)}
  PROVE  FieldAdded(id, xs, a, g, fs)
<1> DEFINE t == TicketOf(id, xs)
           R == ReadFields(id, Append(fs, g))
<1>1. /\ Without("&", g) /\ Reads(g, a)
      /\ g = FieldText(a) => ParseField(g) = {a} /\ NoCut(g)
  BY FieldReads
<1>2. \A b : IsCutOf(b, a) => b \in Nameable /\ b.kind = a.kind
  BY DEF IsCutOf
<1>3. Nameable \subseteq TransportAddr /\ xs \in Seq(TransportAddr)
  BY NameableAddrs
<1>4. g \in Legible
  BY <1>1, <1>2, <1>3 DEF Reads, Legible
<1>5. \A x : x \in R <=> \E b \in ParseField(g) : x = WithAddr(t, b)
  <2>1. PICK e \in Seq(Legible) : e = <<>>
    BY EmptySeq
  <2>2. ReadsOf(id, e)
    BY <2>1, ReadGrows
  <2>3. R = AddField({t}, g)
    BY <1>4, <2>2, Zenon DEF ReadsOf
  <2> HIDE DEF t, R
  <2>4. \A x : x \in AddField({t}, g) <=> \E b \in ParseField(g) : x = WithAddr(t, b)
    BY DEF AddField
  <2> QED BY <2>3, <2>4
<1>6. \A b \in TransportAddr : WithAddr(t, b) = TicketOf(id, Append(xs, b))
  <2>1. PICK e \in Seq(TransportAddr) : e = <<>>
    BY EmptySeq
  <2>2. TicketsOf(id, e)
    BY <2>1, TicketGrows
  <2> QED BY <1>3, <2>2, Zenon DEF TicketsOf
<1> HIDE DEF t, R
<1>7. ASSUME NEW b, ParseField(g) = {b}, b \in Nameable
      PROVE  R = {TicketOf(id, Append(xs, b))}
  BY <1>3, <1>5, <1>6, <1>7
<1>8. ASSUME NEW b, IsCutOf(b, a)
      PROVE  IsReading(Append(xs, b), Append(xs, a))
  <2>1. Orderly(xs) /\ (xs = <<>> \/ a.kind = "Ip")
    BY OrderlyGrows
  <2>2. Orderly(Append(xs, b))
    BY <1>2, <1>8, <2>1, OrderlyGrows
  <2>3. IsPrefix(xs, Append(xs, a))
    BY PrefixOfAppend
  <2>4. a \in Range(Append(xs, a))
    <3>1. Range(Append(xs, a)) = Range(xs) \cup {a}
      BY ONLY xs \in Seq(Nameable), a \in Nameable, RangeOfAppend
    <3> QED BY <3>1
  <2> QED BY <1>8, <2>2, <2>3, <2>4 DEF IsReading
<1>9. AddsOne(id, xs, a, g, R)
  <2>1. CASE ParseField(g) = {}
    BY <1>5, <2>1 DEF AddsOne
  <2>2. CASE NoCut(g) /\ \E b : ParseField(g) = {b} /\ IsCutOf(b, a)
    <3>1. PICK b : ParseField(g) = {b} /\ IsCutOf(b, a)
      BY <2>2
    <3>2. R = {TicketOf(id, Append(xs, b))}
      BY <1>2, <1>7, <3>1
    <3>3. IsReading(Append(xs, b), Append(xs, a))
      BY <1>8, <3>1
    <3> QED BY <2>2, <3>2, <3>3 DEF AddsOne
  <2> QED BY <1>1, <2>1, <2>2 DEF Reads
<1>10. g = FieldText(a) => NoCut(g) /\ R = {TicketOf(id, Append(xs, a))}
  BY <1>1, <1>7
<1> QED BY <1>1, <1>4, <1>9, <1>10 DEF R, FieldAdded

(* The empty query,                                                        *)
LEMMA NoFields ==
  ASSUME NEW id \in EndpointIds, NEW e \in Seq(Chars), e = <<>>
  PROVE  /\ Split(e, "&") = <<e>> /\ e \in Legible
         /\ WholeRead(id, e, <<>>)
<1>1. PICK o \in Seq(Legible) : o = <<>>
  BY EmptySeq
<1>2. ReadsOf(id, o)
  BY <1>1, ReadGrows
<1>3. "&" \in Chars
  BY TicketAssumption, Codes
<1>4. Split(e, "&") = <<e>>
  BY <1>3, SplitGrows DEF Splits
<1>5. NoCut(e)
  BY DEF NoCut
<1>6. ParseField(e) = {}
  <2>1. Len(e) = 0
    BY EmptySeq
  <2>2. ~Contains(e, "=")
    BY <2>1 DEF Contains
  <2> QED BY <2>2 DEF ParseField, None
<1>7. e \in Legible
  BY <1>6 DEF Legible
<1>8. <<e>> \in Seq(Legible) /\ Append(o, e) = <<e>>
  BY <1>1, <1>7, Singleton
<1>9. ReadFields(id, <<e>>) = AddField({NoAddrs(id)}, e)
  BY <1>2, <1>7, <1>8, Zenon DEF ReadsOf
<1>10. AddField({NoAddrs(id)}, e) = {NoAddrs(id)}
  BY DEF AddField
<1>11. TicketOf(id, <<>>) = NoAddrs(id)
  <2>1. PICK x \in Seq(TransportAddr) : x = <<>>
    BY EmptySeq
  <2> QED BY <2>1, TicketGrows DEF TicketsOf
<1> QED BY <1>4, <1>5, <1>7, <1>8, <1>9, <1>10, <1>11 DEF WholeRead, Reading

(* a query of one field,                                                   *)
LEMMA FirstField ==
  ASSUME NEW id \in EndpointIds, NEW a \in Nameable
  PROVE  ReadsBack(id, FieldText(a), Append(<<>>, a))
<1> DEFINE q == FieldText(a)
<1>1. PICK fs \in Seq(Legible) : fs = <<>>
  BY EmptySeq
<1>2. PICK xs \in Seq(Nameable) : xs = <<>>
  BY EmptySeq
<1>3. PICK e \in Seq(Chars) : e = <<>>
  BY EmptySeq
<1>4. q \in Seq(Chars) /\ q # <<>> /\ IsPrefix(q, q)
  BY FieldIs, PrefixRefl
<1>5. ReadFields(id, fs) = {TicketOf(id, xs)}
  <2>1. ReadFields(id, fs) = {NoAddrs(id)}
    BY <1>1, ReadGrows DEF ReadsOf
  <2>2. PICK x \in Seq(TransportAddr) : x = <<>>
    BY EmptySeq
  <2>3. TicketOf(id, xs) = NoAddrs(id)
    BY <1>2, <2>2, TicketGrows DEF TicketsOf
  <2> QED BY <2>1, <2>3
<1>6. Orderly(Append(xs, a))
  BY <1>2, OrderlyGrows, OrderlyEmpty
<1>7. "&" \in Chars
  BY TicketAssumption, Codes
<1> HIDE DEF q
<1>8. ASSUME NEW g \in Seq(Chars), g # <<>>, IsPrefix(g, q)
      PROVE  /\ Split(g, "&") = Append(fs, g) /\ Split(g, "&") \in Seq(Legible)
             /\ CutRead(id, g, Append(xs, a))
             /\ g = q => WholeRead(id, g, Append(xs, a))
  <2>1. /\ Without("&", g) /\ g \in Legible
        /\ AddsOne(id, xs, a, g, ReadFields(id, Append(fs, g)))
        /\ g = q => /\ NoCut(g)
                    /\ ReadFields(id, Append(fs, g)) = {TicketOf(id, Append(xs, a))}
    <3>1. FieldAdded(id, xs, a, g, fs)
      BY <1>5, <1>6, <1>8, FieldAdds DEF q
    <3> QED BY <3>1 DEF FieldAdded, q
  <2>2. Split(g, "&") = <<g>>
    BY <1>7, <2>1, SplitPieces
  <2>3. <<g>> = Append(fs, g) /\ <<g>> \in Seq(Legible)
    BY <1>1, <2>1, Singleton
  <2>4. CutRead(id, g, Append(xs, a))
    BY <2>1, <2>2, <2>3 DEF AddsOne, CutRead, Reading
  <2>5. g = q => WholeRead(id, g, Append(xs, a))
    BY <2>1, <2>2, <2>3 DEF WholeRead, Reading
  <2> QED BY <2>2, <2>3, <2>4, <2>5
<1>9. CutRead(id, e, Append(xs, a))
  <2>1. WholeRead(id, e, xs)
    BY <1>2, <1>3, NoFields
  <2>2. IsReading(xs, Append(xs, a))
    BY <1>2, OrderlyEmpty, ReadingWhole, ReadingGrows
  <2> QED BY <2>1, <2>2 DEF CutRead, WholeRead
<1>10. ReadsBack(id, q, Append(xs, a))
  <2>1. WholeRead(id, q, Append(xs, a))
    BY <1>4, <1>8
  <2>2. \A p \in Seq(Chars) : IsPrefix(p, q) => CutRead(id, p, Append(xs, a))
    BY <1>3, <1>8, <1>9
  <2> QED BY <2>1, <2>2 DEF ReadsBack
<1> QED BY <1>2, <1>10 DEF q

(* and one with a field more.                                              *)
LEMMA NextField ==
  ASSUME NEW id \in EndpointIds, NEW xs \in Seq(Nameable), NEW a \in Nameable,
         Orderly(Append(xs, a)), NEW q \in Seq(Chars), ReadsBack(id, q, xs)
  PROVE  ReadsBack(id, Append(q, "&") \o FieldText(a), Append(xs, a))
<1> DEFINE y == Append(q, "&")
           f == FieldText(a)
           z == y \o f
           bs == Append(xs, a)
           fs == Split(q, "&")
<1>1. "&" \in Chars /\ f \in Seq(Chars) /\ f # <<>> /\ IsPrefix(f, f)
  BY TicketAssumption, Codes, FieldIs, PrefixRefl
<1>2. y \in Seq(Chars) /\ z \in Seq(Chars)
  BY <1>1, AppendProperties, ConcatProperties
<1>3. WholeRead(id, q, xs) /\ \A p \in Seq(Chars) : IsPrefix(p, q) => CutRead(id, p, xs)
  BY DEF ReadsBack
<1>4. fs \in Seq(Legible) /\ ReadFields(id, fs) = {TicketOf(id, xs)} /\ NoCut(q)
  BY <1>3 DEF WholeRead, Reading
<1>5. Orderly(xs)
  BY OrderlyGrows
<1>6. NoCut(y)
  <2>1. NoCut(<<"&">>) /\ <<"&">> \in Seq(Chars)
    BY <1>1 DEF NoCut
  <2>2. y = q \o <<"&">>
    BY <1>1, AppendIsConcat
  <2> QED BY <1>4, <2>1, <2>2, NoCutConcat
<1> HIDE DEF f, bs, fs
<1>7. ASSUME NEW g \in Seq(Chars), g # <<>>, IsPrefix(g, f)
      PROVE  /\ CutRead(id, y \o g, bs)
             /\ g = f => WholeRead(id, y \o g, bs)
  <2>1. /\ Without("&", g) /\ g \in Legible
        /\ AddsOne(id, xs, a, g, ReadFields(id, Append(fs, g)))
        /\ g = f => /\ NoCut(g)
                    /\ ReadFields(id, Append(fs, g)) = {TicketOf(id, Append(xs, a))}
    <3>1. FieldAdded(id, xs, a, g, fs)
      BY <1>4, <1>7, FieldAdds DEF f
    <3> QED BY <3>1 DEF FieldAdded, f
  <2>2. Split(y \o g, "&") = Append(fs, g)
    BY <1>1, <2>1, SplitPieces DEF fs
  <2>3. y \o g \in Seq(Chars) /\ Append(fs, g) \in Seq(Legible)
    BY <1>2, <1>4, <2>1, ConcatProperties, AppendProperties
  <2>4. NoCut(g) => NoCut(y \o g)
    BY <1>2, <1>6, NoCutConcat
  <2> HIDE DEF y
  <2>5. CutRead(id, y \o g, bs)
    BY <2>1, <2>2, <2>4 DEF AddsOne, CutRead, Reading, bs
  <2>6. g = f => WholeRead(id, y \o g, bs)
    BY <2>1, <2>2, <2>3, <2>4 DEF WholeRead, Reading, bs
  <2> QED BY <2>5, <2>6
<1>8. ASSUME NEW p \in Seq(Chars), IsPrefix(p, q)
      PROVE  CutRead(id, p, bs)
  <2>1. CutRead(id, p, xs)
    BY <1>3, <1>8
  <2> QED BY <2>1, ReadingGrows DEF CutRead, bs
<1>9. CutRead(id, y, bs)
  <2>1. PICK e \in Seq(Chars) : e = <<>>
    BY EmptySeq
  <2>2. Split(y, "&") = Append(fs, e)
    <3>1. Splits(Chars, "&", e)
      BY <1>1, <2>1, SplitGrows
    <3> QED BY <1>1, <3>1, Zenon DEF Splits, fs
  <2>3. e \in Legible
    BY <2>1, NoFields
  <2>4. PICK o \in Seq(Legible) : o = <<>>
    BY EmptySeq
  <2>5. ReadFields(id, Append(fs, e)) = AddField(ReadFields(id, fs), e)
    BY <1>4, <2>3, <2>4, ReadGrows, Zenon DEF ReadsOf
  <2>6. AddField(ReadFields(id, fs), e) = ReadFields(id, fs)
    BY <2>1 DEF AddField
  <2>7. IsReading(xs, bs)
    BY <1>5, ReadingWhole, ReadingGrows DEF bs
  <2> HIDE DEF y
  <2> QED BY <1>4, <1>6, <2>2, <2>5, <2>6, <2>7 DEF CutRead, Reading
<1>10. ASSUME NEW p \in Seq(Chars), IsPrefix(p, z)
       PROVE  CutRead(id, p, bs)
  <2>1. PrefixOfEither(Chars, p, y, f)
    BY <1>1, <1>2, <1>10, PrefixOfConcat
  <2>2. \/ IsPrefix(p, y)
        \/ \E g \in Seq(Chars) : g # <<>> /\ IsPrefix(g, f) /\ p = y \o g
    BY <2>1, Zenon DEF PrefixOfEither
  <2>3. IsPrefix(p, y) => p = y \/ IsPrefix(p, q)
    <3> SUFFICES ASSUME IsPrefix(p, y)
                 PROVE  p = y \/ IsPrefix(p, q)
      OBVIOUS
    <3>1. /\ Len(q) \in Nat /\ Len(y) = Len(q) + 1 /\ Len(p) \in Nat
      BY <1>1, AppendProperties, LenProperties
    <3>2. \A i \in 1..Len(q) : y[i] = q[i]
      BY <1>1, AppendProperties
    <3> HIDE DEF y
    <3>3. Len(p) <= Len(y) /\ \A i \in 1..Len(p) : p[i] = y[i]
      BY <1>2, PrefixIs
    <3>4. Len(p) = Len(y) => p = y
      BY <1>2, PrefixWhole
    <3>5. Len(p) # Len(y) => IsPrefix(p, q)
      <4>1. Len(p) # Len(y) => Len(p) <= Len(q) /\ \A i \in 1..Len(p) : p[i] = q[i]
        BY <3>1, <3>2, <3>3
      <4> QED BY <4>1, PrefixIs
    <3> QED BY <3>4, <3>5
  <2> HIDE DEF y, z
  <2> QED BY <1>7, <1>8, <1>9, <2>2, <2>3
<1> HIDE DEF y
<1>11. WholeRead(id, z, bs)
  BY <1>1, <1>7
<1> QED BY <1>10, <1>11 DEF ReadsBack, y, f, bs

-----------------------------------------------------------------------------
(* The fields of a ticket are a question mark and a query that reads back. *)
HasQuery(id, xs) ==
    \/ xs = <<>>
    \/ \E q \in Seq(Chars) : Fields(xs) = <<"?">> \o q /\ ReadsBack(id, q, xs)

(* By induction over the addresses.                                        *)
LEMMA FieldsReadBack ==
  ASSUME NEW id \in EndpointIds, NEW addrs, Orderly(addrs)
  PROVE  HasQuery(id, addrs)
<1> DEFINE S == Nameable
           T == {xs \in Seq(S) : Orderly(xs) => HasQuery(id, xs)}
<1>1. <<>> \in T
  <2>1. <<>> \in Seq(S)
    BY EmptySeq
  <2> QED BY <2>1 DEF HasQuery
<1>2. ASSUME NEW xs \in Seq(S), NEW a \in S, xs \in T
      PROVE  Append(xs, a) \in T
  <2> SUFFICES ASSUME Orderly(Append(xs, a))
               PROVE  HasQuery(id, Append(xs, a))
    <3>1. Append(xs, a) \in Seq(S)
      BY AppendProperties
    <3> QED BY <3>1
  <2> DEFINE f == FieldText(a)
  <2>1. f \in Seq(Chars) /\ "?" \in Chars /\ "&" \in Chars
    BY FieldIs, TicketAssumption, Codes
  <2>2. Fields(Append(xs, a)) = Fields(xs) \o Field(IF xs = <<>> THEN "?" ELSE "&", a)
    BY FieldsGrow
  <2>3. /\ Field("?", a) = <<"?">> \o f /\ Field("&", a) = <<"&">> \o f
        /\ <<"?">> \in Seq(Chars) /\ <<"&">> \in Seq(Chars)
    BY FieldStarts
  <2>4. CASE xs = <<>>
    <3>1. <<"?">> \o f \in Seq(Chars)
      BY <2>1, <2>3, ConcatProperties
    <3>2. <<>> \o (<<"?">> \o f) = <<"?">> \o f
      BY <3>1, ConcatEmptySeq
    <3>3. Fields(Append(xs, a)) = <<"?">> \o f
      BY <2>2, <2>3, <2>4, <3>2, FieldsGrow
    <3>4. ReadsBack(id, f, Append(xs, a))
      BY <2>4, FirstField
    <3> QED BY <2>1, <3>3, <3>4 DEF HasQuery
  <2>5. CASE xs # <<>>
    <3>1. Orderly(xs)
      BY OrderlyGrows
    <3>2. PICK q \in Seq(Chars) : Fields(xs) = <<"?">> \o q /\ ReadsBack(id, q, xs)
      BY <1>2, <2>5, <3>1 DEF HasQuery
    <3>3. ReadsBack(id, Append(q, "&") \o f, Append(xs, a))
      BY <3>2, NextField
    <3> HIDE DEF f
    <3>4. Append(q, "&") = q \o <<"&">> /\ q \o <<"&">> \in Seq(Chars)
      BY <2>1, <2>3, AppendIsConcat, ConcatProperties
    <3>5. (q \o <<"&">>) \o f \in Seq(Chars)
      BY <2>1, <3>4, ConcatProperties
    <3>6. (<<"?">> \o q) \o (<<"&">> \o f) = <<"?">> \o ((q \o <<"&">>) \o f)
      <4>1. <<"&">> \o f \in Seq(Chars)
        BY <2>1, <2>3, ConcatProperties
      <4>2. (<<"?">> \o q) \o (<<"&">> \o f) = <<"?">> \o (q \o (<<"&">> \o f))
        BY <2>3, <4>1, ConcatAssociative
      <4>3. (q \o <<"&">>) \o f = q \o (<<"&">> \o f)
        BY <2>1, <2>3, ConcatAssociative
      <4> QED BY <4>2, <4>3
    <3>7. Fields(Append(xs, a)) = <<"?">> \o (Append(q, "&") \o f)
      BY <2>2, <2>3, <2>5, <3>2, <3>4, <3>6
    <3> QED BY <3>3, <3>4, <3>5, <3>7 DEF HasQuery
  <2> QED BY <2>4, <2>5
<1>3. addrs \in Seq(S)
  BY DEF Orderly
<1>4. addrs \in T
  <2> HIDE DEF T
  <2> QED BY <1>1, <1>2, <1>3, SeqInduction
<1> QED BY <1>4

(* Decode, of what an endpoint's ticket begins with: the scheme and the id *)
LEMMA TicketStarts ==
  ASSUME NEW id \in EndpointIds, NEW r \in Seq(Chars)
  PROVE  /\ SCHEME \in Chars /\ id \in Chars /\ id # "?" /\ id # "%"
         /\ <<SCHEME, id>> \in Seq(Chars) /\ <<id>> \in Seq(Chars)
         /\ <<SCHEME, id>> \o r = <<SCHEME>> \o (<<id>> \o r)
         /\ <<id>> \o r \in Seq(Chars) /\ <<SCHEME, id>> \o r \in Seq(Chars)
<1>1. SCHEME \in Chars /\ id \in Chars /\ id # "?" /\ id # "%"
  BY TicketAssumption
<1> DEFINE h == SCHEME
<1>2. h \in Chars
  BY <1>1
<1> HIDE DEF h
<1>3. <<h>> \in Seq(Chars) /\ <<id>> \in Seq(Chars) /\ <<h, id>> \in Seq(Chars)
  BY <1>1, <1>2
<1>4. <<h, id>> = <<h>> \o <<id>>
  <2>1. Append(<<h>>, id) = <<h, id>>
    BY <1>1, <1>2, AppendTuples
  <2>2. Append(<<h>>, id) = <<h>> \o <<id>>
    BY <1>1, <1>3, AppendIsConcat
  <2> QED BY <2>1, <2>2
<1>5. (<<h>> \o <<id>>) \o r = <<h>> \o (<<id>> \o r)
  BY <1>3, ConcatAssociative
<1>6. <<id>> \o r \in Seq(Chars) /\ <<h, id>> \o r \in Seq(Chars)
  BY <1>3, ConcatProperties
<1> QED BY <1>1, <1>3, <1>4, <1>5, <1>6 DEF h

(* are stripped, and the query is read;                                    *)
LEMMA DecodeIs ==
  ASSUME NEW id \in EndpointIds, NEW r \in Seq(Chars), NEW q \in Seq(Chars),
         (r = <<>> /\ q = <<>>) \/ r = <<"?">> \o q
  PROVE  Decode(<<SCHEME, id>> \o r) = Reading(id, q)
<1> DEFINE text == <<SCHEME, id>> \o r
           rest == <<id>> \o r
<1>1. /\ SCHEME \in Chars /\ id \in Chars /\ id # "?" /\ <<id>> \in Seq(Chars)
      /\ text = <<SCHEME>> \o rest /\ rest \in Seq(Chars)
  BY TicketStarts
<1> HIDE DEF rest
<1>2. text # <<>> /\ text[1] = SCHEME /\ Tail(text) = rest
  BY <1>1, TailOfConcat
<1> HIDE DEF text
<1>3. "?" \in Chars
  BY TicketAssumption, Codes
<1>4. r = <<>> \/ r[1] \in {"?"}
  <2>1. (<<"?">> \o q)[1] = "?"
    BY <1>3, TailOfConcat
  <2> QED BY <2>1
<1>5. UpTo(rest, {"?"}) = <<id>>
  <2>1. PICK x \in Seq(Chars) : x = <<id>> /\ Len(x) = 1 /\ x[1] = id
    BY <1>1, Singleton
  <2>2. \A i \in 1..Len(x) : x[i] \notin {"?"}
    BY <1>1, <2>1
  <2>3. UpTo(x \o r, {"?"}) = x
    BY <1>4, <2>2, UpToIs
  <2> QED BY <2>1, <2>3 DEF rest
<1>6. Len(<<id>>) = 1 /\ <<id>>[1] = id
  OBVIOUS
<1>7. From(rest, Len(<<id>>) + 2) = q
  <2>1. ASSUME r = <<"?">> \o q
        PROVE  From(rest, 3) = q
    <3>1. <<"?">> \in Seq(Chars) /\ Len(<<"?">>) = 1
      BY <1>3, Singleton
    <3>2. <<id>> \o <<"?">> \in Seq(Chars) /\ Len(<<id>> \o <<"?">>) = Len(<<id>>) + Len(<<"?">>)
      BY <1>1, <3>1, ConcatProperties
    <3>3. rest = (<<id>> \o <<"?">>) \o q
      BY <1>1, <2>1, <3>1, ConcatAssociative DEF rest
    <3>4. From((<<id>> \o <<"?">>) \o q, Len(<<id>> \o <<"?">>) + 1) = q
      BY <3>2, FromIs
    <3>5. Len(<<id>> \o <<"?">>) + 1 = 3
      BY <1>6, <3>1, <3>2
    <3> QED BY <3>3, <3>4, <3>5
  <2>2. ASSUME r = <<>>, q = <<>>
        PROVE  From(rest, 3) = q
    <3>1. rest = <<id>> /\ Len(rest) = 1
      BY <1>1, <1>6, <2>2, ConcatEmptySeq DEF rest
    <3>2. 3 \in Nat \ {0} /\ Len(rest) \in 0..Len(rest)
      BY <3>1
    <3>3. SubSeq(rest, 3, Len(rest)) \in Seq(Chars) /\ Len(SubSeq(rest, 3, Len(rest))) = 0
      <4>1. /\ SubSeq(rest, 3, Len(rest)) \in Seq(Chars)
            /\ Len(SubSeq(rest, 3, Len(rest))) = IF 3 <= Len(rest) THEN Len(rest) - 3 + 1 ELSE 0
        BY <1>1, <3>2, SubSeqText
      <4> QED BY <3>1, <4>1
    <3>4. SubSeq(rest, 3, Len(rest)) = <<>>
      BY <3>3, EmptySeq
    <3> QED BY <2>2, <3>4 DEF From
  <2>3. Len(<<id>>) + 2 = 3
    BY <1>6
  <2> QED BY <2>1, <2>2, <2>3
<1>8. Decode(text) = FoldLeft(AddField, Some(NoAddrs(id)), Split(q, "&"))
  BY <1>2, <1>5, <1>6, <1>7 DEF Decode
<1> QED BY <1>8 DEF Reading, ReadFields, text

(* without them it is refused.                                             *)
LEMMA DecodeShort ==
  ASSUME NEW text \in Seq(Chars), Len(text) \in {0, 1}
  PROVE  Decode(text) = {}
<1>1. CASE Len(text) = 0
  <2>1. text = <<>>
    BY <1>1, EmptySeq
  <2> QED BY <2>1 DEF Decode, None
<1>2. CASE Len(text) = 1
  <2>1. text # <<>>
    BY <1>2, EmptySeq
  <2>2. Tail(text) \in Seq(Chars) /\ Len(Tail(text)) = Len(text) - 1
    BY <2>1, HeadTailProperties
  <2> DEFINE rest == Tail(text)
  <2> HIDE DEF rest
  <2>3. rest = <<>>
    <3>1. rest \in Seq(Chars) /\ Len(rest) = Len(text) - 1
      BY <2>2 DEF rest
    <3>2. Len(rest) = 0
      BY <1>2, <3>1
    <3> QED BY <3>1, <3>2, EmptySeq
  <2>4. PICK e \in Seq(Chars) : e = <<>> /\ Len(e) = 0
    BY EmptySeq
  <2>5. UpTo(e, {"?"}) = e
    <3>1. e \o e = e
      BY <2>4, ConcatEmptySeq
    <3>2. \A i \in 1..Len(e) : e[i] \notin {"?"}
      BY <2>4
    <3>3. UpTo(e \o e, {"?"}) = e
      BY <2>4, <3>2, UpToIs
    <3> QED BY <3>1, <3>3
  <2>6. Len(UpTo(rest, {"?"})) # 1
    BY <2>3, <2>4, <2>5
  <2> QED BY <2>6 DEF Decode, None, rest
<1> QED BY <1>1, <1>2

(* The text of a ticket, and what it may be decoded to.                    *)
TextOf(id, xs) == <<SCHEME, id>> \o Fields(xs)

DecodesTo(id, text, xs) ==
    \/ Decode(text) = {}
    \/ NoCut(text) /\ \E bs : IsReading(bs, xs) /\ Decode(text) = {TicketOf(id, bs)}

(* They are not cut.                                                       *)
LEMMA StartNoCut ==
  ASSUME NEW id \in EndpointIds, NEW r \in Seq(Chars), NoCut(r)
  PROVE  NoCut(<<SCHEME, id>> \o r) /\ NoCut(<<"?">> \o r)
<1>1. SCHEME \in Chars /\ id \in Chars /\ id # "%" /\ <<SCHEME, id>> \in Seq(Chars)
  BY TicketStarts
<1>2. NoCut(<<SCHEME, id>>)
  <2>1. SCHEME # "%"
    BY DEF SCHEME
  <2> QED BY <1>1, <2>1 DEF NoCut
<1>3. <<"?">> \in Seq(Chars) /\ NoCut(<<"?">>)
  <2>1. "?" \in Chars
    BY TicketAssumption, Codes
  <2> QED BY <2>1 DEF NoCut
<1> QED BY <1>1, <1>2, <1>3, NoCutConcat

(* What the text of a ticket is, and what it begins with.                  *)
TextBegins(p, id, xs, q) ==
    \/ p = TextOf(id, <<>>)
    \/ \E w \in Seq(Chars) : IsPrefix(w, q) /\ p = <<SCHEME, id>> \o (<<"?">> \o w)

(* There is nothing else between the id and the query.                     *)
LEMMA PrefixOfText ==
  ASSUME NEW id \in EndpointIds, NEW q \in Seq(Chars), NEW xs,
         Fields(xs) = <<"?">> \o q,
         NEW p \in Seq(Chars), IsPrefix(p, TextOf(id, xs)), Len(p) \notin {0, 1}
  PROVE  TextBegins(p, id, xs, q)
<1> DEFINE x == <<SCHEME, id>>
           y == <<"?">> \o q
<1>1. x \in Seq(Chars) /\ "?" \in Chars /\ <<"?">> \in Seq(Chars) /\ y \in Seq(Chars)
  <2>1. "?" \in Chars
    BY TicketAssumption, Codes
  <2>2. <<"?">> \in Seq(Chars)
    BY <2>1, Singleton
  <2> QED BY <2>1, <2>2, TicketStarts, ConcatProperties
<1>2. PrefixOfEither(Chars, p, x, y)
  BY <1>1, PrefixOfConcat DEF TextOf
<1>3. \/ IsPrefix(p, x)
      \/ \E w \in Seq(Chars) : w # <<>> /\ IsPrefix(w, y) /\ p = x \o w
  BY <1>2, Zenon DEF PrefixOfEither
<1>4. Len(x) = 2
  OBVIOUS
<1> HIDE DEF x
<1>5. ASSUME IsPrefix(p, x)
      PROVE  TextBegins(p, id, xs, q)
  <2>1. Len(p) \in Nat /\ Len(p) <= Len(x)
    BY <1>1, <1>5, PrefixIs, LenProperties
  <2>2. Len(p) = Len(x)
    <3>1. \A n \in Nat : n \notin {0, 1} /\ n <= 2 => n = 2
      OBVIOUS
    <3>2. Len(p) \notin {0, 1}
      OBVIOUS
    <3> QED BY ONLY <1>4, <2>1, <3>1, <3>2
  <2>3. p = x
    BY <1>1, <1>5, <2>2, PrefixWhole
  <2>4. x \o <<>> = x
    BY <1>1, ConcatEmptySeq
  <2> QED BY <2>3, <2>4, FieldsGrow DEF TextBegins, TextOf, x
<1>6. ASSUME NEW w \in Seq(Chars), w # <<>>, IsPrefix(w, y), p = x \o w
      PROVE  TextBegins(p, id, xs, q)
  <2>1. PrefixOfEither(Chars, w, <<"?">>, q)
    BY <1>1, <1>6, PrefixOfConcat
  <2>2. \/ IsPrefix(w, <<"?">>)
        \/ \E u \in Seq(Chars) : u # <<>> /\ IsPrefix(u, q) /\ w = <<"?">> \o u
    BY <2>1, Zenon DEF PrefixOfEither
  <2>3. ASSUME IsPrefix(w, <<"?">>)
        PROVE  TextBegins(p, id, xs, q)
    <3> DEFINE m == <<"?">>
    <3>1. m \in Seq(Chars) /\ Len(m) = 1
      BY <1>1
    <3> HIDE DEF m
    <3>2. Len(w) \in Nat /\ Len(w) # 0
      BY <1>6, LenProperties, EmptySeq
    <3>3. IsPrefix(w, m)
      BY <2>3 DEF m
    <3>4. Len(w) <= Len(m)
      BY <3>1, <3>3, PrefixIs
    <3>5. w = m
      <4>1. Len(w) = Len(m)
        BY <3>1, <3>2, <3>4
      <4> QED BY <3>1, <3>3, <4>1, PrefixWhole
    <3>6. PICK e \in Seq(Chars) : e = <<>> /\ Len(e) = 0
      BY EmptySeq
    <3>7. IsPrefix(e, q)
      <4>1. Len(q) \in Nat
        BY LenProperties
      <4>2. Len(e) <= Len(q) /\ \A i \in 1..Len(e) : e[i] = q[i]
        BY <3>6, <4>1
      <4> QED BY <4>2, PrefixIs
    <3>8. w = m \o e
      BY <3>1, <3>5, <3>6, ConcatEmptySeq
    <3> QED BY <1>6, <3>7, <3>8 DEF TextBegins, x, m
  <2> QED BY <1>6, <2>2, <2>3 DEF TextBegins, x
<1> QED BY <1>3, <1>5, <1>6

(* A ticket that arrives whole is decoded to what was encoded; one that    *)
(* has lost its end is refused, or decoded to a reading of it.             *)
TicketDecoded(id, xs) ==
    /\ TextOf(id, xs) \in Seq(Chars) /\ TextOf(id, xs) # <<>>
    /\ Decode(TextOf(id, xs)) = {TicketOf(id, xs)}
    /\ \A p \in Seq(Chars) : IsPrefix(p, TextOf(id, xs)) => DecodesTo(id, p, xs)

(* So are the tickets for all orderly addresses.                           *)
LEMMA TextDecodes ==
  ASSUME NEW id \in EndpointIds, NEW xs, Orderly(xs)
  PROVE  TicketDecoded(id, xs)
<1>1. PICK e \in Seq(Chars) : e = <<>> /\ NoCut(e)
  <2>1. PICK e \in Seq(Chars) : e = <<>> /\ Len(e) = 0
    BY EmptySeq
  <2>2. DOMAIN e = {}
    BY <2>1, LenProperties
  <2>3. NoCut(e)
    BY <2>2 DEF NoCut
  <2> QED BY <2>1, <2>3
<1>2. Fields(xs) \in Seq(Chars) /\ xs \in Seq(Nameable)
  BY FieldsGrow DEF Orderly
<1>3. TextOf(id, xs) \in Seq(Chars) /\ TextOf(id, xs) # <<>>
  <2>1. /\ SCHEME \in Chars /\ <<id>> \o Fields(xs) \in Seq(Chars)
        /\ TextOf(id, xs) = <<SCHEME>> \o (<<id>> \o Fields(xs))
        /\ TextOf(id, xs) \in Seq(Chars)
    BY <1>2, TicketStarts DEF TextOf
  <2> QED BY <2>1, TailOfConcat
<1>4. /\ Decode(TextOf(id, <<>>)) = {TicketOf(id, <<>>)} /\ NoCut(TextOf(id, <<>>))
  <2>1. WholeRead(id, e, <<>>)
    BY <1>1, NoFields
  <2>2. TextOf(id, <<>>) = <<SCHEME, id>> \o e
    BY <1>1, FieldsGrow DEF TextOf
  <2>3. Decode(<<SCHEME, id>> \o e) = Reading(id, e)
    BY <1>1, DecodeIs
  <2>4. NoCut(<<SCHEME, id>> \o e)
    BY <1>1, StartNoCut
  <2> QED BY <2>1, <2>2, <2>3, <2>4 DEF WholeRead
<1>5. CASE xs = <<>>
  <2>1. ASSUME NEW p \in Seq(Chars), IsPrefix(p, TextOf(id, xs))
        PROVE  DecodesTo(id, p, xs)
    <3>1. CASE Len(p) \in {0, 1}
      BY <3>1, DecodeShort DEF DecodesTo
    <3>2. CASE Len(p) \notin {0, 1}
      <4> DEFINE x == <<SCHEME, id>>
      <4>1. x \in Seq(Chars) /\ x \o <<>> = x
        BY TicketStarts, ConcatEmptySeq
      <4>2. TextOf(id, xs) = x /\ Len(x) = 2
        BY <1>5, <4>1, FieldsGrow DEF TextOf
      <4> HIDE DEF x
      <4>3. Len(p) \in Nat /\ Len(p) <= Len(x)
        <5>1. IsPrefix(p, x)
          BY <2>1, <4>2
        <5> QED BY <4>1, <5>1, PrefixIs, LenProperties
      <4>4. Len(p) = Len(x)
        <5>1. \A n \in Nat : n \notin {0, 1} /\ n <= 2 => n = 2
          OBVIOUS
        <5> QED BY ONLY <3>2, <4>2, <4>3, <5>1
      <4>5. p = TextOf(id, <<>>)
        BY <1>5, <2>1, <4>1, <4>2, <4>4, PrefixWhole
      <4>6. IsReading(xs, xs)
        BY ReadingWhole
      <4> QED BY <1>4, <1>5, <4>5, <4>6 DEF DecodesTo
    <3> QED BY <3>1, <3>2
  <2> QED BY <1>3, <1>4, <1>5, <2>1 DEF TicketDecoded
<1>6. CASE xs # <<>>
  <2>1. PICK q \in Seq(Chars) : Fields(xs) = <<"?">> \o q /\ ReadsBack(id, q, xs)
    BY <1>6, FieldsReadBack DEF HasQuery
  <2>2. /\ NoCut(q) /\ Reading(id, q) = {TicketOf(id, xs)}
        /\ \A w \in Seq(Chars) : IsPrefix(w, q) => CutRead(id, w, xs)
    BY <2>1 DEF ReadsBack, WholeRead
  <2>3. ASSUME NEW w \in Seq(Chars)
        PROVE  Decode(<<SCHEME, id>> \o (<<"?">> \o w)) = Reading(id, w)
    <3>1. <<"?">> \in Seq(Chars)
      <4>1. "?" \in Chars
        BY TicketAssumption, Codes
      <4> QED BY <4>1, Singleton
    <3>2. PICK r \in Seq(Chars) : r = <<"?">> \o w
      BY <3>1, ConcatProperties
    <3>3. Decode(<<SCHEME, id>> \o r) = Reading(id, w)
      BY <3>2, DecodeIs
    <3> QED BY <3>2, <3>3
  <2>4. ASSUME NEW w \in Seq(Chars), NoCut(w)
        PROVE  NoCut(<<SCHEME, id>> \o (<<"?">> \o w))
    <3>1. <<"?">> \in Seq(Chars)
      <4>1. "?" \in Chars
        BY TicketAssumption, Codes
      <4> QED BY <4>1, Singleton
    <3>2. <<"?">> \o w \in Seq(Chars) /\ NoCut(<<"?">> \o w)
      BY <2>4, <3>1, ConcatProperties, StartNoCut
    <3> QED BY <3>2, StartNoCut
  <2>5. Decode(TextOf(id, xs)) = {TicketOf(id, xs)}
    BY <2>1, <2>2, <2>3 DEF TextOf
  <2>6. ASSUME NEW p \in Seq(Chars), IsPrefix(p, TextOf(id, xs))
        PROVE  DecodesTo(id, p, xs)
    <3>1. CASE Len(p) \in {0, 1}
      BY <3>1, DecodeShort DEF DecodesTo
    <3>2. CASE Len(p) \notin {0, 1}
      <4>1. TextBegins(p, id, xs, q)
        BY <2>1, <2>6, <3>2, PrefixOfText
      <4>2. CASE p = TextOf(id, <<>>)
        <5>1. IsReading(<<>>, xs)
          <6>1. PICK o \in Seq(Nameable) : o = <<>> /\ Len(o) = 0
            BY EmptySeq
          <6>2. Len(xs) \in Nat
            BY <1>2, LenProperties
          <6>3. Len(o) <= Len(xs) /\ \A i \in 1..Len(o) : o[i] = xs[i]
            BY <6>1, <6>2
          <6>4. IsPrefix(o, xs)
            BY <1>2, <6>3, PrefixIs
          <6> QED BY <6>1, <6>4, OrderlyEmpty DEF IsReading
        <5> QED BY <1>4, <4>2, <5>1 DEF DecodesTo
      <4>3. ASSUME NEW w \in Seq(Chars), IsPrefix(w, q), p = <<SCHEME, id>> \o (<<"?">> \o w)
            PROVE  DecodesTo(id, p, xs)
        <5>1. CutRead(id, w, xs)
          BY <2>2, <4>3
        <5>2. Decode(p) = Reading(id, w)
          BY <2>3, <4>3
        <5>3. NoCut(w) => NoCut(p)
          BY <2>4, <4>3
        <5> QED BY <5>1, <5>2, <5>3 DEF CutRead, DecodesTo
      <4> QED BY <4>1, <4>2, <4>3 DEF TextBegins
    <3> QED BY <3>1, <3>2
  <2> QED BY <1>3, <2>5, <2>6 DEF TicketDecoded
<1> QED BY <1>5, <1>6

-----------------------------------------------------------------------------
(* What a user may paste of a ticket is a beginning of it.                 *)
LEMMA ReceivedIs ==
  ASSUME NEW r, NEW t \in Seq(Chars), NEW text \in Received(r, t)
  PROVE  text \in Seq(Chars) /\ IsPrefix(text, t)
<1>1. CASE r \in Damaged
  <2>1. PICK n \in 0..Len(t) : text = SubSeq(t, 1, n)
    BY <1>1 DEF Received
  <2>2. Len(t) \in Nat /\ n \in Nat /\ n <= Len(t)
    BY LenProperties
  <2>3. /\ text \in Seq(Chars) /\ Len(text) = IF 1 <= n THEN n - 1 + 1 ELSE 0
        /\ \A i \in 1..Len(text) : text[i] = t[1 + i - 1]
    BY <2>1, SubSeqText
  <2>4. Len(text) = n
    BY <2>2, <2>3
  <2>5. \A i \in 1..Len(text) : text[i] = t[i]
    <3>1. \A i \in 1..n : 1 + i - 1 = i
      BY <2>2
    <3> QED BY <2>3, <2>4, <3>1
  <2> QED BY <2>2, <2>3, <2>4, <2>5, PrefixIs
<1>2. CASE r \notin Damaged
  BY <1>2, PrefixRefl DEF Received
<1> QED BY <1>1, <1>2

(* The ticket of an endpoint names the addresses it has room for, in their *)
(* order.                                                                  *)
IsEndpoint(s, a) ==
    a.id = s /\ a.addrs \in Seq(TransportAddr) /\ \A x \in Range(a.addrs) : Valid(x)

TicketFor(s, a, xs) ==
    Orderly(xs) /\ Range(xs) = ToldOf(a.addrs) /\ Encode(FromAddr(a)) = TextOf(s, xs)

(* There are such addresses for every endpoint.                            *)
LEMMA TicketIs ==
  ASSUME NEW s \in EndpointIds, NEW a, IsEndpoint(s, a)
  PROVE  \E xs : TicketFor(s, a, xs)
<1> DEFINE t == TicketOf(s, a.addrs)
           xs == Addrs(t)
<1>1. a.id = s /\ a.addrs \in Seq(TransportAddr) /\ \A x \in Range(a.addrs) : Valid(x)
  BY DEF IsEndpoint
<1>2. FromAddr(a) = t
  BY <1>1 DEF FromAddr, TicketOf
<1>3. t \in Tickets /\ t.id = s /\ Range(xs) = ToldOf(a.addrs)
  BY <1>1, TicketNames
<1>4. ToldOf(a.addrs) \subseteq Nameable
  BY <1>1, ToldNameable
<1>5. Orderly(xs)
  <2> HIDE DEF t
  <2> QED BY <1>3, <1>4, AddrsOrderly
<1>6. Encode(t) = TextOf(s, xs)
  <2> HIDE DEF t
  <2> QED BY <1>3, Zenon DEF Encode, TextOf, Fields
<1> QED BY <1>2, <1>3, <1>5, <1>6 DEF TicketFor

(* What a reading of orderly addresses names.                              *)
SameBut(ys, zs) ==
    /\ \A t, u \in ys \ zs : t = u
    /\ \A t \in ys \ zs : \E told \in zs : t.kind = told.kind /\ IsPrefix(Front(t.value), told.value)

(* At most the last of them differs.                                       *)
LEMMA ReadingNames ==
  ASSUME NEW id \in EndpointIds, NEW xs, Orderly(xs), NEW bs, IsReading(bs, xs)
  PROVE  /\ ToAddr(TicketOf(id, bs)) = [id |-> id, addrs |-> Range(bs)]
         /\ Range(bs) \subseteq Nameable
         /\ SameBut(Range(bs), Range(xs))
<1>1. Orderly(bs) /\ bs \in Seq(Nameable) /\ bs \in Seq(TransportAddr) /\ xs \in Seq(Nameable)
  BY NameableAddrs DEF IsReading, Orderly
<1>2. ToAddr(TicketOf(id, bs)) = [id |-> id, addrs |-> Range(bs)]
  BY <1>1, TicketNames, TicketOfOrderly DEF ToAddr
<1>3. Range(bs) \subseteq Nameable
  <2>1. \A i \in DOMAIN bs : bs[i] \in Nameable
    BY <1>1, ElementOfSeq, LenProperties
  <2> QED BY <2>1 DEF Range
<1>4. PICK cs \in Seq(Nameable) :
        /\ IsPrefix(cs, xs)
        /\ bs = cs \/ \E b : (\E a \in Range(xs) : IsCutOf(b, a)) /\ bs = Append(cs, b)
  BY DEF IsReading
<1>5. Range(cs) \subseteq Range(xs)
  <2>1. /\ Len(cs) \in Nat /\ Len(xs) \in Nat /\ DOMAIN cs = 1..Len(cs) /\ DOMAIN xs = 1..Len(xs)
        /\ Len(cs) <= Len(xs) /\ \A i \in 1..Len(cs) : cs[i] = xs[i]
    BY <1>1, <1>4, PrefixIs, LenProperties
  <2>2. \A i \in 1..Len(cs) : i \in 1..Len(xs)
    BY <2>1
  <2> QED BY <2>1, <2>2 DEF Range
<1>6. CASE bs = cs
  BY <1>2, <1>3, <1>5, <1>6 DEF SameBut
<1>7. ASSUME NEW b, NEW a \in Range(xs), IsCutOf(b, a), bs = Append(cs, b)
      PROVE  SameBut(Range(bs), Range(xs))
  <2>1. b \in Nameable /\ b.kind = a.kind /\ IsPrefix(Front(b.value), a.value)
    BY <1>7 DEF IsCutOf
  <2>2. Range(bs) = Range(cs) \cup {b}
    BY <1>7, <2>1, RangeOfAppend
  <2>3. \A t \in Range(bs) \ Range(xs) : t = b
    BY <1>5, <2>2
  <2> QED BY <2>1, <2>3 DEF SameBut
<1> QED BY <1>2, <1>3, <1>4, <1>6, <1>7

(* What a ticket that has perhaps lost its end is decoded to.              *)
PeerIs(id, p, told) ==
    Decode(p) # {} =>
      /\ NoCut(p)
      /\ \E ys : /\ {ToAddr(t) : t \in Decode(p)} = {[id |-> id, addrs |-> ys]}
                 /\ ys \subseteq Nameable /\ SameBut(ys, told)

(* It is so for every endpoint and every beginning of its ticket.          *)
LEMMA CutTicket ==
  ASSUME NEW s \in EndpointIds, NEW a, IsEndpoint(s, a),
         NEW p \in Seq(Chars), IsPrefix(p, Encode(FromAddr(a)))
  PROVE  /\ PeerIs(s, p, ToldOf(a.addrs))
         /\ p = Encode(FromAddr(a)) =>
              {ToAddr(t) : t \in Decode(p)} = {[id |-> s, addrs |-> ToldOf(a.addrs)]}
<1>1. PICK xs : TicketFor(s, a, xs)
  BY TicketIs
<1>2. Orderly(xs) /\ Range(xs) = ToldOf(a.addrs) /\ Encode(FromAddr(a)) = TextOf(s, xs)
  BY <1>1 DEF TicketFor
<1>3. /\ Decode(TextOf(s, xs)) = {TicketOf(s, xs)}
      /\ DecodesTo(s, p, xs)
  BY <1>2, TextDecodes DEF TicketDecoded
<1>4. PeerIs(s, p, ToldOf(a.addrs))
  <2>1. ASSUME NEW bs, IsReading(bs, xs), Decode(p) = {TicketOf(s, bs)}
        PROVE  \E ys : /\ {ToAddr(t) : t \in Decode(p)} = {[id |-> s, addrs |-> ys]}
                       /\ ys \subseteq Nameable /\ SameBut(ys, ToldOf(a.addrs))
    <3>1. /\ ToAddr(TicketOf(s, bs)) = [id |-> s, addrs |-> Range(bs)]
          /\ Range(bs) \subseteq Nameable /\ SameBut(Range(bs), Range(xs))
      BY <1>2, <2>1, ReadingNames
    <3>2. {ToAddr(t) : t \in Decode(p)} = {[id |-> s, addrs |-> Range(bs)]}
      BY <2>1, <3>1
    <3> QED BY <1>2, <3>1, <3>2
  <2> QED BY <1>3, <2>1, Zenon DEF DecodesTo, PeerIs
<1>5. ASSUME p = Encode(FromAddr(a))
      PROVE  {ToAddr(t) : t \in Decode(p)} = {[id |-> s, addrs |-> ToldOf(a.addrs)]}
  <2>1. IsReading(xs, xs)
    BY <1>2, ReadingWhole
  <2>2. ToAddr(TicketOf(s, xs)) = [id |-> s, addrs |-> Range(xs)]
    BY <1>2, <2>1, ReadingNames
  <2> QED BY <1>2, <1>3, <1>5, <2>2
<1> QED BY <1>4, <1>5

-----------------------------------------------------------------------------
(* Every endpoint has an address, and has printed the ticket for it or     *)
(* nothing yet.                                                            *)
Printed ==
    /\ DOMAIN ticket = EndpointIds
    /\ \A s \in EndpointIds :
         /\ IsEndpoint(s, addr[s]) /\ addr[s] \in EndpointAddr
         /\ ticket[s] \in {<<>>, Encode(FromAddr(addr[s]))}

(* What a receiver was given is nothing yet, or the beginning of a ticket; *)
(* its peer is what that is decoded to, and it goes on only if there is    *)
(* one.                                                                    *)
Pasted(r) ==
    \/ pasted[r] = <<>>
    \/ \E s \in EndpointIds :
         ticket[s] # <<>> /\ pasted[r] \in Seq(Chars) /\ IsPrefix(pasted[r], ticket[s])

Given ==
    /\ DOMAIN pasted = Receivers /\ DOMAIN peer = Receivers
    /\ \A r \in Receivers :
         /\ peer[r] = {ToAddr(t) : t \in Decode(pasted[r])}
         /\ Pasted(r)
         /\ receiver[r] = "start" => pasted[r] = <<>>
         /\ receiver[r] \in Dialled => Decode(pasted[r]) # {}

(* Where the processes are.                                                *)
Places ==
    /\ sender \in [EndpointIds -> Sending \cup SenderResults]
    /\ receiver \in [Receivers -> Receiving \cup ReceiverResults]
    /\ incoming \in [EndpointIds -> SUBSET Receivers]
    /\ served \in [EndpointIds -> SUBSET Receivers]
    /\ done \subseteq EndpointIds

(* Together these are inductive.                                           *)
TicketInv == Places /\ Printed /\ Given

(* What the two ends of a connection do.                                   *)
SessionStep(s, r) ==
    \/ SenderDone(s, r) \/ SenderFails(s, r) \/ SenderCloses(s, r)
    \/ ReceiverDone(s, r) \/ ReceiverFails(s, r) \/ ConnectionFails(s, r)

LEMMA SessionStepIs ==
  ASSUME NEW s \in EndpointIds, NEW r \in Receivers, SessionStep(s, r)
  PROVE  /\ UNCHANGED <<addr, ticket, incoming, served, pasted, peer>>
         /\ r \in served[s]
         /\ \/ /\ sender[s] = "session" /\ sender' = [sender EXCEPT ![s] = "closing"]
               /\ done' = done \cup {s} /\ receiver' = receiver
            \/ /\ sender[s] = "session" /\ sender' = [sender EXCEPT ![s] = "Lost"]
               /\ UNCHANGED <<done, receiver>>
            \/ /\ sender[s] = "closing" /\ sender' = [sender EXCEPT ![s] = "Sent"]
               /\ UNCHANGED <<done, receiver>>
            \/ /\ receiver[r] = "session" /\ receiver' = [receiver EXCEPT ![r] = "saving"]
               /\ s \in done /\ UNCHANGED <<done, sender>>
            \/ /\ receiver[r] = "session" /\ receiver' = [receiver EXCEPT ![r] = "Lost"]
               /\ UNCHANGED <<done, sender>>
<1> USE DEF SenderGoto, ReceiverGoto
<1>1. CASE SenderDone(s, r) \/ SenderFails(s, r) \/ SenderCloses(s, r)
  BY <1>1 DEF SenderDone, SenderFails, SenderCloses
<1>2. CASE ReceiverDone(s, r) \/ ReceiverFails(s, r)
  BY <1>2 DEF ReceiverDone, ReceiverFails
<1>3. CASE ConnectionFails(s, r)
  BY <1>3 DEF ConnectionFails
<1> QED BY <1>1, <1>2, <1>3 DEF SessionStep

(* They hold at first;                                                     *)
LEMMA TicketInit ==
  ASSUME Init
  PROVE  TicketInv
<1>1. Places
  BY DEF Init, Places, Sending, Receiving
<1>2. Printed
  <2>1. PICK addrs \in Endpoints : addr = [s \in EndpointIds |-> [id |-> s, addrs |-> addrs[s]]]
    BY DEF Init
  <2>2. ASSUME NEW s \in EndpointIds
        PROVE  IsEndpoint(s, addr[s]) /\ addr[s] \in EndpointAddr
    <3>1. addr[s] = [id |-> s, addrs |-> addrs[s]]
      BY <2>1
    <3>2. addrs[s] \in Seq(TransportAddr) /\ \A a \in Range(addrs[s]) : Valid(a)
      BY PeeringAssumption
    <3> QED BY <3>1, <3>2 DEF IsEndpoint, EndpointAddr
  <2>3. ticket = [s \in EndpointIds |-> <<>>]
    BY DEF Init
  <2> QED BY <2>2, <2>3 DEF Printed
<1>3. Given
  <2>1. PICK e \in Seq(Chars) : e = <<>> /\ Len(e) = 0
    BY EmptySeq
  <2>2. Decode(<<>>) = {}
    BY <2>1, DecodeShort
  <2>3. /\ receiver = [r \in Receivers |-> "start"]
        /\ pasted = [r \in Receivers |-> <<>>]
        /\ peer = [r \in Receivers |-> {}]
    BY DEF Init, None
  <2>4. ASSUME NEW r \in Receivers
        PROVE  /\ pasted[r] = <<>> /\ receiver[r] = "start"
               /\ peer[r] = {ToAddr(t) : t \in Decode(pasted[r])}
    <3>1. pasted[r] = <<>> /\ receiver[r] = "start" /\ peer[r] = {}
      BY <2>3
    <3> QED BY <2>2, <3>1
  <2>5. "start" \notin Dialled
    BY DEF Dialled
  <2> QED BY <2>3, <2>4, <2>5, Zenon DEF Given, Pasted
<1> QED BY <1>1, <1>2, <1>3 DEF TicketInv

(* a ticket, once printed, stays;                                          *)
LEMMA PrintedStep ==
  ASSUME TicketInv, [Next]_vars
  PROVE  Printed' /\ \A s \in EndpointIds : ticket[s] # <<>> => ticket'[s] = ticket[s]
<1> DEFINE Goal == Printed' /\ \A s \in EndpointIds : ticket[s] # <<>> => ticket'[s] = ticket[s]
<1>1. ASSUME NEW s \in EndpointIds, Online(s)
      PROVE  Goal
  <2>1. addr' = addr /\ ticket' = [ticket EXCEPT ![s] = Encode(FromAddr(addr[s]))]
    BY <1>1 DEF Online
  <2>2. DOMAIN ticket' = EndpointIds
    BY <2>1 DEF TicketInv, Printed
  <2>3. ASSUME NEW q \in EndpointIds
        PROVE  /\ IsEndpoint(q, addr'[q]) /\ addr'[q] \in EndpointAddr
               /\ ticket'[q] \in {<<>>, Encode(FromAddr(addr'[q]))}
               /\ ticket[q] # <<>> => ticket'[q] = ticket[q]
    <3>1. /\ IsEndpoint(q, addr[q]) /\ addr[q] \in EndpointAddr
          /\ ticket[q] \in {<<>>, Encode(FromAddr(addr[q]))}
      BY DEF TicketInv, Printed
    <3>2. ticket'[q] = ticket[q] \/ (q = s /\ ticket'[q] = Encode(FromAddr(addr[q])))
      BY <2>1 DEF TicketInv, Printed
    <3> QED BY <2>1, <3>1, <3>2
  <2> QED BY <2>2, <2>3 DEF Printed
<1>2. CASE UNCHANGED <<addr, ticket>>
  BY <1>2 DEF TicketInv, Printed
<1>3. ASSUME NEW r \in Receivers, Dial(r)
      PROVE  UNCHANGED <<addr, ticket>>
  BY <1>3 DEF Dial
<1>4. ASSUME NEW s \in EndpointIds, NEW r \in Receivers, Accept(s, r) \/ SessionStep(s, r)
      PROVE  UNCHANGED <<addr, ticket>>
  BY <1>4, SessionStepIs DEF Accept
<1>5. ASSUME NEW r \in Receivers, DialFails(r) \/ DialTimesOut(r) \/ Save(r) \/ ReceiverCrash(r)
      PROVE  UNCHANGED <<addr, ticket>>
  BY <1>5 DEF DialFails, DialTimesOut, Save, ReceiverCrash
<1>6. ASSUME NEW s \in EndpointIds, SenderCrash(s)
      PROVE  UNCHANGED <<addr, ticket>>
  BY <1>6 DEF SenderCrash
<1>7. (UNCHANGED vars) => UNCHANGED <<addr, ticket>>
  BY DEF vars
<1>8. Goal
  BY <1>1, <1>2, <1>3, <1>4, <1>5, <1>6, <1>7, Zenon DEF Next, SessionStep
<1> QED BY <1>8

(* every step keeps what a receiver has been given,                        *)
LEMMA GivenStep ==
  ASSUME TicketInv, [Next]_vars
  PROVE  Given'
<1>1. /\ Printed /\ Given /\ Places
      /\ \A s \in EndpointIds : ticket[s] # <<>> => ticket'[s] = ticket[s]
  BY PrintedStep DEF TicketInv
<1>2. \A r \in Receivers : pasted'[r] = pasted[r] /\ Pasted(r) => Pasted(r)'
  BY <1>1 DEF Pasted
<1>3. ASSUME UNCHANGED <<pasted, peer>>,
             \A r \in Receivers :
               /\ receiver'[r] = "start" => receiver[r] = "start"
               /\ receiver'[r] \in Dialled => receiver[r] \in Dialled
      PROVE  Given'
  <2>1. ASSUME NEW r \in Receivers
        PROVE  /\ peer'[r] = {ToAddr(t) : t \in Decode(pasted'[r])}
               /\ Pasted(r)'
               /\ receiver'[r] = "start" => pasted'[r] = <<>>
               /\ receiver'[r] \in Dialled => Decode(pasted'[r]) # {}
    BY <1>1, <1>2, <1>3 DEF Given
  <2>2. DOMAIN pasted' = Receivers /\ DOMAIN peer' = Receivers
    BY <1>1, <1>3 DEF Given
  <2> QED BY <2>1, <2>2, Zenon DEF Given
<1>4. ASSUME NEW r \in Receivers, Dial(r)
      PROVE  Given'
  <2>1. PICK s \in EndpointIds : ticket[s] # <<>> /\ pasted' \in
          {[pasted EXCEPT ![r] = text] : text \in Received(r, ticket[s])}
    BY <1>4 DEF Dial
  <2>2. PICK text \in Received(r, ticket[s]) : pasted' = [pasted EXCEPT ![r] = text]
    BY <2>1
  <2>3. pasted'[r] = text /\ \A q \in Receivers \ {r} : pasted'[q] = pasted[q]
    BY <1>1, <2>2 DEF Given
  <2>4. /\ peer' = [peer EXCEPT ![r] = {ToAddr(t) : t \in Decode(pasted'[r])}]
        /\ receiver' = [receiver EXCEPT ![r] = IF Decode(pasted'[r]) = None THEN "BadTicket"
                                               ELSE "dialling"]
        /\ UNCHANGED ticket
    BY <1>4, Zenon DEF Dial, ReceiverGoto
  <2>5. /\ ticket[s] \in Seq(Chars)
    <3>1. ticket[s] = Encode(FromAddr(addr[s])) /\ IsEndpoint(s, addr[s])
      BY <1>1, <2>1 DEF Printed
    <3>2. PICK xs : TicketFor(s, addr[s], xs)
      BY <3>1, TicketIs
    <3>3. Orderly(xs) /\ ticket[s] = TextOf(s, xs)
      BY <3>1, <3>2 DEF TicketFor
    <3> QED BY <3>3, TextDecodes DEF TicketDecoded
  <2>6. text \in Seq(Chars) /\ IsPrefix(text, ticket[s])
    BY <2>2, <2>5, ReceivedIs
  <2>7. Pasted(r)'
    BY <2>1, <2>3, <2>4, <2>6 DEF Pasted
  <2>8. DOMAIN pasted' = Receivers /\ DOMAIN peer' = Receivers
    BY <1>1, <2>2, <2>4 DEF Given
  <2>9. ASSUME NEW q \in Receivers
        PROVE  /\ peer'[q] = {ToAddr(t) : t \in Decode(pasted'[q])}
               /\ Pasted(q)'
               /\ receiver'[q] = "start" => pasted'[q] = <<>>
               /\ receiver'[q] \in Dialled => Decode(pasted'[q]) # {}
    <3>1. CASE q = r
      <4>1. peer'[r] = {ToAddr(t) : t \in Decode(pasted'[r])}
        BY <1>1, <2>4, Zenon DEF Given
      <4>2. receiver'[r] = IF Decode(pasted'[r]) = None THEN "BadTicket" ELSE "dialling"
        BY <1>1, <2>4, Zenon DEF Places
      <4> QED BY <2>7, <3>1, <4>1, <4>2 DEF None, Dialled
    <3>2. CASE q # r
      <4>1. peer'[q] = peer[q] /\ receiver'[q] = receiver[q] /\ pasted'[q] = pasted[q]
        BY <1>1, <2>3, <2>4, <3>2 DEF Given, Places
      <4> QED BY <1>1, <1>2, <4>1 DEF Given
    <3> QED BY <3>1, <3>2
  <2> QED BY <2>8, <2>9, Zenon DEF Given
<1>5. ASSUME NEW s \in EndpointIds, NEW r \in Receivers, Accept(s, r) \/ SessionStep(s, r)
      PROVE  Given'
  <2>1. /\ UNCHANGED <<pasted, peer>>
        /\ \/ receiver' = receiver
           \/ receiver[r] = "dialling" /\ receiver' = [receiver EXCEPT ![r] = "session"]
           \/ receiver[r] = "session" /\ receiver' = [receiver EXCEPT ![r] = "saving"]
           \/ receiver' = [receiver EXCEPT ![r] = "Lost"]
    <3>1. CASE Accept(s, r)
      BY <3>1 DEF Accept, ReceiverGoto
    <3>2. CASE SessionStep(s, r)
      BY <3>2, SessionStepIs
    <3> QED BY <1>5, <3>1, <3>2
  <2>2. \A q \in Receivers :
          /\ receiver'[q] = "start" => receiver[q] = "start"
          /\ receiver'[q] \in Dialled => receiver[q] \in Dialled
    BY <1>1, <2>1 DEF Places, Dialled
  <2> QED BY <1>3, <2>1, <2>2
<1>6. ASSUME NEW r \in Receivers, DialFails(r) \/ DialTimesOut(r) \/ Save(r) \/ ReceiverCrash(r)
      PROVE  Given'
  <2>1. /\ UNCHANGED <<pasted, peer>>
        /\ \/ receiver' = [receiver EXCEPT ![r] = "Lost"]
           \/ receiver' = [receiver EXCEPT ![r] = "Crashed"]
           \/ receiver[r] = "saving" /\ receiver' = [receiver EXCEPT ![r] = "Saved"]
           \/ receiver[r] = "saving" /\ receiver' = [receiver EXCEPT ![r] = "IoError"]
    BY <1>6 DEF DialFails, DialTimesOut, Save, ReceiverCrash, ReceiverGoto
  <2>2. \A q \in Receivers :
          /\ receiver'[q] = "start" => receiver[q] = "start"
          /\ receiver'[q] \in Dialled => receiver[q] \in Dialled
    BY <1>1, <2>1 DEF Places, Dialled
  <2> QED BY <1>3, <2>1, <2>2
<1>7. ASSUME NEW s \in EndpointIds, Online(s) \/ SenderCrash(s)
      PROVE  Given'
  <2>1. UNCHANGED <<pasted, peer, receiver>>
    BY <1>7 DEF Online, SenderCrash
  <2> QED BY <1>3, <2>1
<1>8. CASE UNCHANGED vars
  <2>1. UNCHANGED <<pasted, peer, receiver>>
    BY <1>8 DEF vars
  <2> QED BY <1>3, <2>1
<1> QED BY <1>4, <1>5, <1>6, <1>7, <1>8, Zenon DEF Next, SessionStep

(* and the processes in their places.                                      *)
LEMMA PlacesStep ==
  ASSUME Places, [Next]_vars
  PROVE  Places'
<1> USE DEF Places, Sending, Receiving, SenderResults, ReceiverResults, SenderGoto, ReceiverGoto
<1>1. ASSUME NEW s \in EndpointIds, Online(s) \/ SenderCrash(s)
      PROVE  Places'
  BY <1>1 DEF Online, SenderCrash
<1>2. ASSUME NEW r \in Receivers, Dial(r)
      PROVE  Places'
  <2>1. PICK here, ids :
          /\ receiver' = [receiver EXCEPT ![r] = here]
          /\ here \in {"BadTicket", "dialling"}
          /\ incoming' = [s \in EndpointIds |->
               IF s \in ids /\ sender[s] = "waiting" THEN incoming[s] \cup {r} ELSE incoming[s]]
          /\ UNCHANGED <<sender, served, done>>
    <3>1. /\ receiver' = [receiver EXCEPT ![r] = IF Decode(pasted'[r]) = None THEN "BadTicket"
                                                 ELSE "dialling"]
          /\ incoming' = [s \in EndpointIds |->
               IF s \in {t.id : t \in Decode(pasted'[r])} /\ sender[s] = "waiting"
               THEN incoming[s] \cup {r} ELSE incoming[s]]
          /\ UNCHANGED <<sender, served, done>>
      BY <1>2, Zenon DEF Dial
    <3> QED BY <3>1
  <2>2. incoming' \in [EndpointIds -> SUBSET Receivers]
    BY <2>1
  <2>3. receiver' \in [Receivers -> Receiving \cup ReceiverResults]
    BY <2>1
  <2> QED BY <2>1, <2>2, <2>3
<1>3. ASSUME NEW s \in EndpointIds, NEW r \in Receivers, Accept(s, r)
      PROVE  Places'
  BY <1>3 DEF Accept
<1>4. ASSUME NEW s \in EndpointIds, NEW r \in Receivers, SessionStep(s, r)
      PROVE  Places'
  BY <1>4, SessionStepIs
<1>5. ASSUME NEW r \in Receivers, DialFails(r) \/ DialTimesOut(r) \/ Save(r) \/ ReceiverCrash(r)
      PROVE  Places'
  BY <1>5 DEF DialFails, DialTimesOut, Save, ReceiverCrash
<1>6. CASE UNCHANGED vars
  BY <1>6 DEF vars
<1> QED BY <1>1, <1>2, <1>3, <1>4, <1>5, <1>6, Zenon DEF Next, SessionStep

(* So they hold in every state.                                            *)
LEMMA TicketsInductive == Init /\ [][Next]_vars => []TicketInv
<1>1. TicketInv /\ [Next]_vars => TicketInv'
  BY PlacesStep, PrintedStep, GivenStep DEF TicketInv
<1> QED BY TicketInit, <1>1, PTL

(* What a receiver that was pasted the beginning of a ticket has decoded.  *)
LEMMA PeerOf ==
  ASSUME TicketInv, NEW r \in Receivers, NEW s \in EndpointIds,
         pasted[r] # <<>>, IsPrefix(pasted[r], ticket[s])
  PROVE  /\ ToldOf(addr[s].addrs) = Told(s)
         /\ PeerIs(s, pasted[r], Told(s))
         /\ peer[r] = {ToAddr(t) : t \in Decode(pasted[r])}
         /\ pasted[r] = ticket[s] => peer[r] = {[id |-> s, addrs |-> Told(s)]}
<1>1. Printed /\ Given
  BY DEF TicketInv
<1>2. /\ IsEndpoint(s, addr[s]) /\ ticket[s] \in {<<>>, Encode(FromAddr(addr[s]))}
      /\ peer[r] = {ToAddr(t) : t \in Decode(pasted[r])}
  BY <1>1 DEF Printed, Given
<1>3. PICK q \in EndpointIds : pasted[r] \in Seq(Chars)
  BY <1>1 DEF Given, Pasted
<1>4. ticket[s] = Encode(FromAddr(addr[s]))
  <2>1. IsPrefix(pasted[r], <<>>) => pasted[r] = <<>>
    BY <1>3, EmptyText
  <2> QED BY <1>2, <2>1
<1>5. ToldOf(addr[s].addrs) = Told(s)
  BY Zenon DEF ToldOf, Told, Counts
<1> QED BY <1>2, <1>3, <1>4, <1>5, CutTicket

-----------------------------------------------------------------------------
(* The values of the variables are of their types, in every run of any     *)
(* number of senders and receivers.                                        *)
THEOREM TypeCorrect == Spec => []TypeOK
<1>1. ASSUME TicketInv
      PROVE  TypeOK
  <2>1. Places /\ Printed /\ Given
    BY <1>1 DEF TicketInv
  <2>2. \A s \in EndpointIds : addr[s] \in EndpointAddr /\ addr[s].id = s
    BY <2>1 DEF Printed, IsEndpoint
  <2>3. ASSUME NEW r \in Receivers, NEW a \in peer[r]
        PROVE  /\ a.id \in EndpointIds
               /\ \A t \in a.addrs : t \in TransportAddr /\ t.kind # "Custom" /\ Valid(t)
    <3>1. peer[r] = {ToAddr(t) : t \in Decode(pasted[r])} /\ Pasted(r)
      BY <2>1 DEF Given
    <3>2. pasted[r] # <<>>
      <4>1. PICK e \in Seq(Chars) : e = <<>> /\ Len(e) = 0
        BY EmptySeq
      <4>2. Decode(<<>>) = {}
        BY <4>1, DecodeShort
      <4> QED BY <2>3, <3>1, <4>2
    <3>3. PICK s \in EndpointIds : IsPrefix(pasted[r], ticket[s])
      BY <3>1, <3>2 DEF Pasted
    <3>4. PeerIs(s, pasted[r], Told(s))
      BY <1>1, <3>2, <3>3, PeerOf
    <3>5. PICK ys : peer[r] = {[id |-> s, addrs |-> ys]} /\ ys \subseteq Nameable
      BY <2>3, <3>1, <3>4 DEF PeerIs
    <3>6. a.id = s /\ a.addrs \subseteq Nameable
      BY <2>3, <3>5
    <3> QED BY <3>6 DEF Nameable
  <2> QED BY <2>1, <2>2, <2>3 DEF TypeOK, Places
<1> QED BY <1>1, TicketsInductive, PTL DEF Spec

(* Whatever the addresses of an endpoint, a ticket that arrives whole      *)
(* names the endpoint and every address it has room for: no escape, order  *)
(* or kind of address is lost between encode and decode.                   *)
THEOREM TicketsRoundTrip == Spec => []RoundTrip
<1>1. ASSUME TicketInv
      PROVE  RoundTrip
  <2>1. ASSUME NEW r \in Receivers, NEW s \in EndpointIds,
               pasted[r] # <<>>, pasted[r] = ticket[s]
        PROVE  peer[r] = Some([id |-> s, addrs |-> Told(s)])
    <3>1. Pasted(r)
      BY <1>1 DEF TicketInv, Given
    <3>2. pasted[r] \in Seq(Chars)
      BY <2>1, <3>1 DEF Pasted
    <3>3. IsPrefix(pasted[r], ticket[s])
      BY <2>1, <3>2, PrefixRefl
    <3> QED BY <1>1, <2>1, <3>3, PeerOf DEF Some
  <2> QED BY <2>1 DEF RoundTrip
<1> QED BY <1>1, TicketsInductive, PTL DEF Spec

(* Wherever a ticket is cut, it is refused or still names its sender, and  *)
(* at most one of the addresses differs from the sender's, by its end.     *)
THEOREM CutNamesSender == Spec => []SamePeer
<1>1. ASSUME TicketInv
      PROVE  SamePeer
  <2>1. ASSUME NEW r \in Receivers, NEW s \in EndpointIds,
               IsPrefix(pasted[r], ticket[s]), pasted[r] # <<>>, NEW a \in peer[r]
        PROVE  /\ a.id = s
               /\ \A t, u \in a.addrs \ Told(s) : t = u
               /\ \A t \in a.addrs \ Told(s) : \E told \in Told(s) :
                    t.kind = told.kind /\ IsPrefix(Front(t.value), told.value)
    <3>1. /\ PeerIs(s, pasted[r], Told(s))
          /\ peer[r] = {ToAddr(t) : t \in Decode(pasted[r])}
      BY <1>1, <2>1, PeerOf
    <3>2. PICK ys : peer[r] = {[id |-> s, addrs |-> ys]} /\ SameBut(ys, Told(s))
      BY <2>1, <3>1 DEF PeerIs
    <3>3. a.id = s /\ a.addrs = ys
      BY <2>1, <3>2
    <3> QED BY <3>2, <3>3 DEF SameBut
  <2> QED BY <2>1 DEF SamePeer
<1> QED BY <1>1, TicketsInductive, PTL DEF Spec

(* Whoever is given a ticket cut within an escape does not dial.           *)
THEOREM HalfEscapesRefused == Spec => []NoHalfEscape
<1>1. ASSUME TicketInv
      PROVE  NoHalfEscape
  <2>1. ASSUME NEW r \in Receivers, NEW s \in EndpointIds,
               pasted[r] # <<>>, IsPrefix(pasted[r], ticket[s]),
               NEW i \in DOMAIN pasted[r],
               pasted[r][i] = "%", Len(pasted[r]) \in {i, i + 1}
        PROVE  receiver[r] \notin Dialled
    <3>1. Pasted(r) /\ (receiver[r] \in Dialled => Decode(pasted[r]) # {})
      BY <1>1 DEF TicketInv, Given
    <3>2. pasted[r] \in Seq(Chars)
      BY <2>1, <3>1 DEF Pasted
    <3>3. PeerIs(s, pasted[r], Told(s))
      BY <1>1, <2>1, PeerOf
    <3>4. ~NoCut(pasted[r])
      <4>1. Len(pasted[r]) \in Nat /\ DOMAIN pasted[r] = 1..Len(pasted[r])
        BY <3>2, LenProperties
      <4>2. i \in Nat /\ ~(i + 2 <= Len(pasted[r]))
        BY <2>1, <4>1
      <4> QED BY <2>1, <4>1, <4>2 DEF NoCut
    <3> QED BY <3>1, <3>3, <3>4 DEF PeerIs
  <2> QED BY <2>1 DEF NoHalfEscape
<1> QED BY <1>1, TicketsInductive, PTL DEF Spec

-----------------------------------------------------------------------------
(* What was pasted names one endpoint. *)
OneNamed == \A r \in Receivers : \A t, u \in Decode(pasted[r]) : t.id = u.id

LEMMA OneTicket ==
  ASSUME TicketInv
  PROVE  OneNamed
<1> SUFFICES ASSUME NEW r \in Receivers, NEW t \in Decode(pasted[r]), NEW u \in Decode(pasted[r])
             PROVE  t.id = u.id
  BY DEF OneNamed
<1>1. Pasted(r)
  BY DEF TicketInv, Given
<1>2. pasted[r] # <<>>
  <2>1. PICK e \in Seq(Chars) : e = <<>> /\ Len(e) = 0
    BY EmptySeq
  <2>2. Decode(<<>>) = {}
    BY <2>1, DecodeShort
  <2> QED BY <2>2
<1>3. PICK s \in EndpointIds : IsPrefix(pasted[r], ticket[s])
  BY <1>1, <1>2 DEF Pasted
<1>4. PeerIs(s, pasted[r], Told(s))
  BY <1>2, <1>3, PeerOf
<1>5. ToAddr(t) = ToAddr(u)
  BY <1>4 DEF PeerIs
<1>6. ToAddr(t).id = t.id /\ ToAddr(u).id = u.id
  BY DEF ToAddr
<1> QED BY <1>5, <1>6

(* Before its first connection a sender has served nobody; whoever waits   *)
(* for it, or was served, has its address and has dialled; it is served by *)
(* no sender as long as it has not; and a sender that has sent DONE, to    *)
(* the one it has served, does nothing after that but wait.                *)
Connections ==
    /\ \A s \in EndpointIds :
         /\ sender[s] \in {"start", "waiting"} => served[s] = {}
         /\ s \in done => sender[s] \in {"closing", "Sent", "Crashed"}
         /\ sender[s] \in {"closing", "Sent"} => s \in done
         /\ incoming[s] \subseteq Receivers /\ served[s] \subseteq Receivers
         /\ \A r \in incoming[s] \cup served[s] :
              receiver[r] # "start" /\ \A a \in peer[r] : a.id = s
         /\ \A r \in served[s] : receiver[r] # "dialling"
    /\ DOMAIN sender = EndpointIds /\ DOMAIN receiver = Receivers
    /\ DOMAIN incoming = EndpointIds /\ DOMAIN served = EndpointIds
    /\ DOMAIN peer = Receivers
    /\ done \subseteq EndpointIds

IInv == Connections /\ ServedOnce

LEMMA InvariantInit ==
  ASSUME Init
  PROVE  IInv
BY DEF Init, IInv, Connections, ServedOnce, None

LEMMA InvariantStep ==
  ASSUME IInv, [Next]_vars, OneNamed'
  PROVE  IInv'
<1> USE DEF IInv, SenderGoto, ReceiverGoto
<1>1. ASSUME NEW s \in EndpointIds, Online(s)
      PROVE  IInv'
  <2>1. /\ UNCHANGED <<incoming, served, done, receiver, peer>>
        /\ sender[s] = "start" /\ sender' = [sender EXCEPT ![s] = "waiting"]
    BY <1>1 DEF Online
  <2> QED BY <2>1 DEF Connections, ServedOnce
<1>2. ASSUME NEW r \in Receivers, Dial(r)
      PROVE  IInv'
  <2>1. PICK decoded, ids, found :
          /\ decoded = Decode(pasted'[r]) /\ ids = {t.id : t \in decoded}
          /\ found = {ToAddr(t) : t \in decoded}
          /\ receiver' = [receiver EXCEPT ![r] = IF decoded = None THEN "BadTicket"
                                                 ELSE "dialling"]
          /\ peer' = [peer EXCEPT ![r] = found]
          /\ incoming' = [s \in EndpointIds |->
               IF s \in ids /\ sender[s] = "waiting" THEN incoming[s] \cup {r}
               ELSE incoming[s]]
    BY <1>2 DEF Dial
  <2>2. receiver[r] = "start" /\ UNCHANGED <<sender, served, done>>
    BY <1>2 DEF Dial
  <2>3. \A s \in ids : \A a \in found : a.id = s
    <3>1. \A t, u \in decoded : t.id = u.id
      BY <2>1 DEF OneNamed
    <3>2. \A t \in decoded : ToAddr(t).id = t.id
      BY DEF ToAddr
    <3> QED BY <2>1, <3>1, <3>2
  <2>4. \A s \in EndpointIds : r \notin incoming[s] /\ r \notin served[s]
    BY <2>2 DEF Connections
  <2>5. /\ receiver'[r] \in {"BadTicket", "dialling"}
        /\ \A q \in Receivers \ {r} : receiver'[q] = receiver[q] /\ peer'[q] = peer[q]
        /\ peer'[r] = found
        /\ DOMAIN receiver' = Receivers /\ DOMAIN peer' = Receivers
    BY <2>1 DEF Connections
  <2>6. /\ DOMAIN incoming' = EndpointIds
        /\ \A s \in EndpointIds : \/ incoming'[s] = incoming[s]
                                  \/ s \in ids /\ incoming'[s] = incoming[s] \cup {r}
    BY <2>1
  <2>7. Connections'
    BY <2>2, <2>3, <2>4, <2>5, <2>6 DEF Connections
  <2>8. ServedOnce'
    <3>1. \A s \in EndpointIds : \A q \in served[s] : peer'[q] = peer[q]
      BY <2>4, <2>5 DEF Connections
    <3>2. \A q \in Receivers :
            receiver'[q] \in {"saving", "Saved", "IoError"} => receiver'[q] = receiver[q]
      BY <2>5
    <3> QED BY <2>2, <3>1, <3>2 DEF ServedOnce
  <2> QED BY <2>7, <2>8
<1>3. ASSUME NEW s \in EndpointIds, NEW r \in Receivers, Accept(s, r)
      PROVE  IInv'
  <2>1. /\ sender[s] = "waiting" /\ r \in incoming[s] /\ UNCHANGED <<peer, done>>
        /\ incoming' = [incoming EXCEPT ![s] = incoming[s] \ {r}]
        /\ \/ /\ receiver[r] = "dialling"
              /\ sender' = [sender EXCEPT ![s] = "session"]
              /\ receiver' = [receiver EXCEPT ![r] = "session"]
              /\ served' = [served EXCEPT ![s] = served[s] \cup {r}]
           \/ /\ sender' = [sender EXCEPT ![s] = "Lost"]
              /\ UNCHANGED <<receiver, served>>
    BY <1>3 DEF Accept
  <2>2. Connections'
    BY <2>1 DEF Connections
  <2>3. ServedOnce'
    BY <2>1 DEF Connections, ServedOnce
  <2> QED BY <2>2, <2>3
<1>4. ASSUME NEW s \in EndpointIds, NEW r \in Receivers, SessionStep(s, r)
      PROVE  IInv'
  <2>1. Connections'
    BY <1>4, SessionStepIs DEF Connections
  <2>2. ServedOnce'
    BY <1>4, SessionStepIs DEF Connections, ServedOnce
  <2> QED BY <2>1, <2>2
<1>5. ASSUME NEW r \in Receivers, DialFails(r) \/ DialTimesOut(r) \/ Save(r) \/ ReceiverCrash(r)
      PROVE  IInv'
  <2>1. /\ \/ receiver' = [receiver EXCEPT ![r] = "Lost"]
           \/ receiver' = [receiver EXCEPT ![r] = "Crashed"]
           \/ receiver[r] = "saving" /\ receiver' = [receiver EXCEPT ![r] = "Saved"]
           \/ receiver[r] = "saving" /\ receiver' = [receiver EXCEPT ![r] = "IoError"]
        /\ UNCHANGED <<sender, incoming, served, done, peer>>
    BY <1>5 DEF DialFails, DialTimesOut, Save, ReceiverCrash
  <2> QED BY <2>1 DEF Connections, ServedOnce
<1>6. ASSUME NEW s \in EndpointIds, SenderCrash(s)
      PROVE  IInv'
  <2>1. /\ sender' = [sender EXCEPT ![s] = "Crashed"]
        /\ UNCHANGED <<receiver, incoming, served, done, peer>>
    BY <1>6 DEF SenderCrash
  <2> QED BY <2>1 DEF Connections, ServedOnce
<1>7. CASE UNCHANGED vars
  BY <1>7 DEF vars, Connections, ServedOnce
<1> QED
  BY <1>1, <1>2, <1>3, <1>4, <1>5, <1>6, <1>7, Zenon DEF Next, SessionStep

(* However many people are given a ticket, whole or cut, and whenever they *)
(* dial: one is served, and the file is saved by nobody else, nor before   *)
(* its sender has reported "Sent", nor with a sender that reports a        *)
(* failure.                                                                *)
THEOREM OneIsServed == Spec => []ServedOnce
<1>1. IInv /\ [Next]_vars /\ OneNamed' => IInv'
  BY InvariantStep
<1>2. TicketInv => OneNamed
  BY OneTicket
<1>3. Init /\ [][Next]_vars => []IInv
  BY InvariantInit, TicketsInductive, <1>1, <1>2, PTL
<1>4. IInv => ServedOnce
  BY DEF IInv
<1> QED BY <1>4, <1>3, PTL DEF Spec
=============================================================================
