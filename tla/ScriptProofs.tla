----------------------------- MODULE ScriptProofs -----------------------------
(***************************************************************************)
(* The two ends of a session follow one script, for every value of the     *)
(* constants: neither finds a message it does not expect (ScriptKept), no  *)
(* message is left unread by an end that goes on (NothingUnread), no data  *)
(* moves before the receiver has agreed (ConsentBeforeData), and when      *)
(* nothing disturbs them the two agree on how it ended (VerdictsAgree).    *)
(***************************************************************************)
EXTENDS SessionProofs

-----------------------------------------------------------------------------
(* Consent. *)

(* While the receiver has not agreed, no READY(TRUE) is on its way and the *)
(* sender is not past the point that awaits it.                            *)
Consent ==
    receiver \in NotAgreed =>
      /\ offset = 0 /\ buffer = <<>>
      /\ sender \notin {"sendData", "recvVerify", "sendDone", "finish"}
      /\ \A i \in 1..Len(toSender) : toSender[i] # Ready(TRUE)

(* What a prefix holds is held by the whole. *)
LEMMA PrefixElements ==
  ASSUME NEW S, NEW s \in Seq(S), NEW p \in Prefixes(s)
  PROVE  /\ p \in Seq(S) /\ Len(p) <= Len(s) /\ Len(p) \in Nat /\ Len(s) \in Nat
         /\ \A i \in 1..Len(p) : i \in 1..Len(s) /\ p[i] = s[i]
<1>1. PICK n \in 0..Len(s) : p = SubSeq(s, 1, n)
  BY DEF Prefixes
<1>2. Len(s) \in Nat /\ n \in Int /\ n <= Len(s) /\ \A i \in 1..n : s[i] \in S
  BY LenProperties, ElementOfSeq
<1>3. /\ Len(SubSeq(s, 1, n)) = IF 1 <= n THEN n - 1 + 1 ELSE 0
      /\ \A i \in 1..(n - 1 + 1) : SubSeq(s, 1, n)[i] = s[1 + i - 1]
  BY <1>2, SubSeqProperties
<1>4. Len(p) = n
  BY <1>1, <1>2, <1>3
<1>5. \A i \in 1..Len(p) : i \in 1..Len(s) /\ p[i] = s[i]
  BY <1>1, <1>2, <1>3, <1>4
<1>6. p \in Seq(S) /\ Len(p) <= Len(s)
  BY PrefixSeq
<1> QED BY <1>2, <1>4, <1>5, <1>6

LEMMA TailElements ==
  ASSUME NEW S, NEW s \in Seq(S), s # <<>>
  PROVE  /\ Head(s) = s[1] /\ Head(s) \in S /\ Len(s) \in Nat /\ 1 \in 1..Len(s)
         /\ Tail(s) \in Seq(S) /\ Len(Tail(s)) = Len(s) - 1
         /\ \A i \in 1..Len(Tail(s)) : i + 1 \in 1..Len(s) /\ Tail(s)[i] = s[i + 1]
<1>1. /\ Head(s) \in S /\ Tail(s) \in Seq(S) /\ Len(Tail(s)) = Len(s) - 1
      /\ \A i \in 1..Len(Tail(s)) : Tail(s)[i] = s[i + 1]
  BY HeadTailProperties
<1>2. Head(s) = s[1]
  OBVIOUS
<1>3. Len(s) \in Nat /\ Len(s) # 0
  BY LenProperties, EmptySeq
<1> QED BY <1>1, <1>2, <1>3

LEMMA AppendElements ==
  ASSUME NEW S, NEW s \in Seq(S), NEW m \in S
  PROVE  /\ Append(s, m) \in Seq(S) /\ Len(s) \in Nat /\ Len(Append(s, m)) = Len(s) + 1
         /\ Append(s, m)[Len(s) + 1] = m
         /\ \A i \in 1..Len(s) : Append(s, m)[i] = s[i]
<1>1. Len(s) \in Nat
  BY LenProperties
<1> QED BY <1>1, AppendProperties

(* What may be left of a channel when it is closed. *)
LEMMA DeliverableElements ==
  ASSUME NEW S, NEW s \in Seq(S), NEW u, NEW p \in Deliverable(s, u)
  PROVE  p \in Prefixes(s)
BY TrivialPrefixes DEF Deliverable

(* No step leads back to where the receiver has not agreed. *)
LEMMA ConsentStep ==
  ASSUME InductiveInv, Consent, [Next]_vars
  PROVE  Consent'
<1> DEFINE Silent(t) == \A i \in 1..Len(t) : t[i] # Ready(TRUE)
           Started == sender \in {"sendData", "recvVerify", "sendDone", "finish"}
<1>0. /\ toSender \in Seq(FromReceiver)
      /\ sender \in SenderPoints \cup SenderResults
      /\ receiver \in ReceiverPoints \cup ReceiverResults
  BY DEF InductiveInv, TypeOK
<1>1. Silent(<<>>)
  BY EmptySeq
<1>2. ASSUME NEW p \in Prefixes(toSender), Silent(toSender)
      PROVE  Silent(p)
  BY <1>0, <1>2, PrefixElements
<1>3. ASSUME NEW u, NEW p \in Deliverable(toSender, u), Silent(toSender)
      PROVE  Silent(p)
  BY <1>0, <1>2, <1>3, DeliverableElements
<1>4. ASSUME toSender # <<>>, Silent(toSender)
      PROVE  Silent(Tail(toSender)) /\ Head(toSender) # Ready(TRUE)
  BY <1>0, <1>4, TailElements
<1>5. ASSUME NEW m \in FromReceiver, m # Ready(TRUE), Silent(toSender)
      PROVE  Silent(Append(toSender, m))
  <2>1. /\ Len(toSender) \in Nat /\ Len(Append(toSender, m)) = Len(toSender) + 1
        /\ Append(toSender, m)[Len(toSender) + 1] = m
        /\ \A i \in 1..Len(toSender) : Append(toSender, m)[i] = toSender[i]
    BY <1>0, AppendElements
  <2>2. ASSUME NEW i \in 1..Len(Append(toSender, m))
        PROVE  i \in 1..Len(toSender) \/ i = Len(toSender) + 1
    BY <2>1
  <2> QED BY <1>5, <2>1, <2>2
<1>6. Consent <=> (receiver \in NotAgreed =>
        offset = 0 /\ buffer = <<>> /\ ~Started /\ Silent(toSender))
  BY DEF Consent
<1>7. Consent' <=> (receiver' \in NotAgreed =>
        offset' = 0 /\ buffer' = <<>> /\ ~Started' /\ Silent(toSender'))
  BY DEF Consent
<1> HIDE DEF Silent
<1>8. ASSUME receiver' \in NotAgreed, SenderSession
      PROVE  offset' = 0 /\ buffer' = <<>> /\ ~Started' /\ Silent(toSender')
  <2> USE DEF receiverVars
  <2>1. receiver' = receiver /\ buffer' = buffer
    BY <1>8 DEF SenderSession, SenderSendHello, SenderRecvHello, SenderSendMeta,
       SenderRecvReady, SenderSendData, SenderSendEof, SenderRecvVerify,
       SenderSendDone, SenderFinish, SenderRecvFails
  <2>2. offset = 0 /\ buffer = <<>> /\ ~Started /\ Silent(toSender)
    BY <1>6, <1>8, <2>1
  <2>3. CASE SenderSendHello \/ SenderSendMeta
    BY <1>1, <2>1, <2>2, <2>3
    DEF SenderSendHello, SenderSendMeta, SenderSends, SenderReturns, SenderHelloSent
  <2>4. CASE SenderRecvHello
    BY <1>1, <1>4, <2>1, <2>2, <2>4
    DEF SenderRecvHello, SenderGoesOn, SenderReturns, SenderHelloRead
  <2>5. CASE SenderRecvReady
    BY <1>1, <1>4, <2>1, <2>2, <2>5 DEF SenderRecvReady, SenderReturns
  <2>6. CASE SenderRecvFails
    BY <1>1, <2>1, <2>2, <2>6 DEF SenderRecvFails, SenderReturns
  <2> QED BY <1>8, <2>2, <2>3, <2>4, <2>5, <2>6
          DEF SenderSession, SenderSendData, SenderSendEof, SenderRecvVerify,
              SenderSendDone, SenderFinish
<1>9. ASSUME receiver' \in NotAgreed, ReceiverSession
      PROVE  offset' = 0 /\ buffer' = <<>> /\ ~Started' /\ Silent(toSender')
  <2> USE DEF senderVars, NotAgreed
  <2>1. sender' = sender /\ offset' = offset
    BY <1>9 DEF ReceiverSession, ReceiverSendHello, ReceiverRecvHello, ReceiverSendError,
       ReceiverRecvMeta, ReceiverPrompt, ReceiverPromptFails, ReceiverSendReady,
       ReceiverSendDecline, ReceiverRecvData, ReceiverSendVerify, ReceiverRecvDone,
       ReceiverCreateFile, ReceiverWriteFile, ReceiverRefuses, ReceiverRecvFails
  <2>2. ASSUME receiver \in NotAgreed, UNCHANGED buffer, Silent(toSender) => Silent(toSender')
        PROVE  offset' = 0 /\ buffer' = <<>> /\ ~Started' /\ Silent(toSender')
    BY <1>6, <2>1, <2>2
  <2>3. ASSUME NEW m \in FromReceiver, m # Ready(TRUE), NEW next, ReceiverSends(m, next)
        PROVE  Silent(toSender) => Silent(toSender')
    BY <1>3, <1>5, <2>3 DEF ReceiverSends, ReceiverReturns
  <2>4. ASSUME NEW result, NEW u, ReceiverReturns(result, u)
        PROVE  Silent(toSender) => Silent(toSender')
    BY <1>3, <2>4 DEF ReceiverReturns
  <2>5. CASE ReceiverSendHello
    <3>1. Hello(setup.rver) \in FromReceiver /\ Hello(setup.rver) # Ready(TRUE)
      BY Halves, SetupFacts DEF FromReceiver, Hello, Ready
    <3> QED BY <2>2, <2>3, <2>5, <3>1 DEF ReceiverSendHello
  <2>6. CASE ReceiverSendError
    <3>1. ErrorMsg \in FromReceiver /\ ErrorMsg # Ready(TRUE)
      BY DEF FromReceiver, ErrorMsg, Ready
    <3> QED BY <2>2, <2>3, <2>6, <3>1 DEF ReceiverSendError
  <2>7. CASE ReceiverSendDecline
    <3>1. Ready(FALSE) \in FromReceiver /\ Ready(FALSE) # Ready(TRUE)
      BY DEF FromReceiver, Ready
    <3> QED BY <2>2, <2>3, <2>7, <3>1 DEF ReceiverSendDecline
  <2>8. CASE ReceiverRecvHello
    BY <2>2, <2>4, <2>8 DEF ReceiverRecvHello, ReceiverGoesOn
  <2>9. CASE ReceiverRecvMeta
    BY <2>2, <2>4, <2>9 DEF ReceiverRecvMeta, ReceiverGoesOn
  <2>10. CASE ReceiverPrompt \/ ReceiverPromptFails
    BY <2>2, <2>4, <2>10 DEF ReceiverPrompt, ReceiverPromptFails
  <2>11. CASE ReceiverRefuses
    BY <1>9, <2>2, <2>4, <2>11 DEF ReceiverRefuses, ReceiverReturns, Refusal
  <2>12. ASSUME \/ ReceiverSendReady \/ ReceiverRecvData \/ ReceiverSendVerify
                \/ ReceiverRecvDone \/ ReceiverCreateFile \/ ReceiverWriteFile
                \/ ReceiverRecvFails
         PROVE  FALSE
    BY <1>9, <2>12 DEF ReceiverSendReady, ReceiverRecvData, ReceiverSendVerify,
       ReceiverRecvDone, ReceiverCreateFile, ReceiverWriteFile, ReceiverRecvFails,
       ReceiverSends, ReceiverReturns, ReceiverGoesOn, AfterVerify
  <2> QED BY <1>9, <2>5, <2>6, <2>7, <2>8, <2>9, <2>10, <2>11, <2>12 DEF ReceiverSession
<1>10. ASSUME receiver' \in NotAgreed,
              SenderCrash \/ ReceiverCrash \/ ConnReset \/ Corruption \/ UNCHANGED vars
       PROVE  offset' = 0 /\ buffer' = <<>> /\ ~Started' /\ Silent(toSender')
  <2> USE DEF senderVars, receiverVars
  <2>1. CASE SenderCrash
    BY <1>1, <1>6, <1>10, <2>1 DEF SenderCrash, SenderReturns
  <2>2. CASE ReceiverCrash
    BY <1>10, <2>2 DEF ReceiverCrash, ReceiverReturns, NotAgreed
  <2>3. CASE ConnReset
    BY <1>2, <1>6, <1>10, <2>3 DEF ConnReset
  <2>4. CASE Corruption
    BY <1>6, <1>10, <2>4 DEF Corruption
  <2>5. CASE UNCHANGED vars
    BY <1>6, <1>10, <2>5 DEF vars
  <2> QED BY <1>10, <2>1, <2>2, <2>3, <2>4, <2>5
<1> QED BY <1>7, <1>8, <1>9, <1>10 DEF Next, Terminated

(* Consent holds in every reachable state. *)
THEOREM ConsentInductive == Spec => []Consent
<1>1. Init => Consent
  BY EmptySeq DEF Init, Consent, SenderStart
<1>2. InductiveInv /\ Consent /\ [Next]_vars => Consent'
  BY ConsentStep
<1> QED BY <1>1, <1>2, SessionInductive, PTL DEF Spec

(* Data moves with the consent of the receiver only, whatever is lost,     *)
(* altered or cut on the way.                                              *)
THEOREM SessionConsentBeforeData == Spec => []ConsentBeforeData
<1>1. Consent => ConsentBeforeData
  BY DEF Consent, ConsentBeforeData
<1> QED BY <1>1, ConsentInductive, PTL

-----------------------------------------------------------------------------
(* The script.  The messages from the sender are numbered: HELLO leads     *)
(* from 0 to 1, META to 2, DATA goes from 2 on with the bytes, EOF leads   *)
(* to 3 + n, DONE to 4 + n, where n is the size of the file.  Those to the *)
(* sender are: HELLO to 1, READY(TRUE) to 2, VERIFY(TRUE) to 3; an ERROR   *)
(* and the refusals lead nowhere.                                          *)
Before(m, n) ==
    CASE m.kind \in {"HELLO", "ERROR"} -> 0
      [] m.kind \in {"META", "READY"} -> 1
      [] m.kind = "VERIFY" -> 2
      [] m.kind = "DATA" -> 2 + m.offset
      [] m.kind = "EOF" -> 2 + n
      [] m.kind = "DONE" -> 3 + n
After(m, n) ==
    CASE m.kind = "HELLO" -> 1
      [] m.kind = "ERROR" -> 0
      [] m.kind = "META" -> 2
      [] m.kind = "READY" -> IF m.accept THEN 2 ELSE 1
      [] m.kind = "VERIFY" -> IF m.sha256_ok THEN 3 ELSE 2
      [] m.kind = "DATA" -> 2 + m.offset + Len(m.bytes)
      [] m.kind = "EOF" -> 3 + n
      [] m.kind = "DONE" -> 4 + n

(* The messages of a channel follow each other, the first one from where   *)
(* its reader is, none beyond top; and where the last one leads.           *)
Follows(t, n, from, top) ==
    \A i \in 1..Len(t) :
      /\ Before(t[i], n) = IF i = 1 THEN from ELSE After(t[i - 1], n)
      /\ After(t[i], n) <= top
End(t, n, from) == IF t = <<>> THEN from ELSE After(t[Len(t)], n)

Message == FromSender \cup FromReceiver

(* What the kinds of messages are, and what they hold. *)
LEMMA SenderKinds ==
  ASSUME NEW m \in FromSender
  PROVE  \/ m.kind = "HELLO" /\ \E v \in Versions : m = Hello(v)
         \/ m.kind = "META"
         \/ m.kind = "DATA" /\ m.offset \in Nat /\ m.bytes \in Body /\ Len(m.bytes) \in Nat
         \/ m.kind = "EOF" /\ m = Eof
         \/ m.kind = "DONE" /\ m = Done
<1>1. CASE \E o \in 0..MaxBytes, b \in Body : m = Data(o, b)
  <2>1. PICK o \in 0..MaxBytes, b \in Body : m = Data(o, b)
    BY <1>1
  <2>2. Len(b) \in Nat
    BY BodyIsSeq, LenProperties
  <2> QED BY <2>1, <2>2, SizeAssumption DEF Data
<1> QED BY <1>1 DEF FromSender, Hello, Meta, Eof, Done

LEMMA ReceiverKinds ==
  ASSUME NEW m \in FromReceiver
  PROVE  \/ m.kind = "HELLO" /\ \E v \in Versions : m = Hello(v)
         \/ m.kind = "READY" /\ m.accept \in BOOLEAN /\ m = Ready(m.accept)
         \/ m.kind = "VERIFY" /\ m.sha256_ok \in BOOLEAN /\ m = Verify(m.sha256_ok)
         \/ m.kind = "ERROR" /\ m = ErrorMsg
BY DEF FromReceiver, Hello, Ready, Verify, ErrorMsg

LEMMA Places ==
  ASSUME NEW n \in Nat, NEW m \in Message
  PROVE  Before(m, n) \in Nat /\ After(m, n) \in Nat
<1>1. CASE m \in FromSender
  BY <1>1, SenderKinds DEF Before, After
<1>2. CASE m \in FromReceiver
  BY <1>2, ReceiverKinds DEF Before, After
<1> QED BY <1>1, <1>2 DEF Message

LEMMA FollowsEmpty ==
  ASSUME NEW n, NEW from, NEW top
  PROVE  Follows(<<>>, n, from, top) /\ End(<<>>, n, from) = from
BY EmptySeq DEF Follows, End

(* A message that goes on from the last one is appended. *)
LEMMA FollowsAppend ==
  ASSUME NEW n \in Nat, NEW S, S \subseteq Message, NEW t \in Seq(S), NEW m \in S,
         NEW from \in Nat, NEW top \in Nat, NEW higher \in Nat, top <= higher,
         Follows(t, n, from, top),
         Before(m, n) = End(t, n, from), After(m, n) <= higher
  PROVE  /\ Follows(Append(t, m), n, from, higher)
         /\ End(Append(t, m), n, from) = After(m, n)
<1> PICK q : q = Append(t, m)
  OBVIOUS
<1>1. /\ q \in Seq(S) /\ q # <<>> /\ Len(t) \in Nat /\ Len(q) = Len(t) + 1
      /\ q[Len(t) + 1] = m /\ \A i \in 1..Len(t) : q[i] = t[i]
  BY AppendElements, AppendProperties
<1>2. \A i \in 1..Len(t) : t[i] \in Message
  BY ElementOfSeq
<1>3. ASSUME NEW i \in 1..Len(q)
      PROVE  /\ Before(q[i], n) = IF i = 1 THEN from ELSE After(q[i - 1], n)
             /\ After(q[i], n) <= higher
  <2>1. CASE i \in 1..Len(t)
    <3>1. i - 1 \in 1..Len(t) \/ i = 1
      BY <1>1, <2>1
    <3>2. After(t[i], n) \in Nat
      BY <1>2, <2>1, Places
    <3> QED BY <1>1, <2>1, <3>1, <3>2 DEF Follows
  <2>2. CASE i = Len(t) + 1
    <3>1. CASE t = <<>>
      <4>1. Len(t) = 0
        BY <3>1, EmptySeq
      <4> QED BY <1>1, <2>2, <3>1, <4>1 DEF End
    <3>2. CASE t # <<>>
      <4>1. Len(t) # 0
        BY <3>2, EmptySeq
      <4> QED BY <1>1, <2>2, <3>2, <4>1 DEF End
    <3> QED BY <3>1, <3>2
  <2> QED BY <1>1, <2>1, <2>2
<1>4. Follows(q, n, from, higher)
  BY <1>3 DEF Follows
<1>5. End(q, n, from) = After(m, n)
  BY <1>1 DEF End
<1> QED BY <1>4, <1>5

(* Reading the first message. *)
LEMMA FollowsTail ==
  ASSUME NEW n \in Nat, NEW S, S \subseteq Message, NEW t \in Seq(S), t # <<>>,
         NEW from, NEW top, Follows(t, n, from, top)
  PROVE  /\ Before(Head(t), n) = from /\ After(Head(t), n) <= top
         /\ Follows(Tail(t), n, After(Head(t), n), top)
         /\ End(Tail(t), n, After(Head(t), n)) = End(t, n, from)
<1> PICK q, h : q = Tail(t) /\ h = Head(t)
  OBVIOUS
<1>1. /\ h = t[1] /\ Len(t) \in Nat /\ 1 \in 1..Len(t)
      /\ q \in Seq(S) /\ Len(q) = Len(t) - 1
      /\ \A i \in 1..Len(q) : i + 1 \in 1..Len(t) /\ q[i] = t[i + 1]
  BY TailElements
<1>2. Before(h, n) = from /\ After(h, n) <= top
  BY <1>1 DEF Follows
<1>3. ASSUME NEW i \in 1..Len(q)
      PROVE  /\ Before(q[i], n) = IF i = 1 THEN After(h, n) ELSE After(q[i - 1], n)
             /\ After(q[i], n) <= top
  <2>1. /\ i + 1 \in 1..Len(t) /\ i + 1 # 1 /\ (i + 1) - 1 = i /\ q[i] = t[i + 1]
    BY <1>1
  <2>2. Before(q[i], n) = After(t[i], n) /\ After(q[i], n) <= top
    BY <2>1 DEF Follows
  <2>3. i = 1 \/ (i - 1 \in 1..Len(q) /\ (i - 1) + 1 = i)
    BY <1>1
  <2> QED BY <1>1, <2>2, <2>3
<1>4. Follows(q, n, After(h, n), top)
  BY <1>3 DEF Follows
<1>5. End(q, n, After(h, n)) = End(t, n, from)
  <2>1. CASE q = <<>>
    <3>0. Len(q) = 0
      BY <2>1, EmptySeq
    <3>1. Len(t) = 1
      BY <1>1, <3>0
    <3> QED BY <1>1, <2>1, <3>1 DEF End
  <2>2. CASE q # <<>>
    <3>1. Len(q) # 0
      BY <1>1, <2>2, EmptySeq
    <3>2. Len(q) \in 1..Len(q) /\ Len(q) + 1 = Len(t)
      BY <1>1, <3>1
    <3> QED BY <1>1, <2>2, <3>2 DEF End
  <2> QED BY <2>1, <2>2
<1> QED BY <1>2, <1>4, <1>5

(* A lost end, a higher top. *)
LEMMA FollowsPrefix ==
  ASSUME NEW n, NEW S, NEW t \in Seq(S), NEW p \in Prefixes(t),
         NEW from, NEW top, Follows(t, n, from, top)
  PROVE  Follows(p, n, from, top)
<1>1. /\ Len(p) \in Nat /\ Len(t) \in Nat /\ Len(p) <= Len(t)
      /\ \A i \in 1..Len(p) : i \in 1..Len(t) /\ p[i] = t[i]
  BY PrefixElements
<1>2. ASSUME NEW i \in 1..Len(p)
      PROVE  /\ Before(p[i], n) = IF i = 1 THEN from ELSE After(p[i - 1], n)
             /\ After(p[i], n) <= top
  <2>1. /\ p[i] = t[i] /\ i \in 1..Len(t)
        /\ i # 1 => p[i - 1] = t[i - 1]
    BY <1>1
  <2>2. /\ Before(t[i], n) = IF i = 1 THEN from ELSE After(t[i - 1], n)
        /\ After(t[i], n) <= top
    BY <2>1 DEF Follows
  <2> QED BY <2>1, <2>2
<1> QED BY <1>2 DEF Follows

LEMMA FollowsHigher ==
  ASSUME NEW n \in Nat, NEW S, S \subseteq Message, NEW t \in Seq(S), NEW from,
         NEW top \in Nat, NEW higher \in Nat, top <= higher, Follows(t, n, from, top)
  PROVE  Follows(t, n, from, higher)
<1>1. \A i \in 1..Len(t) : After(t[i], n) \in Nat
  BY ElementOfSeq, Places
<1> QED BY <1>1 DEF Follows

(* How far the peer must be in the messages it writes before a message is  *)
(* sent to it; the HELLO that opens the session awaits none (hello = 0).   *)
Needs(m, n, hello) ==
    CASE m.kind = "HELLO" -> hello
      [] m.kind \in {"META", "ERROR"} -> 1
      [] m.kind \in {"DATA", "EOF", "READY"} -> 2
      [] m.kind = "DONE" -> 3
      [] m.kind = "VERIFY" -> 3 + n

(* A channel t from a writer that has come to top, to a reader that has    *)
(* come to from in reading and to answered in writing.                     *)
Line(t, n, from, top, answered, hello) ==
    /\ from <= top
    /\ Follows(t, n, from, top)
    /\ \A i \in 1..Len(t) : Needs(t[i], n, hello) <= answered

(* What a message needs lies in the script before what it leads from. *)
LEMMA NeedsNat ==
  ASSUME NEW n \in Nat, NEW hello \in Nat, NEW m \in Message
  PROVE  Needs(m, n, hello) \in Nat
<1>1. CASE m \in FromSender
  BY <1>1, SenderKinds DEF Needs
<1>2. CASE m \in FromReceiver
  BY <1>2, ReceiverKinds DEF Needs
<1> QED BY <1>1, <1>2 DEF Message

(* The writer or the reader comes further without touching the channel. *)
LEMMA LineLater ==
  ASSUME NEW n \in Nat, NEW hello \in Nat, NEW S, S \subseteq Message, NEW t \in Seq(S),
         NEW from \in Nat, NEW top \in Nat, NEW answered \in Nat,
         NEW higher \in Nat, NEW later \in Nat, top <= higher, answered <= later,
         Line(t, n, from, top, answered, hello)
  PROVE  Line(t, n, from, higher, later, hello)
<1>1. \A i \in 1..Len(t) : Needs(t[i], n, hello) \in Nat
  BY ElementOfSeq, NeedsNat
<1>2. Follows(t, n, from, higher)
  BY FollowsHigher DEF Line
<1> QED BY <1>1, <1>2 DEF Line

(* The end of the channel is lost. *)
LEMMA LineCut ==
  ASSUME NEW n \in Nat, NEW hello \in Nat, NEW S, S \subseteq Message, NEW t \in Seq(S),
         NEW p \in Prefixes(t),
         NEW from \in Nat, NEW top \in Nat, NEW answered \in Nat,
         NEW higher \in Nat, NEW later \in Nat, top <= higher, answered <= later,
         Line(t, n, from, top, answered, hello)
  PROVE  Line(p, n, from, higher, later, hello)
<1>1. p \in Seq(S) /\ \A i \in 1..Len(p) : i \in 1..Len(t) /\ p[i] = t[i]
  BY PrefixElements
<1>2. Follows(p, n, from, top)
  BY FollowsPrefix DEF Line
<1>3. Line(p, n, from, top, answered, hello)
  BY <1>1, <1>2 DEF Line
<1> QED BY <1>1, <1>3, LineLater

(* The writer sends the next message, and the reader has answered what it  *)
(* needs.                                                                  *)
LEMMA LineSend ==
  ASSUME NEW n \in Nat, NEW hello \in Nat, NEW S, S \subseteq Message, NEW t \in Seq(S),
         NEW m \in S, NEW from \in Nat, NEW top \in Nat, NEW answered \in Nat,
         Line(t, n, from, top, answered, hello), End(t, n, from) = top,
         Before(m, n) = top, top <= After(m, n), Needs(m, n, hello) <= answered
  PROVE  /\ Line(Append(t, m), n, from, After(m, n), answered, hello)
         /\ End(Append(t, m), n, from) = After(m, n)
<1> PICK q : q = Append(t, m)
  OBVIOUS
<1>1. After(m, n) \in Nat
  BY Places
<1>2. Follows(q, n, from, After(m, n)) /\ End(q, n, from) = After(m, n)
  BY <1>1, FollowsAppend DEF Line
<1>3. /\ Len(t) \in Nat /\ Len(q) = Len(t) + 1
      /\ q[Len(t) + 1] = m /\ \A i \in 1..Len(t) : q[i] = t[i]
  BY AppendElements
<1>4. ASSUME NEW i \in 1..Len(q)
      PROVE  Needs(q[i], n, hello) <= answered
  <2>1. i \in 1..Len(t) \/ i = Len(t) + 1
    BY <1>3
  <2> QED BY <1>3, <2>1 DEF Line
<1>5. from <= After(m, n)
  BY <1>1 DEF Line
<1> QED BY <1>2, <1>4, <1>5 DEF Line

(* The reader reads the first message, and may come further in writing. *)
LEMMA LineRead ==
  ASSUME NEW n \in Nat, NEW hello \in Nat, NEW S, S \subseteq Message, NEW t \in Seq(S),
         t # <<>>, NEW from \in Nat, NEW top \in Nat, NEW answered \in Nat,
         Line(t, n, from, top, answered, hello)
  PROVE  /\ Before(Head(t), n) = from /\ After(Head(t), n) <= top
         /\ Needs(Head(t), n, hello) <= answered
         /\ Line(Tail(t), n, After(Head(t), n), top, answered, hello)
         /\ End(Tail(t), n, After(Head(t), n)) = End(t, n, from)
<1> PICK q, h : q = Tail(t) /\ h = Head(t)
  OBVIOUS
<1>1. /\ h = t[1] /\ 1 \in 1..Len(t)
      /\ \A i \in 1..Len(q) : i + 1 \in 1..Len(t) /\ q[i] = t[i + 1]
  BY TailElements
<1>2. /\ Before(h, n) = from /\ After(h, n) <= top
      /\ Follows(q, n, After(h, n), top) /\ End(q, n, After(h, n)) = End(t, n, from)
  BY FollowsTail DEF Line
<1>3. /\ Needs(h, n, hello) <= answered
      /\ \A i \in 1..Len(q) : Needs(q[i], n, hello) <= answered
  BY <1>1 DEF Line
<1> QED BY <1>2, <1>3 DEF Line

(* A message is replaced by one of the same place. *)
LEMMA LineSame ==
  ASSUME NEW n, NEW hello, NEW t, NEW q, NEW from, NEW top, NEW answered, Len(q) = Len(t),
         Len(t) \in Nat,
         \A i \in 1..Len(t) : /\ Before(q[i], n) = Before(t[i], n)
                              /\ After(q[i], n) = After(t[i], n)
                              /\ Needs(q[i], n, hello) = Needs(t[i], n, hello),
         Line(t, n, from, top, answered, hello)
  PROVE  Line(q, n, from, top, answered, hello)
<1>1. ASSUME NEW i \in 1..Len(q)
      PROVE  /\ Before(q[i], n) = IF i = 1 THEN from ELSE After(q[i - 1], n)
             /\ After(q[i], n) <= top
  <2>1. i = 1 \/ i - 1 \in 1..Len(t)
    OBVIOUS
  <2> QED BY <2>1 DEF Line, Follows
<1>2. Follows(q, n, from, top)
  BY <1>1 DEF Follows
<1> QED BY <1>2 DEF Line

-----------------------------------------------------------------------------
(* Where the two ends are in the script. *)
Size == Len(setup.bytes)
Tcp == setup.transport = "tcp"

SenderWritten ==
    CASE sender = "sendHello" -> 0
      [] sender = "recvHello" -> IF Tcp THEN 1 ELSE 0
      [] sender = "sendMeta" -> 1
      [] sender = "recvReady" -> 2
      [] sender = "sendData" -> 2 + offset
      [] sender \in {"recvVerify", "sendDone"} -> 3 + Size
      [] OTHER -> 4 + Size
SenderRead ==
    CASE sender = "sendHello" -> IF Tcp THEN 0 ELSE 1
      [] sender = "recvHello" -> 0
      [] sender \in {"sendMeta", "recvReady"} -> 1
      [] sender \in {"sendData", "recvVerify"} -> 2
      [] OTHER -> 3
ReceiverWritten ==
    CASE receiver = "recvHello" -> IF Tcp THEN 0 ELSE 1
      [] receiver \in {"sendHello", "sendError", "mismatched"} -> 0
      [] receiver \in {"recvMeta", "prompt", "sendReady", "sendDecline", "declined"} -> 1
      [] receiver \in {"recvData", "sendVerify", "badSum"} -> 2
      [] OTHER -> 3
ReceiverRead ==
    CASE receiver = "recvHello" -> 0
      [] receiver = "sendHello" -> IF Tcp THEN 1 ELSE 0
      [] receiver \in {"sendError", "mismatched", "recvMeta"} -> 1
      [] receiver \in {"prompt", "sendReady", "sendDecline", "declined"} -> 2
      [] receiver = "recvData" -> 2 + Len(buffer)
      [] receiver \in {"sendVerify", "badSum", "recvDone"} -> 3 + Size
      [] OTHER -> 4 + Size

SenderHelloNeeds == IF Tcp THEN 0 ELSE 1
ReceiverHelloNeeds == IF Tcp THEN 1 ELSE 0

(* Each channel leads from where its reader is to where its writer is;     *)
(* a cut connection or a writer that returned may have lost the end.       *)
Forward ==
    receiver \in ReceiverPoints =>
      /\ Line(toReceiver, Size, ReceiverRead, SenderWritten, ReceiverWritten,
              SenderHelloNeeds)
      /\ sender \in SenderPoints /\ conn = "up"
           => End(toReceiver, Size, ReceiverRead) = SenderWritten
Backward ==
    sender \in SenderPoints =>
      /\ Line(toSender, Size, SenderRead, ReceiverWritten, SenderWritten,
              ReceiverHelloNeeds)
      /\ receiver \in ReceiverPoints /\ conn = "up"
           => End(toSender, Size, SenderRead) = ReceiverWritten

(* An ERROR is sent over TCP between different versions; a sender that has *)
(* read the HELLO of the receiver is of its version.                       *)
Differ == setup.sver # setup.rver /\ Tcp
VersionedFromSender ==
    {m \in FromSender : m.kind = "HELLO"
        => m = Hello(setup.sver) /\ (Tcp \/ setup.sver = setup.rver)}
VersionedFromReceiver ==
    {m \in FromReceiver : /\ m.kind = "HELLO" => m = Hello(setup.rver)
                          /\ m.kind = "ERROR" => Differ}
VersionsKnown ==
    /\ Channels(VersionedFromSender, VersionedFromReceiver)
    /\ sender \in SenderPoints /\ SenderRead >= 1 => setup.sver = setup.rver
    /\ receiver \in {"sendError", "mismatched"} \/ sender = "Unexpected" => Differ

(* EOF was read at the size of the file; nothing was sent before READY. *)
Complete ==
    /\ receiver # "Unexpected"
    /\ receiver \in {"sendVerify", "badSum", "recvDone", "createFile",
                     "ChecksumMismatch"}
         => Len(buffer) = Size
    /\ sender \in {"sendHello", "recvHello", "sendMeta", "recvReady"} => offset = 0

Script == Forward /\ Backward /\ VersionsKnown /\ Complete

-----------------------------------------------------------------------------
(* The kinds of steps, and what they do to the two channels. *)

(* Where an end can be, and what its channel holds. *)
Facts ==
    /\ Size \in Nat /\ SenderHelloNeeds \in Nat /\ ReceiverHelloNeeds \in Nat
    /\ offset \in Nat /\ offset <= Size /\ Len(buffer) \in Nat
    /\ SenderWritten \in Nat /\ SenderWritten <= 4 + Size
    /\ SenderRead \in Nat
    /\ ReceiverWritten \in Nat /\ ReceiverWritten <= 3
    /\ ReceiverRead \in Nat
    /\ toReceiver \in Seq(FromSender) /\ FromSender \subseteq Message
    /\ toSender \in Seq(FromReceiver) /\ FromReceiver \subseteq Message
    /\ sender \in SenderResults => SenderWritten = 4 + Size
    /\ receiver \in ReceiverResults => ReceiverWritten = 3
    /\ sender \in SenderPoints \cup SenderResults
    /\ receiver \in ReceiverPoints \cup ReceiverResults
    /\ conn \in {"up", "down"}

LEMMA FactsHold == InductiveInv => Facts
<1> SUFFICES ASSUME InductiveInv PROVE Facts
  OBVIOUS
<1>1. Core /\ InductiveInv /\ TypeOK
  BY Halves DEF InductiveInv
<1>2. Size \in Nat /\ offset \in Nat /\ offset <= Size
  BY <1>1, SetupFacts, SizeAssumption DEF Core, Size
<1>3. Len(buffer) \in Nat
  BY <1>1, BodyIsSeq, LenProperties DEF TypeOK
<1> PICK n, l : n = Size /\ l = Len(buffer)
  OBVIOUS
<1>4. SenderWritten \in Nat /\ SenderWritten <= 4 + Size
  BY <1>2 DEF SenderWritten
<1>5. ReceiverRead \in Nat
  BY <1>2, <1>3 DEF ReceiverRead
<1>6. /\ SenderRead \in Nat /\ ReceiverWritten \in Nat /\ ReceiverWritten <= 3
      /\ SenderHelloNeeds \in Nat /\ ReceiverHelloNeeds \in Nat
  BY DEF SenderRead, ReceiverWritten, SenderHelloNeeds, ReceiverHelloNeeds
<1>7. /\ sender \in SenderResults => SenderWritten = 4 + Size
      /\ receiver \in ReceiverResults => ReceiverWritten = 3
  BY DEF SenderWritten, ReceiverWritten, SenderResults, ReceiverResults
<1>8. FromSender \subseteq Message /\ FromReceiver \subseteq Message
  BY DEF Message
<1> QED BY <1>1, <1>2, <1>3, <1>4, <1>5, <1>6, <1>7, <1>8 DEF Facts, TypeOK

LEMMA ResultsReturned ==
  /\ SenderPoints \cap SenderResults = {}
  /\ ReceiverPoints \cap ReceiverResults = {}
BY DEF SenderPoints, SenderResults, ReceiverPoints, ReceiverResults

LEMMA ReceiverStands ==
  ASSUME UNCHANGED <<setup, receiver, buffer>>
  PROVE  /\ Size' = Size /\ SenderHelloNeeds' = SenderHelloNeeds
         /\ ReceiverHelloNeeds' = ReceiverHelloNeeds
         /\ ReceiverRead' = ReceiverRead /\ ReceiverWritten' = ReceiverWritten
BY DEF Size, Tcp, SenderHelloNeeds, ReceiverHelloNeeds, ReceiverRead, ReceiverWritten

LEMMA SenderStands ==
  ASSUME UNCHANGED <<setup, sender, offset>>
  PROVE  /\ Size' = Size /\ SenderHelloNeeds' = SenderHelloNeeds
         /\ ReceiverHelloNeeds' = ReceiverHelloNeeds
         /\ SenderRead' = SenderRead /\ SenderWritten' = SenderWritten
BY DEF Size, Tcp, SenderHelloNeeds, ReceiverHelloNeeds, SenderRead, SenderWritten

(* An end returns, and what it wrote may be cut. *)
LEMMA SenderLeaves ==
  ASSUME Facts, Facts', Forward, sender' \in SenderResults,
         UNCHANGED <<setup, receiver, buffer, conn>>,
         toReceiver' \in Prefixes(toReceiver)
  PROVE  Forward' /\ Backward'
<1>1. sender' \notin SenderPoints
  BY ResultsReturned
<1>2. Backward'
  BY <1>1 DEF Backward
<1>3. ASSUME receiver \in ReceiverPoints
      PROVE  Line(toReceiver', Size, ReceiverRead, SenderWritten', ReceiverWritten,
                  SenderHelloNeeds)
  <2>1. /\ SenderWritten' \in Nat /\ SenderWritten <= SenderWritten'
        /\ ReceiverWritten <= ReceiverWritten
    BY ReceiverStands DEF Facts
  <2>2. Line(toReceiver, Size, ReceiverRead, SenderWritten, ReceiverWritten,
             SenderHelloNeeds)
    BY <1>3 DEF Forward
  <2> QED BY <2>1, <2>2, LineCut DEF Facts
<1>4. Forward'
  BY <1>1, <1>3, ReceiverStands DEF Forward
<1> QED BY <1>2, <1>4

LEMMA ReceiverLeaves ==
  ASSUME Facts, Facts', Backward, receiver' \in ReceiverResults,
         UNCHANGED <<setup, sender, offset, conn>>,
         toSender' \in Prefixes(toSender)
  PROVE  Forward' /\ Backward'
<1>1. receiver' \notin ReceiverPoints
  BY ResultsReturned
<1>2. Forward'
  BY <1>1 DEF Forward
<1>3. ASSUME sender \in SenderPoints
      PROVE  Line(toSender', Size, SenderRead, ReceiverWritten', SenderWritten,
                  ReceiverHelloNeeds)
  <2>1. /\ ReceiverWritten' \in Nat /\ ReceiverWritten <= ReceiverWritten'
        /\ SenderWritten <= SenderWritten
    BY DEF Facts
  <2>2. Line(toSender, Size, SenderRead, ReceiverWritten, SenderWritten,
             ReceiverHelloNeeds)
    BY <1>3 DEF Backward
  <2> QED BY <2>1, <2>2, LineCut DEF Facts
<1>4. Backward'
  BY <1>1, <1>3, SenderStands DEF Backward
<1> QED BY <1>2, <1>4

(* The network fails. *)
LEMMA NetworkCuts ==
  ASSUME Facts, Forward, Backward, UNCHANGED <<setup, sender, offset, receiver, buffer>>,
         conn' = "down", toReceiver' \in Prefixes(toReceiver),
         toSender' \in Prefixes(toSender)
  PROVE  Forward' /\ Backward'
<1>1. ASSUME receiver \in ReceiverPoints
      PROVE  Line(toReceiver', Size, ReceiverRead, SenderWritten, ReceiverWritten,
                  SenderHelloNeeds)
  <2>1. Line(toReceiver, Size, ReceiverRead, SenderWritten, ReceiverWritten,
             SenderHelloNeeds)
    BY <1>1 DEF Forward
  <2>2. SenderWritten <= SenderWritten /\ ReceiverWritten <= ReceiverWritten
    BY DEF Facts
  <2> QED BY <2>1, <2>2, LineCut DEF Facts
<1>2. ASSUME sender \in SenderPoints
      PROVE  Line(toSender', Size, SenderRead, ReceiverWritten, SenderWritten,
                  ReceiverHelloNeeds)
  <2>1. Line(toSender, Size, SenderRead, ReceiverWritten, SenderWritten,
             ReceiverHelloNeeds)
    BY <1>2 DEF Backward
  <2>2. SenderWritten <= SenderWritten /\ ReceiverWritten <= ReceiverWritten
    BY DEF Facts
  <2> QED BY <2>1, <2>2, LineCut DEF Facts
<1>3. Forward'
  BY <1>1, ReceiverStands, SenderStands DEF Forward
<1>4. Backward'
  BY <1>2, ReceiverStands, SenderStands DEF Backward
<1> QED BY <1>3, <1>4

(* An end sends the next message of the script, for which it has read what *)
(* is needed; or it finds its peer gone.                                   *)
LEMMA SenderSpeaks ==
  ASSUME Facts, Facts', Forward, Backward, sender \in SenderPoints,
         NEW m \in FromSender, NEW next \in SenderPoints, SenderSends(m, next),
         UNCHANGED <<setup, receiver, buffer, conn>>,
         Before(m, Size) = SenderWritten,
         SenderWritten <= After(m, Size),
         Needs(m, Size, SenderHelloNeeds) = SenderRead,
         sender' = next => SenderWritten' = After(m, Size) /\ SenderRead' = SenderRead
  PROVE  Forward' /\ Backward'
<1>1. Line(toSender, Size, SenderRead, ReceiverWritten, SenderWritten, ReceiverHelloNeeds)
  BY DEF Backward
<1>2. SenderRead <= ReceiverWritten
  BY <1>1 DEF Line
<1>3. ASSUME sender' = next, toSender' = toSender
      PROVE  Backward'
  <2>1. SenderWritten' \in Nat /\ SenderWritten <= SenderWritten'
    BY <1>3 DEF Facts
  <2>2. ReceiverWritten <= ReceiverWritten
    BY DEF Facts
  <2>3. Line(toSender, Size, SenderRead, ReceiverWritten, SenderWritten', ReceiverHelloNeeds)
    BY <1>1, <2>1, <2>2, LineLater DEF Facts
  <2>4. receiver \in ReceiverPoints /\ conn = "up"
          => End(toSender, Size, SenderRead) = ReceiverWritten
    BY DEF Backward
  <2> QED BY <1>3, <2>3, <2>4, ReceiverStands DEF Backward
<1>4. CASE /\ ~SenderBroken /\ sender' = next /\ toSender' = toSender
           /\ toReceiver' = Append(toReceiver, m)
  <2>1. receiver \in ReceiverPoints /\ conn = "up"
    BY <1>4 DEF SenderBroken, Facts
  <2>2. /\ Line(toReceiver, Size, ReceiverRead, SenderWritten, ReceiverWritten,
                SenderHelloNeeds)
        /\ End(toReceiver, Size, ReceiverRead) = SenderWritten
    BY <2>1 DEF Forward
  <2>3. /\ Line(Append(toReceiver, m), Size, ReceiverRead, After(m, Size),
                ReceiverWritten, SenderHelloNeeds)
        /\ End(Append(toReceiver, m), Size, ReceiverRead) = After(m, Size)
    <3>1. Needs(m, Size, SenderHelloNeeds) <= ReceiverWritten
      BY <1>2
    <3>2. /\ Size \in Nat /\ SenderHelloNeeds \in Nat /\ toReceiver \in Seq(FromSender)
          /\ FromSender \subseteq Message
          /\ ReceiverRead \in Nat /\ SenderWritten \in Nat /\ ReceiverWritten \in Nat
      BY DEF Facts
    <3>3. Before(m, Size) = SenderWritten /\ SenderWritten <= After(m, Size)
      OBVIOUS
    <3> QED BY ONLY <2>2, <3>1, <3>2, <3>3, m \in FromSender, LineSend
  <2>4. Forward'
    BY <1>4, <2>3, ReceiverStands DEF Forward
  <2> QED BY <1>3, <1>4, <2>4
<1>5. CASE /\ SenderBroken /\ sender' = next
           /\ toSender' = toSender /\ toReceiver' = toReceiver
  <2>1. ASSUME receiver \in ReceiverPoints
        PROVE  /\ conn = "down"
               /\ Line(toReceiver, Size, ReceiverRead, SenderWritten', ReceiverWritten,
                       SenderHelloNeeds)
    <3>1. conn = "down"
      BY <1>5, <2>1, ResultsReturned DEF SenderBroken
    <3>2. Line(toReceiver, Size, ReceiverRead, SenderWritten, ReceiverWritten,
               SenderHelloNeeds)
      BY <2>1 DEF Forward
    <3>3. /\ SenderWritten' \in Nat /\ SenderWritten <= SenderWritten'
          /\ ReceiverWritten <= ReceiverWritten
      BY <1>5 DEF Facts
    <3>4. Line(toReceiver, Size, ReceiverRead, SenderWritten', ReceiverWritten,
               SenderHelloNeeds)
      BY <3>2, <3>3, LineLater DEF Facts
    <3> QED BY <3>1, <3>4
  <2>2. Forward'
    BY <1>5, <2>1, ReceiverStands DEF Forward
  <2> QED BY <1>3, <1>5, <2>2
<1>6. CASE SenderReturns("ConnLost", toSender)
  <2>1. sender' \in SenderResults /\ toReceiver' \in Prefixes(toReceiver)
    BY <1>6, DeliverableElements DEF SenderReturns, SenderResults, Facts
  <2> QED BY <2>1, SenderLeaves
<1> QED BY <1>4, <1>5, <1>6 DEF SenderSends

LEMMA ReceiverSpeaks ==
  ASSUME Facts, Facts', Forward, Backward, receiver \in ReceiverPoints,
         NEW m \in FromReceiver, NEW next \in ReceiverPoints, ReceiverSends(m, next),
         UNCHANGED <<setup, sender, offset, conn>>,
         Before(m, Size) = ReceiverWritten,
         ReceiverWritten <= After(m, Size),
         Needs(m, Size, ReceiverHelloNeeds) = ReceiverRead,
         receiver' = next
           => ReceiverWritten' = After(m, Size) /\ ReceiverRead' = ReceiverRead
  PROVE  Forward' /\ Backward'
<1>1. Line(toReceiver, Size, ReceiverRead, SenderWritten, ReceiverWritten, SenderHelloNeeds)
  BY DEF Forward
<1>2. ReceiverRead <= SenderWritten
  BY <1>1 DEF Line
<1>3. ASSUME receiver' = next, toReceiver' = toReceiver
      PROVE  Forward'
  <2>1. ReceiverWritten' \in Nat /\ ReceiverWritten <= ReceiverWritten'
    BY <1>3 DEF Facts
  <2>2. SenderWritten <= SenderWritten
    BY DEF Facts
  <2>3. Line(toReceiver, Size, ReceiverRead, SenderWritten, ReceiverWritten', SenderHelloNeeds)
    BY <1>1, <2>1, <2>2, LineLater DEF Facts
  <2>4. sender \in SenderPoints /\ conn = "up"
          => End(toReceiver, Size, ReceiverRead) = SenderWritten
    BY DEF Forward
  <2> QED BY <1>3, <2>3, <2>4, SenderStands DEF Forward
<1>4. CASE /\ ~ReceiverBroken /\ receiver' = next /\ toReceiver' = toReceiver
           /\ toSender' = Append(toSender, m)
  <2>1. sender \in SenderPoints /\ conn = "up"
    BY <1>4 DEF ReceiverBroken, Facts
  <2>2. /\ Line(toSender, Size, SenderRead, ReceiverWritten, SenderWritten,
                ReceiverHelloNeeds)
        /\ End(toSender, Size, SenderRead) = ReceiverWritten
    BY <2>1 DEF Backward
  <2>3. /\ Line(Append(toSender, m), Size, SenderRead, After(m, Size),
                SenderWritten, ReceiverHelloNeeds)
        /\ End(Append(toSender, m), Size, SenderRead) = After(m, Size)
    <3>1. Needs(m, Size, ReceiverHelloNeeds) <= SenderWritten
      BY <1>2
    <3>2. /\ Size \in Nat /\ ReceiverHelloNeeds \in Nat /\ toSender \in Seq(FromReceiver)
          /\ FromReceiver \subseteq Message
          /\ SenderRead \in Nat /\ ReceiverWritten \in Nat /\ SenderWritten \in Nat
      BY DEF Facts
    <3>3. Before(m, Size) = ReceiverWritten /\ ReceiverWritten <= After(m, Size)
      OBVIOUS
    <3> QED BY ONLY <2>2, <3>1, <3>2, <3>3, m \in FromReceiver, LineSend
  <2>4. Backward'
    BY <1>4, <2>3, SenderStands DEF Backward
  <2> QED BY <1>3, <1>4, <2>4
<1>5. CASE /\ ReceiverBroken /\ receiver' = next
           /\ toSender' = toSender /\ toReceiver' = toReceiver
  <2>1. ASSUME sender \in SenderPoints
        PROVE  /\ conn = "down"
               /\ Line(toSender, Size, SenderRead, ReceiverWritten', SenderWritten,
                       ReceiverHelloNeeds)
    <3>1. conn = "down"
      BY <1>5, <2>1, ResultsReturned DEF ReceiverBroken
    <3>2. Line(toSender, Size, SenderRead, ReceiverWritten, SenderWritten,
               ReceiverHelloNeeds)
      BY <2>1 DEF Backward
    <3>3. /\ ReceiverWritten' \in Nat /\ ReceiverWritten <= ReceiverWritten'
          /\ SenderWritten <= SenderWritten
      BY <1>5 DEF Facts
    <3>4. Line(toSender, Size, SenderRead, ReceiverWritten', SenderWritten,
               ReceiverHelloNeeds)
      BY <3>2, <3>3, LineLater DEF Facts
    <3> QED BY <3>1, <3>4
  <2>2. Backward'
    BY <1>5, <2>1, SenderStands DEF Backward
  <2> QED BY <1>3, <1>5, <2>2
<1>6. CASE ReceiverReturns("ConnLost", toReceiver)
  <2>1. receiver' \in ReceiverResults /\ toSender' \in Prefixes(toSender)
    BY <1>6, DeliverableElements DEF ReceiverReturns, ReceiverResults, Facts
  <2> QED BY <2>1, ReceiverLeaves
<1> QED BY <1>4, <1>5, <1>6 DEF ReceiverSends

(* What the first message of a channel can be. *)
LEMMA SenderHears ==
  ASSUME Facts, Backward, sender \in SenderPoints, toSender # <<>>
  PROVE  /\ Head(toSender) \in FromReceiver
         /\ Before(Head(toSender), Size) = SenderRead
         /\ After(Head(toSender), Size) \in Nat
         /\ Needs(Head(toSender), Size, ReceiverHelloNeeds) <= SenderWritten
         /\ Line(Tail(toSender), Size, After(Head(toSender), Size), ReceiverWritten,
                 SenderWritten, ReceiverHelloNeeds)
         /\ End(Tail(toSender), Size, After(Head(toSender), Size))
              = End(toSender, Size, SenderRead)
<1>1. Line(toSender, Size, SenderRead, ReceiverWritten, SenderWritten, ReceiverHelloNeeds)
  BY DEF Backward
<1>2. Head(toSender) \in FromReceiver
  BY TailElements DEF Facts
<1>3. After(Head(toSender), Size) \in Nat
  BY <1>2, Places DEF Facts
<1> QED BY <1>1, <1>2, <1>3, LineRead DEF Facts

LEMMA ReceiverHears ==
  ASSUME Facts, Forward, receiver \in ReceiverPoints, toReceiver # <<>>
  PROVE  /\ Head(toReceiver) \in FromSender
         /\ Before(Head(toReceiver), Size) = ReceiverRead
         /\ After(Head(toReceiver), Size) \in Nat
         /\ Needs(Head(toReceiver), Size, SenderHelloNeeds) <= ReceiverWritten
         /\ Line(Tail(toReceiver), Size, After(Head(toReceiver), Size), SenderWritten,
                 ReceiverWritten, SenderHelloNeeds)
         /\ End(Tail(toReceiver), Size, After(Head(toReceiver), Size))
              = End(toReceiver, Size, ReceiverRead)
<1>1. Line(toReceiver, Size, ReceiverRead, SenderWritten, ReceiverWritten, SenderHelloNeeds)
  BY DEF Forward
<1>2. Head(toReceiver) \in FromSender
  BY TailElements DEF Facts
<1>3. After(Head(toReceiver), Size) \in Nat
  BY <1>2, Places DEF Facts
<1> QED BY <1>1, <1>2, <1>3, LineRead DEF Facts

(* An end reads the first message and goes on to where it leads. *)
LEMMA SenderListens ==
  ASSUME Facts, Forward, Backward, sender \in SenderPoints, toSender # <<>>,
         NEW next, SenderGoesOn(next),
         UNCHANGED <<setup, receiver, buffer, conn>>,
         SenderRead' = After(Head(toSender), Size), SenderWritten' = SenderWritten
  PROVE  Forward' /\ Backward'
<1>1. /\ Line(Tail(toSender), Size, After(Head(toSender), Size), ReceiverWritten,
              SenderWritten, ReceiverHelloNeeds)
      /\ End(Tail(toSender), Size, After(Head(toSender), Size))
           = End(toSender, Size, SenderRead)
  BY SenderHears
<1>2. Forward'
  BY ReceiverStands DEF Forward, SenderGoesOn
<1>3. Backward'
  BY <1>1, ReceiverStands DEF Backward, SenderGoesOn
<1> QED BY <1>2, <1>3

LEMMA ReceiverListens ==
  ASSUME Facts, Forward, Backward, receiver \in ReceiverPoints, toReceiver # <<>>,
         NEW next, ReceiverGoesOn(next),
         UNCHANGED <<setup, sender, offset, conn>>,
         ReceiverRead' = After(Head(toReceiver), Size), ReceiverWritten' = ReceiverWritten
  PROVE  Forward' /\ Backward'
<1>1. /\ Line(Tail(toReceiver), Size, After(Head(toReceiver), Size), SenderWritten,
              ReceiverWritten, SenderHelloNeeds)
      /\ End(Tail(toReceiver), Size, After(Head(toReceiver), Size))
           = End(toReceiver, Size, ReceiverRead)
  BY ReceiverHears
<1>2. Backward'
  BY SenderStands DEF Backward, ReceiverGoesOn
<1>3. Forward'
  BY <1>1, SenderStands DEF Forward, ReceiverGoesOn
<1> QED BY <1>2, <1>3

(* The receiver goes on without a message. *)
LEMMA ReceiverWorks ==
  ASSUME Forward, Backward, receiver \in ReceiverPoints,
         UNCHANGED <<setup, sender, offset, conn, toSender, toReceiver>>,
         ReceiverRead' = ReceiverRead, ReceiverWritten' = ReceiverWritten
  PROVE  Forward' /\ Backward'
BY SenderStands DEF Forward, Backward

(* A corrupted DATA keeps its place in the script. *)
LEMMA CorruptionHides ==
  ASSUME Facts, Forward, Backward, Corruption
  PROVE  Forward' /\ Backward'
<1>1. UNCHANGED <<setup, sender, offset, receiver, buffer, conn, toSender>>
  BY DEF Corruption, senderVars, receiverVars
<1>2. PICK k \in DOMAIN toReceiver :
        /\ toReceiver[k].kind = "DATA"
        /\ \E bytes \in [DOMAIN toReceiver[k].bytes -> Byte] :
             toReceiver' = [toReceiver EXCEPT ![k].bytes = bytes]
  BY DEF Corruption
<1>3. PICK bytes \in [DOMAIN toReceiver[k].bytes -> Byte] :
        toReceiver' = [toReceiver EXCEPT ![k].bytes = bytes]
  BY <1>2
<1>4. toReceiver \in Seq(FromSender) /\ k \in 1..Len(toReceiver) /\ Len(toReceiver) \in Nat
  BY LenProperties DEF Facts
<1>5. toReceiver[k] \in FromSender
  BY <1>4, ElementOfSeq
<1>6. PICK o \in 0..MaxBytes, b \in Body : toReceiver[k] = Data(o, b)
  BY <1>2, <1>5 DEF FromSender, Hello, Meta, Data, Eof, Done
<1>7. Len(bytes) = Len(b)
  <2>1. b \in Seq(Byte) /\ Len(b) \in Nat /\ DOMAIN b = 1..Len(b)
    BY <1>6, BodyIsSeq, LenProperties
  <2>2. bytes \in [1..Len(b) -> Byte]
    BY <1>3, <1>6, <2>1 DEF Data
  <2>3. bytes \in Seq(Byte)
    BY <2>1, <2>2, IsASeq
  <2> QED BY <2>1, <2>2, <2>3, LenProperties
<1>8. [toReceiver[k] EXCEPT !.bytes = bytes] = Data(o, bytes)
  BY <1>6 DEF Data
<1>9. toReceiver' = [toReceiver EXCEPT ![k] = Data(o, bytes)]
  BY <1>3, <1>8
<1> PICK q : q = toReceiver'
  OBVIOUS
<1>10. /\ DOMAIN q = 1..Len(toReceiver) /\ q[k] = Data(o, bytes)
       /\ \A i \in 1..Len(toReceiver) : i # k => q[i] = toReceiver[i]
  BY <1>4, <1>9, LenProperties
<1>11. Len(q) = Len(toReceiver)
  <2>1. Data(o, bytes) \in {Data(o, bytes)} \cup FromSender
    OBVIOUS
  <2>2. toReceiver \in Seq({Data(o, bytes)} \cup FromSender)
    BY <1>4, SeqWiden
  <2> QED BY <1>4, <1>9, <2>1, <2>2, ExceptSeq
<1>12. ASSUME NEW i \in 1..Len(toReceiver)
       PROVE  /\ Before(q[i], Size) = Before(toReceiver[i], Size)
              /\ After(q[i], Size) = After(toReceiver[i], Size)
              /\ Needs(q[i], Size, SenderHelloNeeds)
                   = Needs(toReceiver[i], Size, SenderHelloNeeds)
  <2>1. CASE i = k
    <3>1. q[i] = Data(o, bytes) /\ toReceiver[i] = Data(o, b)
      BY <1>6, <1>10, <2>1
    <3> QED BY <1>7, <3>1 DEF Data, Before, After, Needs
  <2>2. CASE i # k
    BY <1>10, <2>2
  <2> QED BY <2>1, <2>2
<1>13. ASSUME receiver \in ReceiverPoints
       PROVE  Line(q, Size, ReceiverRead, SenderWritten, ReceiverWritten, SenderHelloNeeds)
  <2>1. Line(toReceiver, Size, ReceiverRead, SenderWritten, ReceiverWritten,
             SenderHelloNeeds)
    BY <1>13 DEF Forward
  <2> QED BY <1>4, <1>11, <1>12, <2>1, LineSame
<1>14. End(q, Size, ReceiverRead) = End(toReceiver, Size, ReceiverRead)
  <2>1. CASE toReceiver = <<>>
    BY <1>4, <2>1, EmptySeq
  <2>2. CASE toReceiver # <<>>
    <3>1. Len(toReceiver) \in 1..Len(toReceiver)
      BY <1>4, <2>2
    <3>2. q # <<>>
      BY <1>4, <1>10, <1>11
    <3> QED BY <1>11, <1>12, <2>2, <3>1, <3>2 DEF End
  <2> QED BY <2>1, <2>2
<1>15. Forward'
  BY <1>1, <1>13, <1>14, SenderStands, ReceiverStands DEF Forward
<1>16. Backward'
  BY <1>1, SenderStands, ReceiverStands DEF Backward
<1> QED BY <1>15, <1>16

-----------------------------------------------------------------------------
(* What an end can find at each point of its program. *)
SenderFinds(m) ==
    \/ sender = "recvHello" /\ (m = Hello(setup.rver) \/ (m = ErrorMsg /\ Differ))
    \/ sender = "recvReady" /\ (m = Ready(TRUE) \/ m = Ready(FALSE))
    \/ sender = "recvVerify" /\ (m = Verify(TRUE) \/ m = Verify(FALSE))

LEMMA SenderFindings ==
  ASSUME Facts, Backward, VersionsKnown, sender \in SenderPoints, toSender # <<>>
  PROVE  SenderFinds(Head(toSender))
<1> PICK m : m = Head(toSender)
  OBVIOUS
<1> PICK n : n = Size
  OBVIOUS
<1>1. /\ Before(m, n) = SenderRead /\ Needs(m, n, ReceiverHelloNeeds) <= SenderWritten
      /\ n \in Nat
  BY SenderHears DEF Facts
<1>2. m \in VersionedFromReceiver
  BY HeadTailProperties DEF VersionsKnown, Channels
<1>3. /\ m \in FromReceiver
      /\ m.kind = "HELLO" => m = Hello(setup.rver)
      /\ m.kind = "ERROR" => Differ
  BY <1>2 DEF VersionedFromReceiver
<1>4. m.kind \in {"HELLO", "READY", "VERIFY", "ERROR"}
  BY <1>3, ReceiverKinds
<1>5. /\ m.kind = "HELLO" => Before(m, n) = 0 /\ Needs(m, n, ReceiverHelloNeeds) = ReceiverHelloNeeds
      /\ m.kind = "READY" => Before(m, n) = 1 /\ Needs(m, n, ReceiverHelloNeeds) = 2
      /\ m.kind = "VERIFY" => Before(m, n) = 2 /\ Needs(m, n, ReceiverHelloNeeds) = 3 + n
      /\ m.kind = "ERROR" => Before(m, n) = 0 /\ Needs(m, n, ReceiverHelloNeeds) = 1
  BY <1>4 DEF Before, Needs
<1>14. /\ m.kind = "READY" => m = Ready(TRUE) \/ m = Ready(FALSE)
       /\ m.kind = "VERIFY" => m = Verify(TRUE) \/ m = Verify(FALSE)
       /\ m.kind = "ERROR" => m = ErrorMsg
  BY <1>3 DEF FromReceiver, Hello, Ready, Verify, ErrorMsg
<1>6. offset \in Nat /\ offset <= n
  BY DEF Facts
<1>7. CASE sender = "sendHello"
  <2>1. SenderWritten = 0 /\ SenderRead = IF Tcp THEN 0 ELSE 1
    BY <1>7 DEF SenderWritten, SenderRead
  <2> QED BY <1>1, <1>4, <1>5, <2>1 DEF ReceiverHelloNeeds
<1>8. CASE sender = "recvHello"
  <2>1. SenderRead = 0
    BY <1>8 DEF SenderRead
  <2>2. m.kind = "HELLO" \/ m.kind = "ERROR"
    BY <1>1, <1>4, <1>5, <2>1
  <2>3. m = Hello(setup.rver) \/ (m = ErrorMsg /\ Differ)
    BY <1>3, <1>14, <2>2
  <2> QED BY <1>8, <2>3, Zenon DEF SenderFinds
<1>9. CASE sender = "sendMeta"
  <2>1. SenderWritten = 1 /\ SenderRead = 1
    BY <1>9 DEF SenderWritten, SenderRead
  <2> QED BY <1>1, <1>4, <1>5, <2>1
<1>10. CASE sender = "recvReady"
  <2>1. SenderRead = 1
    BY <1>10 DEF SenderRead
  <2>2. m.kind = "READY"
    BY <1>1, <1>4, <1>5, <2>1
  <2> QED BY <1>3, <1>14, <1>10, <2>2, Zenon DEF SenderFinds
<1>11. CASE sender = "sendData"
  <2>1. SenderWritten = 2 + offset /\ SenderRead = 2
    BY <1>11 DEF SenderWritten, SenderRead
  <2> QED BY <1>1, <1>4, <1>5, <1>6, <2>1
<1>12. CASE sender = "recvVerify"
  <2>1. SenderRead = 2
    BY <1>12 DEF SenderRead
  <2>2. m.kind = "VERIFY"
    BY <1>1, <1>4, <1>5, <2>1
  <2> QED BY <1>3, <1>14, <1>12, <2>2, Zenon DEF SenderFinds
<1>13. CASE sender \in {"sendDone", "finish"}
  <2>1. SenderRead = 3
    BY <1>13 DEF SenderRead
  <2> QED BY <1>1, <1>4, <1>5, <2>1
<1> QED BY <1>7, <1>8, <1>9, <1>10, <1>11, <1>12, <1>13 DEF SenderPoints

ReceiverFinds(m) ==
    \/ /\ receiver = "recvHello" /\ m = Hello(setup.sver)
       /\ Tcp \/ setup.sver = setup.rver
    \/ receiver = "recvMeta" /\ m.kind = "META"
    \/ /\ receiver = "recvData" /\ m.kind = "DATA"
       /\ m.offset = Len(buffer) /\ Len(m.bytes) \in Nat /\ m.bytes \in Body
    \/ receiver = "recvData" /\ m = Eof /\ Len(buffer) = Size
    \/ receiver = "recvDone" /\ m = Done

LEMMA ReceiverFindings ==
  ASSUME InductiveInv, Facts, Forward, VersionsKnown,
         receiver \in ReceiverPoints, toReceiver # <<>>
  PROVE  ReceiverFinds(Head(toReceiver))
<1> PICK m : m = Head(toReceiver)
  OBVIOUS
<1> PICK n : n = Size
  OBVIOUS
<1>1. /\ Before(m, n) = ReceiverRead /\ Needs(m, n, SenderHelloNeeds) <= ReceiverWritten
      /\ n \in Nat /\ Len(buffer) \in Nat
  BY ReceiverHears DEF Facts
<1>2. m \in VersionedFromSender
  BY HeadTailProperties DEF VersionsKnown, Channels
<1>3. m \in FromSender
  BY <1>2 DEF VersionedFromSender
<1>4. m.kind = "HELLO" => m = Hello(setup.sver) /\ (Tcp \/ setup.sver = setup.rver)
  BY <1>2 DEF VersionedFromSender
<1>5. m.kind = "DATA" => m.offset + Len(m.bytes) <= n
  <2>1. Channels(SenderFrame, ReceiverFrame)
    BY Halves
  <2>2. m \in SenderFrame
    BY <2>1, HeadTailProperties DEF Channels
  <2> QED BY <2>2 DEF SenderFrame, SenderMaySend, Size
<1>6. \/ m.kind = "HELLO"
      \/ m.kind = "META"
      \/ m.kind = "DATA" /\ m.offset \in Nat /\ m.bytes \in Body /\ Len(m.bytes) \in Nat
      \/ m.kind = "EOF" /\ m = Eof
      \/ m.kind = "DONE" /\ m = Done
  BY <1>3, SenderKinds
<1>7. /\ m.kind = "HELLO" => Before(m, n) = 0 /\ Needs(m, n, SenderHelloNeeds) = SenderHelloNeeds
      /\ m.kind = "META" => Before(m, n) = 1 /\ Needs(m, n, SenderHelloNeeds) = 1
      /\ m.kind = "DATA" => Before(m, n) = 2 + m.offset /\ Needs(m, n, SenderHelloNeeds) = 2
      /\ m.kind = "EOF" => Before(m, n) = 2 + n /\ Needs(m, n, SenderHelloNeeds) = 2
      /\ m.kind = "DONE" => Before(m, n) = 3 + n /\ Needs(m, n, SenderHelloNeeds) = 3
  BY <1>6 DEF Before, Needs
<1>8. CASE receiver = "recvHello"
  <2>1. ReceiverRead = 0
    BY <1>8 DEF ReceiverRead
  <2> QED BY <1>1, <1>4, <1>6, <1>7, <1>8, <2>1 DEF ReceiverFinds
<1>9. CASE receiver = "sendHello"
  <2>1. ReceiverWritten = 0 /\ ReceiverRead = IF Tcp THEN 1 ELSE 0
    BY <1>9 DEF ReceiverWritten, ReceiverRead
  <2> QED BY <1>1, <1>6, <1>7, <2>1 DEF SenderHelloNeeds
<1>10. CASE receiver \in {"sendError", "mismatched"}
  <2>1. ReceiverWritten = 0 /\ ReceiverRead = 1
    BY <1>10 DEF ReceiverWritten, ReceiverRead
  <2> QED BY <1>1, <1>6, <1>7, <2>1
<1>11. CASE receiver = "recvMeta"
  <2>1. ReceiverWritten = 1 /\ ReceiverRead = 1
    BY <1>11 DEF ReceiverWritten, ReceiverRead
  <2> QED BY <1>1, <1>6, <1>7, <1>11, <2>1 DEF ReceiverFinds
<1>12. CASE receiver \in {"prompt", "sendReady", "sendDecline", "declined"}
  <2>1. ReceiverWritten = 1 /\ ReceiverRead = 2
    BY <1>12 DEF ReceiverWritten, ReceiverRead
  <2> QED BY <1>1, <1>6, <1>7, <2>1
<1>13. CASE receiver = "recvData"
  <2>1. ReceiverWritten = 2 /\ ReceiverRead = 2 + Len(buffer)
    BY <1>13 DEF ReceiverWritten, ReceiverRead
  <2>2. \/ m.kind = "DATA" /\ m.offset = Len(buffer)
        \/ m.kind = "EOF" /\ Len(buffer) = n
    BY <1>1, <1>6, <1>7, <2>1
  <2> QED BY <1>6, <1>13, <2>2 DEF ReceiverFinds
<1>14. CASE receiver \in {"sendVerify", "badSum"}
  <2>1. ReceiverWritten = 2 /\ ReceiverRead = 3 + n
    BY <1>14 DEF ReceiverWritten, ReceiverRead
  <2> QED BY <1>1, <1>5, <1>6, <1>7, <2>1
<1>15. CASE receiver = "recvDone"
  <2>1. ReceiverRead = 3 + n
    BY <1>15 DEF ReceiverRead
  <2>2. m = Done
    BY <1>1, <1>5, <1>6, <1>7, <2>1
  <2> QED BY <1>15, <2>2 DEF ReceiverFinds
<1>16. CASE receiver \in {"createFile", "writeFile"}
  <2>1. ReceiverRead = 4 + n
    BY <1>16 DEF ReceiverRead
  <2> QED BY <1>1, <1>5, <1>6, <1>7, <2>1
<1> QED BY <1>8, <1>9, <1>10, <1>11, <1>12, <1>13, <1>14, <1>15, <1>16
        DEF ReceiverPoints

-----------------------------------------------------------------------------
(* The same steps, with the versions and the sizes. *)
LEMMA VersionedStands ==
  ASSUME UNCHANGED setup
  PROVE  /\ VersionedFromSender' = VersionedFromSender
         /\ VersionedFromReceiver' = VersionedFromReceiver
         /\ Differ' = Differ /\ Size' = Size
BY DEF VersionedFromSender, VersionedFromReceiver, Differ, Tcp, Size

EarlySender == {"sendHello", "recvHello", "sendMeta", "recvReady"}
FullReceiver ==
    {"sendVerify", "badSum", "recvDone", "createFile", "ChecksumMismatch"}

LEMMA SenderScript ==
  ASSUME Script, UNCHANGED <<setup, receiver, buffer, conn>>, Forward', Backward',
         NEW S, NEW R, S = VersionedFromSender, R = VersionedFromReceiver,
         Channels(S, R)',
         sender' \in SenderPoints /\ SenderRead' >= 1 => setup.sver = setup.rver,
         sender' = "Unexpected" => Differ,
         sender' \in EarlySender => offset' = 0
  PROVE  Script'
<1>1. VersionsKnown'
  <2>1. Channels(VersionedFromSender, VersionedFromReceiver)'
    BY VersionedStands DEF Channels
  <2>2. (receiver \in {"sendError", "mismatched"} \/ sender = "Unexpected" => Differ)'
    BY VersionedStands DEF Script, VersionsKnown
  <2> QED BY <2>1, <2>2 DEF VersionsKnown
<1>2. Complete'
  BY VersionedStands DEF Script, Complete, EarlySender
<1> QED BY <1>1, <1>2 DEF Script

LEMMA SenderSays ==
  ASSUME InductiveInv, InductiveInv', Script, sender \in SenderPoints,
         NEW m \in VersionedFromSender, NEW next \in SenderPoints, SenderSends(m, next),
         UNCHANGED <<setup, receiver, buffer, conn>>,
         Before(m, Size) = SenderWritten,
         SenderWritten <= After(m, Size),
         Needs(m, Size, SenderHelloNeeds) = SenderRead,
         sender' = next => SenderWritten' = After(m, Size) /\ SenderRead' = SenderRead,
         next \in EarlySender => offset' = 0
  PROVE  Script'
<1> PICK S, R : S = VersionedFromSender /\ R = VersionedFromReceiver
  OBVIOUS
<1>1. Facts /\ Facts'
  BY FactsHold, PTL
<1>2. m \in FromSender
  BY DEF VersionedFromSender
<1>3. Forward' /\ Backward'
  BY <1>1, <1>2, SenderSpeaks DEF Script
<1>4. Channels(S, R)' /\ sender' \in {next, "ConnLost"}
  BY SenderSendsChannels DEF Script, VersionsKnown
<1>5. sender' \in SenderPoints => sender' = next
  BY <1>4 DEF SenderPoints
<1>6. sender' \in EarlySender => sender' = next
  BY <1>4 DEF EarlySender
<1>7. sender' # "Unexpected"
  BY <1>4 DEF SenderPoints
<1>8. sender' \in SenderPoints /\ SenderRead' >= 1 => setup.sver = setup.rver
  BY <1>5 DEF Script, VersionsKnown
<1> QED BY <1>3, <1>4, <1>6, <1>7, <1>8, SenderScript

LEMMA SenderReads ==
  ASSUME InductiveInv, Script, sender \in SenderPoints, toSender # <<>>,
         NEW next \in SenderPoints, SenderGoesOn(next),
         UNCHANGED <<setup, offset, receiver, buffer, conn>>,
         SenderRead' = After(Head(toSender), Size), SenderWritten' = SenderWritten,
         setup.sver = setup.rver,
         next \in EarlySender => offset = 0
  PROVE  Script'
<1> PICK S, R : S = VersionedFromSender /\ R = VersionedFromReceiver
  OBVIOUS
<1>1. Forward' /\ Backward'
  BY FactsHold, SenderListens DEF Script
<1>2. Channels(S, R)' /\ sender' = next
  BY SenderGoesOnChannels DEF Script, VersionsKnown
<1>3. sender' # "Unexpected"
  BY <1>2 DEF SenderPoints
<1> QED BY <1>1, <1>2, <1>3, SenderScript

LEMMA SenderQuits ==
  ASSUME InductiveInv, InductiveInv', Script,
         NEW result \in SenderResults, NEW u, SenderReturns(result, u),
         UNCHANGED <<setup, receiver, buffer, conn>>,
         result = "Unexpected" => Differ
  PROVE  Script'
<1> PICK S, R : S = VersionedFromSender /\ R = VersionedFromReceiver
  OBVIOUS
<1>1. Facts /\ Facts'
  BY FactsHold, PTL
<1>2. toReceiver' \in Prefixes(toReceiver)
  BY <1>1, DeliverableElements DEF SenderReturns, Facts
<1>3. Channels(S, R)' /\ sender' = result
  BY SenderReturnsChannels DEF Script, VersionsKnown
<1>4. Forward' /\ Backward'
  BY <1>1, <1>2, <1>3, SenderLeaves DEF Script
<1>5. sender' \notin SenderPoints /\ sender' \notin EarlySender
  BY <1>3 DEF SenderPoints, SenderResults, EarlySender
<1> QED BY <1>3, <1>4, <1>5, SenderScript

LEMMA ReceiverScript ==
  ASSUME Script, UNCHANGED <<setup, sender, offset, conn>>, Forward', Backward',
         NEW S, NEW R, S = VersionedFromSender, R = VersionedFromReceiver,
         Channels(S, R)',
         receiver' \in {"sendError", "mismatched"} => Differ,
         receiver' # "Unexpected",
         receiver' \in FullReceiver => Len(buffer') = Size
  PROVE  Script'
<1>1. VersionsKnown'
  <2>1. Channels(VersionedFromSender, VersionedFromReceiver)'
    BY VersionedStands DEF Channels
  <2>2. (receiver \in {"sendError", "mismatched"} \/ sender = "Unexpected" => Differ)'
    BY VersionedStands DEF Script, VersionsKnown
  <2>3. (sender \in SenderPoints /\ SenderRead >= 1 => setup.sver = setup.rver)'
    BY SenderStands DEF Script, VersionsKnown
  <2> QED BY <2>1, <2>2, <2>3 DEF VersionsKnown
<1>2. Complete'
  BY VersionedStands DEF Script, Complete, FullReceiver
<1> QED BY <1>1, <1>2 DEF Script

LEMMA ReceiverSays ==
  ASSUME InductiveInv, InductiveInv', Script, receiver \in ReceiverPoints,
         NEW m \in VersionedFromReceiver, NEW next \in ReceiverPoints,
         ReceiverSends(m, next),
         UNCHANGED <<setup, sender, offset, buffer, conn>>,
         Before(m, Size) = ReceiverWritten,
         ReceiverWritten <= After(m, Size),
         Needs(m, Size, ReceiverHelloNeeds) = ReceiverRead,
         receiver' = next
           => ReceiverWritten' = After(m, Size) /\ ReceiverRead' = ReceiverRead,
         next \in {"sendError", "mismatched"} => Differ,
         next \in FullReceiver => Len(buffer) = Size
  PROVE  Script'
<1> PICK S, R : S = VersionedFromSender /\ R = VersionedFromReceiver
  OBVIOUS
<1>1. Facts /\ Facts'
  BY FactsHold, PTL
<1>2. m \in FromReceiver
  BY DEF VersionedFromReceiver
<1>3. Forward' /\ Backward'
  BY <1>1, <1>2, ReceiverSpeaks DEF Script
<1>4. Channels(S, R)' /\ receiver' \in {next, "ConnLost"}
  BY ReceiverSendsChannels DEF Script, VersionsKnown
<1>5. /\ receiver' \in {"sendError", "mismatched"} => Differ
      /\ receiver' # "Unexpected"
      /\ receiver' \in FullReceiver => Len(buffer') = Size
  BY <1>4 DEF FullReceiver, ReceiverPoints
<1> QED BY <1>3, <1>4, <1>5, ReceiverScript

LEMMA ReceiverReads ==
  ASSUME InductiveInv, Script, receiver \in ReceiverPoints, toReceiver # <<>>,
         NEW next \in ReceiverPoints, ReceiverGoesOn(next),
         UNCHANGED <<setup, sender, offset, conn>>,
         ReceiverRead' = After(Head(toReceiver), Size),
         ReceiverWritten' = ReceiverWritten,
         next \in {"sendError", "mismatched"} => Differ,
         next \in FullReceiver => Len(buffer') = Size
  PROVE  Script'
<1> PICK S, R : S = VersionedFromSender /\ R = VersionedFromReceiver
  OBVIOUS
<1>1. Forward' /\ Backward'
  BY FactsHold, ReceiverListens DEF Script
<1>2. Channels(S, R)' /\ receiver' = next
  BY ReceiverGoesOnChannels DEF Script, VersionsKnown
<1>3. receiver' # "Unexpected"
  BY <1>2 DEF ReceiverPoints
<1> QED BY <1>1, <1>2, <1>3, ReceiverScript

LEMMA ReceiverQuits ==
  ASSUME InductiveInv, InductiveInv', Script,
         NEW result \in ReceiverResults, NEW u, ReceiverReturns(result, u),
         UNCHANGED <<setup, sender, offset, buffer, conn>>,
         result # "Unexpected",
         result = "ChecksumMismatch" => Len(buffer) = Size
  PROVE  Script'
<1> PICK S, R : S = VersionedFromSender /\ R = VersionedFromReceiver
  OBVIOUS
<1>1. Facts /\ Facts'
  BY FactsHold, PTL
<1>2. toSender' \in Prefixes(toSender)
  BY <1>1, DeliverableElements DEF ReceiverReturns, Facts
<1>3. Channels(S, R)' /\ receiver' = result
  BY ReceiverReturnsChannels DEF Script, VersionsKnown
<1>4. Forward' /\ Backward'
  BY <1>1, <1>2, <1>3, ReceiverLeaves DEF Script
<1>5. /\ receiver' \notin {"sendError", "mismatched"}
      /\ receiver' \in FullReceiver => Len(buffer') = Size
  BY <1>3 DEF FullReceiver, ReceiverResults
<1> QED BY <1>3, <1>4, <1>5, ReceiverScript

LEMMA ReceiverDoes ==
  ASSUME Script, receiver \in ReceiverPoints, receiver' \in ReceiverPoints,
         UNCHANGED <<setup, sender, offset, buffer, conn, toSender, toReceiver>>,
         ReceiverRead' = ReceiverRead, ReceiverWritten' = ReceiverWritten,
         receiver' \notin {"sendError", "mismatched"} \cup FullReceiver
  PROVE  Script'
<1> PICK S, R : S = VersionedFromSender /\ R = VersionedFromReceiver
  OBVIOUS
<1>1. Forward' /\ Backward'
  BY ReceiverWorks DEF Script
<1>2. Channels(S, R)'
  BY DEF Script, VersionsKnown, Channels
<1>3. receiver' # "Unexpected"
  BY DEF ReceiverPoints
<1> QED BY <1>1, <1>2, <1>3, ReceiverScript

-----------------------------------------------------------------------------
(* Every step keeps to the script. *)
LEMMA SenderKeepsScript ==
  ASSUME InductiveInv, InductiveInv', Script, SenderSession
  PROVE  Script'
<1>1. /\ Facts /\ Core /\ setup.sver \in Versions
      /\ UNCHANGED <<setup, receiver, buffer, conn>>
      /\ sender \in SenderPoints
  <2>1. UNCHANGED <<setup, receiver, buffer, conn>>
    BY DEF SenderSession, SenderSendHello, SenderRecvHello, SenderSendMeta,
       SenderRecvReady, SenderSendData, SenderSendEof, SenderRecvVerify,
       SenderSendDone, SenderFinish, SenderRecvFails, receiverVars
  <2>2. sender \in SenderPoints
    BY DEF SenderSession, SenderSendHello, SenderRecvHello, SenderSendMeta,
       SenderRecvReady, SenderSendData, SenderSendEof, SenderRecvVerify,
       SenderSendDone, SenderFinish, SenderRecvFails, SenderPoints, SenderRecvPoints
  <2> QED BY <2>1, <2>2, Halves, SetupFacts, FactsHold
<1>2. Backward /\ VersionsKnown /\ Complete
  BY DEF Script
<1>3. toSender # <<>> => SenderFinds(Head(toSender))
  BY <1>1, <1>2, SenderFindings
<1>4. Size' = Size /\ (Tcp <=> Tcp') /\ setup' = setup
  BY <1>1 DEF Size, Tcp
<1>5. Size \in Nat /\ offset \in Nat /\ offset <= Size /\ Size = Len(setup.bytes)
  BY <1>1 DEF Facts, Size
<1>6. CASE SenderSendHello
  <2>1. Hello(setup.sver) \in VersionedFromSender
    <3>1. Tcp \/ setup.sver = setup.rver
      <4>1. ~Tcp => SenderRead >= 1
        BY <1>6 DEF SenderRead, SenderSendHello
      <4> QED BY <1>1, <1>2, <4>1 DEF VersionsKnown
    <3> QED BY <1>1, <3>1 DEF VersionedFromSender, FromSender, Hello
  <2>2. sender = "sendHello" /\ SenderSends(Hello(setup.sver), SenderHelloSent)
    BY <1>6 DEF SenderSendHello
  <2>3. /\ Before(Hello(setup.sver), Size) = 0 /\ After(Hello(setup.sver), Size) = 1
        /\ Needs(Hello(setup.sver), Size, SenderHelloNeeds) = SenderHelloNeeds
    BY DEF Before, After, Needs, Hello
  <2>4. SenderWritten = 0 /\ SenderRead = SenderHelloNeeds
    BY <2>2 DEF SenderWritten, SenderRead, SenderHelloNeeds
  <2>5. sender' = SenderHelloSent => SenderWritten' = 1 /\ SenderRead' = SenderRead
    BY <1>4, <2>2 DEF SenderWritten, SenderRead, SenderHelloSent, Tcp
  <2>6. offset' = 0
    BY <1>2, <1>6 DEF Complete, SenderSendHello
  <2>7. SenderHelloSent \in SenderPoints
    BY DEF SenderHelloSent, SenderPoints
  <2> QED BY <1>1, <2>1, <2>2, <2>3, <2>4, <2>5, <2>6, <2>7, SenderSays
<1>7. CASE SenderSendMeta
  <2> PICK m : m = Meta(MetadataOf(setup.bytes))
    OBVIOUS
  <2>1. m \in VersionedFromSender
    BY <1>1, SetupFacts DEF VersionedFromSender, FromSender, Meta
  <2>2. sender = "sendMeta" /\ SenderSends(m, "recvReady") /\ offset' = 0
    BY <1>2, <1>7 DEF SenderSendMeta, Complete
  <2>3. Before(m, Size) = 1 /\ After(m, Size) = 2 /\ Needs(m, Size, SenderHelloNeeds) = 1
    BY DEF Before, After, Needs, Meta
  <2>4. SenderWritten = 1 /\ SenderRead = 1
    BY <2>2 DEF SenderWritten, SenderRead
  <2>5. sender' = "recvReady" => SenderWritten' = 2 /\ SenderRead' = 1
    BY DEF SenderWritten, SenderRead
  <2>6. "recvReady" \in SenderPoints
    BY DEF SenderPoints
  <2> QED BY <1>1, <2>1, <2>2, <2>3, <2>4, <2>5, <2>6, SenderSays
<1>8. CASE SenderSendData
  <2> PICK c : c = Chunk(setup.bytes, offset)
    OBVIOUS
  <2> PICK m : m = Data(offset, c)
    OBVIOUS
  <2>1. /\ c \in Body /\ Len(c) \in Nat
        /\ NextOffset(setup.bytes, offset) = offset + Len(c)
    <3>1. c \in Body
      BY <1>1, <1>5, <1>8, SetupFacts, ChunkWithin DEF SenderSendData
    <3> QED BY <3>1, BodyIsSeq, LenProperties DEF NextOffset
  <2>2. m \in VersionedFromSender
    BY <1>1, <2>1 DEF VersionedFromSender, FromSender, Data, Core
  <2>3. /\ sender = "sendData" /\ SenderSends(m, "sendData")
        /\ sender' = "sendData" => offset' = offset + Len(c)
    BY <1>8, <2>1 DEF SenderSendData
  <2>4. /\ Before(m, Size) = 2 + offset /\ After(m, Size) = 2 + offset + Len(c)
        /\ Needs(m, Size, SenderHelloNeeds) = 2
    BY DEF Before, After, Needs, Data
  <2>5. SenderWritten = 2 + offset /\ SenderRead = 2
    BY <2>3 DEF SenderWritten, SenderRead
  <2>6. sender' = "sendData" => SenderWritten' = 2 + (offset + Len(c)) /\ SenderRead' = 2
    BY <2>3 DEF SenderWritten, SenderRead
  <2>7. /\ 2 + offset <= 2 + offset + Len(c)
        /\ 2 + (offset + Len(c)) = 2 + offset + Len(c)
    BY <1>5, <2>1
  <2>8. "sendData" \in SenderPoints /\ "sendData" \notin EarlySender
    BY DEF SenderPoints, EarlySender
  <2> QED BY <1>1, <2>2, <2>3, <2>4, <2>5, <2>6, <2>7, <2>8, SenderSays
<1>9. CASE SenderSendEof
  <2>1. Eof \in VersionedFromSender
    BY DEF VersionedFromSender, FromSender, Eof
  <2>2. sender = "sendData" /\ SenderSends(Eof, "recvVerify") /\ offset = Size
    BY <1>5, <1>9 DEF SenderSendEof
  <2>3. /\ Before(Eof, Size) = 2 + Size /\ After(Eof, Size) = 3 + Size
        /\ Needs(Eof, Size, SenderHelloNeeds) = 2
    BY DEF Before, After, Needs, Eof
  <2>4. SenderWritten = 2 + Size /\ SenderRead = 2
    BY <2>2 DEF SenderWritten, SenderRead
  <2>5. sender' = "recvVerify" => SenderWritten' = 3 + Size /\ SenderRead' = 2
    BY <1>4 DEF SenderWritten, SenderRead
  <2>6. /\ "recvVerify" \in SenderPoints /\ "recvVerify" \notin EarlySender
        /\ 2 + Size <= 3 + Size
    BY <1>5 DEF SenderPoints, EarlySender
  <2> QED BY <1>1, <2>1, <2>2, <2>3, <2>4, <2>5, <2>6, SenderSays
<1>10. CASE SenderSendDone
  <2>1. Done \in VersionedFromSender
    BY DEF VersionedFromSender, FromSender, Done
  <2>2. sender = "sendDone" /\ SenderSends(Done, "finish")
    BY <1>10 DEF SenderSendDone
  <2>3. /\ Before(Done, Size) = 3 + Size /\ After(Done, Size) = 4 + Size
        /\ Needs(Done, Size, SenderHelloNeeds) = 3
    BY DEF Before, After, Needs, Done
  <2>4. SenderWritten = 3 + Size /\ SenderRead = 3
    BY <2>2 DEF SenderWritten, SenderRead
  <2>5. sender' = "finish" => SenderWritten' = 4 + Size /\ SenderRead' = 3
    BY <1>4 DEF SenderWritten, SenderRead
  <2>6. /\ "finish" \in SenderPoints /\ "finish" \notin EarlySender
        /\ 3 + Size <= 4 + Size
    BY <1>5 DEF SenderPoints, EarlySender
  <2> QED BY <1>1, <2>1, <2>2, <2>3, <2>4, <2>5, <2>6, SenderSays
<1>11. CASE SenderRecvHello
  <2>1. /\ sender = "recvHello" /\ toSender # <<>> /\ offset' = offset
    BY <1>11 DEF SenderRecvHello
  <2>2. Head(toSender) = Hello(setup.rver) \/ (Head(toSender) = ErrorMsg /\ Differ)
    BY <1>3, <2>1 DEF SenderFinds
  <2>3. CASE Head(toSender) = Hello(setup.sver) /\ SenderGoesOn(SenderHelloRead)
    <3>1. setup.sver = setup.rver
      BY <2>2, <2>3 DEF Hello, ErrorMsg
    <3>2. After(Head(toSender), Size) = 1
      BY <2>3 DEF After, Hello
    <3>3. sender' = SenderHelloRead
      BY <2>3 DEF SenderGoesOn
    <3>4. SenderRead' = 1 /\ SenderWritten' = SenderWritten
      BY <1>4, <2>1, <3>3 DEF SenderRead, SenderWritten, SenderHelloRead, Tcp
    <3>5. SenderHelloRead \in SenderPoints
      BY DEF SenderHelloRead, SenderPoints
    <3>6. offset = 0
      BY <1>2, <2>1 DEF Complete
    <3> QED BY <1>1, <2>1, <2>3, <3>1, <3>2, <3>4, <3>5, <3>6, SenderReads
  <2>4. CASE SenderReturns("VersionMismatch", Tail(toSender))
    BY <1>1, <2>4, SenderQuits DEF SenderResults
  <2>5. CASE SenderReturns("Unexpected", Tail(toSender)) /\ Head(toSender).kind # "HELLO"
    <3>1. Differ
      BY <2>2, <2>5 DEF Hello
    <3> QED BY <1>1, <2>5, <3>1, SenderQuits DEF SenderResults
  <2> QED BY <1>11, <2>2, <2>3, <2>4, <2>5 DEF SenderRecvHello, Hello
<1>12. CASE SenderRecvReady
  <2>1. /\ sender = "recvReady" /\ toSender # <<>> /\ offset' = offset
    BY <1>12 DEF SenderRecvReady
  <2>2. Head(toSender) = Ready(TRUE) \/ Head(toSender) = Ready(FALSE)
    BY <1>3, <2>1, Zenon DEF SenderFinds
  <2>3. CASE Head(toSender) = Ready(TRUE) /\ SenderGoesOn("sendData")
    <3>1. setup.sver = setup.rver
      BY <1>1, <1>2, <2>1 DEF VersionsKnown, SenderRead
    <3>2. After(Head(toSender), Size) = 2
      BY <2>3 DEF After, Ready
    <3>3. sender' = "sendData" /\ offset = 0
      BY <1>2, <2>1, <2>3 DEF SenderGoesOn, Complete
    <3>4. SenderRead' = 2 /\ SenderWritten' = 2 + 0 /\ SenderWritten = 2
      BY <2>1, <3>3 DEF SenderRead, SenderWritten
    <3>5. "sendData" \in SenderPoints
      BY DEF SenderPoints
    <3> QED BY <1>1, <2>1, <2>3, <3>1, <3>2, <3>3, <3>4, <3>5, SenderReads
  <2>4. CASE Head(toSender) = Ready(FALSE) /\ SenderReturns("PeerRejected", Tail(toSender))
    BY <1>1, <2>4, SenderQuits DEF SenderResults
  <2> QED BY <1>12, <2>2, <2>3, <2>4 DEF SenderRecvReady, Ready
<1>13. CASE SenderRecvVerify
  <2>1. /\ sender = "recvVerify" /\ toSender # <<>> /\ offset' = offset
    BY <1>13 DEF SenderRecvVerify
  <2>2. Head(toSender) = Verify(TRUE) \/ Head(toSender) = Verify(FALSE)
    BY <1>3, <2>1, Zenon DEF SenderFinds
  <2>3. CASE Head(toSender) = Verify(TRUE) /\ SenderGoesOn("sendDone")
    <3>1. setup.sver = setup.rver
      BY <1>1, <1>2, <2>1 DEF VersionsKnown, SenderRead
    <3>2. After(Head(toSender), Size) = 3
      BY <2>3 DEF After, Verify
    <3>3. sender' = "sendDone"
      BY <2>3 DEF SenderGoesOn
    <3>4. SenderRead' = 3 /\ SenderWritten' = 3 + Size /\ SenderWritten = 3 + Size
      BY <1>4, <2>1, <3>3 DEF SenderRead, SenderWritten
    <3>5. "sendDone" \in SenderPoints /\ "sendDone" \notin EarlySender
      BY DEF SenderPoints, EarlySender
    <3> QED BY <1>1, <2>1, <2>3, <3>1, <3>2, <3>4, <3>5, SenderReads
  <2>4. CASE Head(toSender) = Verify(FALSE)
               /\ SenderReturns("ChecksumMismatch", Tail(toSender))
    BY <1>1, <2>4, SenderQuits DEF SenderResults
  <2> QED BY <1>13, <2>2, <2>3, <2>4 DEF SenderRecvVerify, Verify
<1>14. CASE SenderFinish
  BY <1>1, <1>14, SenderQuits DEF SenderFinish, SenderResults
<1>15. CASE SenderRecvFails
  BY <1>1, <1>15, SenderQuits DEF SenderRecvFails, SenderResults
<1> QED BY <1>6, <1>7, <1>8, <1>9, <1>10, <1>11, <1>12, <1>13, <1>14, <1>15
        DEF SenderSession

LEMMA ReceiverKeepsScript ==
  ASSUME InductiveInv, InductiveInv', Consent, Script, ReceiverSession
  PROVE  Script'
<1>1. /\ Facts /\ Core /\ setup.rver \in Versions
      /\ UNCHANGED <<setup, sender, offset, conn>>
      /\ receiver \in ReceiverPoints
  <2>1. UNCHANGED <<setup, sender, offset, conn>>
    BY DEF ReceiverSession, ReceiverSendHello, ReceiverRecvHello, ReceiverSendError,
       ReceiverRecvMeta, ReceiverPrompt, ReceiverPromptFails, ReceiverSendReady,
       ReceiverSendDecline, ReceiverRecvData, ReceiverSendVerify, ReceiverRecvDone,
       ReceiverCreateFile, ReceiverWriteFile, ReceiverRefuses, ReceiverRecvFails,
       senderVars
  <2>2. receiver \in ReceiverPoints
    BY DEF ReceiverSession, ReceiverSendHello, ReceiverRecvHello, ReceiverSendError,
       ReceiverRecvMeta, ReceiverPrompt, ReceiverPromptFails, ReceiverSendReady,
       ReceiverSendDecline, ReceiverRecvData, ReceiverSendVerify, ReceiverRecvDone,
       ReceiverCreateFile, ReceiverWriteFile, ReceiverRefuses, ReceiverRecvFails,
       ReceiverPoints, ReceiverRecvPoints, Refusal
  <2> QED BY <2>1, <2>2, Halves, SetupFacts, FactsHold
<1>2. Forward /\ VersionsKnown /\ Complete
  BY DEF Script
<1>3. toReceiver # <<>> => ReceiverFinds(Head(toReceiver))
  BY <1>1, <1>2, ReceiverFindings
<1>4. Size' = Size /\ (Tcp <=> Tcp') /\ setup' = setup
  BY <1>1 DEF Size, Tcp
<1>5. Size \in Nat /\ Len(buffer) \in Nat /\ Size = Len(setup.bytes)
  BY <1>1 DEF Facts, Size
<1>6. CASE ReceiverSendHello
  <2>1. Hello(setup.rver) \in VersionedFromReceiver
    BY <1>1 DEF VersionedFromReceiver, FromReceiver, Hello
  <2>2. /\ receiver = "sendHello" /\ ReceiverSends(Hello(setup.rver), ReceiverHelloSent)
        /\ buffer' = buffer
    BY <1>6 DEF ReceiverSendHello
  <2>3. /\ Before(Hello(setup.rver), Size) = 0 /\ After(Hello(setup.rver), Size) = 1
        /\ Needs(Hello(setup.rver), Size, ReceiverHelloNeeds) = ReceiverHelloNeeds
    BY DEF Before, After, Needs, Hello
  <2>4. ReceiverWritten = 0 /\ ReceiverRead = ReceiverHelloNeeds
    BY <2>2 DEF ReceiverWritten, ReceiverRead, ReceiverHelloNeeds
  <2>5. receiver' = ReceiverHelloSent => ReceiverWritten' = 1 /\ ReceiverRead' = ReceiverRead
    BY <1>4, <2>2 DEF ReceiverWritten, ReceiverRead, ReceiverHelloSent, Tcp
  <2>6. /\ ReceiverHelloSent \in ReceiverPoints
        /\ ReceiverHelloSent \notin {"sendError", "mismatched"}
        /\ ReceiverHelloSent \notin FullReceiver
    BY DEF ReceiverHelloSent, ReceiverPoints, FullReceiver
  <2> QED BY <1>1, <2>1, <2>2, <2>3, <2>4, <2>5, <2>6, ReceiverSays
<1>7. CASE ReceiverSendError
  <2>1. receiver = "sendError" /\ ReceiverSends(ErrorMsg, "mismatched") /\ buffer' = buffer
    BY <1>7 DEF ReceiverSendError
  <2>2. Differ
    BY <1>2, <2>1 DEF VersionsKnown
  <2>3. ErrorMsg \in VersionedFromReceiver
    BY <2>2 DEF VersionedFromReceiver, FromReceiver, ErrorMsg
  <2>4. /\ Before(ErrorMsg, Size) = 0 /\ After(ErrorMsg, Size) = 0
        /\ Needs(ErrorMsg, Size, ReceiverHelloNeeds) = 1
    BY DEF Before, After, Needs, ErrorMsg
  <2>5. ReceiverWritten = 0 /\ ReceiverRead = 1
    BY <2>1 DEF ReceiverWritten, ReceiverRead
  <2>6. receiver' = "mismatched" => ReceiverWritten' = 0 /\ ReceiverRead' = 1
    BY DEF ReceiverWritten, ReceiverRead
  <2>7. "mismatched" \in ReceiverPoints /\ "mismatched" \notin FullReceiver
    BY DEF ReceiverPoints, FullReceiver
  <2> QED BY <1>1, <2>1, <2>2, <2>3, <2>4, <2>5, <2>6, <2>7, ReceiverSays
<1>8. CASE ReceiverSendReady
  <2>0. PICK m : m = Ready(TRUE)
    OBVIOUS
  <2>1. receiver = "sendReady" /\ ReceiverSends(m, "recvData") /\ buffer' = buffer
    BY <1>8, <2>0 DEF ReceiverSendReady
  <2>2. m \in VersionedFromReceiver
    BY <2>0 DEF VersionedFromReceiver, FromReceiver, Ready
  <2>3. /\ Before(m, Size) = 1 /\ After(m, Size) = 2
        /\ Needs(m, Size, ReceiverHelloNeeds) = 2
    BY <2>0 DEF Before, After, Needs, Ready
  <2>4. ReceiverWritten = 1 /\ ReceiverRead = 2
    BY <2>1 DEF ReceiverWritten, ReceiverRead
  <2>5. buffer = <<>> => Len(buffer) = 0
    BY EmptySeq
  <2>6. buffer = <<>>
    BY <2>1 DEF Consent, NotAgreed
  <2>7. receiver' = "recvData" => ReceiverWritten' = 2 /\ ReceiverRead' = 2
    BY <2>1, <2>5, <2>6 DEF ReceiverWritten, ReceiverRead
  <2>8. /\ "recvData" \in ReceiverPoints /\ "recvData" \notin FullReceiver
        /\ "recvData" \notin {"sendError", "mismatched"}
    BY DEF ReceiverPoints, FullReceiver
  <2> QED BY <1>1, <2>1, <2>2, <2>3, <2>4, <2>7, <2>8, ReceiverSays
<1>9. CASE ReceiverSendDecline
  <2>0. PICK m : m = Ready(FALSE)
    OBVIOUS
  <2>1. receiver = "sendDecline" /\ ReceiverSends(m, "declined") /\ buffer' = buffer
    BY <1>9, <2>0 DEF ReceiverSendDecline
  <2>2. m \in VersionedFromReceiver
    BY <2>0 DEF VersionedFromReceiver, FromReceiver, Ready
  <2>3. /\ Before(m, Size) = 1 /\ After(m, Size) = 1
        /\ Needs(m, Size, ReceiverHelloNeeds) = 2
    BY <2>0 DEF Before, After, Needs, Ready
  <2>4. ReceiverWritten = 1 /\ ReceiverRead = 2
    BY <2>1 DEF ReceiverWritten, ReceiverRead
  <2>5. receiver' = "declined" => ReceiverWritten' = 1 /\ ReceiverRead' = 2
    BY DEF ReceiverWritten, ReceiverRead
  <2>6. /\ "declined" \in ReceiverPoints /\ "declined" \notin FullReceiver
        /\ "declined" \notin {"sendError", "mismatched"}
    BY DEF ReceiverPoints, FullReceiver
  <2> QED BY <1>1, <2>1, <2>2, <2>3, <2>4, <2>5, <2>6, ReceiverSays
<1>10. CASE ReceiverSendVerify
  <2> PICK ok \in BOOLEAN : ok = DigestMatches
    BY DEF DigestMatches
  <2>1. /\ receiver = "sendVerify" /\ ReceiverSends(Verify(ok), AfterVerify)
        /\ buffer' = buffer
    BY <1>10 DEF ReceiverSendVerify
  <2>2. AfterVerify = IF ok THEN "recvDone" ELSE "badSum"
    BY DEF AfterVerify
  <2>3. Verify(ok) \in VersionedFromReceiver
    BY DEF VersionedFromReceiver, FromReceiver, Verify
  <2>4. /\ Before(Verify(ok), Size) = 2 /\ After(Verify(ok), Size) = IF ok THEN 3 ELSE 2
        /\ Needs(Verify(ok), Size, ReceiverHelloNeeds) = 3 + Size
    BY DEF Before, After, Needs, Verify
  <2>5. ReceiverWritten = 2 /\ ReceiverRead = 3 + Size
    BY <2>1 DEF ReceiverWritten, ReceiverRead
  <2>6. receiver' = AfterVerify
          => ReceiverWritten' = (IF ok THEN 3 ELSE 2) /\ ReceiverRead' = 3 + Size
    BY <1>4, <2>2 DEF ReceiverWritten, ReceiverRead
  <2>7. /\ AfterVerify \in ReceiverPoints
        /\ AfterVerify \notin {"sendError", "mismatched"}
    BY <2>2 DEF ReceiverPoints
  <2>8. Len(buffer) = Size
    BY <1>2, <2>1 DEF Complete
  <2>9. 2 <= IF ok THEN 3 ELSE 2
    OBVIOUS
  <2> QED BY <1>1, <2>1, <2>3, <2>4, <2>5, <2>6, <2>7, <2>8, <2>9, ReceiverSays
<1>11. CASE ReceiverRecvHello
  <2>1. receiver = "recvHello" /\ toReceiver # <<>> /\ buffer' = buffer
    BY <1>11 DEF ReceiverRecvHello
  <2>2. Head(toReceiver) = Hello(setup.sver) /\ (Tcp \/ setup.sver = setup.rver)
    BY <1>3, <2>1 DEF ReceiverFinds
  <2>3. After(Head(toReceiver), Size) = 1
    BY <2>2 DEF After, Hello
  <2>4. CASE Head(toReceiver) = Hello(setup.rver) /\ ReceiverGoesOn(ReceiverHelloRead)
    <3>1. receiver' = ReceiverHelloRead
      BY <2>4 DEF ReceiverGoesOn
    <3>2. ReceiverRead' = 1 /\ ReceiverWritten' = ReceiverWritten
      BY <1>4, <2>1, <3>1 DEF ReceiverRead, ReceiverWritten, ReceiverHelloRead, Tcp
    <3>3. /\ ReceiverHelloRead \in ReceiverPoints
          /\ ReceiverHelloRead \notin {"sendError", "mismatched"}
          /\ ReceiverHelloRead \notin FullReceiver
      BY DEF ReceiverHelloRead, ReceiverPoints, FullReceiver
    <3> QED BY <1>1, <2>1, <2>3, <2>4, <3>2, <3>3, ReceiverReads
  <2>5. CASE Head(toReceiver) # Hello(setup.rver) /\ ReceiverGoesOn("sendError")
    <3>1. receiver' = "sendError"
      BY <2>5 DEF ReceiverGoesOn
    <3>2. Differ
      BY <2>2, <2>5 DEF Differ
    <3>3. ReceiverRead' = 1 /\ ReceiverWritten' = ReceiverWritten
      BY <2>1, <3>1, <3>2 DEF ReceiverRead, ReceiverWritten, Differ
    <3>4. "sendError" \in ReceiverPoints /\ "sendError" \notin FullReceiver
      BY DEF ReceiverPoints, FullReceiver
    <3> QED BY <1>1, <2>1, <2>3, <2>5, <3>2, <3>3, <3>4, ReceiverReads
  <2> QED BY <1>11, <2>2, <2>4, <2>5 DEF ReceiverRecvHello, Hello
<1>12. CASE ReceiverRecvMeta
  <2>1. receiver = "recvMeta" /\ toReceiver # <<>> /\ buffer' = buffer
    BY <1>12 DEF ReceiverRecvMeta
  <2>2. Head(toReceiver).kind = "META"
    BY <1>3, <2>1 DEF ReceiverFinds
  <2>3. ReceiverGoesOn("prompt")
    BY <1>12, <2>2 DEF ReceiverRecvMeta
  <2>4. receiver' = "prompt"
    BY <2>3 DEF ReceiverGoesOn
  <2>5. After(Head(toReceiver), Size) = 2
    BY <2>2 DEF After
  <2>6. ReceiverRead' = 2 /\ ReceiverWritten' = ReceiverWritten
    BY <2>1, <2>4 DEF ReceiverRead, ReceiverWritten
  <2>7. /\ "prompt" \in ReceiverPoints /\ "prompt" \notin FullReceiver
        /\ "prompt" \notin {"sendError", "mismatched"}
    BY DEF ReceiverPoints, FullReceiver
  <2> QED BY <1>1, <2>1, <2>3, <2>5, <2>6, <2>7, ReceiverReads
<1>13. CASE ReceiverRecvData
  <2> PICK m : m = Head(toReceiver)
    OBVIOUS
  <2>1. receiver = "recvData" /\ toReceiver # <<>>
    BY <1>13 DEF ReceiverRecvData
  <2>2. \/ /\ m.kind = "DATA" /\ m.offset = Len(buffer) /\ Len(m.bytes) \in Nat
           /\ m.bytes \in Body
        \/ m = Eof /\ Len(buffer) = Size
    BY <1>3, <2>1 DEF ReceiverFinds
  <2>3. CASE /\ m.kind = "DATA" /\ m.offset = Len(buffer) /\ Len(m.bytes) \in Nat
             /\ m.bytes \in Body
    <3>1. ReceiverGoesOn("recvData") /\ buffer' = buffer \o m.bytes
      BY <1>13, <2>3 DEF ReceiverRecvData, InOrder
    <3>2. receiver' = "recvData"
      BY <3>1 DEF ReceiverGoesOn
    <3>3. Len(buffer \o m.bytes) = Len(buffer) + Len(m.bytes)
      <4>1. buffer \in Seq(Byte) /\ m.bytes \in Seq(Byte)
        BY <1>1, <2>3, BodyIsSeq DEF Core
      <4> QED BY <4>1, ConcatProperties
    <3>4. After(m, Size) = 2 + m.offset + Len(m.bytes)
      BY <2>3 DEF After
    <3>5. After(m, Size) = 2 + Len(buffer')
      BY <1>5, <2>3, <3>1, <3>3, <3>4
    <3>6. ReceiverRead' = After(m, Size) /\ ReceiverWritten' = ReceiverWritten
      BY <2>1, <3>2, <3>5 DEF ReceiverRead, ReceiverWritten
    <3>7. /\ "recvData" \in ReceiverPoints /\ "recvData" \notin FullReceiver
          /\ "recvData" \notin {"sendError", "mismatched"}
      BY DEF ReceiverPoints, FullReceiver
    <3> QED BY <1>1, <2>1, <3>1, <3>6, <3>7, ReceiverReads
  <2>4. CASE m = Eof /\ Len(buffer) = Size
    <3>1. ReceiverGoesOn("sendVerify") /\ buffer' = buffer
      BY <1>13, <2>4 DEF ReceiverRecvData, Eof
    <3>2. receiver' = "sendVerify"
      BY <3>1 DEF ReceiverGoesOn
    <3>3. After(m, Size) = 3 + Size
      BY <2>4 DEF After, Eof
    <3>4. ReceiverRead' = 3 + Size /\ ReceiverWritten' = ReceiverWritten
      BY <1>4, <2>1, <3>2 DEF ReceiverRead, ReceiverWritten
    <3>5. /\ "sendVerify" \in ReceiverPoints
          /\ "sendVerify" \notin {"sendError", "mismatched"}
      BY DEF ReceiverPoints
    <3> QED BY <1>1, <2>1, <2>4, <3>1, <3>3, <3>4, <3>5, ReceiverReads
  <2> QED BY <2>2, <2>3, <2>4
<1>14. CASE ReceiverRecvDone
  <2>1. receiver = "recvDone" /\ toReceiver # <<>> /\ buffer' = buffer
    BY <1>14 DEF ReceiverRecvDone
  <2>2. Head(toReceiver) = Done
    BY <1>3, <2>1 DEF ReceiverFinds
  <2>3. ReceiverGoesOn("createFile")
    BY <1>14, <2>2 DEF ReceiverRecvDone
  <2>4. receiver' = "createFile"
    BY <2>3 DEF ReceiverGoesOn
  <2>5. After(Head(toReceiver), Size) = 4 + Size
    BY <2>2 DEF After, Done
  <2>6. ReceiverRead' = 4 + Size /\ ReceiverWritten' = ReceiverWritten
    BY <1>4, <2>1, <2>4 DEF ReceiverRead, ReceiverWritten
  <2>7. /\ "createFile" \in ReceiverPoints /\ "createFile" \notin {"sendError", "mismatched"}
        /\ Len(buffer) = Size
    BY <1>2, <2>1 DEF ReceiverPoints, Complete
  <2> QED BY <1>1, <2>1, <2>3, <2>5, <2>6, <2>7, ReceiverReads
<1>15. CASE ReceiverPrompt
  <2>1. /\ receiver = "prompt" /\ receiver' \in {"sendReady", "sendDecline"}
        /\ UNCHANGED <<buffer, toSender, toReceiver>>
    BY <1>15 DEF ReceiverPrompt
  <2>2. ReceiverRead' = ReceiverRead /\ ReceiverWritten' = ReceiverWritten
    BY <2>1 DEF ReceiverRead, ReceiverWritten
  <2>3. /\ receiver' \in ReceiverPoints
        /\ receiver' \notin {"sendError", "mismatched"} \cup FullReceiver
    BY <2>1 DEF ReceiverPoints, FullReceiver
  <2> QED BY <1>1, <2>1, <2>2, <2>3, ReceiverDoes
<1>16. CASE ReceiverCreateFile
  <2>1. receiver = "createFile" /\ buffer' = buffer
    BY <1>16 DEF ReceiverCreateFile
  <2>2. CASE receiver' = "writeFile" /\ UNCHANGED <<toSender, toReceiver>>
    <3>1. ReceiverRead' = ReceiverRead /\ ReceiverWritten' = ReceiverWritten
      BY <1>4, <2>1, <2>2 DEF ReceiverRead, ReceiverWritten
    <3>2. /\ receiver' \in ReceiverPoints
          /\ receiver' \notin {"sendError", "mismatched"} \cup FullReceiver
      BY <2>2 DEF ReceiverPoints, FullReceiver
    <3> QED BY <1>1, <2>1, <2>2, <3>1, <3>2, ReceiverDoes
  <2>3. CASE ReceiverReturns("KspNotFound", toReceiver)
    BY <1>1, <2>1, <2>3, ReceiverQuits DEF ReceiverResults
  <2>4. CASE ReceiverReturns("DiskError", toReceiver)
    BY <1>1, <2>1, <2>4, ReceiverQuits DEF ReceiverResults
  <2> QED BY <1>16, <2>2, <2>3, <2>4 DEF ReceiverCreateFile
<1>17. CASE ReceiverWriteFile
  <2>1. /\ buffer' = buffer
        /\ \/ ReceiverReturns("Ok", toReceiver)
           \/ ReceiverReturns("DiskError", toReceiver)
    BY <1>17 DEF ReceiverWriteFile
  <2> QED BY <1>1, <2>1, ReceiverQuits DEF ReceiverResults
<1>18. CASE ReceiverRefuses
  <2>1. /\ receiver \in {"mismatched", "declined", "badSum"} /\ buffer' = buffer
        /\ ReceiverReturns(Refusal[receiver], toReceiver)
    BY <1>18 DEF ReceiverRefuses, Refusal
  <2>2. /\ Refusal[receiver] \in ReceiverResults /\ Refusal[receiver] # "Unexpected"
        /\ Refusal[receiver] = "ChecksumMismatch" => receiver = "badSum"
    BY <2>1 DEF Refusal, ReceiverResults
  <2>3. receiver = "badSum" => Len(buffer) = Size
    BY <1>2 DEF Complete
  <2> QED BY <1>1, <2>1, <2>2, <2>3, ReceiverQuits
<1>19. CASE ReceiverPromptFails
  BY <1>1, <1>19, ReceiverQuits DEF ReceiverPromptFails, ReceiverResults
<1>20. CASE ReceiverRecvFails
  BY <1>1, <1>20, ReceiverQuits DEF ReceiverRecvFails, ReceiverResults
<1> QED BY <1>6, <1>7, <1>8, <1>9, <1>10, <1>11, <1>12, <1>13, <1>14, <1>15, <1>16,
           <1>17, <1>18, <1>19, <1>20 DEF ReceiverSession

(* The network touches the channels only. *)
LEMMA NetworkScript ==
  ASSUME Script, UNCHANGED <<setup, sender, offset, receiver, buffer>>,
         Forward', Backward',
         NEW S, NEW R, S = VersionedFromSender, R = VersionedFromReceiver,
         Channels(S, R)'
  PROVE  Script'
<1>1. VersionsKnown'
  <2>1. Channels(VersionedFromSender, VersionedFromReceiver)'
    BY VersionedStands DEF Channels
  <2>2. (receiver \in {"sendError", "mismatched"} \/ sender = "Unexpected" => Differ)'
    BY VersionedStands DEF Script, VersionsKnown
  <2>3. (sender \in SenderPoints /\ SenderRead >= 1 => setup.sver = setup.rver)'
    BY SenderStands DEF Script, VersionsKnown
  <2> QED BY <2>1, <2>2, <2>3 DEF VersionsKnown
<1>2. Complete'
  BY VersionedStands DEF Script, Complete
<1> QED BY <1>1, <1>2 DEF Script

LEMMA FaultKeepsScript ==
  ASSUME InductiveInv, InductiveInv', Script,
         SenderCrash \/ ReceiverCrash \/ ConnReset \/ Corruption
  PROVE  Script'
<1> PICK S, R : S = VersionedFromSender /\ R = VersionedFromReceiver
  OBVIOUS
<1>1. Facts /\ Forward /\ Backward /\ VersionsKnown /\ Complete /\ Channels(S, R)
  BY FactsHold DEF Script, VersionsKnown
<1>2. CASE SenderCrash
  <2>1. /\ UNCHANGED <<setup, receiver, buffer, conn>>
        /\ \E result \in {"Crashed", "CrashedSent"} : SenderReturns(result, toSender)
    BY <1>2 DEF SenderCrash, receiverVars
  <2> QED BY <2>1, SenderQuits DEF SenderResults
<1>3. CASE ReceiverCrash
  <2>1. /\ UNCHANGED <<setup, sender, offset, buffer, conn>>
        /\ ReceiverReturns("Crashed", toReceiver)
    BY <1>3 DEF ReceiverCrash, senderVars
  <2> QED BY <2>1, ReceiverQuits DEF ReceiverResults
<1>4. CASE ConnReset
  <2>1. /\ UNCHANGED <<setup, sender, offset, receiver, buffer>>
        /\ conn' = "down" /\ toReceiver' \in Prefixes(toReceiver)
        /\ toSender' \in Prefixes(toSender)
    BY <1>4 DEF ConnReset, senderVars, receiverVars
  <2>2. Forward' /\ Backward'
    BY <1>1, <2>1, NetworkCuts
  <2>3. Channels(S, R)'
    <3>1. /\ toReceiver' \in Seq(S) /\ Len(toReceiver') <= Len(toReceiver)
          /\ toSender' \in Seq(R) /\ Len(toSender') <= Len(toSender)
      BY <1>1, <2>1, PrefixSeq DEF Channels
    <3>2. /\ Len(toReceiver) \in Nat /\ Len(toReceiver') \in Nat
          /\ Len(toSender) \in Nat /\ Len(toSender') \in Nat
          /\ ChanCap \in Nat
      BY <1>1, <3>1, LenProperties, SessionAssumption DEF Channels
    <3> QED BY <1>1, <3>1, <3>2 DEF Channels
  <2> QED BY <2>1, <2>2, <2>3, NetworkScript
<1>5. CASE Corruption
  <2>1. UNCHANGED <<setup, sender, offset, receiver, buffer, conn, toSender>>
    BY <1>5 DEF Corruption, senderVars, receiverVars
  <2>2. Forward' /\ Backward'
    BY <1>1, <1>5, CorruptionHides
  <2>3. Channels(S, R)'
    <3>1. PICK k \in DOMAIN toReceiver :
            /\ toReceiver[k].kind = "DATA"
            /\ \E bytes \in [DOMAIN toReceiver[k].bytes -> Byte] :
                 toReceiver' = [toReceiver EXCEPT ![k].bytes = bytes]
      BY <1>5 DEF Corruption
    <3>2. PICK bytes : toReceiver' = [toReceiver EXCEPT ![k].bytes = bytes]
      BY <3>1
    <3>3. /\ toReceiver \in Seq(S) /\ k \in 1..Len(toReceiver)
          /\ Len(toReceiver) <= ChanCap
      BY <1>1, LenProperties DEF Channels
    <3>4. /\ toReceiver' \in Seq(FromSender)
          /\ Len(toReceiver') = Len(toReceiver)
      <4>1. toReceiver' \in Seq(FromSender)
        BY DEF InductiveInv, TypeOK
      <4>2. DOMAIN toReceiver' = DOMAIN toReceiver
        BY <3>2
      <4> QED BY <3>3, <4>1, <4>2, LenProperties
    <3>5. ASSUME NEW i \in 1..Len(toReceiver')
          PROVE  toReceiver'[i] \in S
      <4>1. toReceiver'[i] \in FromSender /\ toReceiver[i] \in S
        BY <3>3, <3>4, <3>5, ElementOfSeq
      <4>2. CASE i = k
        <5>1. toReceiver'[i] = [toReceiver[k] EXCEPT !.bytes = bytes]
          BY <3>2, <3>3, <4>2, LenProperties
        <5>2. PICK o \in 0..MaxBytes, b \in Body : toReceiver[k] = Data(o, b)
          BY <3>1, <4>1, <4>2
          DEF VersionedFromSender, FromSender, Hello, Meta, Data, Eof, Done
        <5>3. toReceiver'[i] = Data(o, bytes)
          BY <5>1, <5>2 DEF Data
        <5> QED BY <4>1, <5>3 DEF VersionedFromSender, Data
      <4>3. CASE i # k
        <5>1. toReceiver'[i] = toReceiver[i]
          BY <3>2, <3>3, <3>4, <4>3, LenProperties
        <5> QED BY <4>1, <5>1
      <4> QED BY <4>2, <4>3
    <3>6. toReceiver' \in Seq(S)
      <4>1. S \subseteq FromSender
        BY DEF VersionedFromSender
      <4> QED BY <3>4, <3>5, <4>1, SeqNarrow
    <3> QED BY <1>1, <2>1, <3>3, <3>4, <3>6 DEF Channels
  <2> QED BY <2>1, <2>2, <2>3, NetworkScript
<1> QED BY <1>2, <1>3, <1>4, <1>5

LEMMA InitScript == Init => Script
<1> SUFFICES ASSUME Init PROVE Script
  OBVIOUS
<1>1. /\ setup \in Setup /\ sender = SenderStart /\ receiver = ReceiverStart
      /\ offset = 0 /\ toSender = <<>> /\ toReceiver = <<>>
  BY DEF Init
<1>2. Size \in Nat
  BY InitInv, FactsHold DEF Facts
<1>3. /\ SenderWritten = 0 /\ ReceiverRead = 0
      /\ SenderRead = 0 /\ ReceiverWritten = 0
  BY <1>1 DEF SenderWritten, ReceiverRead, SenderRead, ReceiverWritten,
     SenderStart, ReceiverStart, Tcp
<1>4. Follows(<<>>, Size, 0, 0) /\ End(<<>>, Size, 0) = 0
  BY FollowsEmpty
<1>5. Len(<<>>) = 0
  BY EmptySeq
<1>6. Forward
  BY <1>1, <1>3, <1>4, <1>5 DEF Forward, Line
<1>7. Backward
  BY <1>1, <1>3, <1>4, <1>5 DEF Backward, Line
<1>8. VersionsKnown
  <2>1. Channels(VersionedFromSender, VersionedFromReceiver)
    BY <1>1, EmptyChannel DEF Channels
  <2>2. ~(SenderRead >= 1)
    BY <1>3
  <2> QED BY <1>1, <2>1, <2>2 DEF VersionsKnown, SenderStart, ReceiverStart
<1>9. Complete
  BY <1>1 DEF Complete, SenderStart, ReceiverStart
<1> QED BY <1>6, <1>7, <1>8, <1>9 DEF Script

(* The script is an invariant of the session. *)
THEOREM ScriptInductive == Spec => []Script
<1>1. Init => Script
  BY InitScript
<1>2. /\ InductiveInv /\ InductiveInv' /\ Consent
      /\ Script /\ [Next]_vars
      => Script'
  <2> SUFFICES ASSUME InductiveInv, InductiveInv', Consent, Script, [Next]_vars
               PROVE  Script'
    OBVIOUS
  <2>1. CASE SenderSession
    BY <2>1, SenderKeepsScript
  <2>2. CASE ReceiverSession
    BY <2>2, ReceiverKeepsScript
  <2>3. CASE SenderCrash \/ ReceiverCrash \/ ConnReset \/ Corruption
    BY <2>3, FaultKeepsScript
  <2>4. CASE Terminated \/ UNCHANGED vars
    <3>1. UNCHANGED vars
      BY <2>4 DEF Terminated
    <3>2. UNCHANGED <<setup, sender, receiver, offset, buffer, toSender, toReceiver, conn>>
      BY <3>1 DEF vars
    <3>3. Forward' /\ Backward'
      BY <3>2, SenderStands, ReceiverStands DEF Script, Forward, Backward
    <3> PICK S, R : S = VersionedFromSender /\ R = VersionedFromReceiver
      OBVIOUS
    <3>4. Channels(S, R)'
      BY <3>2 DEF Script, VersionsKnown, Channels
    <3> QED BY <3>2, <3>3, <3>4, NetworkScript
  <2> QED BY <2>1, <2>2, <2>3, <2>4 DEF Next
<1> QED BY <1>1, <1>2, SessionInductive, ConsentInductive, PTL DEF Spec

LEMMA AllRead == InductiveInv /\ Script => NothingUnread
<1> SUFFICES ASSUME InductiveInv, Script PROVE NothingUnread
  OBVIOUS
<1>1. Facts /\ Forward /\ Backward /\ VersionsKnown
  BY FactsHold DEF Script
<1>2. ASSUME sender \in {"sendMeta", "sendData", "sendDone", "finish"}
      PROVE  toSender = <<>>
  <2>1. sender \in SenderPoints
    BY <1>2 DEF SenderPoints
  <2>2. ~SenderFinds(Head(toSender))
    BY <1>2 DEF SenderFinds
  <2> QED BY <1>1, <2>1, <2>2, SenderFindings
<1>3. ASSUME receiver \in {"sendError", "mismatched", "prompt", "sendReady",
                           "sendDecline", "declined", "sendVerify", "badSum",
                           "createFile", "writeFile"}
      PROVE  toReceiver = <<>>
  <2>1. receiver \in ReceiverPoints
    BY <1>3 DEF ReceiverPoints
  <2>2. ~ReceiverFinds(Head(toReceiver))
    BY <1>3 DEF ReceiverFinds
  <2> QED BY <1>1, <2>1, <2>2, ReceiverFindings
<1> QED BY <1>2, <1>3 DEF NothingUnread

(* An end that is about to write or to return has read every frame sent to *)
(* it, for files of every length: the channel could only hold a message    *)
(* that needs an answer this end has not given yet.                        *)
THEOREM SessionNothingUnread == Spec => []NothingUnread
BY AllRead, SessionInductive, ScriptInductive, PTL

(* Neither end ever finds a message it does not expect, but the ERROR over *)
(* TCP that tells of another version, and EOF is read at the end of the    *)
(* file.                                                                   *)
THEOREM SessionScriptKept == Spec => []ScriptKept
<1>1. Script => ScriptKept
  BY DEF Script, VersionsKnown, Complete, ScriptKept, Differ, Tcp, Size
<1> QED BY <1>1, ScriptInductive, PTL

-----------------------------------------------------------------------------
(* Over QUIC, which authenticates what it carries, the receiver holds the  *)
(* beginning of the craft file.                                            *)
Sliced(m) ==
    m.kind = "DATA" =>
      \A i \in 1..Len(m.bytes) : m.bytes[i] = setup.bytes[m.offset + i]

Genuine ==
    ~Tcp =>
      /\ \A i \in 1..Len(buffer) : buffer[i] = setup.bytes[i]
      /\ \A i \in 1..Len(toReceiver) : Sliced(toReceiver[i])

LEMMA ChunkSliced ==
  ASSUME Core, offset < Size
  PROVE  Sliced(Data(offset, Chunk(setup.bytes, offset)))
<1>1. /\ setup.bytes \in Seq(Byte) /\ Len(setup.bytes) \in Nat /\ offset \in Nat
  BY SetupFacts, SizeAssumption DEF Core
<1> PICK b, o : b = setup.bytes /\ o = offset
  OBVIOUS
<1>2. PICK e \in Nat : e = ChunkEnd(b, o) /\ o < e /\ e <= Len(b)
  BY <1>1, SizeAssumption DEF ChunkEnd, Size
<1>3. \A i \in (o + 1)..e : b[i] \in Byte
  BY <1>1, <1>2, ElementOfSeq
<1>4. /\ Len(SubSeq(b, o + 1, e)) = e - (o + 1) + 1
      /\ \A i \in 1..(e - (o + 1) + 1) : SubSeq(b, o + 1, e)[i] = b[o + 1 + i - 1]
  BY <1>1, <1>2, <1>3, SubSeqProperties
<1>5. \A i \in 1..Len(SubSeq(b, o + 1, e)) : SubSeq(b, o + 1, e)[i] = b[o + i]
  BY <1>1, <1>2, <1>4
<1> QED BY <1>2, <1>5 DEF Sliced, Data, Chunk

LEMMA GenuineStep ==
  ASSUME InductiveInv, Script, Genuine, [Next]_vars
  PROVE  Genuine'
<1> DEFINE Whole(t) == \A i \in 1..Len(t) : Sliced(t[i])
           Begins(b) == \A i \in 1..Len(b) : b[i] = setup.bytes[i]
<1>0. /\ toReceiver \in Seq(FromSender)
      /\ setup' = setup
      /\ Core /\ Facts /\ Forward /\ VersionsKnown
  <2>1. setup' = setup
    BY DEF Next, vars, SenderSession, ReceiverSession, Terminated, SenderCrash,
       ReceiverCrash, ConnReset, Corruption,
       SenderSendHello, SenderRecvHello, SenderSendMeta, SenderRecvReady,
       SenderSendData, SenderSendEof, SenderRecvVerify, SenderSendDone,
       SenderFinish, SenderRecvFails,
       ReceiverSendHello, ReceiverRecvHello, ReceiverSendError,
       ReceiverRecvMeta, ReceiverPrompt, ReceiverPromptFails, ReceiverSendReady,
       ReceiverSendDecline, ReceiverRecvData, ReceiverSendVerify, ReceiverRecvDone,
       ReceiverCreateFile, ReceiverWriteFile, ReceiverRefuses, ReceiverRecvFails
  <2> QED BY <2>1, Halves, FactsHold DEF InductiveInv, TypeOK, Script
<1> SUFFICES ASSUME ~Tcp
             PROVE  Begins(buffer') /\ Whole(toReceiver')
  BY <1>0 DEF Genuine, Tcp, Sliced
<1>1. Begins(buffer) /\ Whole(toReceiver)
  BY DEF Genuine
<1>2. Whole(<<>>)
  BY EmptySeq
<1>3. ASSUME NEW p \in Prefixes(toReceiver)
      PROVE  Whole(p)
  BY <1>0, <1>1, PrefixElements
<1>4. ASSUME NEW u, NEW p \in Deliverable(toReceiver, u)
      PROVE  Whole(p)
  BY <1>0, <1>3, DeliverableElements
<1>5. ASSUME toReceiver # <<>>
      PROVE  Whole(Tail(toReceiver))
  BY <1>0, <1>1, <1>5, TailElements
<1>6. ASSUME NEW m \in FromSender, Sliced(m)
      PROVE  Whole(Append(toReceiver, m))
  <2>1. /\ Len(toReceiver) \in Nat /\ Len(Append(toReceiver, m)) = Len(toReceiver) + 1
        /\ Append(toReceiver, m)[Len(toReceiver) + 1] = m
        /\ \A i \in 1..Len(toReceiver) : Append(toReceiver, m)[i] = toReceiver[i]
    BY <1>0, AppendElements
  <2>2. ASSUME NEW i \in 1..Len(Append(toReceiver, m))
        PROVE  i \in 1..Len(toReceiver) \/ i = Len(toReceiver) + 1
    BY <2>1
  <2> QED BY <1>1, <1>6, <2>1, <2>2
<1> HIDE DEF Whole, Begins
<1>7. ASSUME NEW result, NEW u, SenderReturns(result, u)
      PROVE  Whole(toReceiver')
  BY <1>4, <1>7 DEF SenderReturns
<1>8. ASSUME NEW m \in FromSender, Sliced(m), NEW next, SenderSends(m, next)
      PROVE  Whole(toReceiver')
  BY <1>1, <1>6, <1>7, <1>8 DEF SenderSends
<1>9. ASSUME NEW next, SenderGoesOn(next)
      PROVE  Whole(toReceiver')
  BY <1>1, <1>9 DEF SenderGoesOn
<1>10. ASSUME NEW result, NEW u, ReceiverReturns(result, u)
       PROVE  Whole(toReceiver')
  BY <1>2, <1>10 DEF ReceiverReturns
<1>11. ASSUME NEW m, NEW next, ReceiverSends(m, next)
       PROVE  Whole(toReceiver')
  BY <1>1, <1>10, <1>11 DEF ReceiverSends
<1>12. ASSUME toReceiver # <<>>, NEW next, ReceiverGoesOn(next)
       PROVE  Whole(toReceiver')
  BY <1>5, <1>12 DEF ReceiverGoesOn
<1>13. CASE SenderSession
  <2>1. buffer' = buffer
    BY <1>13 DEF SenderSession, SenderSendHello, SenderRecvHello, SenderSendMeta,
       SenderRecvReady, SenderSendData, SenderSendEof, SenderRecvVerify,
       SenderSendDone, SenderFinish, SenderRecvFails, receiverVars
  <2>2. CASE SenderSendData
    <3>1. offset < Size /\ offset \in Nat /\ offset <= MaxBytes
      BY <1>0, <2>2, SizeAssumption DEF SenderSendData, Size, Core
    <3>2. Sliced(Data(offset, Chunk(setup.bytes, offset)))
      BY <1>0, <3>1, ChunkSliced
    <3>3. Data(offset, Chunk(setup.bytes, offset)) \in FromSender
      <4>1. Chunk(setup.bytes, offset) \in Body
        BY <1>0, <3>1, SetupFacts, ChunkWithin DEF Size
      <4> QED BY <3>1, <4>1, SizeAssumption DEF FromSender
    <3> QED BY <1>1, <1>8, <2>1, <2>2, <3>2, <3>3 DEF SenderSendData
  <2>3. CASE SenderSendHello \/ SenderSendMeta \/ SenderSendEof \/ SenderSendDone
    <3>1. ASSUME NEW m \in FromSender, m.kind # "DATA", NEW next, SenderSends(m, next)
          PROVE  Whole(toReceiver')
      BY <1>8, <3>1 DEF Sliced
    <3>2. /\ Hello(setup.sver) \in FromSender /\ Hello(setup.sver).kind # "DATA"
          /\ Meta(MetadataOf(setup.bytes)) \in FromSender
          /\ Meta(MetadataOf(setup.bytes)).kind # "DATA"
          /\ Eof \in FromSender /\ Eof.kind # "DATA"
          /\ Done \in FromSender /\ Done.kind # "DATA"
      BY <1>0, SetupFacts DEF FromSender, Hello, Meta, Eof, Done
    <3> QED BY <1>1, <2>1, <2>3, <3>1, <3>2
            DEF SenderSendHello, SenderSendMeta, SenderSendEof, SenderSendDone
  <2>4. CASE SenderRecvHello \/ SenderRecvReady \/ SenderRecvVerify \/ SenderFinish \/ SenderRecvFails
    BY <1>1, <1>7, <1>9, <2>1, <2>4
       DEF SenderRecvHello, SenderRecvReady, SenderRecvVerify, SenderFinish, SenderRecvFails
  <2> QED BY <1>13, <2>2, <2>3, <2>4 DEF SenderSession
<1>14. CASE ReceiverSession
  <2>1. CASE ReceiverRecvData
    <3>1. receiver = "recvData" /\ toReceiver # <<>>
      BY <2>1 DEF ReceiverRecvData
    <3>2. PICK m : m = Head(toReceiver)
      OBVIOUS
    <3>3. Sliced(m)
      BY <1>0, <1>1, <3>1, <3>2, TailElements DEF Whole
    <3>4. CASE ReceiverGoesOn("recvData") /\ buffer' = buffer \o m.bytes /\ m.kind = "DATA" /\ InOrder(m)
      <4>1. m.bytes \in Body
        <5>1. m \in FromSender
          BY <1>0, <3>1, <3>2, TailElements
        <5> QED BY <3>4, <5>1 DEF FromSender, Hello, Meta, Data, Eof, Done
      <4>2. PICK b \in Seq(Byte) : b = buffer
        BY <1>0, BodyIsSeq DEF Core
      <4>3. PICK c \in Seq(Byte) : c = m.bytes
        BY <4>1, BodyIsSeq
      <4>4. /\ Len(b) \in Nat /\ Len(c) \in Nat /\ Len(b \o c) = Len(b) + Len(c)
            /\ \A i \in 1..(Len(b) + Len(c)) :
                 (b \o c)[i] = IF i <= Len(b) THEN b[i] ELSE c[i - Len(b)]
        BY ConcatProperties, LenProperties
      <4>5. m.offset = Len(b)
        BY <3>4, <4>2 DEF InOrder
      <4>6. \A i \in 1..Len(c) : c[i] = setup.bytes[Len(b) + i]
        BY <3>3, <3>4, <4>3, <4>5 DEF Sliced
      <4>7. \A i \in 1..Len(b) : b[i] = setup.bytes[i]
        BY <1>1, <4>2 DEF Begins
      <4>8. ASSUME NEW i \in 1..Len(b \o c)
            PROVE  (b \o c)[i] = setup.bytes[i]
        <5>1. CASE i <= Len(b)
          BY <4>4, <4>7, <5>1
        <5>2. CASE i > Len(b)
          <6>1. i - Len(b) \in 1..Len(c) /\ Len(b) + (i - Len(b)) = i
            BY <4>4, <5>2
          <6>2. (b \o c)[i] = c[i - Len(b)]
            BY <4>4, <5>2
          <6>3. c[i - Len(b)] = setup.bytes[Len(b) + (i - Len(b))]
            BY <4>6, <6>1
          <6> QED BY <6>1, <6>2, <6>3
        <5> QED BY <4>4, <5>1, <5>2
      <4>9. Begins(b \o c)
        BY <4>8 DEF Begins
      <4> QED BY <1>12, <3>1, <3>4, <4>2, <4>3, <4>9
    <3>5. CASE buffer' = buffer /\ Whole(toReceiver')
      BY <1>1, <3>5
    <3>6. \/ ReceiverGoesOn("recvData") /\ buffer' = buffer \o m.bytes /\ m.kind = "DATA" /\ InOrder(m)
          \/ buffer' = buffer /\ Whole(toReceiver')
      <4>1. \/ ReceiverGoesOn("recvData") /\ buffer' = buffer \o m.bytes /\ m.kind = "DATA" /\ InOrder(m)
            \/ ReceiverGoesOn("sendVerify") /\ buffer' = buffer
            \/ ReceiverReturns("Unexpected", Tail(toReceiver)) /\ buffer' = buffer
        BY <2>1, <3>2 DEF ReceiverRecvData
      <4> QED BY <1>10, <1>12, <3>1, <4>1
    <3> QED BY <3>4, <3>5, <3>6
  <2>2. ASSUME ReceiverSession, ~ReceiverRecvData
        PROVE  buffer' = buffer
    BY <2>2 DEF ReceiverSession, ReceiverSendHello, ReceiverRecvHello, ReceiverSendError,
       ReceiverRecvMeta, ReceiverPrompt, ReceiverPromptFails, ReceiverSendReady,
       ReceiverSendDecline, ReceiverSendVerify, ReceiverRecvDone,
       ReceiverCreateFile, ReceiverWriteFile, ReceiverRefuses, ReceiverRecvFails
  <2>3. CASE ReceiverSendHello \/ ReceiverSendError \/ ReceiverSendReady
             \/ ReceiverSendDecline \/ ReceiverSendVerify
    BY <1>1, <1>11, <2>3 DEF ReceiverSendHello, ReceiverSendError, ReceiverSendReady,
       ReceiverSendDecline, ReceiverSendVerify
  <2>4. CASE ReceiverRecvHello \/ ReceiverRecvMeta \/ ReceiverRecvDone
    BY <1>1, <1>10, <1>12, <2>4 DEF ReceiverRecvHello, ReceiverRecvMeta, ReceiverRecvDone
  <2>5. CASE ReceiverPrompt \/ ReceiverPromptFails \/ ReceiverCreateFile
             \/ ReceiverWriteFile \/ ReceiverRefuses \/ ReceiverRecvFails
    BY <1>1, <1>10, <2>5 DEF ReceiverPrompt, ReceiverPromptFails, ReceiverCreateFile,
       ReceiverWriteFile, ReceiverRefuses, ReceiverRecvFails
  <2>6. CASE ~ReceiverRecvData
    BY <1>1, <1>14, <2>2, <2>3, <2>4, <2>5, <2>6 DEF ReceiverSession
  <2> QED BY <2>1, <2>6
<1>15. CASE SenderCrash
  BY <1>1, <1>7, <1>15 DEF SenderCrash, receiverVars
<1>16. CASE ReceiverCrash
  BY <1>1, <1>10, <1>16 DEF ReceiverCrash
<1>17. CASE ConnReset
  BY <1>1, <1>3, <1>17 DEF ConnReset, receiverVars
<1>18. CASE Corruption
  BY <1>18 DEF Corruption, Tcp
<1>19. CASE UNCHANGED vars \/ Terminated
  BY <1>1, <1>19 DEF Terminated, vars
<1> QED BY <1>13, <1>14, <1>15, <1>16, <1>17, <1>18, <1>19 DEF Next

THEOREM GenuineInductive == Spec => []Genuine
<1>1. Init => Genuine
  BY EmptySeq DEF Init, Genuine
<1>2. InductiveInv /\ Script /\ Genuine /\ [Next]_vars => Genuine'
  BY GenuineStep
<1> QED BY <1>1, <1>2, SessionInductive, ScriptInductive, PTL DEF Spec

-----------------------------------------------------------------------------
(* How the two ends stand to each other when neither crash nor network     *)
(* disturbs them: where the receiver can be once the sender has returned,  *)
(* and the sender once the receiver has given its last word.               *)
SavePoints == {"createFile", "writeFile", "Ok", "DiskError", "KspNotFound"}

SenderSettled ==
    /\ sender \in {"finish", "Ok"} =>
         \/ receiver \in SavePoints
         \/ receiver = "recvDone" /\ toReceiver # <<>>
    /\ sender = "PeerRejected" => receiver \in {"declined", "PeerRejected"}
    /\ sender = "VersionMismatch" =>
         ~Tcp /\ receiver \in {"recvHello", "ConnLost"} /\ toReceiver = <<>>
    /\ sender = "ChecksumMismatch" => receiver \in {"badSum", "ChecksumMismatch"}
    /\ sender = "Unexpected" => receiver \in {"mismatched", "VersionMismatch"}
    /\ sender = "ConnLost" =>
         receiver = "PromptError" \/ (~Tcp /\ receiver = "PeerRejected")

(* The sender waits for the last word, or has read it. *)
Hears(point, result) == (sender = point /\ toSender # <<>>) \/ sender = result

ReceiverSettled ==
    /\ receiver \in {"mismatched", "VersionMismatch"} =>
         Differ /\ Hears("recvHello", "Unexpected")
    /\ receiver \in {"badSum", "ChecksumMismatch"} =>
         Tcp /\ Hears("recvVerify", "ChecksumMismatch")
    /\ receiver \in {"declined", "PeerRejected"} =>
         \/ Hears("recvReady", "PeerRejected")
         \/ ~Tcp /\ receiver = "PeerRejected" /\ sender \in {"recvReady", "ConnLost"}
    /\ receiver = "PromptError" =>
         sender = "ConnLost" \/ (sender = "recvReady" /\ toSender = <<>>)
    /\ receiver = "ConnLost" => sender = "VersionMismatch"

(* What the receiver may have said, at the point where it is. *)
Said(m) ==
    /\ m = ErrorMsg => receiver \in {"mismatched", "VersionMismatch"}
    /\ m = Ready(FALSE) => receiver \in {"declined", "PeerRejected"}
    /\ m = Ready(TRUE) => receiver \notin NotAgreed
    /\ m = Verify(FALSE) => receiver \in {"badSum", "ChecksumMismatch"}
    /\ m = Verify(TRUE) => receiver \notin {"badSum", "ChecksumMismatch"}
    /\ m.kind = "HELLO" /\ Tcp => setup.sver = setup.rver

AllSaid == \A i \in 1..Len(toSender) : Said(toSender[i])

(* Over TCP the receiver answers only a HELLO of its own version. *)
Greeting == receiver = "sendHello" /\ Tcp => setup.sver = setup.rver

Settled ==
    Undisturbed =>
      /\ SenderSettled
      /\ ReceiverSettled
      /\ AllSaid
      /\ Greeting

(* All that is known of an undisturbed session. *)
Quiet ==
    /\ InductiveInv /\ Core /\ Facts /\ Forward /\ Backward /\ VersionsKnown /\ Complete
    /\ NothingUnread /\ InFlight /\ Genuine
    /\ Undisturbed
    /\ SenderSettled /\ ReceiverSettled
    /\ AllSaid /\ Greeting

LEMMA QuietHolds ==
  ASSUME InductiveInv, Script, Genuine, Settled, Undisturbed
  PROVE  Quiet
BY FactsHold, AllRead, Halves DEF Quiet, Script, Settled, InductiveInv

(* While both run, neither has read what the other has not written.        *)
LEMMA Abreast ==
  ASSUME Forward, Backward, sender \in SenderPoints, receiver \in ReceiverPoints
  PROVE  ReceiverRead <= SenderWritten /\ SenderRead <= ReceiverWritten
BY DEF Forward, Backward, Line

LEMMA Meets ==
  ASSUME Quiet, sender \in SenderPoints, receiver \in ReceiverPoints
  PROVE  /\ receiver \in {"prompt", "sendReady", "sendDecline", "declined"} => sender = "recvReady"
         /\ receiver \in {"sendError", "mismatched"} => sender = "recvHello"
         /\ receiver \in {"sendVerify", "badSum"} => sender = "recvVerify"
<1>1. /\ ReceiverRead <= SenderWritten /\ SenderRead <= ReceiverWritten
      /\ Size \in Nat /\ offset \in Nat /\ offset <= Size
  BY Abreast DEF Quiet, Facts
<1>2. ASSUME receiver \in {"prompt", "sendReady", "sendDecline", "declined"}
      PROVE  sender = "recvReady"
  <2>1. ReceiverRead = 2 /\ ReceiverWritten = 1
    BY <1>2 DEF ReceiverRead, ReceiverWritten
  <2>2. sender \notin {"sendHello", "recvHello", "sendMeta"}
    BY <1>1, <2>1 DEF SenderWritten
  <2>3. sender \notin {"sendData", "recvVerify", "sendDone", "finish"}
    BY <1>1, <2>1 DEF SenderRead
  <2> QED BY <2>2, <2>3 DEF SenderPoints
<1>3. ASSUME receiver \in {"sendError", "mismatched"}
      PROVE  sender = "recvHello"
  <2>1. ReceiverRead = 1 /\ ReceiverWritten = 0 /\ Tcp
    BY <1>3 DEF ReceiverRead, ReceiverWritten, Quiet, VersionsKnown, Differ
  <2>2. sender # "sendHello"
    BY <1>1, <2>1 DEF SenderWritten
  <2>3. sender \in {"sendHello", "recvHello"}
    BY <1>1, <2>1 DEF SenderRead, SenderPoints
  <2> QED BY <2>2, <2>3
<1>4. ASSUME receiver \in {"sendVerify", "badSum"}
      PROVE  sender = "recvVerify"
  <2>1. ReceiverRead = 3 + Size /\ ReceiverWritten = 2
    BY <1>4 DEF ReceiverRead, ReceiverWritten
  <2>2. sender \notin {"sendHello", "recvHello", "sendMeta", "recvReady", "sendData"}
    <3>1. Size \in Nat /\ 3 + Size <= SenderWritten
      BY <1>1, <2>1
    <3> QED BY <1>1, <3>1 DEF SenderWritten
  <2>3. sender \notin {"sendDone", "finish"}
    BY <1>1, <2>1 DEF SenderRead
  <2> QED BY <2>2, <2>3 DEF SenderPoints
<1> QED BY <1>2, <1>3, <1>4

(* Who has returned, and who has not.                                      *)
LEMMA SenderThere ==
  ASSUME Quiet, receiver \in ReceiverPoints,
         receiver \notin {"recvDone", "createFile", "writeFile", "declined", "badSum",
                          "mismatched"},
         receiver = "recvHello" => toReceiver # <<>> \/ Tcp
  PROVE  sender \in SenderPoints \ {"finish"}
BY DEF Quiet, SenderSettled, Undisturbed, SavePoints, ReceiverPoints, Core,
   SenderPoints, SenderResults

LEMMA ReceiverThere ==
  ASSUME Quiet, sender \in {"sendHello", "sendMeta", "sendData", "sendDone"}
  PROVE  receiver \in ReceiverPoints \ {"mismatched", "badSum", "declined"}
BY DEF Quiet, ReceiverSettled, Hears, Undisturbed, ReceiverResults, ReceiverPoints,
   Core, SavedMeansSent, HasSent, Complete

(* What was said stays true while the receiver stays where it is.          *)
LEMMA SaidStands ==
  ASSUME Facts, AllSaid, UNCHANGED <<setup, receiver>>,
         toSender' \in {<<>>, toSender} \/ (toSender # <<>> /\ toSender' = Tail(toSender))
  PROVE  AllSaid'
<1>1. \A m : Said(m) => Said(m)'
  BY DEF Said, Tcp
<1> SUFFICES ASSUME NEW i \in 1..Len(toSender') PROVE Said(toSender'[i])
  BY <1>1 DEF AllSaid
<1>2. CASE toSender' = <<>>
  BY <1>2, EmptySeq
<1>3. CASE toSender' = toSender
  BY <1>3 DEF AllSaid
<1>4. CASE toSender # <<>> /\ toSender' = Tail(toSender)
  BY <1>4, TailElements DEF AllSaid, Facts
<1> QED BY <1>2, <1>3, <1>4

(* The first message on its way to the sender. *)
LEMMA FirstSaid ==
  ASSUME Quiet, sender \in SenderPoints, toSender # <<>>
  PROVE  Said(Head(toSender)) /\ SenderFinds(Head(toSender))
BY SenderFindings, TailElements DEF Quiet, Facts, AllSaid

(* The sender sends while the receiver is there.                           *)
LEMMA SenderSendsSettled ==
  ASSUME Quiet, sender \in {"sendHello", "sendMeta", "sendData", "sendDone"},
         NEW m \in FromSender, NEW next \in SenderPoints, SenderSends(m, next),
         next = "finish" => sender = "sendDone",
         UNCHANGED <<setup, receiver, buffer, conn>>
  PROVE  SenderSettled' /\ ReceiverSettled'
<1>1. receiver \in ReceiverPoints \ {"mismatched", "badSum", "declined"}
  BY ReceiverThere
<1>2. ~SenderBroken
  BY <1>1, ResultsReturned DEF SenderBroken, Quiet, Undisturbed
<1>3. sender' = next /\ toReceiver' = Append(toReceiver, m)
  BY <1>2 DEF SenderSends
<1>4. ReceiverSettled'
  BY <1>1 DEF ReceiverSettled, ReceiverPoints
<1>5. next = "finish" => receiver \in SavePoints \/ receiver = "recvDone"
  BY <1>1 DEF Quiet, Core, Verified, SavePoints, ReceiverPoints, ReceiverResults
<1>6. toReceiver' # <<>>
  BY <1>3, AppendProperties DEF Quiet, Facts
<1>7. SenderSettled'
  BY <1>3, <1>5, <1>6 DEF SenderSettled, SenderPoints, SavePoints
<1> QED BY <1>4, <1>7

(* The sender reads the message it goes on with.                           *)
LEMMA SenderGoesOnSettled ==
  ASSUME Quiet, sender \in {"recvHello", "recvReady", "recvVerify"}, toSender # <<>>,
         NEW next \in SenderPoints \ {"finish"}, SenderGoesOn(next),
         \/ sender = "recvHello" /\ Head(toSender) = Hello(setup.sver)
         \/ sender = "recvReady" /\ Head(toSender) = Ready(TRUE)
         \/ sender = "recvVerify" /\ Head(toSender) = Verify(TRUE),
         UNCHANGED <<setup, receiver, buffer, conn>>
  PROVE  SenderSettled' /\ ReceiverSettled'
<1> PICK m : m = Head(toSender)
  OBVIOUS
<1>1. Said(m) /\ SenderFinds(m)
  BY FirstSaid DEF SenderPoints
<1>2. sender' = next
  BY DEF SenderGoesOn
<1>3. sender \notin SenderResults
  BY DEF SenderResults
<1>4. receiver \notin {"mismatched", "VersionMismatch"}
  <2>1. Hello(setup.rver).version = setup.rver /\ Hello(setup.sver).version = setup.sver
    BY DEF Hello
  <2>2. sender = "recvHello" => m # ErrorMsg
    BY DEF Hello, ErrorMsg
  <2>3. sender = "recvHello" => ~Differ
    BY <1>1, <2>1, <2>2 DEF SenderFinds, Differ
  <2> QED BY <1>3, <2>3 DEF Quiet, ReceiverSettled, Hears, SenderResults
<1>5. receiver \notin {"badSum", "ChecksumMismatch"}
  BY <1>1, <1>3 DEF Quiet, ReceiverSettled, Hears, Said, SenderResults
<1>6. receiver \notin {"declined", "PeerRejected"}
  BY <1>1, <1>3 DEF Quiet, ReceiverSettled, Hears, Said, SenderResults, NotAgreed
<1>7. receiver \notin {"PromptError", "ConnLost"}
  BY <1>3 DEF Quiet, ReceiverSettled, SenderResults
<1>8. ReceiverSettled'
  BY <1>4, <1>5, <1>6, <1>7 DEF ReceiverSettled
<1>9. SenderSettled'
  BY <1>2 DEF SenderSettled, SenderPoints
<1> QED BY <1>8, <1>9

(* What the sender returns with, and where it leaves the receiver.         *)
EndsWith(result) ==
    \/ /\ result = "VersionMismatch"
       /\ ~Tcp /\ receiver \in {"recvHello", "ConnLost"} /\ toReceiver = <<>>
    \/ /\ result = "Unexpected"
       /\ Differ /\ receiver \in {"mismatched", "VersionMismatch"}
    \/ result = "PeerRejected" /\ receiver \in {"declined", "PeerRejected"}
    \/ /\ result = "ChecksumMismatch"
       /\ Tcp /\ receiver \in {"badSum", "ChecksumMismatch"}
    \/ /\ result = "Ok" /\ sender = "finish"
       /\ toReceiver' = toReceiver \/ receiver # "recvDone"
    \/ /\ result = "ConnLost"
       /\ receiver = "PromptError" \/ (~Tcp /\ receiver = "PeerRejected")

LEMMA SenderEnds ==
  ASSUME Quiet, sender \in SenderPoints, NEW result, NEW u, SenderReturns(result, u),
         result \in SenderResults \ {"Crashed", "CrashedSent"},
         UNCHANGED <<setup, receiver, buffer, conn>>,
         EndsWith(result)
  PROVE  SenderSettled' /\ ReceiverSettled'
<1>1. sender' = result /\ toReceiver' \in Prefixes(toReceiver)
  BY DeliverableElements DEF SenderReturns, Quiet, Facts
<1>2. toReceiver = <<>> => toReceiver' = <<>>
  <2>1. \A s \in Seq(FromSender) : s # <<>> => Len(s) # 0
    BY EmptySeq
  <2>2. /\ toReceiver' \in Seq(FromSender)
        /\ Len(toReceiver') <= Len(toReceiver) /\ Len(toReceiver') \in Nat
    BY <1>1, PrefixElements DEF Quiet, Facts
  <2> QED BY <2>1, <2>2, EmptySeq
<1>3. Tcp' = Tcp /\ Differ' = Differ
  BY DEF Tcp, Differ
<1>4. result = "Ok" => receiver \in SavePoints \/ (receiver = "recvDone" /\ toReceiver # <<>>)
  BY DEF Quiet, SenderSettled, EndsWith
<1>5. SenderSettled'
  BY <1>1, <1>2, <1>3, <1>4 DEF SenderSettled, SavePoints, SenderResults, EndsWith
<1>6. ReceiverSettled'
  BY <1>1, <1>3, <1>4 DEF EndsWith, ReceiverSettled, Hears, SavePoints, SenderResults
<1> QED BY <1>5, <1>6

(* Over QUIC, a HELLO of another version finds the receiver waiting for    *)
(* the answer.                                                             *)
LEMMA VersionsDisagree ==
  ASSUME Quiet, sender = "recvHello", toSender # <<>>,
         Head(toSender) # Hello(setup.sver), Head(toSender).kind = "HELLO"
  PROVE  ~Tcp /\ receiver = "recvHello" /\ toReceiver = <<>>
<1> PICK m : m = Head(toSender)
  OBVIOUS
<1>0. /\ Facts /\ sender \in SenderPoints
      /\ Backward /\ Forward
  BY DEF Quiet, SenderPoints
<1>1. Said(m) /\ SenderFinds(m)
  BY <1>0, FirstSaid
<1>2. m = Hello(setup.rver) /\ setup.sver # setup.rver
  BY <1>1 DEF SenderFinds, ErrorMsg
<1>3. ~Tcp
  BY <1>1, <1>2 DEF Said
<1>4. 1 <= ReceiverWritten
  <2>1. After(m, Size) = 1
    BY <1>2 DEF After, Hello
  <2>2. After(m, Size) <= ReceiverWritten
    BY <1>0, LineRead DEF Backward, Facts
  <2> QED BY <2>1, <2>2
<1>5. SenderWritten = 0
  BY <1>3 DEF SenderWritten
<1>6. receiver \in ReceiverPoints
  BY <1>0, <1>3 DEF Quiet, Facts, ReceiverSettled, Hears, Differ, Undisturbed, ReceiverResults,
     Core, SavedMeansSent, HasSent, Complete
<1>7. ReceiverRead = 0
  <2>1. ReceiverRead <= SenderWritten
    BY <1>0, <1>6, Abreast
  <2> QED BY <1>5, <2>1 DEF Quiet, Facts
<1>8. receiver \in {"recvHello", "sendHello"}
  <2>1. Size \in Nat /\ Len(buffer) \in Nat
    BY <1>0 DEF Facts
  <2> QED BY <1>6, <1>7, <2>1 DEF ReceiverRead, ReceiverPoints
<1>9. receiver = "recvHello"
  BY <1>4, <1>8 DEF ReceiverWritten
<1>10. toReceiver = <<>>
  <2> SUFFICES ASSUME toReceiver # <<>> PROVE FALSE
    OBVIOUS
  <2>1. After(Head(toReceiver), Size) <= 0
    BY <1>0, <1>5, <1>6, <1>7, LineRead DEF Forward, Facts
  <2>2. Head(toReceiver) = Hello(setup.sver)
    BY <1>0, <1>6, <1>9, ReceiverFindings DEF Quiet, ReceiverFinds
  <2> QED BY <2>1, <2>2 DEF After, Hello
<1> QED BY <1>3, <1>9, <1>10

(* The steps of the sender.                                                *)
LEMMA SenderStepSettled ==
  ASSUME Quiet, SenderSession
  PROVE  SenderSettled' /\ ReceiverSettled' /\ AllSaid' /\ Greeting'
<1>0. /\ Facts /\ Core /\ NothingUnread
      /\ UNCHANGED <<setup, receiver, buffer, conn>>
  BY DEF Quiet, receiverVars, SenderSession, SenderSendHello, SenderRecvHello,
     SenderSendMeta, SenderRecvReady, SenderSendData, SenderSendEof,
     SenderRecvVerify, SenderSendDone, SenderFinish, SenderRecvFails
<1>1. AllSaid'
  <2>1. \/ toSender' \in {<<>>, toSender}
        \/ toSender # <<>> /\ toSender' = Tail(toSender)
    BY DEF SenderSends, SenderGoesOn, SenderReturns, SenderSession, SenderSendHello,
       SenderRecvHello, SenderSendMeta, SenderRecvReady, SenderSendData, SenderSendEof,
       SenderRecvVerify, SenderSendDone, SenderFinish, SenderRecvFails
  <2> QED BY <1>0, <2>1, SaidStands DEF Quiet
<1>2. Greeting'
  BY <1>0 DEF Quiet, Greeting, Tcp
<1> SUFFICES SenderSettled' /\ ReceiverSettled'
  BY <1>1, <1>2
<1>3. CASE SenderSendHello \/ SenderSendMeta \/ SenderSendData \/ SenderSendEof \/ SenderSendDone
  <2>1. /\ Hello(setup.sver) \in FromSender
        /\ Meta(MetadataOf(setup.bytes)) \in FromSender
        /\ Eof \in FromSender /\ Done \in FromSender
    BY <1>0, SetupFacts DEF FromSender
  <2>2. offset < Size => Data(offset, Chunk(setup.bytes, offset)) \in FromSender
    <3> SUFFICES ASSUME offset < Size
                 PROVE  Data(offset, Chunk(setup.bytes, offset)) \in FromSender
      OBVIOUS
    <3>1. Chunk(setup.bytes, offset) \in Body
      BY <1>0, SetupFacts, ChunkWithin DEF Size, Core
    <3> QED BY <1>0, <3>1 DEF FromSender, Core
  <2>3. /\ {SenderHelloSent, "recvReady", "sendData", "recvVerify", "finish"} \subseteq SenderPoints
        /\ SenderHelloSent # "finish"
    BY DEF SenderHelloSent, SenderPoints
  <2>4. CASE SenderSendHello
    BY <1>0, <2>1, <2>3, <2>4, SenderSendsSettled DEF SenderSendHello
  <2>5. CASE SenderSendMeta
    BY <1>0, <2>1, <2>3, <2>5, SenderSendsSettled DEF SenderSendMeta
  <2>6. CASE SenderSendData
    BY <1>0, <2>2, <2>3, <2>6, SenderSendsSettled DEF SenderSendData, Size
  <2>7. CASE SenderSendEof
    BY <1>0, <2>1, <2>3, <2>7, SenderSendsSettled DEF SenderSendEof
  <2>8. CASE SenderSendDone
    BY <1>0, <2>1, <2>3, <2>8, SenderSendsSettled DEF SenderSendDone
  <2> QED BY <1>1, <1>2, <1>3, <2>4, <2>5, <2>6, <2>7, <2>8
<1>4. CASE SenderRecvHello \/ SenderRecvReady \/ SenderRecvVerify
  <2>1. sender \in {"recvHello", "recvReady", "recvVerify"} /\ toSender # <<>>
    BY <1>4 DEF SenderRecvHello, SenderRecvReady, SenderRecvVerify
  <2>2. sender \in SenderPoints /\ sender # "finish"
    BY <2>1 DEF SenderPoints
  <2>3. PICK m : m = Head(toSender)
    OBVIOUS
  <2>4. Said(m) /\ SenderFinds(m)
    BY <2>1, <2>2, <2>3, FirstSaid
  <2>5. {SenderHelloRead, "sendData", "sendDone"} \subseteq SenderPoints \ {"finish"}
    BY DEF SenderHelloRead, SenderPoints
  <2>6. {"VersionMismatch", "PeerRejected", "ChecksumMismatch", "Unexpected"}
          \subseteq SenderResults \ {"Crashed", "CrashedSent"}
    BY DEF SenderResults
  <2>7. ASSUME NEW next \in SenderPoints \ {"finish"}, SenderGoesOn(next),
               \/ sender = "recvHello" /\ m = Hello(setup.sver)
               \/ sender = "recvReady" /\ m = Ready(TRUE)
               \/ sender = "recvVerify" /\ m = Verify(TRUE)
        PROVE  SenderSettled' /\ ReceiverSettled'
    BY <1>0, <2>1, <2>3, <2>7, SenderGoesOnSettled
  <2>8. ASSUME NEW result \in SenderResults \ {"Crashed", "CrashedSent"},
               NEW u, SenderReturns(result, u), EndsWith(result)
        PROVE  SenderSettled' /\ ReceiverSettled'
    BY <1>0, <2>2, <2>8, SenderEnds
  <2>9. CASE SenderRecvHello
    <3>1. sender = "recvHello"
      BY <2>9 DEF SenderRecvHello
    <3>2. CASE m = Hello(setup.sver)
      BY <2>3, <2>5, <2>7, <2>9, <3>1, <3>2 DEF SenderRecvHello
    <3>3. CASE m # Hello(setup.sver) /\ m.kind = "HELLO"
      <4>1. SenderReturns("VersionMismatch", Tail(toSender))
        BY <2>3, <2>9, <3>3 DEF SenderRecvHello
      <4>2. EndsWith("VersionMismatch")
        BY <2>1, <2>3, <3>1, <3>3, VersionsDisagree DEF EndsWith
      <4> QED BY <2>6, <2>8, <4>1, <4>2
    <3>4. CASE m.kind # "HELLO"
      <4>1. SenderReturns("Unexpected", Tail(toSender))
        BY <2>3, <2>9, <3>4 DEF SenderRecvHello, Hello
      <4>2. m = ErrorMsg /\ Differ
        BY <2>4, <3>1, <3>4 DEF SenderFinds, Hello
      <4>3. EndsWith("Unexpected")
        BY <2>4, <4>2 DEF EndsWith, Said
      <4> QED BY <2>6, <2>8, <4>1, <4>3
    <3> QED BY <3>2, <3>3, <3>4
  <2>10. CASE SenderRecvReady
    <3>1. sender = "recvReady"
      BY <2>10 DEF SenderRecvReady
    <3>2. CASE m = Ready(TRUE)
      <4>1. SenderGoesOn("sendData")
        BY <2>3, <2>10, <3>2 DEF SenderRecvReady, Ready
      <4>2. "sendData" \in SenderPoints \ {"finish"}
        BY <2>5
      <4> QED BY <2>7, <3>1, <3>2, <4>1, <4>2, Zenon
    <3>3. CASE m = Ready(FALSE)
      <4>1. SenderReturns("PeerRejected", Tail(toSender))
        BY <2>3, <2>10, <3>3 DEF SenderRecvReady, Ready
      <4>2. EndsWith("PeerRejected")
        BY <2>4, <3>3 DEF EndsWith, Said
      <4> QED BY <2>6, <2>8, <4>1, <4>2
    <3> QED BY <2>4, <3>1, <3>2, <3>3 DEF SenderFinds
  <2>11. CASE SenderRecvVerify
    <3>1. sender = "recvVerify"
      BY <2>11 DEF SenderRecvVerify
    <3>2. CASE m = Verify(TRUE)
      <4>1. SenderGoesOn("sendDone")
        BY <2>3, <2>11, <3>2 DEF SenderRecvVerify, Verify
      <4>2. "sendDone" \in SenderPoints \ {"finish"}
        BY <2>5
      <4> QED BY <2>7, <3>1, <3>2, <4>1, <4>2, Zenon
    <3>3. CASE m = Verify(FALSE)
      <4>1. SenderReturns("ChecksumMismatch", Tail(toSender))
        BY <2>3, <2>11, <3>3 DEF SenderRecvVerify, Verify
      <4>2. receiver \in {"badSum", "ChecksumMismatch"}
        BY <2>4, <3>3 DEF Said
      <4>3. EndsWith("ChecksumMismatch")
        BY <4>2 DEF EndsWith, Quiet, ReceiverSettled
      <4> QED BY <2>6, <2>8, <4>1, <4>3
    <3> QED BY <2>4, <3>1, <3>2, <3>3 DEF SenderFinds
  <2> QED BY <1>1, <1>2, <1>4, <2>9, <2>10, <2>11
<1>5. CASE SenderFinish
  <2>1. sender = "finish" /\ MayFinish /\ SenderReturns("Ok", toSender) /\ toSender = <<>>
    BY <1>0, <1>5 DEF SenderFinish, NothingUnread
  <2>4. EndsWith("Ok")
    <3>1. toReceiver' = toReceiver \/ receiver # "recvDone"
      <4>1. CASE Tcp
        BY <2>1, <4>1 DEF SenderReturns, Deliverable, Tcp
      <4>2. CASE ~Tcp
        BY <2>1, <4>2 DEF MayFinish, SenderBroken, Quiet, Undisturbed, Tcp, ReceiverResults
      <4> QED BY <4>1, <4>2
    <3> QED BY <2>1, <3>1 DEF EndsWith
  <2> QED BY <1>0, <1>1, <1>2, <2>1, <2>4, SenderEnds DEF SenderPoints, SenderResults
<1>6. CASE SenderRecvFails
  <2>1. /\ sender \in {"recvHello", "recvReady", "recvVerify"} /\ toSender = <<>>
        /\ SenderBroken /\ SenderReturns("ConnLost", <<>>)
    BY <1>6 DEF SenderRecvFails, SenderRecvPoints
  <2>2. receiver \in ReceiverResults
    BY <2>1 DEF SenderBroken, Quiet, Undisturbed
  <2>3. receiver = "PromptError" \/ (~Tcp /\ receiver = "PeerRejected")
    BY <2>1, <2>2 DEF Quiet, Undisturbed, ReceiverSettled, Hears, ReceiverResults,
       Core, SavedMeansSent, HasSent, Complete
  <2>4. EndsWith("ConnLost")
    BY <2>3 DEF EndsWith
  <2> QED BY <1>0, <1>1, <1>2, <2>1, <2>4, SenderEnds DEF SenderPoints, SenderResults
<1> QED BY <1>3, <1>4, <1>5, <1>6 DEF SenderSession

(* The receiver leaves neither the agreement nor a refusal it came to.     *)
Onward ==
    /\ receiver \in {"mismatched", "VersionMismatch"} => receiver' = "VersionMismatch"
    /\ receiver \in {"declined", "PeerRejected"} => receiver' = "PeerRejected"
    /\ receiver \in {"badSum", "ChecksumMismatch"} => receiver' = "ChecksumMismatch"
    /\ receiver \notin NotAgreed => receiver' \notin NotAgreed
    /\ receiver' \in {"badSum", "ChecksumMismatch"} => receiver \in {"sendVerify", "badSum"}

LEMMA SaidOnward ==
  ASSUME Quiet, setup' = setup, Onward, NEW i \in 1..Len(toSender), NEW m, m = toSender[i]
  PROVE  Said(m)'
<1>1. Said(m) /\ ReceiverMaySend(m)
  BY DEF Quiet, AllSaid, InFlight
<1>2. m = Verify(TRUE) => receiver # "sendVerify"
  BY <1>1 DEF ReceiverMaySend, Verify, Verified, ReceiverResults
<1>3. Said(m)'
  BY <1>1, <1>2 DEF Said, Onward, Tcp
<1> QED BY <1>3

LEMMA SaidPrefix ==
  ASSUME Quiet, setup' = setup, Onward, toSender' \in Prefixes(toSender)
  PROVE  AllSaid'
<1> SUFFICES ASSUME NEW i \in 1..Len(toSender') PROVE Said(toSender[i])'
  BY DEF AllSaid
<1> PICK m : m = toSender'[i]
  OBVIOUS
<1>1. i \in 1..Len(toSender) /\ m = toSender[i]
  BY PrefixElements DEF Quiet, Facts
<1>2. Said(m)'
  BY <1>1, SaidOnward
<1> QED BY <1>2 DEF Said, Tcp

LEMMA SaidAppend ==
  ASSUME Quiet, setup' = setup, Onward, NEW m \in FromReceiver, Said(m)',
         toSender' = Append(toSender, m)
  PROVE  AllSaid'
<1> SUFFICES ASSUME NEW i \in 1..Len(toSender') PROVE Said(toSender[i])'
  BY DEF AllSaid
<1> PICK x : x = toSender'[i]
  OBVIOUS
<1>1. x = m \/ (i \in 1..Len(toSender) /\ x = toSender[i])
  <2>1. /\ Len(toSender) \in Nat /\ Len(toSender') = Len(toSender) + 1
        /\ toSender'[Len(toSender) + 1] = m
        /\ \A j \in 1..Len(toSender) : toSender'[j] = toSender[j]
    BY AppendElements DEF Quiet, Facts
  <2>2. i \in 1..Len(toSender) \/ i = Len(toSender) + 1
    BY <2>1
  <2> QED BY <2>1, <2>2
<1>2. Said(x)'
  BY <1>1, SaidOnward
<1> QED BY <1>2 DEF Said, Tcp

(* The receiver goes on while the sender is there.                         *)
LEMMA ReceiverGoesOnSettled ==
  ASSUME sender \in SenderPoints \ {"finish"}, UNCHANGED <<setup, sender>>,
         receiver' \in ReceiverPoints \ {"mismatched", "badSum", "declined"}
  PROVE  SenderSettled' /\ ReceiverSettled'
BY DEF SenderSettled, ReceiverSettled, SenderPoints, ReceiverPoints

(* The receiver sends its last word while the sender waits for it.         *)
LEMMA ReceiverSaysLast ==
  ASSUME sender \in SenderPoints \ {"finish"}, UNCHANGED <<setup, sender>>, toSender' # <<>>,
         \/ receiver' = "mismatched" /\ sender = "recvHello" /\ Differ
         \/ receiver' = "declined" /\ sender = "recvReady"
         \/ receiver' = "badSum" /\ sender = "recvVerify" /\ Tcp
  PROVE  SenderSettled' /\ ReceiverSettled'
<1>1. Tcp' = Tcp /\ Differ' = Differ
  BY DEF Tcp, Differ
<1>2. SenderSettled'
  BY DEF SenderSettled, SenderPoints
<1>3. ReceiverSettled'
  BY <1>1 DEF ReceiverSettled, Hears
<1> QED BY <1>2, <1>3

(* A message of the receiver arrives, when the sender has not returned.    *)
LEMMA ReceiverIsHeard ==
  ASSUME Quiet, receiver \in ReceiverPoints, sender \in SenderPoints,
         NEW m \in FromReceiver, NEW next, ReceiverSends(m, next)
  PROVE  /\ receiver' = next /\ toReceiver' = toReceiver
         /\ toSender' = Append(toSender, m) /\ toSender' # <<>>
<1>1. ~ReceiverBroken
  BY ResultsReturned DEF ReceiverBroken, Quiet, Undisturbed
<1> QED BY <1>1, AppendProperties DEF ReceiverSends, Quiet, Facts

(* Over QUIC what the receiver holds at the end is what was announced.     *)
LEMMA DigestIsRight ==
  ASSUME Quiet, ~Tcp, receiver = "sendVerify"
  PROVE  DigestMatches
<1>1. Len(buffer) = Len(setup.bytes) /\ buffer \in Seq(Byte) /\ setup.bytes \in Seq(Byte)
  BY SetupFacts, BodyIsSeq DEF Quiet, Core, Complete, Size
<1>2. \A i \in 1..Len(buffer) : buffer[i] = setup.bytes[i]
  BY DEF Quiet, Genuine
<1>3. buffer = setup.bytes
  BY <1>1, <1>2, SeqEqual
<1>4. meta = MetadataOf(setup.bytes)
  BY DEF Quiet, Core, AfterMeta
<1> QED BY <1>3, <1>4 DEF DigestMatches, MetadataOf

LEMMA ReceiverSendsSettled ==
  ASSUME Quiet,
         ReceiverSendHello \/ ReceiverSendError \/ ReceiverSendReady
           \/ ReceiverSendDecline \/ ReceiverSendVerify
  PROVE  SenderSettled' /\ ReceiverSettled' /\ AllSaid' /\ Greeting'
<1>0. /\ receiver \in {"sendHello", "sendError", "sendReady", "sendDecline", "sendVerify"}
      /\ UNCHANGED <<setup, sender, conn>>
      /\ Core /\ VersionsKnown
  BY DEF Quiet, senderVars, ReceiverSendHello, ReceiverSendError, ReceiverSendReady,
     ReceiverSendDecline, ReceiverSendVerify
<1>1. receiver \in ReceiverPoints /\ sender \in SenderPoints \ {"finish"}
  BY <1>0, SenderThere DEF ReceiverPoints
<1>2. ASSUME NEW m \in FromReceiver, NEW next, ReceiverSends(m, next), Onward, Said(m)'
      PROVE  AllSaid'
    BY <1>0, <1>1, <1>2, ReceiverIsHeard, SaidAppend
<1>3. ASSUME NEW m \in FromReceiver, NEW next, ReceiverSends(m, next)
      PROVE  receiver' = next /\ toSender' # <<>>
    BY <1>1, <1>3, ReceiverIsHeard
<1>4. CASE ReceiverSendHello
  <2>1. ReceiverSends(Hello(setup.rver), ReceiverHelloSent) /\ receiver = "sendHello"
    BY <1>4 DEF ReceiverSendHello
  <2>2. Hello(setup.rver) \in FromReceiver
    BY <1>0, SetupFacts DEF FromReceiver
  <2>3. receiver' = ReceiverHelloSent
    BY <1>3, <2>1, <2>2
  <2>4. receiver' \in {"recvHello", "recvMeta"}
    BY <2>3 DEF ReceiverHelloSent
  <2>5. Onward
    BY <2>1, <2>4 DEF Onward, NotAgreed
  <2>6. Said(Hello(setup.rver))'
    <3>1. PICK h : h = Hello(setup.rver)
      OBVIOUS
    <3>2. h.kind = "HELLO"
      BY <3>1 DEF Hello
    <3>3. Tcp => setup.sver = setup.rver
      BY <2>1 DEF Quiet, Greeting
    <3>4. Said(h)'
      BY <1>0, <3>2, <3>3 DEF Said, Tcp, ErrorMsg, Ready, Verify
    <3> QED BY <1>0, <3>1, <3>4
  <2> QED BY <1>0, <1>1, <1>2, <2>1, <2>2, <2>4, <2>5, <2>6, ReceiverGoesOnSettled
          DEF ReceiverPoints, Greeting
<1>5. CASE ReceiverSendError
  <2>1. ReceiverSends(ErrorMsg, "mismatched") /\ receiver = "sendError"
    BY <1>5 DEF ReceiverSendError
  <2>2. ErrorMsg \in FromReceiver
    BY DEF FromReceiver
  <2>3. receiver' = "mismatched" /\ toSender' # <<>>
    BY <1>3, <2>1, <2>2
  <2>4. Onward
    BY <2>1, <2>3 DEF Onward, NotAgreed
  <2>5. Said(ErrorMsg)'
    BY <2>3 DEF Said, ErrorMsg, Ready, Verify
  <2>6. sender = "recvHello" /\ Differ
    BY <1>0, <1>1, <2>1, Meets DEF VersionsKnown
  <2> QED BY <1>0, <1>1, <1>2, <2>1, <2>2, <2>3, <2>4, <2>5, <2>6, ReceiverSaysLast
          DEF Greeting
<1>6. CASE ReceiverSendReady
  <2>1. ReceiverSends(Ready(TRUE), "recvData") /\ receiver = "sendReady"
    BY <1>6 DEF ReceiverSendReady
  <2>2. Ready(TRUE) \in FromReceiver
    BY DEF FromReceiver
  <2>3. receiver' = "recvData"
    BY <1>3, <2>1, <2>2
  <2>4. Onward
    BY <2>1, <2>3 DEF Onward, NotAgreed
  <2>5. Said(Ready(TRUE))'
    BY <2>3 DEF Said, ErrorMsg, Ready, Verify, NotAgreed
  <2> QED BY <1>0, <1>1, <1>2, <2>1, <2>2, <2>3, <2>4, <2>5, ReceiverGoesOnSettled
          DEF ReceiverPoints, Greeting
<1>7. CASE ReceiverSendDecline
  <2>1. ReceiverSends(Ready(FALSE), "declined") /\ receiver = "sendDecline"
    BY <1>7 DEF ReceiverSendDecline
  <2>2. Ready(FALSE) \in FromReceiver
    BY DEF FromReceiver
  <2>3. receiver' = "declined" /\ toSender' # <<>>
    BY <1>3, <2>1, <2>2
  <2>4. Onward
    BY <2>1, <2>3 DEF Onward, NotAgreed
  <2>5. Said(Ready(FALSE))'
    BY <2>3 DEF Said, ErrorMsg, Ready, Verify
  <2>6. sender = "recvReady"
    BY <1>0, <1>1, <2>1, Meets
  <2> QED BY <1>0, <1>1, <1>2, <2>1, <2>2, <2>3, <2>4, <2>5, <2>6, ReceiverSaysLast
          DEF Greeting
<1>8. CASE ReceiverSendVerify
  <2>1. ReceiverSends(Verify(DigestMatches), AfterVerify) /\ receiver = "sendVerify"
    BY <1>8 DEF ReceiverSendVerify
  <2>2. CASE DigestMatches
    <3>0. ReceiverSends(Verify(TRUE), "recvDone")
      BY <2>1, <2>2 DEF AfterVerify, Verify
    <3>1. Verify(TRUE) \in FromReceiver
      BY DEF FromReceiver
    <3>2. receiver' = "recvDone"
      BY <1>3, <3>0, <3>1
    <3>3. Onward
      BY <2>1, <3>2 DEF Onward, NotAgreed
    <3>4. Said(Verify(TRUE))'
      BY <3>2 DEF Said, ErrorMsg, Ready, Verify
    <3> QED BY <1>0, <1>1, <1>2, <3>0, <3>1, <3>2, <3>3, <3>4, ReceiverGoesOnSettled
            DEF ReceiverPoints, Greeting
  <2>3. CASE ~DigestMatches
    <3>0. ReceiverSends(Verify(FALSE), "badSum")
      <4>1. DigestMatches = FALSE
        BY <2>3 DEF DigestMatches
      <4> QED BY <2>1, <4>1, Zenon DEF AfterVerify
    <3>1. Verify(FALSE) \in FromReceiver
      BY DEF FromReceiver
    <3>2. receiver' = "badSum" /\ toSender' # <<>>
      BY <1>3, <3>0, <3>1
    <3>3. Onward
      BY <2>1, <3>2 DEF Onward, NotAgreed
    <3>4. Said(Verify(FALSE))'
      BY <3>2 DEF Said, ErrorMsg, Ready, Verify
    <3>5. sender = "recvVerify" /\ Tcp
      BY <1>0, <1>1, <2>1, <2>3, Meets, DigestIsRight
    <3> QED BY <1>0, <1>1, <1>2, <3>0, <3>1, <3>2, <3>3, <3>4, <3>5, ReceiverSaysLast
            DEF Greeting
  <2> QED BY <2>2, <2>3
<1> QED BY <1>4, <1>5, <1>6, <1>7, <1>8

(* The receiver reads a message, or asks the user.                         *)
LEMMA ReceiverReadsSettled ==
  ASSUME Quiet, SavedMeansSent',
         ReceiverRecvHello \/ ReceiverRecvMeta \/ ReceiverRecvData \/ ReceiverRecvDone
           \/ ReceiverPrompt
  PROVE  SenderSettled' /\ ReceiverSettled' /\ AllSaid' /\ Greeting'
<1>0. /\ receiver \in {"recvHello", "recvMeta", "recvData", "recvDone", "prompt"}
      /\ receiver # "prompt" => toReceiver # <<>>
      /\ UNCHANGED <<setup, sender, conn>>
  BY DEF senderVars, ReceiverRecvHello, ReceiverRecvMeta, ReceiverRecvData,
     ReceiverRecvDone, ReceiverPrompt
<1>1. receiver \in ReceiverPoints
  BY <1>0 DEF ReceiverPoints
<1> PICK m : m = Head(toReceiver)
  OBVIOUS
<1>2. receiver # "prompt" => ReceiverFinds(m)
  BY <1>0, <1>1, ReceiverFindings DEF Quiet
<1>3. receiver # "recvDone" => sender \in SenderPoints \ {"finish"}
  BY <1>0, <1>1, SenderThere
<1>4. ASSUME receiver # "recvDone", toSender' = toSender, Onward, Greeting',
             receiver' \in ReceiverPoints \ {"mismatched", "badSum", "declined"}
      PROVE  SenderSettled' /\ ReceiverSettled' /\ AllSaid'
  <2>1. toSender' \in Prefixes(toSender)
    BY <1>4, TrivialPrefixes DEF Quiet, Facts
  <2> QED BY <1>0, <1>3, <1>4, <2>1, SaidPrefix, ReceiverGoesOnSettled
<1>5. CASE ReceiverRecvHello
  <2>0. receiver = "recvHello"
    BY <1>5 DEF ReceiverRecvHello
  <2>1. m = Hello(setup.sver) /\ m.kind = "HELLO" /\ m.version = setup.sver
    BY <1>2, <2>0 DEF ReceiverFinds, Hello
  <2>2. CASE m = Hello(setup.rver)
    <3>1. receiver' = ReceiverHelloRead /\ toSender' = toSender
      BY <1>5, <2>2 DEF ReceiverRecvHello, ReceiverGoesOn
    <3>2. setup.sver = setup.rver
      BY <2>1, <2>2 DEF Hello
    <3>3. Greeting'
      BY <1>0, <3>2 DEF Greeting
    <3>4. receiver' \in {"sendHello", "recvMeta"}
      BY <3>1 DEF ReceiverHelloRead
    <3> QED BY <1>4, <2>0, <3>1, <3>3, <3>4 DEF Onward, NotAgreed, ReceiverPoints
  <2>3. CASE m # Hello(setup.rver)
    <3>1. receiver' = "sendError" /\ toSender' = toSender
      BY <1>5, <2>1, <2>3 DEF ReceiverRecvHello, ReceiverGoesOn
    <3> QED BY <1>4, <2>0, <3>1 DEF Onward, NotAgreed, ReceiverPoints, Greeting
  <2> QED BY <2>2, <2>3
<1>6. CASE ReceiverRecvMeta
  <2>0. receiver = "recvMeta"
    BY <1>6 DEF ReceiverRecvMeta
  <2>1. m.kind = "META"
    BY <1>2, <2>0 DEF ReceiverFinds
  <2>2. receiver' = "prompt" /\ toSender' = toSender
    BY <1>6, <2>1 DEF ReceiverRecvMeta, ReceiverGoesOn
  <2> QED BY <1>4, <2>0, <2>2 DEF Onward, NotAgreed, ReceiverPoints, Greeting
<1>7. CASE ReceiverRecvData
  <2>0. receiver = "recvData"
    BY <1>7 DEF ReceiverRecvData
  <2>1. (m.kind = "DATA" /\ InOrder(m)) \/ m.kind = "EOF"
    BY <1>2, <2>0 DEF ReceiverFinds, InOrder, Eof
  <2>2. receiver' \in {"recvData", "sendVerify"} /\ toSender' = toSender
    BY <1>7, <2>1 DEF ReceiverRecvData, ReceiverGoesOn
  <2> QED BY <1>4, <2>0, <2>2 DEF Onward, NotAgreed, ReceiverPoints, Greeting
<1>8. CASE ReceiverPrompt
  <2>0. receiver = "prompt"
    BY <1>8 DEF ReceiverPrompt
  <2>1. receiver' \in {"sendReady", "sendDecline"} /\ toSender' = toSender
    BY <1>8 DEF ReceiverPrompt
  <2> QED BY <1>4, <2>0, <2>1 DEF Onward, NotAgreed, ReceiverPoints, Greeting
<1>9. CASE ReceiverRecvDone
  <2>0. receiver = "recvDone"
    BY <1>9 DEF ReceiverRecvDone
  <2>1. m = Done
    BY <1>2, <2>0 DEF ReceiverFinds
  <2>2. receiver' = "createFile" /\ toSender' = toSender
    BY <1>9, <2>1 DEF ReceiverRecvDone, ReceiverGoesOn
  <2>3. sender \in {"finish", "Ok"}
    BY <1>0, <2>2 DEF SavedMeansSent, HasSent, Quiet, Undisturbed
  <2>4. SenderSettled' /\ ReceiverSettled'
    BY <1>0, <2>2, <2>3 DEF SenderSettled, ReceiverSettled, SavePoints
  <2>5. AllSaid'
    <3>1. Onward
      BY <2>0, <2>2 DEF Onward, NotAgreed
    <3>2. toSender' \in Prefixes(toSender)
      BY <2>2, TrivialPrefixes DEF Quiet, Facts
    <3> QED BY <1>0, <3>1, <3>2, SaidPrefix
  <2> QED BY <2>2, <2>4, <2>5 DEF Greeting
<1> QED BY <1>5, <1>6, <1>7, <1>8, <1>9

(* The receiver saves the file, refuses, or returns.                       *)
LEMMA ReceiverEndsSettled ==
  ASSUME Quiet,
         ReceiverPromptFails \/ ReceiverCreateFile \/ ReceiverWriteFile
           \/ ReceiverRefuses \/ ReceiverRecvFails
  PROVE  SenderSettled' /\ ReceiverSettled' /\ AllSaid' /\ Greeting'
<1>0. /\ Facts /\ Core /\ NothingUnread /\ VersionsKnown
      /\ UNCHANGED <<setup, sender, conn>>
      /\ receiver \in ReceiverPoints
  BY DEF Quiet, senderVars, ReceiverPromptFails, ReceiverCreateFile, ReceiverWriteFile,
     ReceiverRefuses, ReceiverRecvFails, ReceiverPoints, Refusal, ReceiverRecvPoints
<1>1. ASSUME NEW result, NEW u, ReceiverReturns(result, u)
      PROVE  /\ receiver' = result /\ toReceiver' = <<>>
             /\ toSender' \in Prefixes(toSender)
  BY <1>0, <1>1, DeliverableElements DEF ReceiverReturns, Facts
<1>2. ASSUME NEW result, NEW u, ReceiverReturns(result, u), Tcp, u = <<>>
      PROVE  toSender' = toSender
  BY <1>2 DEF ReceiverReturns, Deliverable, Tcp
<1>3. Tcp' = Tcp /\ Differ' = Differ
  BY <1>0 DEF Tcp, Differ
<1>4. ASSUME Onward, toSender' \in Prefixes(toSender), receiver' # "sendHello"
      PROVE  AllSaid' /\ Greeting'
  BY <1>0, <1>4, SaidPrefix DEF Greeting
<1>5. CASE ReceiverPromptFails
  <2>1. receiver = "prompt" /\ ReceiverReturns("PromptError", toReceiver)
    BY <1>5 DEF ReceiverPromptFails
  <2>2. receiver' = "PromptError" /\ toSender' \in Prefixes(toSender)
    BY <1>1, <2>1
  <2>3. sender \in SenderPoints
    BY <1>0, <2>1, SenderThere
  <2>4. sender = "recvReady"
    BY <1>0, <2>1, <2>3, Meets
  <2>5. toSender = <<>>
    <3> SUFFICES ASSUME toSender # <<>> PROVE FALSE
      OBVIOUS
    <3> PICK m : m = Head(toSender)
      OBVIOUS
    <3>1. Said(m) /\ SenderFinds(m)
      BY <2>3, FirstSaid
    <3>2. m = Ready(TRUE) \/ m = Ready(FALSE)
      BY <2>4, <3>1 DEF SenderFinds
    <3> QED BY <2>1, <3>1, <3>2 DEF Said, NotAgreed
  <2>6. toSender' = <<>>
    <3>1. Len(toSender') <= Len(toSender) /\ Len(toSender') \in Nat /\ toSender' \in Seq(FromReceiver)
      BY <1>0, <2>2, PrefixElements DEF Facts
    <3> QED BY <2>5, <3>1, EmptySeq
  <2>7. SenderSettled' /\ ReceiverSettled'
    BY <1>0, <2>2, <2>4, <2>6 DEF SenderSettled, ReceiverSettled
  <2> QED BY <1>4, <2>1, <2>2, <2>7 DEF Onward, NotAgreed
<1>6. CASE ReceiverCreateFile \/ ReceiverWriteFile
  <2>1. receiver \in {"createFile", "writeFile"}
    BY <1>6 DEF ReceiverCreateFile, ReceiverWriteFile
  <2>2. sender \in {"finish", "Ok"}
    BY <1>0, <2>1 DEF Core, SavedMeansSent, HasSent, Quiet, Undisturbed
  <2>3. receiver' \in {"writeFile", "Ok", "DiskError", "KspNotFound"}
        /\ toSender' \in Prefixes(toSender)
    <3>1. toSender \in Prefixes(toSender)
      BY <1>0, TrivialPrefixes DEF Facts
    <3> QED BY <1>1, <1>6, <3>1 DEF ReceiverCreateFile, ReceiverWriteFile
  <2>4. SenderSettled' /\ ReceiverSettled'
    BY <1>0, <2>2, <2>3 DEF SenderSettled, ReceiverSettled, SavePoints
  <2> QED BY <1>4, <2>1, <2>3, <2>4 DEF Onward, NotAgreed
<1>7. CASE ReceiverRefuses
  <2>0. receiver \in {"mismatched", "declined", "badSum"}
    BY <1>7 DEF ReceiverRefuses, Refusal
  <2>1. toReceiver = <<>>
    BY <1>0, <2>0 DEF NothingUnread
  <2>2. ReceiverReturns(Refusal[receiver], toReceiver)
    BY <1>7 DEF ReceiverRefuses
  <2>3. receiver' = Refusal[receiver] /\ toSender' \in Prefixes(toSender)
    BY <1>1, <2>2
  <2>4. Tcp => toSender' = toSender
    BY <1>2, <2>1, <2>2
  <2>5. Onward /\ receiver' # "sendHello"
    BY <2>0, <2>3 DEF Onward, NotAgreed, Refusal
  <2>6. CASE receiver = "mismatched"
    <3>1. receiver' = "VersionMismatch" /\ Tcp /\ Differ /\ Hears("recvHello", "Unexpected")
      BY <2>3, <2>6 DEF Refusal, Quiet, ReceiverSettled, Differ
    <3>2. Hears("recvHello", "Unexpected")'
      BY <1>0, <2>4, <3>1 DEF Hears
    <3>3. sender \in {"recvHello", "Unexpected"}
      BY <3>1 DEF Hears
    <3> QED BY <1>0, <1>3, <1>4, <2>3, <2>5, <3>1, <3>2, <3>3
            DEF SenderSettled, ReceiverSettled
  <2>7. CASE receiver = "badSum"
    <3>1. receiver' = "ChecksumMismatch" /\ Tcp /\ Hears("recvVerify", "ChecksumMismatch")
      BY <2>3, <2>7 DEF Refusal, Quiet, ReceiverSettled
    <3>2. Hears("recvVerify", "ChecksumMismatch")'
      BY <1>0, <2>4, <3>1 DEF Hears
    <3>3. sender \in {"recvVerify", "ChecksumMismatch"}
      BY <3>1 DEF Hears
    <3> QED BY <1>0, <1>3, <1>4, <2>3, <2>5, <3>1, <3>2, <3>3
            DEF SenderSettled, ReceiverSettled
  <2>8. CASE receiver = "declined"
    <3>1. receiver' = "PeerRejected" /\ Hears("recvReady", "PeerRejected")
      BY <2>3, <2>8 DEF Refusal, Quiet, ReceiverSettled
    <3>2. Hears("recvReady", "PeerRejected")' \/ (~Tcp /\ sender = "recvReady")
      BY <1>0, <2>4, <3>1 DEF Hears
    <3>3. sender \in {"recvReady", "PeerRejected"}
      BY <3>1 DEF Hears
    <3> QED BY <1>0, <1>3, <1>4, <2>3, <2>5, <3>1, <3>2, <3>3
            DEF SenderSettled, ReceiverSettled
  <2> QED BY <2>0, <2>6, <2>7, <2>8
<1>8. CASE ReceiverRecvFails
  <2>1. /\ receiver \in {"recvHello", "recvMeta", "recvData", "recvDone"}
        /\ toReceiver = <<>> /\ ReceiverBroken /\ ReceiverReturns("ConnLost", <<>>)
    BY <1>8 DEF ReceiverRecvFails, ReceiverRecvPoints
  <2>2. sender \in SenderResults
    BY <2>1 DEF ReceiverBroken, Quiet, Undisturbed
  <2>3. sender = "VersionMismatch" /\ ~Tcp
    BY <2>1, <2>2 DEF Quiet, Undisturbed, SenderSettled, SavePoints, SenderResults
  <2>4. receiver' = "ConnLost" /\ toReceiver' = <<>> /\ toSender' \in Prefixes(toSender)
    BY <1>1, <2>1
  <2>5. SenderSettled' /\ ReceiverSettled'
    BY <1>0, <1>3, <2>3, <2>4 DEF SenderSettled, ReceiverSettled
  <2> QED BY <1>4, <2>1, <2>4, <2>5 DEF Onward, NotAgreed
<1> QED BY <1>5, <1>6, <1>7, <1>8

(* Every step keeps what is known of an undisturbed session.               *)
LEMMA SettledStep ==
  ASSUME InductiveInv, Script, Genuine, Settled, SavedMeansSent', [Next]_vars
  PROVE  Settled'
<1> SUFFICES ASSUME Undisturbed'
             PROVE  SenderSettled' /\ ReceiverSettled' /\ AllSaid' /\ Greeting'
  BY DEF Settled
<1>1. CASE SenderSession
  <2>1. /\ sender \in SenderPoints
        /\ receiver' = receiver /\ conn' = conn
    BY <1>1 DEF receiverVars, SenderSession, SenderSendHello, SenderRecvHello,
       SenderSendMeta, SenderRecvReady, SenderSendData, SenderSendEof,
       SenderRecvVerify, SenderSendDone, SenderFinish, SenderRecvFails,
       SenderPoints, SenderRecvPoints
  <2>2. Undisturbed
    BY <2>1 DEF Undisturbed, SenderPoints
  <2> QED BY <1>1, <2>2, QuietHolds, SenderStepSettled
<1>2. CASE ReceiverSession
  <2>1. /\ receiver \in ReceiverPoints
        /\ sender' = sender /\ conn' = conn
    BY <1>2 DEF senderVars, ReceiverSession, ReceiverSendHello, ReceiverRecvHello,
       ReceiverSendError, ReceiverRecvMeta, ReceiverPrompt, ReceiverPromptFails,
       ReceiverSendReady, ReceiverSendDecline, ReceiverRecvData, ReceiverSendVerify,
       ReceiverRecvDone, ReceiverCreateFile, ReceiverWriteFile, ReceiverRefuses,
       ReceiverRecvFails, ReceiverPoints, ReceiverRecvPoints, Refusal
  <2>2. Undisturbed
    BY <2>1 DEF Undisturbed, ReceiverPoints
  <2>3. Quiet
    BY <2>2, QuietHolds
  <2> QED BY <1>2, <2>3, ReceiverSendsSettled, ReceiverReadsSettled, ReceiverEndsSettled
          DEF ReceiverSession
<1>3. CASE SenderCrash \/ ReceiverCrash \/ ConnReset
  BY <1>3 DEF Undisturbed, SenderCrash, ReceiverCrash, ConnReset, SenderReturns,
     ReceiverReturns
<1>4. CASE Corruption
  <2>1. /\ UNCHANGED <<setup, sender, receiver, toSender, conn>> /\ Tcp
    BY <1>4 DEF Corruption, senderVars, receiverVars, Tcp
  <2>2. Undisturbed /\ SenderSettled /\ ReceiverSettled /\ AllSaid /\ Greeting
    BY <2>1 DEF Undisturbed, Settled
  <2>3. toReceiver' # <<>>
    <3>1. PICK i \in DOMAIN toReceiver : DOMAIN toReceiver' = DOMAIN toReceiver
      BY <1>4 DEF Corruption
    <3>2. DOMAIN toReceiver' # {}
      BY <3>1
    <3>3. DOMAIN <<>> = {}
      OBVIOUS
    <3> QED BY <3>2, <3>3
  <2>4. SenderSettled'
    BY <2>1, <2>2, <2>3 DEF SenderSettled, Tcp
  <2>5. ReceiverSettled' /\ Greeting'
    BY <2>1, <2>2 DEF ReceiverSettled, Hears, Greeting, Tcp, Differ
  <2>6. AllSaid'
    BY <2>1, <2>2, SaidStands, FactsHold
  <2> QED BY <2>4, <2>5, <2>6
<1>5. CASE Terminated \/ UNCHANGED vars
  <2>1. UNCHANGED vars
    BY <1>5 DEF Terminated
  <2>2. Undisturbed /\ SenderSettled /\ ReceiverSettled /\ AllSaid /\ Greeting
    BY <2>1 DEF vars, Undisturbed, Settled
  <2>3. AllSaid'
    BY <2>1, <2>2, SaidStands, FactsHold DEF vars
  <2> QED BY <2>1, <2>2, <2>3
          DEF vars, SenderSettled, ReceiverSettled, Hears, Greeting, Tcp, Differ
<1> QED BY <1>1, <1>2, <1>3, <1>4, <1>5 DEF Next

LEMMA InitSettled == Init => Settled
<1> SUFFICES ASSUME Init PROVE Settled
  OBVIOUS
<1>1. /\ sender \in {"sendHello", "recvHello"} /\ receiver \in {"sendHello", "recvHello"}
      /\ Tcp => receiver = "recvHello"
      /\ toSender = <<>>
  BY DEF Init, SenderStart, ReceiverStart, Tcp
<1> QED BY <1>1, EmptySeq DEF Settled, SenderSettled, ReceiverSettled, AllSaid, Greeting

THEOREM SettledInductive == Spec => []Settled
<1>1. Init => Settled
  BY InitSettled
<1>2. InductiveInv => SavedMeansSent
  BY DEF InductiveInv
<1>3. InductiveInv /\ Script /\ Genuine /\ Settled /\ SavedMeansSent' /\ [Next]_vars => Settled'
  BY SettledStep
<1> QED BY <1>1, <1>2, <1>3, SessionInductive, ScriptInductive, GenuineInductive, PTL DEF Spec

(* Left undisturbed, the two ends agree on how the session ended, for      *)
(* files of every length, chunks and channels of every size and whatever   *)
(* is altered on the way: over TCP every refusal of the receiver reaches   *)
(* the sender, over QUIC only a refusal or a version error may be lost.    *)
THEOREM SessionVerdictsAgree == Spec => []VerdictsAgree
<1>1. InductiveInv /\ Script /\ Settled => VerdictsAgree
  <2> SUFFICES ASSUME InductiveInv, Script, Settled, BothReturned, Undisturbed
               PROVE  <<sender, receiver>> \in VerdictsBoth
                        \cup (IF Tcp THEN VerdictsTcp ELSE VerdictsQuic)
    BY DEF VerdictsAgree, Tcp
  <2>1. /\ sender \in SenderResults \ {"Crashed", "CrashedSent"}
        /\ receiver \in ReceiverResults \ {"Crashed", "Unexpected"}
    BY DEF BothReturned, Undisturbed, Script, Complete
  <2>2. SenderSettled /\ ReceiverSettled
    BY DEF Settled
  <2>3. /\ sender = "Ok" => receiver \in {"Ok", "DiskError", "KspNotFound"}
        /\ sender = "PeerRejected" => receiver = "PeerRejected"
        /\ sender = "VersionMismatch" => ~Tcp /\ receiver = "ConnLost"
        /\ sender = "ChecksumMismatch" => Tcp /\ receiver = "ChecksumMismatch"
        /\ sender = "Unexpected" => Tcp /\ receiver = "VersionMismatch"
        /\ sender = "ConnLost" =>
             receiver = "PromptError" \/ (~Tcp /\ receiver = "PeerRejected")
    BY <2>1, <2>2 DEF SenderSettled, ReceiverSettled, SavePoints, ReceiverResults, Differ
  <2> QED BY <2>1, <2>3 DEF SenderResults, VerdictsBoth, VerdictsTcp, VerdictsQuic
<1> QED BY <1>1, SessionInductive, ScriptInductive, SettledInductive, PTL
=============================================================================
