---------------------------- MODULE SessionProofs ----------------------------
(***************************************************************************)
(* Proofs, for every value of the constants, that a session is type        *)
(* correct, saves only what was sent, and reports success only after the   *)
(* other end has verified it.                                              *)
(***************************************************************************)
EXTENDS SessionProperties, SequenceTheorems, TLAPS

-----------------------------------------------------------------------------
(* Byte strings. *)

(* A sequence of bytes that is short enough is a craft file, and conversely. *)
LEMMA BodyIsSeq == \A b : b \in Body <=> b \in Seq(Byte) /\ Len(b) <= MaxBytes
  BY SizeAssumption DEF Body, BoundedSeq, SeqOf

LEMMA EmptyBody == <<>> \in Body
<1>1. <<>> \in Seq(Byte) /\ Len(<<>>) = 0
  BY EmptySeq
<1>2. Len(<<>>) <= MaxBytes
  BY <1>1, SizeAssumption
<1> QED BY <1>1, <1>2, BodyIsSeq, Zenon

(* A prefix is no longer than the sequence, and over the same elements. *)
LEMMA PrefixSeq ==
  ASSUME NEW S, NEW s \in Seq(S), NEW p \in Prefixes(s)
  PROVE  p \in Seq(S) /\ Len(p) <= Len(s)
<1>1. PICK n \in 0..Len(s) : p = SubSeq(s, 1, n)
  BY DEF Prefixes
<1>2. n \in Int /\ n <= Len(s) /\ \A i \in 1..n : s[i] \in S
  BY LenProperties, ElementOfSeq
<1>3. SubSeq(s, 1, n) \in Seq(S) /\ Len(SubSeq(s, 1, n)) = IF 1 <= n THEN n - 1 + 1 ELSE 0
  BY <1>2, SubSeqProperties
<1> QED BY <1>1, <1>2, <1>3

LEMMA PrefixBody == ASSUME NEW b \in Body, NEW p \in Prefixes(b) PROVE p \in Body
<1>1. b \in Seq(Byte) /\ Len(b) \in Nat /\ Len(b) <= MaxBytes
  BY BodyIsSeq, LenProperties
<1>2. p \in Seq(Byte) /\ Len(p) \in Nat /\ Len(p) <= Len(b)
  BY <1>1, PrefixSeq, LenProperties
<1>3. Len(p) <= MaxBytes
  BY <1>1, <1>2, SizeAssumption
<1> QED BY <1>2, <1>3, BodyIsSeq

(* The empty string and the whole string are prefixes. *)
LEMMA TrivialPrefixes ==
  ASSUME NEW S, NEW b \in Seq(S)
  PROVE  <<>> \in Prefixes(b) /\ b \in Prefixes(b)
<1>1. Len(b) \in Nat
  BY LenProperties
<1>2. SubSeq(b, 1, 0) = <<>>
  BY SubSeqEmpty
<1>3. SubSeq(b, 1, Len(b)) = b
  BY SubSeqFull
<1>4. SubSeq(b, 1, 0) \in Prefixes(b) /\ SubSeq(b, 1, Len(b)) \in Prefixes(b)
  BY <1>1 DEF Prefixes
<1> QED BY <1>2, <1>3, <1>4, Zenon

(* The next chunk of a craft file lies within it, and the loop that sends  *)
(* it advances by its length.  (sender.rs:100-108)                         *)
LEMMA ChunkWithin ==
  ASSUME NEW b \in Body, NEW o \in Nat, o < Len(b)
  PROVE  /\ Chunk(b, o) \in Body
         /\ Chunk(b, o) # <<>>
         /\ o + Len(Chunk(b, o)) <= Len(b)
         /\ NextOffset(b, o) = ChunkEnd(b, o)
<1> DEFINE e == ChunkEnd(b, o)
<1>1. b \in Seq(Byte) /\ Len(b) \in Nat /\ Len(b) <= MaxBytes
  BY BodyIsSeq, LenProperties
<1>2. e \in Int /\ o < e /\ e <= Len(b)
  BY <1>1, SizeAssumption DEF ChunkEnd
<1>3. \A i \in (o + 1)..e : b[i] \in Byte
  BY <1>1, <1>2, ElementOfSeq
<1>4. /\ Chunk(b, o) \in Seq(Byte)
      /\ Len(Chunk(b, o)) = IF o + 1 <= e THEN e - (o + 1) + 1 ELSE 0
  <2> HIDE DEF e
  <2>1. o + 1 \in Int
    OBVIOUS
  <2> QED BY <2>1, <1>2, <1>3, SubSeqProperties DEF Chunk, e
<1>5. Len(Chunk(b, o)) = e - o
  BY <1>2, <1>4
<1>6. Len(Chunk(b, o)) <= MaxBytes
  BY <1>1, <1>2, <1>5, SizeAssumption
<1> QED BY <1>1, <1>2, <1>4, <1>5, <1>6, BodyIsSeq DEF NextOffset

-----------------------------------------------------------------------------
(* Sequences of frames. *)

LEMMA SeqNarrow ==
  ASSUME NEW S, NEW U, U \subseteq S, NEW s \in Seq(S)
  PROVE  s \in Seq(U) <=> \A i \in 1..Len(s) : s[i] \in U
<1>1. s \in [1..Len(s) -> S] /\ Len(s) \in Nat
  BY LenProperties
<1>2. ASSUME s \in Seq(U), NEW i \in 1..Len(s) PROVE s[i] \in U
  BY <1>2, ElementOfSeq
<1>3. ASSUME \A i \in 1..Len(s) : s[i] \in U PROVE s \in Seq(U)
  <2>1. s \in [1..Len(s) -> U]
    BY <1>1, <1>3
  <2> QED BY <1>1, <2>1, IsASeq
<1> QED BY <1>2, <1>3

LEMMA SeqWiden ==
  ASSUME NEW S, NEW U, S \subseteq U, NEW s \in Seq(S)
  PROVE  s \in Seq(U)
  BY SeqMonotonic

(* Both channels hold frames of these sets, and no more than they can. *)
Channels(S, R) ==
    /\ toReceiver \in Seq(S) /\ Len(toReceiver) <= ChanCap
    /\ toSender \in Seq(R) /\ Len(toSender) <= ChanCap

(* What a close leaves deliverable is a prefix of what was in flight. *)
LEMMA DeliverableSeq ==
  ASSUME NEW S, NEW s \in Seq(S), Len(s) <= ChanCap, NEW u,
         NEW p \in Deliverable(s, u)
  PROVE  p \in Seq(S) /\ Len(p) <= ChanCap
<1>1. p = s \/ p \in Prefixes(s)
  BY DEF Deliverable
<1>2. CASE p = s
  BY <1>2
<1>3. CASE p \in Prefixes(s)
  <2>1. p \in Seq(S) /\ Len(p) <= Len(s)
    BY <1>3, PrefixSeq
  <2>2. Len(p) \in Nat /\ Len(s) \in Nat /\ ChanCap \in Nat
    BY <2>1, LenProperties, SessionAssumption
  <2> QED BY <2>1, <2>2
<1> QED BY <1>1, <1>2, <1>3

LEMMA EmptyChannel ==
  ASSUME NEW S
  PROVE  <<>> \in Seq(S) /\ Len(<<>>) <= ChanCap
<1>1. <<>> \in Seq(S) /\ Len(<<>>) = 0
  BY EmptySeq
<1>2. 0 <= ChanCap
  BY SessionAssumption
<1> QED BY <1>1, <1>2

LEMMA TailChannel ==
  ASSUME NEW S, NEW s \in Seq(S), Len(s) <= ChanCap, s # <<>>
  PROVE  Head(s) \in S /\ Tail(s) \in Seq(S) /\ Len(Tail(s)) <= ChanCap
<1>1. Head(s) \in S /\ Tail(s) \in Seq(S) /\ Len(Tail(s)) = Len(s) - 1
  BY HeadTailProperties
<1>2. Len(s) \in Nat /\ ChanCap \in Nat
  BY LenProperties, SessionAssumption
<1> QED BY <1>1, <1>2

LEMMA AppendChannel ==
  ASSUME NEW S, NEW s \in Seq(S), Len(s) < ChanCap, NEW m \in S
  PROVE  Append(s, m) \in Seq(S) /\ Len(Append(s, m)) <= ChanCap
<1>1. Append(s, m) \in Seq(S) /\ Len(Append(s, m)) = Len(s) + 1
  BY AppendProperties
<1>2. Len(s) \in Nat /\ ChanCap \in Nat
  BY LenProperties, SessionAssumption
<1> QED BY <1>1, <1>2

-----------------------------------------------------------------------------
(* The transport keeps the channels well formed: sending a frame of S (or  *)
(* R), reading one, returning.                                             *)

LEMMA SenderReturnsChannels ==
  ASSUME NEW S, NEW R, Channels(S, R), NEW result, NEW u,
         SenderReturns(result, u)
  PROVE  Channels(S, R)' /\ sender' = result
<1>1. toReceiver' \in Seq(S) /\ Len(toReceiver') <= ChanCap
  BY DeliverableSeq DEF Channels, SenderReturns
<1>2. toSender' = <<>>
  BY DEF SenderReturns
<1>3. toSender' \in Seq(R) /\ Len(toSender') <= ChanCap
  BY <1>2, EmptyChannel
<1> QED BY <1>1, <1>3 DEF Channels, SenderReturns

LEMMA ReceiverReturnsChannels ==
  ASSUME NEW S, NEW R, Channels(S, R), NEW result, NEW u,
         ReceiverReturns(result, u)
  PROVE  Channels(S, R)' /\ receiver' = result
<1>1. toSender' \in Seq(R) /\ Len(toSender') <= ChanCap
  BY DeliverableSeq DEF Channels, ReceiverReturns
<1>2. toReceiver' = <<>>
  BY DEF ReceiverReturns
<1>3. toReceiver' \in Seq(S) /\ Len(toReceiver') <= ChanCap
  BY <1>2, EmptyChannel
<1> QED BY <1>1, <1>3 DEF Channels, ReceiverReturns

LEMMA SenderSendsChannels ==
  ASSUME NEW S, NEW R, Channels(S, R), NEW m \in S, NEW next,
         SenderSends(m, next)
  PROVE  Channels(S, R)' /\ sender' \in {next, "ConnLost"}
<1>1. CASE ~SenderBroken /\ Len(toReceiver) < ChanCap
           /\ toReceiver' = Append(toReceiver, m) /\ sender' = next
           /\ UNCHANGED toSender
  BY <1>1, AppendChannel DEF Channels
<1>2. CASE sender' = next /\ UNCHANGED <<toSender, toReceiver>>
  BY <1>2 DEF Channels
<1>3. CASE SenderReturns("ConnLost", toSender)
  BY <1>3, SenderReturnsChannels
<1> QED BY <1>1, <1>2, <1>3 DEF SenderSends

LEMMA ReceiverSendsChannels ==
  ASSUME NEW S, NEW R, Channels(S, R), NEW m \in R, NEW next,
         ReceiverSends(m, next)
  PROVE  Channels(S, R)' /\ receiver' \in {next, "ConnLost"}
<1>1. CASE ~ReceiverBroken /\ Len(toSender) < ChanCap
           /\ toSender' = Append(toSender, m) /\ receiver' = next
           /\ UNCHANGED toReceiver
  BY <1>1, AppendChannel DEF Channels
<1>2. CASE receiver' = next /\ UNCHANGED <<toSender, toReceiver>>
  BY <1>2 DEF Channels
<1>3. CASE ReceiverReturns("ConnLost", toReceiver)
  BY <1>3, ReceiverReturnsChannels
<1> QED BY <1>1, <1>2, <1>3 DEF ReceiverSends

LEMMA SenderGoesOnChannels ==
  ASSUME NEW S, NEW R, Channels(S, R), toSender # <<>>, NEW next,
         SenderGoesOn(next)
  PROVE  Channels(S, R)' /\ sender' = next
  BY TailChannel DEF Channels, SenderGoesOn

LEMMA ReceiverGoesOnChannels ==
  ASSUME NEW S, NEW R, Channels(S, R), toReceiver # <<>>, NEW next,
         ReceiverGoesOn(next)
  PROVE  Channels(S, R)' /\ receiver' = next
  BY TailChannel DEF Channels, ReceiverGoesOn

-----------------------------------------------------------------------------
(* The inductive invariant in two halves: the channels and the rest. *)

SenderFrame == {m \in FromSender : SenderMaySend(m)}
ReceiverFrame == {m \in FromReceiver : ReceiverMaySend(m)}

Core ==
    /\ setup \in Setup
    /\ sender \in SenderPoints \cup SenderResults
    /\ receiver \in ReceiverPoints \cup ReceiverResults
    /\ offset \in 0..MaxBytes /\ offset <= Len(setup.bytes)
    /\ meta \in CraftMetadata \cup {NoMeta}
    /\ buffer \in Body
    /\ file \in Body \cup {NoFile}
    /\ conn \in {"up", "down"}
    /\ receiver \in AfterMeta => meta = MetadataOf(setup.bytes)
    /\ receiver \in {"recvDone", "createFile", "writeFile", "Ok"} => Verified
    /\ receiver = "writeFile" => file = <<>>
    /\ SavedIsSent
    /\ HasSent \/ sender = "sendDone" => Verified
    /\ SavedMeansSent

LEMMA Halves == InductiveInv <=> Core /\ Channels(SenderFrame, ReceiverFrame)
<1> DEFINE toR == toReceiver \in Seq(FromSender)
           toS == toSender \in Seq(FromReceiver)
<1>1. ASSUME toR
      PROVE  toReceiver \in Seq(SenderFrame)
               <=> \A i \in 1..Len(toReceiver) : SenderMaySend(toReceiver[i])
  <2>1. \A i \in 1..Len(toReceiver) : toReceiver[i] \in FromSender
    BY <1>1, ElementOfSeq
  <2>2. SenderFrame \subseteq FromSender
    BY DEF SenderFrame
  <2>3. toReceiver \in Seq(SenderFrame)
          <=> \A i \in 1..Len(toReceiver) : toReceiver[i] \in SenderFrame
    BY <1>1, <2>2, SeqNarrow
  <2> QED BY <2>1, <2>3 DEF SenderFrame
<1>2. ASSUME toS
      PROVE  toSender \in Seq(ReceiverFrame)
               <=> \A i \in 1..Len(toSender) : ReceiverMaySend(toSender[i])
  <2>1. \A i \in 1..Len(toSender) : toSender[i] \in FromReceiver
    BY <1>2, ElementOfSeq
  <2>2. ReceiverFrame \subseteq FromReceiver
    BY DEF ReceiverFrame
  <2>3. toSender \in Seq(ReceiverFrame)
          <=> \A i \in 1..Len(toSender) : toSender[i] \in ReceiverFrame
    BY <1>2, <2>2, SeqNarrow
  <2> QED BY <2>1, <2>3 DEF ReceiverFrame
<1>3. toReceiver \in Seq(SenderFrame) => toR
  BY SeqWiden DEF SenderFrame
<1>4. toSender \in Seq(ReceiverFrame) => toS
  BY SeqWiden DEF ReceiverFrame
<1>5. InductiveInv <=>
        Core /\ toR /\ toS /\ InFlight
             /\ Len(toReceiver) <= ChanCap /\ Len(toSender) <= ChanCap
  BY DEF InductiveInv, TypeOK, Core
<1> QED BY <1>1, <1>2, <1>3, <1>4, <1>5 DEF Channels, InFlight

(* A craft file that may be sent, its metadata and its messages. *)
LEMMA SetupFacts ==
  ASSUME Core
  PROVE  /\ setup.bytes \in Body
         /\ setup.bytes \in Seq(Byte)
         /\ Len(setup.bytes) \in Nat
         /\ Len(setup.bytes) <= MaxBytes
         /\ setup.old \in Body \cup {NoFile}
         /\ setup.sver \in Versions /\ setup.rver \in Versions
         /\ MetadataOf(setup.bytes) \in CraftMetadata
<1>1. /\ setup.bytes \in Body
      /\ setup.old \in Body \cup {NoFile}
      /\ setup.sver \in Versions /\ setup.rver \in Versions
  BY SessionAssumption DEF Core, Setup
<1>2. /\ setup.bytes \in Seq(Byte)
      /\ Len(setup.bytes) \in Nat
      /\ Len(setup.bytes) <= MaxBytes
  BY <1>1, BodyIsSeq, LenProperties
<1>3. MetadataOf(setup.bytes) \in CraftMetadata
  BY <1>1, <1>2, SizeAssumption DEF MetadataOf, CraftMetadata, Digest
<1> QED BY <1>1, <1>2, <1>3

(* A step of the sender keeps Core when it stays within its program, does  *)
(* not take back "Sent", and is sent on only by a verified receiver.       *)
LEMMA SenderKeeps ==
  ASSUME Core,
         UNCHANGED <<setup, receiverVars, conn>>,
         sender' \in SenderPoints \cup SenderResults,
         offset' \in Nat, offset' <= Len(setup.bytes),
         HasSent => HasSent',
         HasSent' \/ sender' = "sendDone" => Verified
  PROVE  /\ Core'
         /\ SenderFrame \subseteq SenderFrame'
         /\ ReceiverFrame \subseteq ReceiverFrame'
<1>1. Verified' <=> Verified
  BY DEF Verified, receiverVars
<1>2. SavedIsSent' <=> SavedIsSent
  BY DEF SavedIsSent, receiverVars
<1>3. offset' \in 0..MaxBytes
  <2>1. Len(setup.bytes) \in Nat /\ Len(setup.bytes) <= MaxBytes
    BY SetupFacts
  <2> QED BY <2>1, SizeAssumption
<1>4. SavedMeansSent'
  BY DEF SavedMeansSent, Core, receiverVars
<1>5. Core'
  BY <1>1, <1>2, <1>3, <1>4 DEF Core, receiverVars
<1>6. SenderFrame \subseteq SenderFrame'
  BY DEF SenderFrame, SenderMaySend
<1>7. ReceiverFrame \subseteq ReceiverFrame'
  BY <1>1 DEF ReceiverFrame, ReceiverMaySend
<1> QED BY <1>5, <1>6, <1>7

(* The same of the receiver: what a step must establish at the point it    *)
(* leads to, and keep of what was verified before.                         *)
ReceiverProgress ==
    /\ UNCHANGED <<setup, senderVars, conn>>
    /\ receiver' \in ReceiverPoints \cup ReceiverResults
    /\ meta' \in CraftMetadata \cup {NoMeta}
    /\ buffer' \in Body
    /\ file' \in Body \cup {NoFile}
    /\ Verified => Verified'
    /\ receiver' \in AfterMeta => meta' = MetadataOf(setup.bytes)
    /\ receiver' \in {"recvDone", "createFile", "writeFile", "Ok"} => Verified'
    /\ receiver' = "writeFile" => file' = <<>>
    /\ SavedIsSent'
    /\ receiver' \in {"createFile", "writeFile", "Ok", "DiskError", "KspNotFound"}
         => HasSent

LEMMA ReceiverKeeps ==
  ASSUME Core, ReceiverProgress
  PROVE  /\ Core'
         /\ SenderFrame \subseteq SenderFrame'
         /\ ReceiverFrame \subseteq ReceiverFrame'
<1>1. HasSent' <=> HasSent
  BY DEF HasSent, senderVars, ReceiverProgress
<1>2. Core'
  BY <1>1 DEF Core, senderVars, SavedMeansSent, ReceiverProgress
<1>3. SenderFrame \subseteq SenderFrame'
  BY <1>1 DEF SenderFrame, SenderMaySend, ReceiverProgress
<1>4. ReceiverFrame \subseteq ReceiverFrame'
  BY DEF ReceiverProgress, ReceiverFrame, ReceiverMaySend
<1> QED BY <1>2, <1>3, <1>4

(* The channels hold frames of sets that only grow. *)
LEMMA ChannelsWiden ==
  ASSUME NEW S, NEW R, NEW S1, NEW R1,
         Channels(S, R), S \subseteq S1, R \subseteq R1
  PROVE  Channels(S1, R1)
  BY SeqWiden DEF Channels

LEMMA Rejoin ==
  ASSUME NEW S, NEW R, S = SenderFrame', R = ReceiverFrame',
         Core', Channels(S, R)'
  PROVE  InductiveInv'
<1>1. InductiveInv' <=> (Core /\ Channels(SenderFrame, ReceiverFrame))'
  BY Halves, PTL
<1>2. Channels(SenderFrame, ReceiverFrame)'
  BY DEF Channels
<1> QED BY <1>1, <1>2

-----------------------------------------------------------------------------
(* The sender sends, reads or returns. *)

LEMMA SenderSending ==
  ASSUME InductiveInv, UNCHANGED <<setup, receiverVars, conn>>,
         ~HasSent,
         NEW m, NEW next \in SenderPoints, SenderSends(m, next),
         m \in FromSender, SenderMaySend(m)',
         offset' \in Nat, offset' <= Len(setup.bytes),
         next \in {"finish", "sendDone"} => Verified
  PROVE  InductiveInv'
<1> PICK S, R : S = SenderFrame' /\ R = ReceiverFrame'
  OBVIOUS
<1>1. Core /\ Channels(SenderFrame, ReceiverFrame)
  BY Halves
<1>2. sender' \in {next, "ConnLost"}
  BY DEF SenderSends, SenderReturns
<1>3. /\ sender' \in SenderPoints \cup SenderResults
      /\ HasSent' \/ sender' = "sendDone" => Verified
  BY <1>2 DEF HasSent, SenderPoints, SenderResults
<1>4. /\ Core'
      /\ SenderFrame \subseteq SenderFrame'
      /\ ReceiverFrame \subseteq ReceiverFrame'
  BY <1>1, <1>3, SenderKeeps
<1>5. m \in S
  BY DEF SenderFrame
<1>6. Channels(S, R)
  BY <1>1, <1>4, ChannelsWiden
<1>7. Channels(S, R)'
  BY <1>5, <1>6, SenderSendsChannels
<1> QED BY <1>4, <1>7, Rejoin

LEMMA SenderReading ==
  ASSUME InductiveInv, UNCHANGED <<setup, offset, receiverVars, conn>>,
         ~HasSent,
         toSender # <<>>,
         NEW next \in SenderPoints \ {"finish"}, SenderGoesOn(next),
         next = "sendDone" => Verified
  PROVE  InductiveInv'
<1> PICK S, R : S = SenderFrame' /\ R = ReceiverFrame'
  OBVIOUS
<1>1. Core /\ Channels(SenderFrame, ReceiverFrame)
  BY Halves
<1>2. sender' = next
  BY DEF SenderGoesOn
<1>3. /\ sender' \in SenderPoints \cup SenderResults
      /\ HasSent' \/ sender' = "sendDone" => Verified
  BY <1>2 DEF HasSent, SenderPoints, SenderResults
<1>4. offset' \in Nat /\ offset' <= Len(setup.bytes)
  BY <1>1 DEF Core
<1>5. /\ Core'
      /\ SenderFrame \subseteq SenderFrame'
      /\ ReceiverFrame \subseteq ReceiverFrame'
  BY <1>1, <1>3, <1>4, SenderKeeps
<1>6. Channels(S, R)
  BY <1>1, <1>5, ChannelsWiden
<1>7. Channels(S, R)'
  BY <1>6, SenderGoesOnChannels
<1> QED BY <1>5, <1>7, Rejoin

LEMMA SenderReturning ==
  ASSUME InductiveInv, UNCHANGED <<setup, offset, receiverVars, conn>>,
         NEW result \in SenderResults, NEW u, SenderReturns(result, u),
         HasSent <=> result \in {"Ok", "CrashedSent"}
  PROVE  InductiveInv'
<1> PICK S, R : S = SenderFrame' /\ R = ReceiverFrame'
  OBVIOUS
<1>1. Core /\ Channels(SenderFrame, ReceiverFrame)
  BY Halves
<1>2. sender' = result
  BY DEF SenderReturns
<1>3. /\ sender' \in SenderPoints \cup SenderResults
      /\ HasSent' <=> HasSent
      /\ HasSent' \/ sender' = "sendDone" => Verified
  BY <1>1, <1>2 DEF Core, HasSent, SenderPoints, SenderResults
<1>4. offset' \in Nat /\ offset' <= Len(setup.bytes)
  BY <1>1 DEF Core
<1>5. /\ Core'
      /\ SenderFrame \subseteq SenderFrame'
      /\ ReceiverFrame \subseteq ReceiverFrame'
  BY <1>1, <1>3, <1>4, SenderKeeps
<1>6. Channels(S, R)
  BY <1>1, <1>5, ChannelsWiden
<1>7. Channels(S, R)'
  BY <1>6, SenderReturnsChannels
<1> QED BY <1>5, <1>7, Rejoin

(* Every step of the sender keeps the invariant. *)
LEMMA SenderStep ==
  ASSUME InductiveInv, SenderSession
  PROVE  InductiveInv'
<1>1. Core /\ Channels(SenderFrame, ReceiverFrame)
  BY Halves
<1>2. offset \in Nat /\ offset <= Len(setup.bytes)
  BY <1>1 DEF Core
<1> USE DEF HasSent, SenderPoints, SenderResults
<1>3. CASE SenderSendHello
  <2>1. Hello(setup.sver) \in FromSender /\ SenderMaySend(Hello(setup.sver))'
    BY <1>1, <1>3, SetupFacts
    DEF FromSender, SenderMaySend, Hello, SenderSendHello
  <2> QED BY <1>2, <1>3, <2>1, SenderSending
          DEF SenderSendHello, SenderHelloSent
<1>4. CASE SenderSendMeta
  <2>1. /\ Meta(MetadataOf(setup.bytes)) \in FromSender
        /\ SenderMaySend(Meta(MetadataOf(setup.bytes)))'
    BY <1>1, <1>4, SetupFacts DEF FromSender, SenderMaySend, Meta, SenderSendMeta
  <2> QED BY <1>2, <1>4, <2>1, SenderSending DEF SenderSendMeta
<1>5. CASE SenderSendData
  <2> DEFINE c == Chunk(setup.bytes, offset)
  <2>1. /\ c \in Body /\ offset + Len(c) <= Len(setup.bytes)
        /\ NextOffset(setup.bytes, offset) = ChunkEnd(setup.bytes, offset)
    BY <1>1, <1>2, <1>5, SetupFacts, ChunkWithin DEF SenderSendData
  <2>2. /\ ChunkEnd(setup.bytes, offset) \in Nat
        /\ ChunkEnd(setup.bytes, offset) <= Len(setup.bytes)
    BY <1>1, <1>2, SetupFacts, SizeAssumption DEF ChunkEnd
  <2>3. offset' \in Nat /\ offset' <= Len(setup.bytes)
    BY <1>2, <1>5, <2>1, <2>2 DEF SenderSendData
  <2> PICK m : m = Data(offset, c)
    OBVIOUS
  <2>4. m \in FromSender
    BY <1>1, <2>1 DEF FromSender, Core
  <2>5. SenderMaySend(m)'
    <3>1. setup' = setup
      BY <1>5 DEF SenderSendData
    <3> QED BY <2>1, <3>1 DEF SenderMaySend, Data
  <2>6. SenderSends(m, "sendData")
    BY <1>5 DEF SenderSendData
  <2> QED BY <1>5, <2>3, <2>4, <2>5, <2>6, SenderSending DEF SenderSendData
<1>6. CASE SenderSendEof
  <2>1. Eof \in FromSender /\ SenderMaySend(Eof)'
    BY DEF FromSender, SenderMaySend, Eof
  <2> QED BY <1>2, <1>6, <2>1, SenderSending DEF SenderSendEof
<1>7. CASE SenderSendDone
  <2>1. Done \in FromSender
    BY DEF FromSender
  <2>2. CASE sender' = "finish"
    <3>1. SenderMaySend(Done)'
      BY <2>2 DEF SenderMaySend, Done
    <3>2. Verified
      BY <1>1, <1>7 DEF Core, SenderSendDone
    <3> QED BY <1>2, <1>7, <2>1, <3>1, <3>2, SenderSending DEF SenderSendDone
  <2>3. CASE sender' # "finish"
    <3>1. SenderReturns("ConnLost", toSender)
      BY <1>7, <2>3 DEF SenderSendDone, SenderSends
    <3> QED BY <1>7, <3>1, SenderReturning DEF SenderSendDone
  <2> QED BY <2>2, <2>3
<1>8. CASE SenderRecvHello
  <2>1. \/ SenderGoesOn(SenderHelloRead)
        \/ SenderReturns("VersionMismatch", Tail(toSender))
        \/ SenderReturns("Unexpected", Tail(toSender))
    BY <1>8 DEF SenderRecvHello
  <2>2. CASE SenderGoesOn(SenderHelloRead)
    BY <1>8, <2>2, SenderReading DEF SenderRecvHello, SenderHelloRead
  <2> QED BY <1>8, <2>1, <2>2, SenderReturning DEF SenderRecvHello
<1>9. CASE SenderRecvReady
  <2>1. \/ SenderGoesOn("sendData")
        \/ SenderReturns("PeerRejected", Tail(toSender))
        \/ SenderReturns("Unexpected", Tail(toSender))
    BY <1>9 DEF SenderRecvReady
  <2>2. CASE SenderGoesOn("sendData")
    BY <1>9, <2>2, SenderReading DEF SenderRecvReady
  <2> QED BY <1>9, <2>1, <2>2, SenderReturning DEF SenderRecvReady
<1>10. CASE SenderRecvVerify
  <2>1. \/ Head(toSender) = Verify(TRUE) /\ SenderGoesOn("sendDone")
        \/ SenderReturns("ChecksumMismatch", Tail(toSender))
        \/ SenderReturns("Unexpected", Tail(toSender))
    BY <1>10 DEF SenderRecvVerify
  <2>2. CASE Head(toSender) = Verify(TRUE) /\ SenderGoesOn("sendDone")
    <3>1. Head(toSender) \in ReceiverFrame
      BY <1>1, <1>10, HeadTailProperties DEF Channels, SenderRecvVerify
    <3>2. Verified
      BY <2>2, <3>1 DEF ReceiverFrame, ReceiverMaySend, Verify
    <3> QED BY <1>10, <2>2, <3>2, SenderReading DEF SenderRecvVerify
  <2> QED BY <1>10, <2>1, <2>2, SenderReturning DEF SenderRecvVerify
<1>11. CASE SenderFinish
  BY <1>11, SenderReturning DEF SenderFinish
<1>12. CASE SenderRecvFails
  BY <1>12, SenderReturning DEF SenderRecvFails, SenderRecvPoints
<1> QED BY <1>3, <1>4, <1>5, <1>6, <1>7, <1>8, <1>9, <1>10, <1>11, <1>12
        DEF SenderSession

-----------------------------------------------------------------------------
(* The receiver sends, reads, returns, or works on its own. *)

LEMMA ReceiverSending ==
  ASSUME InductiveInv, ReceiverProgress,
         NEW m, NEW next, ReceiverSends(m, next),
         m \in FromReceiver, ReceiverMaySend(m)'
  PROVE  InductiveInv'
<1> PICK S, R : S = SenderFrame' /\ R = ReceiverFrame'
  OBVIOUS
<1>1. Core /\ Channels(SenderFrame, ReceiverFrame)
  BY Halves
<1>2. /\ Core'
      /\ SenderFrame \subseteq SenderFrame'
      /\ ReceiverFrame \subseteq ReceiverFrame'
  BY <1>1, ReceiverKeeps
<1>3. m \in R
  BY DEF ReceiverFrame
<1>4. Channels(S, R)
  BY <1>1, <1>2, ChannelsWiden
<1>5. Channels(S, R)'
  BY <1>3, <1>4, ReceiverSendsChannels
<1> QED BY <1>2, <1>5, Rejoin

LEMMA ReceiverReading ==
  ASSUME InductiveInv, ReceiverProgress,
         toReceiver # <<>>, NEW next, ReceiverGoesOn(next)
  PROVE  InductiveInv'
<1> PICK S, R : S = SenderFrame' /\ R = ReceiverFrame'
  OBVIOUS
<1>1. Core /\ Channels(SenderFrame, ReceiverFrame)
  BY Halves
<1>2. /\ Core'
      /\ SenderFrame \subseteq SenderFrame'
      /\ ReceiverFrame \subseteq ReceiverFrame'
  BY <1>1, ReceiverKeeps
<1>3. Channels(S, R)
  BY <1>1, <1>2, ChannelsWiden
<1>4. Channels(S, R)'
  BY <1>3, ReceiverGoesOnChannels
<1> QED BY <1>2, <1>4, Rejoin

LEMMA ReceiverReturning ==
  ASSUME InductiveInv, ReceiverProgress,
         NEW result, NEW u, ReceiverReturns(result, u)
  PROVE  InductiveInv'
<1> PICK S, R : S = SenderFrame' /\ R = ReceiverFrame'
  OBVIOUS
<1>1. Core /\ Channels(SenderFrame, ReceiverFrame)
  BY Halves
<1>2. /\ Core'
      /\ SenderFrame \subseteq SenderFrame'
      /\ ReceiverFrame \subseteq ReceiverFrame'
  BY <1>1, ReceiverKeeps
<1>3. Channels(S, R)
  BY <1>1, <1>2, ChannelsWiden
<1>4. Channels(S, R)'
  BY <1>3, ReceiverReturnsChannels
<1> QED BY <1>2, <1>4, Rejoin

LEMMA ReceiverWorking ==
  ASSUME InductiveInv, ReceiverProgress, UNCHANGED <<toSender, toReceiver>>
  PROVE  InductiveInv'
<1> PICK S, R : S = SenderFrame' /\ R = ReceiverFrame'
  OBVIOUS
<1>1. Core /\ Channels(SenderFrame, ReceiverFrame)
  BY Halves
<1>2. /\ Core'
      /\ SenderFrame \subseteq SenderFrame'
      /\ ReceiverFrame \subseteq ReceiverFrame'
  BY <1>1, ReceiverKeeps
<1>3. Channels(S, R)
  BY <1>1, <1>2, ChannelsWiden
<1>4. Channels(S, R)'
  BY <1>3 DEF Channels
<1> QED BY <1>2, <1>4, Rejoin

(* A step that leaves the data alone makes progress when the point it      *)
(* leads to asks for no more than the one it left.                         *)
LEMMA QuietProgress ==
  ASSUME Core,
         UNCHANGED <<setup, senderVars, meta, buffer, file, conn>>,
         receiver \in ReceiverPoints,
         receiver' \in (ReceiverPoints \cup ReceiverResults) \ {"Ok", "writeFile"},
         receiver' \in AfterMeta => receiver \in AfterMeta,
         Verified => receiver' \in {"recvDone", "createFile"} \cup ReceiverResults,
         receiver' \in {"recvDone", "createFile"} => buffer = setup.bytes,
         receiver' \in {"createFile", "DiskError", "KspNotFound"} => HasSent
  PROVE  ReceiverProgress
<1>1. Verified => Verified'
  BY DEF Verified
<1>2. receiver' \in {"recvDone", "createFile", "writeFile", "Ok"} => Verified'
  BY DEF Verified
<1>3. SavedIsSent'
  BY DEF SavedIsSent, Core
<1> QED BY <1>1, <1>2, <1>3 DEF ReceiverProgress, Core

(* The digest is right only for the craft file itself. *)
LEMMA DigestDecides ==
  ASSUME Core, receiver = "sendVerify", DigestMatches
  PROVE  buffer = setup.bytes
<1>1. meta = MetadataOf(setup.bytes)
  BY DEF Core, AfterMeta
<1>2. Sha256Hex(buffer) = Sha256Hex(setup.bytes)
  BY <1>1 DEF DigestMatches, MetadataOf
<1> QED BY <1>2, SetupFacts, CollisionFree DEF Core

(* What writing the verified buffer to the truncated file leaves. *)
LEMMA WritePrefix ==
  ASSUME Core, receiver = "writeFile", NEW p \in Prefixes(buffer)
  PROVE  file \o p \in Body /\ file \o p \in Prefixes(setup.bytes) /\ file \o p = p
<1>1. file = <<>> /\ buffer = setup.bytes /\ buffer \in Body
  BY DEF Core, Verified
<1>2. p \in Body
  BY <1>1, PrefixBody
<1>3. p \in Seq(Byte)
  BY <1>2, BodyIsSeq
<1>4. file \o p = p
  BY <1>1, <1>3, ConcatEmptySeq
<1> QED BY <1>1, <1>2, <1>4

(* Every step of the receiver keeps the invariant. *)
LEMMA ReceiverStep ==
  ASSUME InductiveInv, ReceiverSession
  PROVE  InductiveInv'
<1>1. Core /\ Channels(SenderFrame, ReceiverFrame)
  BY Halves
<1> USE DEF ReceiverPoints, ReceiverResults, AfterMeta
<1>3. CASE ReceiverSendHello
  <2>1. receiver' \in {"recvMeta", "recvHello", "ConnLost"}
    BY <1>3 DEF ReceiverSendHello, ReceiverSends, ReceiverReturns, ReceiverHelloSent
  <2>2. receiver' \in AfterMeta => receiver \in AfterMeta
    BY <2>1
  <2>3. ReceiverProgress
    BY <1>1, <1>3, <2>1, <2>2, QuietProgress DEF ReceiverSendHello, Verified
  <2>4. Hello(setup.rver) \in FromReceiver /\ ReceiverMaySend(Hello(setup.rver))'
    BY <1>1, SetupFacts DEF FromReceiver, ReceiverMaySend, Hello
  <2> QED BY <1>3, <2>3, <2>4, ReceiverSending DEF ReceiverSendHello
<1>4. CASE ReceiverRecvHello
  <2>1. \/ ReceiverGoesOn(ReceiverHelloRead)
        \/ ReceiverGoesOn("sendError")
        \/ ReceiverReturns("Unexpected", Tail(toReceiver))
    BY <1>4 DEF ReceiverRecvHello
  <2>2. receiver' \in {"sendHello", "recvMeta", "sendError", "Unexpected"}
    BY <2>1 DEF ReceiverGoesOn, ReceiverReturns, ReceiverHelloRead
  <2>3. ReceiverProgress
    BY <1>1, <1>4, <2>2, QuietProgress DEF ReceiverRecvHello, Verified
  <2> QED BY <1>4, <2>1, <2>3, ReceiverReading, ReceiverReturning
          DEF ReceiverRecvHello
<1>5. CASE ReceiverSendError
  <2>1. receiver' \in {"mismatched", "ConnLost"}
    BY <1>5 DEF ReceiverSendError, ReceiverSends, ReceiverReturns
  <2>2. ReceiverProgress
    BY <1>1, <1>5, <2>1, QuietProgress DEF ReceiverSendError, Verified
  <2>3. ErrorMsg \in FromReceiver /\ ReceiverMaySend(ErrorMsg)'
    BY DEF FromReceiver, ReceiverMaySend, ErrorMsg
  <2> QED BY <1>5, <2>2, <2>3, ReceiverSending DEF ReceiverSendError
<1>6. CASE ReceiverRecvMeta
  <2>1. Head(toReceiver) \in SenderFrame
    BY <1>1, <1>6, HeadTailProperties DEF Channels, ReceiverRecvMeta
  <2>2. \/ /\ Head(toReceiver).kind = "META"
           /\ ReceiverGoesOn("prompt") /\ meta' = Head(toReceiver).meta
        \/ ReceiverReturns("Unexpected", Tail(toReceiver)) /\ UNCHANGED meta
    BY <1>6 DEF ReceiverRecvMeta
  <2>3. CASE /\ Head(toReceiver).kind = "META"
             /\ ReceiverGoesOn("prompt") /\ meta' = Head(toReceiver).meta
    <3>1. meta' = MetadataOf(setup.bytes)
      BY <2>1, <2>3 DEF SenderFrame, SenderMaySend
    <3>2. receiver' = "prompt"
      BY <2>3 DEF ReceiverGoesOn
    <3>3. SavedIsSent'
      BY <1>1, <1>6, <3>2 DEF Core, SavedIsSent, ReceiverRecvMeta
    <3>4. ReceiverProgress
      BY <1>1, <1>6, <3>1, <3>2, <3>3, SetupFacts
      DEF ReceiverProgress, Core, ReceiverRecvMeta, Verified
    <3> QED BY <1>6, <2>3, <3>4, ReceiverReading DEF ReceiverRecvMeta
  <2>4. CASE ReceiverReturns("Unexpected", Tail(toReceiver)) /\ UNCHANGED meta
    <3>1. receiver' = "Unexpected"
      BY <2>4 DEF ReceiverReturns
    <3>2. ReceiverProgress
      BY <1>1, <1>6, <2>4, <3>1, QuietProgress DEF ReceiverRecvMeta, Verified
    <3> QED BY <2>4, <3>2, ReceiverReturning
  <2> QED BY <2>2, <2>3, <2>4
<1>7. CASE ReceiverPrompt
  <2>1. receiver' \in {"sendReady", "sendDecline"}
    BY <1>7 DEF ReceiverPrompt
  <2>2. ReceiverProgress
    BY <1>1, <1>7, <2>1, QuietProgress DEF ReceiverPrompt, Verified
  <2> QED BY <1>7, <2>2, ReceiverWorking DEF ReceiverPrompt
<1>8. CASE ReceiverPromptFails
  <2>1. receiver' = "PromptError"
    BY <1>8 DEF ReceiverPromptFails, ReceiverReturns
  <2>2. ReceiverProgress
    BY <1>1, <1>8, <2>1, QuietProgress DEF ReceiverPromptFails, Verified
  <2> QED BY <1>8, <2>2, ReceiverReturning DEF ReceiverPromptFails
<1>9. CASE ReceiverSendReady
  <2>1. receiver' \in {"recvData", "ConnLost"}
    BY <1>9 DEF ReceiverSendReady, ReceiverSends, ReceiverReturns
  <2>2. ReceiverProgress
    BY <1>1, <1>9, <2>1, QuietProgress DEF ReceiverSendReady, Verified
  <2>3. Ready(TRUE) \in FromReceiver /\ ReceiverMaySend(Ready(TRUE))'
    BY DEF FromReceiver, ReceiverMaySend, Ready
  <2> QED BY <1>9, <2>2, <2>3, ReceiverSending DEF ReceiverSendReady
<1>10. CASE ReceiverSendDecline
  <2>1. receiver' \in {"declined", "ConnLost"}
    BY <1>10 DEF ReceiverSendDecline, ReceiverSends, ReceiverReturns
  <2>2. ReceiverProgress
    BY <1>1, <1>10, <2>1, QuietProgress DEF ReceiverSendDecline, Verified
  <2>3. Ready(FALSE) \in FromReceiver /\ ReceiverMaySend(Ready(FALSE))'
    BY DEF FromReceiver, ReceiverMaySend, Ready
  <2> QED BY <1>10, <2>2, <2>3, ReceiverSending DEF ReceiverSendDecline
<1>11. CASE ReceiverRecvData
  <2>1. Head(toReceiver) \in SenderFrame
    BY <1>1, <1>11, HeadTailProperties DEF Channels, ReceiverRecvData
  <2>2. \/ /\ Head(toReceiver).kind = "DATA" /\ InOrder(Head(toReceiver))
           /\ ReceiverGoesOn("recvData")
           /\ buffer' = buffer \o Head(toReceiver).bytes
        \/ ReceiverGoesOn("sendVerify") /\ UNCHANGED buffer
        \/ ReceiverReturns("Unexpected", Tail(toReceiver)) /\ UNCHANGED buffer
    BY <1>11 DEF ReceiverRecvData
  <2>3. CASE /\ Head(toReceiver).kind = "DATA" /\ InOrder(Head(toReceiver))
             /\ ReceiverGoesOn("recvData")
             /\ buffer' = buffer \o Head(toReceiver).bytes
    <3>1. PICK o \in 0..MaxBytes, b \in Body : Head(toReceiver) = Data(o, b)
      BY <2>1, <2>3
      DEF SenderFrame, FromSender, Hello, Meta, Data, Eof, Done
    <3>2. Len(buffer) + Len(b) <= Len(setup.bytes)
      BY <2>1, <2>3, <3>1 DEF SenderFrame, SenderMaySend, InOrder, Data
    <3>3. buffer' = buffer \o b
      BY <2>3, <3>1 DEF Data
    <3>4. buffer \in Seq(Byte) /\ b \in Seq(Byte)
      BY <1>1, BodyIsSeq DEF Core
    <3>5. buffer \o b \in Seq(Byte) /\ Len(buffer \o b) = Len(buffer) + Len(b)
      BY <3>4, ConcatProperties
    <3>6. Len(buffer \o b) <= MaxBytes
      <4>1. Len(buffer) \in Nat /\ Len(b) \in Nat
        BY <3>4, LenProperties
      <4> QED BY <1>1, <3>2, <3>5, <4>1, SetupFacts, SizeAssumption
    <3>7. buffer' \in Body
      BY <3>3, <3>5, <3>6, BodyIsSeq
    <3>8. receiver' = "recvData"
      BY <2>3 DEF ReceiverGoesOn
    <3>9. SavedIsSent'
      BY <1>1, <1>11, <3>8 DEF Core, SavedIsSent, ReceiverRecvData
    <3>10. ReceiverProgress
      BY <1>1, <1>11, <3>7, <3>8, <3>9
      DEF ReceiverProgress, Core, ReceiverRecvData, Verified
    <3> QED BY <1>11, <2>3, <3>10, ReceiverReading DEF ReceiverRecvData
  <2>4. CASE ReceiverGoesOn("sendVerify") /\ UNCHANGED buffer
    <3>1. receiver' = "sendVerify"
      BY <2>4 DEF ReceiverGoesOn
    <3>2. ReceiverProgress
      BY <1>1, <1>11, <2>4, <3>1, QuietProgress DEF ReceiverRecvData, Verified
    <3> QED BY <1>11, <2>4, <3>2, ReceiverReading DEF ReceiverRecvData
  <2>5. CASE ReceiverReturns("Unexpected", Tail(toReceiver)) /\ UNCHANGED buffer
    <3>1. receiver' = "Unexpected"
      BY <2>5 DEF ReceiverReturns
    <3>2. ReceiverProgress
      BY <1>1, <1>11, <2>5, <3>1, QuietProgress DEF ReceiverRecvData, Verified
    <3> QED BY <2>5, <3>2, ReceiverReturning
  <2> QED BY <2>2, <2>3, <2>4, <2>5
<1>12. CASE ReceiverSendVerify
  <2>1. receiver' \in {AfterVerify, "ConnLost"}
    BY <1>12 DEF ReceiverSendVerify, ReceiverSends, ReceiverReturns
  <2>2. receiver' \in {"recvDone", "badSum", "ConnLost"}
    BY <2>1 DEF AfterVerify
  <2>3. DigestMatches => buffer = setup.bytes
    BY <1>1, <1>12, DigestDecides DEF ReceiverSendVerify
  <2>4. receiver' = "recvDone" => buffer = setup.bytes
    BY <2>1, <2>3 DEF AfterVerify
  <2>5. ReceiverProgress
    BY <1>1, <1>12, <2>2, <2>4, QuietProgress DEF ReceiverSendVerify, Verified
  <2> PICK m : m = Verify(DigestMatches)
    OBVIOUS
  <2>6. m \in FromReceiver
    BY DEF FromReceiver, DigestMatches
  <2>7. ReceiverMaySend(m)'
    <3>1. ASSUME m.sha256_ok PROVE Verified'
      <4>1. DigestMatches
        BY <3>1 DEF Verify
      <4>2. receiver' \in {"recvDone", "ConnLost"}
        BY <2>1, <4>1 DEF AfterVerify
      <4> QED BY <1>12, <2>3, <4>1, <4>2 DEF Verified, ReceiverSendVerify
    <3> QED BY <3>1 DEF ReceiverMaySend
  <2>8. ReceiverSends(m, AfterVerify)
    BY <1>12 DEF ReceiverSendVerify
  <2> QED BY <2>5, <2>6, <2>7, <2>8, ReceiverSending
<1>13. CASE ReceiverRecvDone
  <2>1. Head(toReceiver) \in SenderFrame
    BY <1>1, <1>13, HeadTailProperties DEF Channels, ReceiverRecvDone
  <2>2. \/ Head(toReceiver) = Done /\ ReceiverGoesOn("createFile")
        \/ ReceiverReturns("Unexpected", Tail(toReceiver))
    BY <1>13 DEF ReceiverRecvDone
  <2>3. buffer = setup.bytes
    BY <1>1, <1>13 DEF Core, Verified, ReceiverRecvDone
  <2>4. CASE Head(toReceiver) = Done /\ ReceiverGoesOn("createFile")
    <3>1. HasSent
      BY <2>1, <2>4 DEF SenderFrame, SenderMaySend, Done
    <3>2. receiver' = "createFile"
      BY <2>4 DEF ReceiverGoesOn
    <3>3. ReceiverProgress
      BY <1>1, <1>13, <2>3, <3>1, <3>2, QuietProgress DEF ReceiverRecvDone, Verified
    <3> QED BY <1>13, <2>4, <3>3, ReceiverReading DEF ReceiverRecvDone
  <2>5. CASE ReceiverReturns("Unexpected", Tail(toReceiver))
    <3>1. receiver' = "Unexpected"
      BY <2>5 DEF ReceiverReturns
    <3>2. ReceiverProgress
      BY <1>1, <1>13, <2>3, <3>1, QuietProgress DEF ReceiverRecvDone, Verified
    <3> QED BY <2>5, <3>2, ReceiverReturning
  <2> QED BY <2>2, <2>4, <2>5
<1>14. CASE ReceiverCreateFile
  <2>1. Verified /\ buffer = setup.bytes /\ HasSent
    BY <1>1, <1>14 DEF Core, SavedMeansSent, ReceiverCreateFile, Verified
  <2>2. CASE ReceiverReturns("KspNotFound", toReceiver) /\ UNCHANGED file
    <3>1. receiver' = "KspNotFound"
      BY <2>2 DEF ReceiverReturns
    <3>2. ReceiverProgress
      BY <1>1, <1>14, <2>1, <2>2, <3>1, QuietProgress DEF ReceiverCreateFile, Verified
    <3> QED BY <2>2, <3>2, ReceiverReturning
  <2>3. CASE ReceiverReturns("DiskError", toReceiver) /\ UNCHANGED file
    <3>1. receiver' = "DiskError"
      BY <2>3 DEF ReceiverReturns
    <3>2. ReceiverProgress
      BY <1>1, <1>14, <2>1, <2>3, <3>1, QuietProgress DEF ReceiverCreateFile, Verified
    <3> QED BY <2>3, <3>2, ReceiverReturning
  <2>4. CASE file' = Truncated /\ receiver' = "writeFile"
             /\ UNCHANGED <<toSender, toReceiver>>
    <3>1. file' = <<>>
      BY <2>4 DEF Truncated
    <3>2. <<>> \in Prefixes(setup.bytes) /\ file' \in Body
      BY <1>1, <3>1, SetupFacts, TrivialPrefixes, EmptyBody
    <3>3. SavedIsSent'
      BY <1>14, <2>4, <3>1, <3>2 DEF SavedIsSent, ReceiverCreateFile
    <3>4. Verified'
      BY <1>14, <2>1, <2>4 DEF Verified, ReceiverCreateFile
    <3>5. ReceiverProgress
      BY <1>1, <1>14, <2>1, <2>4, <3>1, <3>2, <3>3, <3>4
      DEF ReceiverProgress, Core, ReceiverCreateFile
    <3> QED BY <2>4, <3>5, ReceiverWorking
  <2> QED BY <1>14, <2>2, <2>3, <2>4 DEF ReceiverCreateFile
<1>15. CASE ReceiverWriteFile
  <2>1. Verified /\ buffer = setup.bytes /\ HasSent /\ meta = MetadataOf(setup.bytes)
    BY <1>1, <1>15 DEF Core, SavedMeansSent, ReceiverWriteFile, Verified
  <2>2. buffer \in Prefixes(buffer)
    BY <1>1, <2>1, SetupFacts, TrivialPrefixes
  <2>3. CASE file' = file \o buffer /\ ReceiverReturns("Ok", toReceiver)
    <3>1. file' = setup.bytes /\ file' \in Body /\ file' \in Prefixes(setup.bytes)
      BY <1>1, <1>15, <2>1, <2>2, <2>3, WritePrefix DEF ReceiverWriteFile
    <3>2. receiver' = "Ok"
      BY <2>3 DEF ReceiverReturns
    <3>3. SavedIsSent'
      BY <1>15, <2>1, <3>1 DEF SavedIsSent, ReceiverWriteFile, MetadataOf
    <3>4. Verified'
      BY <1>15, <2>1, <3>2 DEF Verified, ReceiverWriteFile
    <3>5. ReceiverProgress
      BY <1>1, <1>15, <2>1, <3>1, <3>2, <3>3, <3>4
      DEF ReceiverProgress, Core, ReceiverWriteFile
    <3> QED BY <2>3, <3>5, ReceiverReturning
  <2>4. CASE /\ \E written \in Prefixes(buffer) \ {buffer} : file' = file \o written
             /\ ReceiverReturns("DiskError", toReceiver)
    <3>1. file' \in Body /\ file' \in Prefixes(setup.bytes)
      BY <1>1, <1>15, <2>4, WritePrefix DEF ReceiverWriteFile
    <3>2. receiver' = "DiskError"
      BY <2>4 DEF ReceiverReturns
    <3>3. SavedIsSent'
      BY <1>15, <3>1, <3>2 DEF SavedIsSent, ReceiverWriteFile
    <3>4. Verified'
      BY <1>15, <2>1, <3>2 DEF Verified, ReceiverWriteFile
    <3>5. ReceiverProgress
      BY <1>1, <1>15, <2>1, <3>1, <3>2, <3>3, <3>4
      DEF ReceiverProgress, Core, ReceiverWriteFile
    <3> QED BY <2>4, <3>5, ReceiverReturning
  <2> QED BY <1>15, <2>3, <2>4 DEF ReceiverWriteFile
<1>16. CASE ReceiverRefuses
  <2>1. receiver \in {"mismatched", "declined", "badSum"}
    BY <1>16 DEF ReceiverRefuses, Refusal
  <2>2. receiver' \in {"VersionMismatch", "PeerRejected", "ChecksumMismatch"}
    BY <1>16, <2>1 DEF ReceiverRefuses, ReceiverReturns, Refusal
  <2>3. ReceiverProgress
    BY <1>1, <1>16, <2>1, <2>2, QuietProgress DEF ReceiverRefuses, Verified
  <2> QED BY <1>16, <2>3, ReceiverReturning DEF ReceiverRefuses
<1>17. CASE ReceiverRecvFails
  <2>1. receiver' = "ConnLost"
    BY <1>17 DEF ReceiverRecvFails, ReceiverReturns
  <2>2. ReceiverProgress
    BY <1>1, <1>17, <2>1, QuietProgress
    DEF ReceiverRecvFails, ReceiverRecvPoints, Verified
  <2> QED BY <1>17, <2>2, ReceiverReturning DEF ReceiverRecvFails
<1> QED BY <1>3, <1>4, <1>5, <1>6, <1>7, <1>8, <1>9, <1>10, <1>11, <1>12,
           <1>13, <1>14, <1>15, <1>16, <1>17 DEF ReceiverSession

-----------------------------------------------------------------------------
(* So do the faults. *)

LEMMA CrashStep ==
  ASSUME InductiveInv, SenderCrash \/ ReceiverCrash
  PROVE  InductiveInv'
<1>1. Core
  BY Halves
<1>2. CASE SenderCrash
  <2>1. SenderReturns(IF sender = "finish" THEN "CrashedSent" ELSE "Crashed",
                      toSender)
    BY <1>2 DEF SenderCrash
  <2> QED BY <1>2, <2>1, SenderReturning
          DEF SenderCrash, HasSent, SenderPoints, SenderResults
<1>3. CASE ReceiverCrash
  <2> USE DEF ReceiverPoints, ReceiverResults, AfterMeta
  <2>1. receiver' = "Crashed"
    BY <1>3 DEF ReceiverCrash, ReceiverReturns
  <2>2. CASE receiver # "writeFile"
    <3>1. ReceiverProgress
      BY <1>1, <1>3, <2>1, <2>2, QuietProgress DEF ReceiverCrash, Verified
    <3> QED BY <1>3, <3>1, ReceiverReturning DEF ReceiverCrash
  <2>3. CASE receiver = "writeFile"
    <3>1. file' \in Body /\ file' \in Prefixes(setup.bytes)
      BY <1>1, <1>3, <2>3, WritePrefix DEF ReceiverCrash
    <3>2. SavedIsSent'
      BY <1>3, <2>1, <3>1 DEF SavedIsSent, ReceiverCrash
    <3>3. ReceiverProgress
      BY <1>1, <1>3, <2>1, <2>3, <3>1, <3>2
      DEF ReceiverProgress, Core, ReceiverCrash, Verified
    <3> QED BY <1>3, <3>3, ReceiverReturning DEF ReceiverCrash
  <2> QED BY <2>2, <2>3
<1> QED BY <1>2, <1>3

(* The steps of the network leave both ends alone. *)
LEMMA NetworkKeeps ==
  ASSUME Core, UNCHANGED <<setup, senderVars, receiverVars>>,
         conn' \in {"up", "down"}
  PROVE  Core' /\ SenderFrame' = SenderFrame /\ ReceiverFrame' = ReceiverFrame
<1>1. Core'
  BY DEF Core, senderVars, receiverVars, Verified, HasSent, SavedIsSent,
         SavedMeansSent
<1>2. SenderFrame' = SenderFrame /\ ReceiverFrame' = ReceiverFrame
  BY DEF SenderFrame, ReceiverFrame, SenderMaySend, ReceiverMaySend, senderVars,
         receiverVars, Verified, HasSent
<1> QED BY <1>1, <1>2

LEMMA ResetStep ==
  ASSUME InductiveInv, ConnReset
  PROVE  InductiveInv'
<1> PICK S, R : S = SenderFrame' /\ R = ReceiverFrame'
  OBVIOUS
<1>1. Core /\ Channels(SenderFrame, ReceiverFrame)
  BY Halves
<1>2. Core' /\ S = SenderFrame /\ R = ReceiverFrame
  BY <1>1, NetworkKeeps DEF ConnReset
<1>3. /\ toReceiver' \in Seq(S) /\ Len(toReceiver') <= Len(toReceiver)
      /\ toSender' \in Seq(R) /\ Len(toSender') <= Len(toSender)
  BY <1>1, <1>2, PrefixSeq DEF Channels, ConnReset
<1>4. /\ Len(toReceiver) \in Nat /\ Len(toReceiver') \in Nat
      /\ Len(toSender) \in Nat /\ Len(toSender') \in Nat
      /\ ChanCap \in Nat
  BY <1>1, <1>3, LenProperties, SessionAssumption DEF Channels
<1>5. Channels(S, R)'
  BY <1>1, <1>3, <1>4 DEF Channels
<1> QED BY <1>2, <1>5, Rejoin

(* A corrupted DATA is as long as the one that was sent. *)
LEMMA CorruptionStep ==
  ASSUME InductiveInv, Corruption
  PROVE  InductiveInv'
<1> PICK S, R : S = SenderFrame' /\ R = ReceiverFrame'
  OBVIOUS
<1>1. Core /\ Channels(SenderFrame, ReceiverFrame)
  BY Halves
<1>2. Core' /\ S = SenderFrame /\ R = ReceiverFrame
  BY <1>1, NetworkKeeps DEF Corruption, Core
<1>3. PICK i \in DOMAIN toReceiver :
        /\ toReceiver[i].kind = "DATA"
        /\ \E bytes \in [DOMAIN toReceiver[i].bytes -> Byte] :
             toReceiver' = [toReceiver EXCEPT ![i].bytes = bytes]
  BY DEF Corruption
<1>4. PICK bytes \in [DOMAIN toReceiver[i].bytes -> Byte] :
        toReceiver' = [toReceiver EXCEPT ![i].bytes = bytes]
  BY <1>3
<1>5. toReceiver \in Seq(S) /\ i \in 1..Len(toReceiver)
  BY <1>1, <1>2, <1>3, LenProperties DEF Channels
<1>6. toReceiver[i] \in SenderFrame
  BY <1>2, <1>5, ElementOfSeq
<1>7. PICK o \in 0..MaxBytes, b \in Body : toReceiver[i] = Data(o, b)
  BY <1>3, <1>6 DEF SenderFrame, FromSender, Hello, Meta, Data, Eof, Done
<1>8. b \in Seq(Byte) /\ Len(b) \in Nat /\ Len(b) <= MaxBytes /\ DOMAIN b = 1..Len(b)
  BY <1>7, BodyIsSeq, LenProperties
<1>9. bytes \in Body /\ Len(bytes) = Len(b)
  <2>1. bytes \in [1..Len(b) -> Byte]
    BY <1>4, <1>7, <1>8 DEF Data
  <2>2. bytes \in Seq(Byte)
    BY <1>8, <2>1, IsASeq
  <2>3. Len(bytes) = Len(b)
    BY <1>8, <2>1, <2>2, LenProperties
  <2> QED BY <1>8, <2>2, <2>3, BodyIsSeq
<1>10. Data(o, bytes) \in S
  <2>1. Data(o, bytes) \in FromSender
    BY <1>7, <1>9 DEF FromSender
  <2>2. o + Len(b) <= Len(setup.bytes)
    BY <1>6, <1>7 DEF SenderFrame, SenderMaySend, Data
  <2>3. SenderMaySend(Data(o, bytes))
    BY <1>9, <2>2 DEF SenderMaySend, Data
  <2> QED BY <1>2, <2>1, <2>3 DEF SenderFrame
<1>11. toReceiver' = [toReceiver EXCEPT ![i] = Data(o, bytes)]
  <2>1. [toReceiver[i] EXCEPT !.bytes = bytes] = Data(o, bytes)
    BY <1>7 DEF Data
  <2> QED BY <1>4, <2>1
<1>12. toReceiver' \in Seq(S) /\ Len(toReceiver') = Len(toReceiver)
  BY <1>5, <1>10, <1>11, ExceptSeq
<1>13. Channels(S, R)'
  BY <1>1, <1>2, <1>12 DEF Channels, Corruption
<1> QED BY <1>2, <1>13, Rejoin

LEMMA StutterStep ==
  ASSUME InductiveInv, UNCHANGED vars
  PROVE  InductiveInv'
  BY DEF InductiveInv, vars, TypeOK, InFlight, SenderMaySend, ReceiverMaySend,
         Verified, HasSent, SavedIsSent, SavedMeansSent

LEMMA InitInv == Init => InductiveInv
<1> SUFFICES ASSUME Init PROVE InductiveInv
  OBVIOUS
<1>1. Core
  <2>1. /\ setup \in Setup /\ offset = 0 /\ buffer = <<>> /\ file = setup.old
        /\ meta = NoMeta /\ conn = "up"
        /\ sender \in {"sendHello", "recvHello"}
        /\ receiver \in {"sendHello", "recvHello"}
    BY DEF Init, SenderStart, ReceiverStart
  <2>2. setup.bytes \in Body /\ setup.old \in Body \cup {NoFile}
    BY <2>1, SessionAssumption DEF Setup
  <2>3. 0 <= Len(setup.bytes)
    BY <2>2, BodyIsSeq, LenProperties
  <2>4. SavedIsSent
    BY <2>1 DEF SavedIsSent
  <2> QED BY <2>1, <2>2, <2>3, <2>4, EmptyBody, SizeAssumption
          DEF Core, SenderPoints, ReceiverPoints, AfterMeta, HasSent,
              SavedMeansSent
<1>2. Channels(SenderFrame, ReceiverFrame)
  BY EmptyChannel DEF Init, Channels
<1> QED BY <1>1, <1>2, Halves

-----------------------------------------------------------------------------
(* The invariant holds in every reachable state. *)
THEOREM SessionInductive == Spec => []InductiveInv
<1>1. InductiveInv /\ [Next]_vars => InductiveInv'
  <2> SUFFICES ASSUME InductiveInv, [Next]_vars PROVE InductiveInv'
    OBVIOUS
  <2>1. CASE SenderSession
    BY <2>1, SenderStep
  <2>2. CASE ReceiverSession
    BY <2>2, ReceiverStep
  <2>3. CASE SenderCrash \/ ReceiverCrash
    BY <2>3, CrashStep
  <2>4. CASE ConnReset
    BY <2>4, ResetStep
  <2>5. CASE Corruption
    BY <2>5, CorruptionStep
  <2>6. CASE Terminated \/ UNCHANGED vars
    BY <2>6, StutterStep DEF Terminated
  <2> QED BY <2>1, <2>2, <2>3, <2>4, <2>5, <2>6 DEF Next
<1> QED BY InitInv, <1>1, PTL DEF Spec

(* Type correctness: control points, offsets, buffers and frames are what  *)
(* the programs' declarations say, and no channel overflows.               *)
THEOREM SessionTypeOK == Spec => []TypeOK
<1>1. InductiveInv => TypeOK
  BY DEF InductiveInv
<1> QED BY <1>1, SessionInductive, PTL

(* Whatever the craft file, the faults and the transport, the target path  *)
(* holds its old content or a prefix of the craft file, the whole of it    *)
(* when the receiver reports "Saved".                                      *)
THEOREM SessionSavedIsSent == Spec => []SavedIsSent
<1>1. InductiveInv => SavedIsSent
  BY DEF InductiveInv
<1> QED BY <1>1, SessionInductive, PTL

(* The receiver touches the disk only after the sender reports "Sent". *)
THEOREM SessionSavedMeansSent == Spec => []SavedMeansSent
<1>1. InductiveInv => SavedMeansSent
  BY DEF InductiveInv
<1> QED BY <1>1, SessionInductive, PTL

(* The sender reports "Sent" only when the receiver holds the whole file. *)
THEOREM SessionSentMeansVerified == Spec => []SentMeansVerified
<1>1. InductiveInv => SentMeansVerified
  BY DEF InductiveInv, SentMeansVerified, Verified
<1> QED BY <1>1, SessionInductive, PTL

-----------------------------------------------------------------------------
(* The session implements the promise of module Transfer. *)

(* A step that leaves the data alone and at most ends a program, is a      *)
(* failure or a stuttering step of the abstract transfer.                  *)
LEMMA SenderReportStep ==
  ASSUME InductiveInv, SenderSession \/ SenderCrash
  PROVE  [T!Next]_(T!vars)
<1>1. Core
  BY Halves
<1>2. UNCHANGED <<setup, receiver, meta, buffer, file>>
  BY DEF SenderSession, SenderSendHello, SenderRecvHello, SenderSendMeta,
         SenderRecvReady, SenderSendData, SenderSendEof, SenderRecvVerify,
         SenderSendDone, SenderFinish, SenderRecvFails, SenderCrash,
         receiverVars
<1>3. ReceiverReport' = ReceiverReport
  BY <1>2 DEF ReceiverReport
<1>4. /\ HasSent => HasSent'
      /\ sender \in SenderPoints
      /\ HasSent' => HasSent \/ sender = "sendDone"
  BY DEF SenderSession, SenderSendHello, SenderRecvHello, SenderSendMeta,
         SenderRecvReady, SenderSendData, SenderSendEof, SenderRecvVerify,
         SenderSendDone, SenderFinish, SenderRecvFails, SenderCrash,
         SenderSends, SenderReturns, SenderGoesOn, HasSent, SenderPoints,
         SenderHelloSent, SenderHelloRead, SenderRecvPoints
<1>5. HasSent' => buffer = setup.bytes
  BY <1>1, <1>4 DEF Core, Verified
<1>6. CASE HasSent
  <2>1. SenderReport = "sent" /\ SenderReport' = "sent"
    BY <1>4, <1>6 DEF SenderReport
  <2> QED BY <1>2, <1>3, <2>1 DEF T!vars
<1>7. CASE ~HasSent /\ HasSent'
  <2>1. SenderReport = "working" /\ SenderReport' = "sent"
    BY <1>4, <1>7 DEF SenderReport, SenderPoints, SenderResults
  <2>2. T!Confirm
    BY <1>2, <1>3, <1>5, <1>7, <2>1 DEF T!Confirm
  <2> QED BY <2>2 DEF T!Next
<1>8. CASE ~HasSent /\ ~HasSent'
  <2>1. SenderReport = "working" /\ SenderReport' \in {"working", "failed"}
    BY <1>4, <1>8 DEF SenderReport, SenderPoints, SenderResults
  <2>2. CASE SenderReport' = "working"
    BY <1>2, <1>3, <2>1, <2>2 DEF T!vars
  <2>3. CASE SenderReport' = "failed"
    <3>1. T!SenderFails
      BY <1>2, <1>3, <2>1, <2>3 DEF T!SenderFails
    <3> QED BY <3>1 DEF T!Next
  <2> QED BY <2>1, <2>2, <2>3
<1> QED BY <1>6, <1>7, <1>8

(* The steps of the receiver that touch neither its buffer nor the file. *)
LEMMA QuietReportStep ==
  ASSUME UNCHANGED <<setup, sender, buffer, file>>,
         receiver \in ReceiverPoints,
         receiver' \in (ReceiverPoints \cup ReceiverResults) \ {"Ok"}
  PROVE  [T!Next]_(T!vars)
<1>1. SenderReport' = SenderReport
  BY DEF SenderReport, HasSent
<1>2. ReceiverReport = "working"
  BY DEF ReceiverReport, ReceiverPoints, ReceiverResults
<1>3. CASE receiver' \in ReceiverPoints
  <2>1. ReceiverReport' = "working"
    BY <1>3 DEF ReceiverReport, ReceiverPoints, ReceiverResults
  <2> QED BY <1>1, <1>2, <2>1 DEF T!vars
<1>4. CASE receiver' \in ReceiverResults
  <2>1. ReceiverReport' = "failed"
    BY <1>4 DEF ReceiverReport, ReceiverResults
  <2>2. T!ReceiverFails
    BY <1>1, <1>2, <2>1 DEF T!ReceiverFails
  <2> QED BY <2>2 DEF T!Next
<1> QED BY <1>3, <1>4

(* The steps of the receiver that write the file. *)
LEMMA WriteReportStep ==
  ASSUME Core, Core', UNCHANGED <<setup, sender, buffer>>,
         receiver \in {"createFile", "writeFile"},
         receiver' \in {"writeFile", "Ok", "DiskError", "Crashed"},
         file' \in Prefixes(buffer)
  PROVE  [T!Next]_(T!vars)
<1>1. HasSent
  BY DEF Core, SavedMeansSent
<1>2. SenderReport = "sent" /\ SenderReport' = "sent"
  BY <1>1 DEF SenderReport, HasSent
<1>3. ReceiverReport = "working"
  BY DEF ReceiverReport, ReceiverResults
<1>4. CASE receiver' = "writeFile"
  <2>1. ReceiverReport' = "working"
    BY <1>4 DEF ReceiverReport, ReceiverResults
  <2>2. T!Write
    BY <1>2, <1>3, <2>1 DEF T!Write, Prefixes, T!Prefixes
  <2> QED BY <2>2 DEF T!Next
<1>5. CASE receiver' = "Ok"
  <2>1. ReceiverReport' = "saved"
    BY <1>5 DEF ReceiverReport
  <2>2. file' = buffer
    BY <1>5 DEF Core, SavedIsSent, Verified
  <2>3. T!Save
    BY <1>2, <1>3, <2>1, <2>2 DEF T!Save
  <2> QED BY <2>3 DEF T!Next
<1>6. CASE receiver' \in {"DiskError", "Crashed"}
  <2>1. ReceiverReport' = "failed"
    BY <1>6 DEF ReceiverReport, ReceiverResults
  <2>2. T!ReceiverFails
    BY <1>2, <1>3, <2>1 DEF T!ReceiverFails, Prefixes, T!Prefixes
  <2> QED BY <2>2 DEF T!Next
<1> QED BY <1>4, <1>5, <1>6

LEMMA ReceiverReportStep ==
  ASSUME InductiveInv, ReceiverSession \/ ReceiverCrash
  PROVE  [T!Next]_(T!vars)
<1>1. Core
  BY Halves
<1>2. InductiveInv'
  BY ReceiverStep, CrashStep
<1>3. InductiveInv' => Core'
  <2>1. (InductiveInv => Core)'
    BY Halves, PTL
  <2> QED BY <2>1
<1>4. Core' /\ buffer' \in Body
  BY <1>2, <1>3 DEF Core
<1>5. setup' = setup /\ sender' = sender
  BY DEF ReceiverSession, ReceiverSendHello, ReceiverRecvHello, ReceiverSendError,
         ReceiverRecvMeta, ReceiverPrompt, ReceiverPromptFails, ReceiverSendReady,
         ReceiverSendDecline, ReceiverRecvData, ReceiverSendVerify,
         ReceiverRecvDone, ReceiverCreateFile, ReceiverWriteFile,
         ReceiverRefuses, ReceiverRecvFails, ReceiverCrash, senderVars
<1>6. receiver \in ReceiverPoints
  BY DEF ReceiverSession, ReceiverSendHello, ReceiverRecvHello, ReceiverSendError,
         ReceiverRecvMeta, ReceiverPrompt, ReceiverPromptFails, ReceiverSendReady,
         ReceiverSendDecline, ReceiverRecvData, ReceiverSendVerify,
         ReceiverRecvDone, ReceiverCreateFile, ReceiverWriteFile,
         ReceiverRefuses, ReceiverRecvFails, ReceiverCrash, ReceiverPoints,
         ReceiverRecvPoints, Refusal
<1>7. receiver' \in ReceiverPoints \cup ReceiverResults
  BY <1>4 DEF Core
<1>8. CASE ReceiverRecvData
  <2>1. UNCHANGED file /\ receiver = "recvData"
    BY <1>8 DEF ReceiverRecvData
  <2>2. CASE buffer' = buffer
    <3>1. receiver' # "Ok"
      BY <1>8 DEF ReceiverRecvData, ReceiverGoesOn, ReceiverReturns
    <3> QED BY <1>5, <1>6, <1>7, <2>1, <2>2, <3>1, QuietReportStep
  <2>3. CASE buffer' # buffer
    <3>1. receiver' = "recvData"
      BY <1>8, <2>3 DEF ReceiverRecvData, ReceiverGoesOn
    <3>2. ReceiverReport = "working" /\ ReceiverReport' = "working"
      BY <2>1, <3>1 DEF ReceiverReport, ReceiverResults
    <3>3. ~HasSent
      BY <1>1, <2>1 DEF Core, Verified, ReceiverResults
    <3>4. SenderReport # "sent" /\ SenderReport' = SenderReport
      BY <1>5, <3>3 DEF SenderReport, HasSent
    <3>5. T!Deliver
      BY <1>4, <1>5, <2>1, <3>2, <3>4 DEF T!Deliver
    <3> QED BY <3>5 DEF T!Next
  <2> QED BY <2>2, <2>3
<1>9. CASE ReceiverCreateFile
  <2>1. receiver = "createFile" /\ UNCHANGED buffer
    BY <1>9 DEF ReceiverCreateFile
  <2>2. CASE file' = file /\ receiver' \in {"KspNotFound", "DiskError"}
    BY <1>5, <1>6, <1>7, <2>1, <2>2, QuietReportStep
  <2>3. CASE file' = Truncated /\ receiver' = "writeFile"
    <3>1. file' \in Prefixes(buffer)
      <4>1. buffer \in Seq(Byte)
        BY <1>1, BodyIsSeq DEF Core
      <4> QED BY <2>3, <4>1, TrivialPrefixes DEF Truncated
    <3> QED BY <1>1, <1>4, <1>5, <2>1, <2>3, <3>1, WriteReportStep
  <2> QED BY <1>9, <2>2, <2>3 DEF ReceiverCreateFile, ReceiverReturns
<1>10. CASE ReceiverWriteFile
  <2>1. /\ receiver = "writeFile" /\ UNCHANGED buffer
        /\ receiver' \in {"Ok", "DiskError"}
        /\ \E written \in Prefixes(buffer) \cup {buffer} : file' = file \o written
    BY <1>10 DEF ReceiverWriteFile, ReceiverReturns
  <2>2. buffer \in Prefixes(buffer)
    <3>1. buffer \in Seq(Byte)
      BY <1>1, BodyIsSeq DEF Core
    <3> QED BY <3>1, TrivialPrefixes
  <2>3. file' \in Prefixes(buffer)
    BY <1>1, <2>1, <2>2, WritePrefix
  <2> QED BY <1>1, <1>4, <1>5, <2>1, <2>3, WriteReportStep
<1>11. CASE ReceiverCrash
  <2>1. receiver' = "Crashed" /\ UNCHANGED buffer
    BY <1>11 DEF ReceiverCrash, ReceiverReturns
  <2>2. CASE receiver = "writeFile"
    <3>1. file' \in Prefixes(buffer)
      BY <1>1, <1>11, <2>2, WritePrefix DEF ReceiverCrash
    <3> QED BY <1>1, <1>4, <1>5, <2>1, <2>2, <3>1, WriteReportStep
  <2>3. CASE receiver # "writeFile"
    <3>1. UNCHANGED file
      BY <1>11, <2>3 DEF ReceiverCrash
    <3> QED BY <1>5, <1>6, <1>7, <2>1, <3>1, QuietReportStep
  <2> QED BY <2>2, <2>3
<1>12. CASE /\ ReceiverSession
            /\ ~ReceiverRecvData /\ ~ReceiverCreateFile /\ ~ReceiverWriteFile
  <2>1. UNCHANGED <<buffer, file>>
    BY <1>12
    DEF ReceiverSession, ReceiverSendHello, ReceiverRecvHello, ReceiverSendError,
        ReceiverRecvMeta, ReceiverPrompt, ReceiverPromptFails, ReceiverSendReady,
        ReceiverSendDecline, ReceiverSendVerify, ReceiverRecvDone,
        ReceiverRefuses, ReceiverRecvFails
  <2>2. receiver' # "Ok"
    <3>1. CASE \/ ReceiverSendHello \/ ReceiverSendError \/ ReceiverSendReady
               \/ ReceiverSendDecline \/ ReceiverSendVerify
      BY <3>1
      DEF ReceiverSendHello, ReceiverSendError, ReceiverSendReady,
          ReceiverSendDecline, ReceiverSendVerify, ReceiverSends,
          ReceiverReturns, ReceiverHelloSent, AfterVerify
    <3>2. CASE ReceiverRecvHello \/ ReceiverRecvMeta \/ ReceiverRecvDone
      BY <3>2
      DEF ReceiverRecvHello, ReceiverRecvMeta, ReceiverRecvDone,
          ReceiverReturns, ReceiverGoesOn, ReceiverHelloRead
    <3>3. CASE ReceiverPrompt \/ ReceiverPromptFails \/ ReceiverRecvFails
      BY <3>3
      DEF ReceiverPrompt, ReceiverPromptFails, ReceiverRecvFails, ReceiverReturns
    <3>4. CASE ReceiverRefuses
      BY <3>4 DEF ReceiverRefuses, ReceiverReturns, Refusal
    <3> QED BY <1>12, <3>1, <3>2, <3>3, <3>4 DEF ReceiverSession
  <2> QED BY <1>5, <1>6, <1>7, <2>1, <2>2, QuietReportStep
<1> QED BY <1>8, <1>9, <1>10, <1>11, <1>12

(* Every behaviour of a session is, seen through its data and the reports  *)
(* of its ends, a behaviour of the abstract transfer.                      *)
THEOREM SessionImplementsTransfer == Spec => ImplementsTransfer
<1>1. Init => T!Init
  <2> SUFFICES ASSUME Init PROVE T!Init
    OBVIOUS
  <2>1. setup.bytes \in Crafts /\ setup.old \in OldFiles
    BY DEF Init, Setup
  <2>2. SenderReport = "working" /\ ReceiverReport = "working"
    BY DEF Init, SenderStart, ReceiverStart, SenderReport, ReceiverReport, HasSent,
           SenderResults, ReceiverResults
  <2> QED BY <2>1, <2>2 DEF Init, T!Init
<1>2. InductiveInv /\ [Next]_vars => [T!Next]_(T!vars)
  <2> SUFFICES ASSUME InductiveInv, [Next]_vars PROVE [T!Next]_(T!vars)
    OBVIOUS
  <2>1. CASE SenderSession \/ SenderCrash
    BY <2>1, SenderReportStep
  <2>2. CASE ReceiverSession \/ ReceiverCrash
    BY <2>2, ReceiverReportStep
  <2>3. CASE ConnReset \/ Corruption \/ Terminated \/ UNCHANGED vars
    <3>1. UNCHANGED <<setup, sender, receiver, buffer, file>>
      BY <2>3 DEF ConnReset, Corruption, Terminated, vars, senderVars, receiverVars
    <3>2. SenderReport' = SenderReport /\ ReceiverReport' = ReceiverReport
      BY <3>1 DEF SenderReport, ReceiverReport, HasSent
    <3> QED BY <3>1, <3>2 DEF T!vars
  <2> QED BY <2>1, <2>2, <2>3 DEF Next
<1> QED BY <1>1, <1>2, SessionInductive, PTL DEF Spec, ImplementsTransfer, T!Spec
=============================================================================
