------------------------------- MODULE Session -------------------------------
(***************************************************************************)
(* One transfer session between a sender and a receiver, over TCP          *)
(* (src/engine/sender.rs and receiver.rs) or over an iroh QUIC stream      *)
(* (src/engine/quic.rs).  The two differ in who says HELLO first and in    *)
(* what becomes of queued messages when an end closes.                     *)
(*                                                                         *)
(* Each end is a program: its variable holds the control point it has      *)
(* reached, or the result its session function returned.  Between them are *)
(* two FIFO channels, the frames written and not yet read; Framing is      *)
(* abstracted to: a frame arrives whole or the reader finds the stream     *)
(* closed.                                                                 *)
(***************************************************************************)
EXTENDS Protocol

CONSTANTS
    Transports, \* of "tcp" and "quic", those that a session may use
    ChanCap,    \* frames that the sockets and the path hold in one direction
    Crafts,     \* the craft files a sender may load
    OldFiles,   \* what the target path may hold before the session
    NoFile,     \* there is no file at the target path
    NoMeta,     \* no META has been read
    Answers,    \* lines the user may type at the accept prompt
    Faults      \* the faults that may happen

ASSUME SessionAssumption ==
    /\ Transports \subseteq {"tcp", "quic"}
    /\ ChanCap \in Nat \ {0}
    /\ Crafts \subseteq Body
    /\ NoFile \notin Body
    /\ OldFiles \subseteq Body \cup {NoFile}
    /\ Faults \subseteq {"crash", "reset", "corrupt", "disk", "stdin"}

VARIABLES
    setup,       \* the inputs of the session, fixed at the start
    sender,      \* control point of the sender, or its result
    receiver,    \* control point of the receiver, or its result
    offset,      \* sender: bytes of the craft file sent
    meta,        \* receiver: metadata received in META
    buffer,      \* receiver: bytes received
    file,        \* content of the target path
    toSender,    \* frames in flight from the receiver to the sender
    toReceiver,  \* frames in flight from the sender to the receiver
    conn         \* "up", or "down" when the network failed

vars == <<setup, sender, receiver, offset, meta, buffer, file,
          toSender, toReceiver, conn>>
senderVars == <<sender, offset>>
receiverVars == <<receiver, meta, buffer, file>>

(* The control points: places where the code sends, receives, asks the     *)
(* user or touches the disk.                                               *)
SenderPoints ==
    {"sendHello", "recvHello", "sendMeta", "recvReady", "sendData",
     "recvVerify", "sendDone", "finish"}
SenderResults ==
    {"Ok", "VersionMismatch", "PeerRejected", "ChecksumMismatch",
     "Unexpected", "ConnLost", "Crashed", "CrashedSent"}

ReceiverPoints ==
    {"recvHello", "sendHello", "sendError", "mismatched", "recvMeta",
     "prompt", "sendReady", "sendDecline", "declined", "recvData",
     "sendVerify", "badSum", "recvDone", "createFile", "writeFile"}
ReceiverResults ==
    {"Ok", "VersionMismatch", "PeerRejected", "ChecksumMismatch",
     "Unexpected", "ConnLost", "Crashed", "PromptError", "KspNotFound",
     "DiskError"}

(* The inputs: the craft file, what the target path holds, the versions of *)
(* the two builds, --yes, whether a target directory is known, and the     *)
(* transport.                                                              *)
Setup == [bytes : Crafts, old : OldFiles, sver : Versions, rver : Versions,
          auto : BOOLEAN, target : BOOLEAN, transport : Transports]

(* On TCP the sender says HELLO first; on QUIC the receiver opened the     *)
(* stream and writes first.                                                *)
SenderStart   == IF setup.transport = "tcp" THEN "sendHello" ELSE "recvHello"
ReceiverStart == IF setup.transport = "tcp" THEN "recvHello" ELSE "sendHello"
SenderHelloSent == IF setup.transport = "tcp" THEN "recvHello" ELSE "sendMeta"
SenderHelloRead == IF setup.transport = "tcp" THEN "sendMeta" ELSE "sendHello"
ReceiverHelloSent == IF setup.transport = "tcp" THEN "recvMeta" ELSE "recvHello"
ReceiverHelloRead == IF setup.transport = "tcp" THEN "sendHello" ELSE "recvMeta"

Init ==
    /\ setup \in {s \in Setup : s.target \/ s.old = NoFile}
    /\ sender = SenderStart
    /\ receiver = ReceiverStart
    /\ offset = 0
    /\ meta = NoMeta
    /\ buffer = <<>>
    /\ file = setup.old
    /\ toSender = <<>>
    /\ toReceiver = <<>>
    /\ conn = "up"

-----------------------------------------------------------------------------
(* The transport, as src/ uses it. *)

SenderBroken   == conn = "down" \/ receiver \in ReceiverResults
ReceiverBroken == conn = "down" \/ sender \in SenderResults

(* What stays deliverable of the frames an end wrote when it closes.  A    *)
(* TCP close delivers them all, unless it leaves frames unread: then it    *)
(* resets the connection.  Dropping an iroh connection discards what the   *)
(* peer has not yet received.                                              *)
Deliverable(written, unread) ==
    IF setup.transport = "tcp" /\ unread = <<>> THEN {written} ELSE Prefixes(written)

(* The session function returns and the stream is dropped. *)
SenderReturns(result, unread) ==
    /\ sender' = result
    /\ toSender' = <<>>
    /\ toReceiver' \in Deliverable(toReceiver, unread)
ReceiverReturns(result, unread) ==
    /\ receiver' = result
    /\ toReceiver' = <<>>
    /\ toSender' \in Deliverable(toSender, unread)

(* send_frame: blocks while the path is full; once the peer is gone the    *)
(* frame is lost in the local buffers or the write fails.                  *)
SenderSends(m, next) ==
    \/ /\ ~SenderBroken
       /\ Len(toReceiver) < ChanCap
       /\ toReceiver' = Append(toReceiver, m)
       /\ sender' = next
       /\ UNCHANGED toSender
    \/ /\ SenderBroken
       /\ sender' = next
       /\ UNCHANGED <<toSender, toReceiver>>
    \/ /\ SenderBroken
       /\ SenderReturns("ConnLost", toSender)
ReceiverSends(m, next) ==
    \/ /\ ~ReceiverBroken
       /\ Len(toSender) < ChanCap
       /\ toSender' = Append(toSender, m)
       /\ receiver' = next
       /\ UNCHANGED toReceiver
    \/ /\ ReceiverBroken
       /\ receiver' = next
       /\ UNCHANGED <<toSender, toReceiver>>
    \/ /\ ReceiverBroken
       /\ ReceiverReturns("ConnLost", toReceiver)

(* recv_frame returned the first frame and the session goes on at next. *)
SenderGoesOn(next) ==
    /\ sender' = next
    /\ toSender' = Tail(toSender)
    /\ UNCHANGED toReceiver
ReceiverGoesOn(next) ==
    /\ receiver' = next
    /\ toReceiver' = Tail(toReceiver)
    /\ UNCHANGED toSender

-----------------------------------------------------------------------------
(* The sender: run_session of sender.rs, run_sender_session of quic.rs. *)

SenderSendHello ==
    /\ sender = "sendHello"
    /\ SenderSends(Hello(setup.sver), SenderHelloSent)
    /\ UNCHANGED <<setup, offset, receiverVars, conn>>

(* A HELLO of another version ends the session without an answer. *)
SenderRecvHello ==
    /\ sender = "recvHello"
    /\ toSender # <<>>
    /\ LET m == Head(toSender) IN
         CASE m = Hello(setup.sver) -> SenderGoesOn(SenderHelloRead)
           [] m.kind = "HELLO" /\ m # Hello(setup.sver) ->
                SenderReturns("VersionMismatch", Tail(toSender))
           [] OTHER -> SenderReturns("Unexpected", Tail(toSender))
    /\ UNCHANGED <<setup, offset, receiverVars, conn>>

SenderSendMetaEager ==  \* seeded fault: READY is not awaited
    /\ sender = "sendMeta"
    /\ SenderSends(Meta(MetadataOf(setup.bytes)), "sendData")
    /\ UNCHANGED <<setup, offset, receiverVars, conn>>

SenderSendMeta ==
    /\ sender = "sendMeta"
    /\ SenderSends(Meta(MetadataOf(setup.bytes)), "recvReady")
    /\ UNCHANGED <<setup, offset, receiverVars, conn>>

SenderRecvReady ==
    /\ sender = "recvReady"
    /\ toSender # <<>>
    /\ LET m == Head(toSender) IN
         CASE m = Ready(TRUE) -> SenderGoesOn("sendData")
           [] m = Ready(FALSE) -> SenderReturns("PeerRejected", Tail(toSender))
           [] OTHER -> SenderReturns("Unexpected", Tail(toSender))
    /\ UNCHANGED <<setup, offset, receiverVars, conn>>

(* One turn of the loop over the chunks. *)
SenderSendData ==
    /\ sender = "sendData"
    /\ offset < Len(setup.bytes)
    /\ SenderSends(Data(offset, Chunk(setup.bytes, offset)), "sendData")
    /\ offset' = IF sender' = "sendData" THEN NextOffset(setup.bytes, offset)
                                         ELSE offset
    /\ UNCHANGED <<setup, receiverVars, conn>>

SenderSendEofUnverified ==  \* seeded fault: VERIFY is not awaited
    /\ sender = "sendData"
    /\ offset = Len(setup.bytes)
    /\ SenderSends(Eof, "sendDone")
    /\ UNCHANGED <<setup, offset, receiverVars, conn>>

SenderSendEof ==
    /\ sender = "sendData"
    /\ offset = Len(setup.bytes)
    /\ SenderSends(Eof, "recvVerify")
    /\ UNCHANGED <<setup, offset, receiverVars, conn>>

SenderRecvVerify ==
    /\ sender = "recvVerify"
    /\ toSender # <<>>
    /\ LET m == Head(toSender) IN
         CASE m = Verify(TRUE) -> SenderGoesOn("sendDone")
           [] m = Verify(FALSE) ->
                SenderReturns("ChecksumMismatch", Tail(toSender))
           [] OTHER -> SenderReturns("Unexpected", Tail(toSender))
    /\ UNCHANGED <<setup, offset, receiverVars, conn>>

(* Send DONE and print "Sent". *)
SenderSendDone ==
    /\ sender = "sendDone"
    /\ SenderSends(Done, "finish")
    /\ UNCHANGED <<setup, offset, receiverVars, conn>>

(* TCP returns at once; QUIC first awaits conn.closed(), whose cause it    *)
(* does not look at.                                                       *)
MayFinishAtOnce == TRUE  \* seeded fault: nothing awaited
MayFinish == setup.transport = "tcp" \/ SenderBroken

SenderFinish ==
    /\ sender = "finish"
    /\ MayFinish
    /\ SenderReturns("Ok", toSender)
    /\ UNCHANGED <<setup, offset, receiverVars, conn>>

(* recv_frame fails: the stream ended before the next frame. *)
SenderRecvPoints == {"recvHello", "recvReady", "recvVerify"}

SenderRecvFails ==
    /\ sender \in SenderRecvPoints
    /\ toSender = <<>>
    /\ SenderBroken
    /\ SenderReturns("ConnLost", <<>>)
    /\ UNCHANGED <<setup, offset, receiverVars, conn>>

SenderSession ==
    \/ SenderSendHello \/ SenderRecvHello \/ SenderSendMeta
    \/ SenderRecvReady \/ SenderSendData \/ SenderSendEof
    \/ SenderRecvVerify \/ SenderSendDone \/ SenderFinish
    \/ SenderRecvFails

-----------------------------------------------------------------------------
(* The receiver: run_session of receiver.rs, run_receiver_session of       *)
(* quic.rs.                                                                *)

ReceiverSendHello ==
    /\ receiver = "sendHello"
    /\ ReceiverSends(Hello(setup.rver), ReceiverHelloSent)
    /\ UNCHANGED <<setup, senderVars, meta, buffer, file, conn>>

ReceiverRecvHello ==
    /\ receiver = "recvHello"
    /\ toReceiver # <<>>
    /\ LET m == Head(toReceiver) IN
         CASE m = Hello(setup.rver) -> ReceiverGoesOn(ReceiverHelloRead)
           [] m.kind = "HELLO" /\ m # Hello(setup.rver) ->
                ReceiverGoesOn("sendError")
           [] OTHER -> ReceiverReturns("Unexpected", Tail(toReceiver))
    /\ UNCHANGED <<setup, senderVars, meta, buffer, file, conn>>

ReceiverSendError ==
    /\ receiver = "sendError"
    /\ ReceiverSends(ErrorMsg, "mismatched")
    /\ UNCHANGED <<setup, senderVars, meta, buffer, file, conn>>

ReceiverRecvMeta ==
    /\ receiver = "recvMeta"
    /\ toReceiver # <<>>
    /\ LET m == Head(toReceiver) IN
         IF m.kind = "META"
         THEN ReceiverGoesOn("prompt") /\ meta' = m.meta
         ELSE /\ ReceiverReturns("Unexpected", Tail(toReceiver))
              /\ UNCHANGED meta
    /\ UNCHANGED <<setup, senderVars, buffer, file, conn>>

(* accept_transfer; the end of stdin reads as the empty line. *)
Accepting(answer) == answer \in {"", "y", "yes"}

ReceiverPrompt ==
    /\ receiver = "prompt"
    /\ \/ setup.auto /\ receiver' = "sendReady"
       \/ /\ ~setup.auto
          /\ \E answer \in Answers :
               receiver' = IF Accepting(answer) THEN "sendReady"
                                                ELSE "sendDecline"
    /\ UNCHANGED <<setup, senderVars, meta, buffer, file,
                   toSender, toReceiver, conn>>

ReceiverPromptFails ==
    /\ "stdin" \in Faults
    /\ receiver = "prompt"
    /\ ~setup.auto
    /\ ReceiverReturns("PromptError", toReceiver)
    /\ UNCHANGED <<setup, senderVars, meta, buffer, file, conn>>

ReceiverSendReady ==
    /\ receiver = "sendReady"
    /\ ReceiverSends(Ready(TRUE), "recvData")
    /\ UNCHANGED <<setup, senderVars, meta, buffer, file, conn>>

ReceiverDeclineSilently ==  \* seeded fault: READY(FALSE) is not sent
    /\ receiver = "sendDecline"
    /\ ReceiverReturns("PeerRejected", toReceiver)
    /\ UNCHANGED <<setup, senderVars, meta, buffer, file, conn>>

ReceiverSendDecline ==
    /\ receiver = "sendDecline"
    /\ ReceiverSends(Ready(FALSE), "declined")
    /\ UNCHANGED <<setup, senderVars, meta, buffer, file, conn>>

InOrderOffByOne(m) == m.offset = Len(buffer) + 1  \* seeded fault
InOrder(m) == m.offset = Len(buffer)

(* One turn of the receive loop. *)
ReceiverRecvData ==
    /\ receiver = "recvData"
    /\ toReceiver # <<>>
    /\ LET m == Head(toReceiver) IN
         CASE m.kind = "DATA" /\ InOrder(m) ->
                ReceiverGoesOn("recvData") /\ buffer' = buffer \o m.bytes
           [] m.kind = "EOF" ->
                ReceiverGoesOn("sendVerify") /\ UNCHANGED buffer
           [] OTHER -> /\ ReceiverReturns("Unexpected", Tail(toReceiver))
                       /\ UNCHANGED buffer
    /\ UNCHANGED <<setup, senderVars, meta, file, conn>>

DigestUnchecked == TRUE  \* seeded fault
DigestMatches == Sha256Hex(buffer) = meta.sha256

SaveBeforeDone == IF DigestMatches THEN "createFile" ELSE "badSum"  \* seeded fault
AfterVerify == IF DigestMatches THEN "recvDone" ELSE "badSum"

ReceiverSendVerify ==
    /\ receiver = "sendVerify"
    /\ ReceiverSends(Verify(DigestMatches), AfterVerify)
    /\ UNCHANGED <<setup, senderVars, meta, buffer, file, conn>>

ReceiverRecvDone ==
    /\ receiver = "recvDone"
    /\ toReceiver # <<>>
    /\ IF Head(toReceiver) = Done
       THEN ReceiverGoesOn("createFile")
       ELSE ReceiverReturns("Unexpected", Tail(toReceiver))
    /\ UNCHANGED <<setup, senderVars, meta, buffer, file, conn>>

(* resolve_target_path, create_dir_all and File::create, which truncates. *)
Appended == IF file = NoFile THEN <<>> ELSE file  \* seeded fault: append mode
Truncated == <<>>

ReceiverCreateFile ==
    /\ receiver = "createFile"
    /\ \/ /\ ~setup.target
          /\ ReceiverReturns("KspNotFound", toReceiver)
          /\ UNCHANGED file
       \/ /\ setup.target
          /\ file' = Truncated
          /\ receiver' = "writeFile"
          /\ UNCHANGED <<toSender, toReceiver>>
       \/ /\ setup.target
          /\ "disk" \in Faults
          /\ ReceiverReturns("DiskError", toReceiver)
          /\ UNCHANGED file
    /\ UNCHANGED <<setup, senderVars, meta, buffer, conn>>

(* write_all, which may fail part way; then "Saved" is printed and the      *)
(* session returns.                                                        *)
ReceiverWriteFile ==
    /\ receiver = "writeFile"
    /\ \/ /\ file' = file \o buffer
          /\ ReceiverReturns("Ok", toReceiver)
       \/ /\ "disk" \in Faults
          /\ \E written \in Prefixes(buffer) \ {buffer} : file' = file \o written
          /\ ReceiverReturns("DiskError", toReceiver)
    /\ UNCHANGED <<setup, senderVars, meta, buffer, conn>>

(* The Err returns that follow the last message of a refused session. *)
Refusal == [mismatched |-> "VersionMismatch",
            declined |-> "PeerRejected",
            badSum |-> "ChecksumMismatch"]

ReceiverRefuses ==
    /\ receiver \in DOMAIN Refusal
    /\ ReceiverReturns(Refusal[receiver], toReceiver)
    /\ UNCHANGED <<setup, senderVars, meta, buffer, file, conn>>

ReceiverRecvPointsNoDone == {"recvHello", "recvMeta", "recvData"}  \* seeded fault
ReceiverRecvPoints == {"recvHello", "recvMeta", "recvData", "recvDone"}

ReceiverRecvFails ==
    /\ receiver \in ReceiverRecvPoints
    /\ toReceiver = <<>>
    /\ ReceiverBroken
    /\ ReceiverReturns("ConnLost", <<>>)
    /\ UNCHANGED <<setup, senderVars, meta, buffer, file, conn>>

ReceiverSession ==
    \/ ReceiverSendHello \/ ReceiverRecvHello \/ ReceiverSendError
    \/ ReceiverRecvMeta \/ ReceiverPrompt \/ ReceiverPromptFails
    \/ ReceiverSendReady \/ ReceiverSendDecline \/ ReceiverRecvData
    \/ ReceiverSendVerify \/ ReceiverRecvDone \/ ReceiverCreateFile
    \/ ReceiverWriteFile \/ ReceiverRefuses \/ ReceiverRecvFails

-----------------------------------------------------------------------------
(* Faults. *)

(* The process of an end dies; a write under way leaves a prefix. *)
SenderCrash ==
    /\ "crash" \in Faults
    /\ sender \in SenderPoints
    /\ SenderReturns(IF sender = "finish" THEN "CrashedSent" ELSE "Crashed",
                     toSender)
    /\ UNCHANGED <<setup, offset, receiverVars, conn>>

ReceiverCrash ==
    /\ "crash" \in Faults
    /\ receiver \in ReceiverPoints
    /\ ReceiverReturns("Crashed", toReceiver)
    /\ IF receiver = "writeFile"
       THEN \E written \in Prefixes(buffer) : file' = file \o written
       ELSE UNCHANGED file
    /\ UNCHANGED <<setup, senderVars, meta, buffer, conn>>

(* The network fails; both ends learn of it. *)
ConnReset ==
    /\ "reset" \in Faults
    /\ conn = "up"
    /\ conn' = "down"
    /\ toSender' \in Prefixes(toSender)
    /\ toReceiver' \in Prefixes(toReceiver)
    /\ UNCHANGED <<setup, senderVars, receiverVars>>

(* A DATA payload is altered in a way that TCP's checksum misses.  QUIC    *)
(* authenticates its packets.                                              *)
Corruption ==
    /\ "corrupt" \in Faults
    /\ setup.transport = "tcp"
    /\ \E i \in DOMAIN toReceiver :
         /\ toReceiver[i].kind = "DATA"
         /\ \E bytes \in [DOMAIN toReceiver[i].bytes -> Byte] :
              toReceiver' = [toReceiver EXCEPT ![i].bytes = bytes]
    /\ UNCHANGED <<setup, senderVars, receiverVars, toSender, conn>>

(* Both session functions have returned. *)
Terminated ==
    /\ sender \in SenderResults
    /\ receiver \in ReceiverResults
    /\ UNCHANGED vars

Next ==
    \/ SenderSession \/ ReceiverSession
    \/ SenderCrash \/ ReceiverCrash \/ ConnReset \/ Corruption
    \/ Terminated

Spec == Init /\ [][Next]_vars

(* Both programs keep running, and the user answers the prompt. *)
Fairness ==
    /\ WF_vars(SenderSession)
    /\ WF_vars(ReceiverSession)

FairSpec == Spec /\ Fairness
=============================================================================
