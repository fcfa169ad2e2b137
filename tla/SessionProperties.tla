-------------------------- MODULE SessionProperties --------------------------
(***************************************************************************)
(* What a session must do: the invariants, the liveness properties and the *)
(* refinement of module Transfer that the runs check of module Session.    *)
(***************************************************************************)
EXTENDS Session

-----------------------------------------------------------------------------
(* Type correctness; no channel holds more than its capacity. *)
TypeOK ==
    /\ setup \in Setup
    /\ sender \in SenderPoints \cup SenderResults
    /\ receiver \in ReceiverPoints \cup ReceiverResults
    /\ offset \in 0..MaxBytes
    /\ meta \in CraftMetadata \cup {NoMeta}
    /\ buffer \in Body
    /\ file \in Body \cup {NoFile}
    /\ toSender \in Seq(FromReceiver) /\ Len(toSender) <= ChanCap
    /\ toReceiver \in Seq(FromSender) /\ Len(toReceiver) <= ChanCap
    /\ conn \in {"up", "down"}

(* What the receiver leaves at the target path is what was there before or *)
(* a prefix of the craft file, never bytes the sender did not have; when   *)
(* it reports "Saved", it is the whole file, of the announced size.        *)
(* (receiver.rs:149-180: verified before anything is written)              *)
SavedIsSent ==
    /\ file = setup.old \/ file \in Prefixes(setup.bytes)
    /\ receiver = "Ok" => file = setup.bytes /\ Len(file) = meta.size_bytes

(* The sender has printed "Sent". *)
HasSent == sender \in {"finish", "Ok", "CrashedSent"}

(* The receiver touches the disk only after the sender has confirmed the   *)
(* transfer: no lost connection or crash of the sender makes it save a     *)
(* file whose sender reports a failure.  (receiver.rs:158-173)             *)
SavedMeansSent ==
    receiver \in {"createFile", "writeFile", "Ok", "DiskError", "KspNotFound"}
      => HasSent

(* "Sent" is printed only when the receiver holds the whole craft file,    *)
(* whatever was corrupted, lost or crashed.  (sender.rs:114-134)           *)
SentMeansVerified ==
    HasSent \/ sender = "sendDone" => buffer = setup.bytes

(* The points where the receiver has not agreed to the transfer. *)
NotAgreed ==
    {"recvHello", "sendHello", "sendError", "mismatched", "recvMeta", "prompt",
     "sendReady", "sendDecline", "declined", "VersionMismatch",
     "PeerRejected", "PromptError"}

(* No byte of the craft file leaves the sender before the receiver has     *)
(* agreed, and none after it refused.  (sender.rs:71-87, receiver.rs:95)   *)
ConsentBeforeData ==
    receiver \in NotAgreed => offset = 0 /\ buffer = <<>>

(* An end that is about to write or to return has read every frame sent to *)
(* it, so no TCP reset can destroy the last message of a session: what     *)
(* makes the reports of receiver.rs:72, 96 and 151 reach the sender.       *)
NothingUnread ==
    /\ sender \in {"sendMeta", "sendData", "sendDone", "finish"}
         => toSender = <<>>
    /\ receiver \in {"sendError", "mismatched", "prompt", "sendReady",
                     "sendDecline", "declined", "sendVerify", "badSum",
                     "createFile", "writeFile"}
         => toReceiver = <<>>

(* Two ends of this code never find a message they do not expect, apart    *)
(* from the ERROR that answers a HELLO of another version over TCP, and    *)
(* EOF is read only when all of the file was; even when the connection is  *)
(* cut at any point.  (the "expected ..., got ..." returns; receiver.rs:129) *)
ScriptKept ==
    /\ receiver # "Unexpected"
    /\ sender = "Unexpected" => setup.sver # setup.rver /\ setup.transport = "tcp"
    /\ receiver \in {"sendVerify", "badSum", "recvDone", "createFile",
                     "ChecksumMismatch"}
         => Len(buffer) = Len(setup.bytes)

BothReturned == sender \in SenderResults /\ receiver \in ReceiverResults

Undisturbed ==
    /\ conn = "up"
    /\ sender \notin {"Crashed", "CrashedSent"}
    /\ receiver # "Crashed"

(* How a session that no crash or network failure disturbs ends at the     *)
(* sender and at the receiver.                                             *)
VerdictsBoth ==
    {<<"Ok", "Ok">>, <<"Ok", "DiskError">>, <<"Ok", "KspNotFound">>,
     <<"PeerRejected", "PeerRejected">>, <<"ConnLost", "PromptError">>}
VerdictsTcp ==
    {<<"ChecksumMismatch", "ChecksumMismatch">>,
     <<"Unexpected", "VersionMismatch">>}
VerdictsQuic ==
    {<<"ConnLost", "PeerRejected">>, <<"VersionMismatch", "ConnLost">>}

(* Left undisturbed, the two ends agree on how the session ended: over TCP *)
(* every refusal reaches the sender, which reports "Sent" only to a        *)
(* receiver that completed, or failed on its own disk after DONE; over     *)
(* QUIC a refusal and a version error may be lost with the connection.     *)
VerdictsAgree ==
    BothReturned /\ Undisturbed =>
      <<sender, receiver>> \in
        VerdictsBoth \cup IF setup.transport = "tcp" THEN VerdictsTcp ELSE VerdictsQuic

(* quic.rs:1 "Mirror the synchronous TCP variants one-to-one": the sender  *)
(* learns that its peer declined.                                          *)
DeclineReported ==
    BothReturned /\ Undisturbed /\ receiver = "PeerRejected"
      => sender = "PeerRejected"

(* docs/protocol.md:54: when the versions disagree, the receiver answers   *)
(* with ERROR, and so reports the mismatch itself.                         *)
VersionErrorAnswered ==
    BothReturned /\ Undisturbed /\ setup.sver # setup.rver
      => receiver = "VersionMismatch"

(* Both session functions return: no read waits for a message that will    *)
(* not come.                                                               *)
Termination == <>BothReturned

(* The faults that excuse a session from delivering. *)
Faulted ==
    \/ ~Undisturbed
    \/ receiver \in {"DiskError", "ChecksumMismatch"}

(* A session between equal versions, accepted, with a place for the file,  *)
(* saves the file and reports success at both ends unless a fault occurs.  *)
Delivery ==
    setup.sver = setup.rver /\ setup.auto /\ setup.target
      ~> (sender = "Ok" /\ receiver = "Ok" /\ file = setup.bytes) \/ Faulted

(* The session implements the promise of module Transfer. *)
SenderReport ==
    CASE HasSent -> "sent"
      [] sender \in SenderResults /\ ~HasSent -> "failed"
      [] OTHER -> "working"
ReceiverReport ==
    CASE receiver = "Ok" -> "saved"
      [] receiver \in ReceiverResults /\ receiver # "Ok" -> "failed"
      [] OTHER -> "working"

T == INSTANCE Transfer
       WITH craft <- setup.bytes, received <- buffer, file <- file,
            sender <- SenderReport, receiver <- ReceiverReport

ImplementsTransfer == T!Spec

-----------------------------------------------------------------------------
(* The receiver has found the digest right, and holds the craft file. *)
Verified ==
    /\ receiver \in {"recvDone", "createFile", "writeFile"} \cup ReceiverResults
    /\ buffer = setup.bytes

(* The frames that may be in flight: META describes the craft file, DATA   *)
(* lies within it, DONE and a good VERIFY are not sent too early.          *)
SenderMaySend(m) ==
    /\ m.kind = "META" => m.meta = MetadataOf(setup.bytes)
    /\ m.kind = "DATA" => m.offset + Len(m.bytes) <= Len(setup.bytes)
    /\ m.kind = "DONE" => HasSent
ReceiverMaySend(m) == m.kind = "VERIFY" /\ m.sha256_ok => Verified

InFlight ==
    /\ \A i \in 1..Len(toReceiver) : SenderMaySend(toReceiver[i])
    /\ \A i \in 1..Len(toSender) : ReceiverMaySend(toSender[i])

AfterMeta ==
    {"prompt", "sendReady", "sendDecline", "declined", "recvData",
     "sendVerify", "badSum", "recvDone", "createFile", "writeFile", "Ok"}

(* What every step keeps: no "Sent" without a verified buffer, no file     *)
(* without "Sent", and the frames in flight that carry these facts from    *)
(* one end to the other.  It strengthens TypeOK, SavedIsSent,              *)
(* SavedMeansSent and SentMeansVerified to an inductive invariant.         *)
InductiveInv ==
    /\ TypeOK
    /\ offset <= Len(setup.bytes)
    /\ InFlight
    /\ receiver \in AfterMeta => meta = MetadataOf(setup.bytes)
    /\ receiver \in {"recvDone", "createFile", "writeFile", "Ok"} => Verified
    /\ receiver = "writeFile" => file = <<>>
    /\ SavedIsSent
    /\ HasSent \/ sender = "sendDone" => Verified
    /\ SavedMeansSent
=============================================================================
