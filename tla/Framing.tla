------------------------------- MODULE Framing -------------------------------
(***************************************************************************)
(* One direction of a connection, byte by byte: send_frame and recv_frame  *)
(* of src/transport/tcp.rs, and their twins of src/transport/p2p.rs.  A    *)
(* frame is its length in HEADER_BYTES big-endian digits, then the         *)
(* message as bincode wrote it.  A write or a read moves any number of     *)
(* bytes that the stream has room for, or holds.                           *)
(***************************************************************************)
EXTENDS Naturals, SequencesExt

CONSTANTS
    BASE,             \* values of a byte: 256
    HEADER_BYTES,     \* 4
    MAX_FRAME_BYTES,  \* 8 MiB
    STREAM_BYTES,     \* what the stream holds in flight
    Payload,          \* serialized messages
    MaxMessages,      \* bound: messages of a session
    Faults            \* the faults that may happen

Byte == 0..(BASE - 1)

(* The weight of a header's digit, by the number of digits that follow it. *)
Weight[i \in 0..HEADER_BYTES] == IF i = 0 THEN 1 ELSE BASE * Weight[i - 1]

ASSUME FramingAssumption ==
    /\ BASE \in Nat /\ BASE > 1
    /\ HEADER_BYTES \in Nat \ {0}
    /\ MAX_FRAME_BYTES \in Nat /\ MAX_FRAME_BYTES < Weight[HEADER_BYTES]
    /\ STREAM_BYTES \in Nat \ {0}
    /\ MaxMessages \in Nat
    /\ Payload \subseteq Seq(Byte)
    /\ Faults \subseteq {"crash", "cut"}

VARIABLES
    toSend,    \* messages the session has yet to send
    outgoing,  \* bytes of the current frame not yet written
    stream,    \* bytes in flight
    writer,    \* what the writing end does, or why it stopped
    partial,   \* bytes read of the header or of the payload
    expected,  \* length of the payload, once the header was read
    reader,    \* what the reading end does, or why it stopped
    sent,      \* history: frames the writer has begun to write
    received   \* messages the reader's session was given

writerVars == <<toSend, outgoing, writer, sent>>
readerVars == <<partial, expected, reader, received>>
vars == <<writerVars, stream, readerVars>>

Init ==
    /\ toSend \in BoundedSeq(Payload, MaxMessages)
    /\ outgoing = <<>>
    /\ stream = <<>>
    /\ writer = "idle"
    /\ partial = <<>>
    /\ expected = 0
    /\ reader = "header"
    /\ sent = <<>>
    /\ received = <<>>

WriterEnds == {"Closed", "TooLarge", "IoError", "Crashed"}
ReaderFailures == {"TooLarge", "UnexpectedEof"}
ReaderEnds == ReaderFailures \cup {"Crashed"}

Take(s, n) == SubSeq(s, 1, n)
Drop(s, n) == SubSeq(s, n + 1, Len(s))

(* (payload.len() as u32).to_be_bytes() and u32::from_be_bytes; a seeded   *)
(* fault writes the digits in the other order.                             *)
LittleEndian(n) == [i \in 1..HEADER_BYTES |-> (n \div Weight[i - 1]) % BASE]
Header(n) == [i \in 1..HEADER_BYTES |-> (n \div Weight[HEADER_BYTES - i]) % BASE]
LengthIn(header) == FoldLeft(LAMBDA n, byte : n * BASE + byte, 0, header)

-----------------------------------------------------------------------------
(* send_frame. *)

AnyLength(payload) == TRUE  \* seeded fault
WithinLimit(payload) == Len(payload) <= MAX_FRAME_BYTES

(* A message over the limit is refused before any byte of it is written;   *)
(* the session then returns.                                               *)
SendFrame ==
    /\ writer = "idle"
    /\ toSend # <<>>
    /\ LET payload == Head(toSend) IN
         \/ /\ WithinLimit(payload)
            /\ outgoing' = Header(Len(payload)) \o payload
            /\ sent' = Append(sent, payload)
            /\ writer' = "writing"
         \/ /\ ~WithinLimit(payload)
            /\ writer' = "TooLarge"
            /\ UNCHANGED <<outgoing, sent>>
    /\ toSend' = Tail(toSend)
    /\ UNCHANGED <<stream, readerVars>>

(* write_all, one write at a time. *)
Write ==
    /\ writer = "writing"
    /\ \E n \in 1..Len(outgoing) :
         /\ Len(stream) + n <= STREAM_BYTES
         /\ stream' = stream \o Take(outgoing, n)
         /\ outgoing' = Drop(outgoing, n)
         /\ writer' = IF n = Len(outgoing) THEN "idle" ELSE "writing"
    /\ UNCHANGED <<toSend, sent, readerVars>>

WriteFails ==
    /\ writer = "writing"
    /\ reader \in ReaderEnds
    /\ writer' = "IoError"
    /\ UNCHANGED <<toSend, outgoing, sent, stream, readerVars>>

Close ==
    /\ writer = "idle"
    /\ toSend = <<>>
    /\ writer' = "Closed"
    /\ UNCHANGED <<toSend, outgoing, sent, stream, readerVars>>

-----------------------------------------------------------------------------
(* recv_frame: read_exact of the header, then of the payload. *)

Wanted == IF reader = "header" THEN HEADER_BYTES ELSE expected

Deliver(payload) ==
    /\ received' = Append(received, payload)
    /\ reader' = "header"
    /\ partial' = <<>>
    /\ expected' = 0

HeaderRead(header) ==
    LET length == LengthIn(header) IN
      CASE length > MAX_FRAME_BYTES ->
             /\ reader' = "TooLarge"
             /\ partial' = <<>>
             /\ UNCHANGED <<expected, received>>
        [] length = 0 -> Deliver(<<>>)
        [] OTHER -> /\ reader' = "payload"
                    /\ partial' = <<>>
                    /\ expected' = length
                    /\ UNCHANGED received

OneRead(n) == n = Len(stream)  \* seeded fault: read instead of read_exact
Exactly(n) == Len(partial) + n = Wanted

Read ==
    /\ reader \notin ReaderEnds
    /\ \E n \in 1..Len(stream) :
         /\ Len(partial) + n <= Wanted
         /\ stream' = Drop(stream, n)
         /\ LET bytes == partial \o Take(stream, n) IN
              IF ~Exactly(n)
              THEN /\ partial' = bytes
                   /\ UNCHANGED <<expected, reader, received>>
              ELSE IF reader = "header" THEN HeaderRead(bytes) ELSE Deliver(bytes)
    /\ UNCHANGED writerVars

ReadEof ==
    /\ reader \notin ReaderEnds
    /\ stream = <<>>
    /\ writer \in WriterEnds
    /\ reader' = "UnexpectedEof"
    /\ UNCHANGED <<partial, expected, received, stream, writerVars>>

-----------------------------------------------------------------------------
(* The writing process dies, or the connection is cut; bytes in flight may *)
(* be lost with it.                                                        *)
Cut ==
    /\ writer \notin WriterEnds
    /\ \/ "crash" \in Faults /\ UNCHANGED stream
       \/ "cut" \in Faults /\ stream' \in Prefixes(stream)
    /\ writer' = "Crashed"
    /\ UNCHANGED <<toSend, outgoing, sent, readerVars>>

(* The reading process dies: what it left unread is lost. *)
ReaderCrash ==
    /\ "crash" \in Faults
    /\ reader \notin ReaderEnds
    /\ reader' = "Crashed"
    /\ UNCHANGED <<partial, expected, received, stream, writerVars>>

WriterStep == SendFrame \/ Write \/ WriteFails \/ Close
ReaderStep == Read \/ ReadEof

Next == WriterStep \/ ReaderStep \/ Cut \/ ReaderCrash

Spec == Init /\ [][Next]_vars

Fairness == WF_vars(WriterStep) /\ WF_vars(ReaderStep)

FairSpec == Spec /\ Fairness

-----------------------------------------------------------------------------
(* The bytes of a sequence of frames. *)
Framed(payload) == Header(Len(payload)) \o payload
Bytes(frames) == FoldLeft(LAMBDA bytes, frame : bytes \o Framed(frame), <<>>, frames)

(* The bytes the reader has consumed. *)
Consumed ==
    Bytes(received) \o (IF reader = "payload" THEN Header(expected) ELSE <<>>) \o partial

(* Type correctness. *)
TypeOK ==
    /\ toSend \in Seq(Payload)
    /\ outgoing \in Seq(Byte)
    /\ stream \in Seq(Byte) /\ Len(stream) <= STREAM_BYTES
    /\ writer \in {"idle", "writing"} \cup WriterEnds
    /\ partial \in Seq(Byte)
    /\ reader \notin ReaderEnds => Len(partial) < Wanted
    /\ expected \in 0..MAX_FRAME_BYTES
    /\ reader \in {"header", "payload"} \cup ReaderEnds
    /\ sent \in Seq(Payload)
    /\ received \in Seq(Payload)

(* At every byte the two ends agree on where the frames begin: what was    *)
(* read, what is in flight and what is left of the current frame are the   *)
(* frames sent; after a cut, a prefix of them.  (tcp.rs:27-28, 34-44)      *)
Aligned ==
    reader \notin ReaderEnds =>
      IF writer = "Crashed"
      THEN IsPrefix(Consumed \o stream, Bytes(sent))
      ELSE Consumed \o stream \o outgoing = Bytes(sent)

(* The limits of the two ends agree: a reader never refuses a frame that   *)
(* this writer lets pass, and a message it refuses leaves no trace.        *)
(* (tcp.rs:21 and 37)                                                      *)
LimitsAgree ==
    /\ reader # "TooLarge"
    /\ \A i \in DOMAIN received : Len(received[i]) <= MAX_FRAME_BYTES

(* Whole frames, in order, once: the channel that Session assumes. *)
F == INSTANCE FrameChannel
       WITH Frame <- Payload,
            stream <- IF writer \in WriterEnds THEN "ended" ELSE "open",
            reader <- IF reader \in ReaderFailures THEN "failed" ELSE "open"

ImplementsFrameChannel == F!Spec

(* Without a crash or a cut, every frame sent is received, those before a  *)
(* message that is too large among them.  (tcp.rs:19-47)                   *)
AllReceived ==
    <>[](received = sent \/ writer = "Crashed" \/ reader = "Crashed")
=============================================================================
