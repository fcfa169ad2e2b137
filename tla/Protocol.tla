------------------------------ MODULE Protocol ------------------------------
(***************************************************************************)
(* What the two ends of a transfer exchange: the messages of               *)
(* src/engine/handshake.rs, the craft file of src/craft/mod.rs cut in      *)
(* chunks, and its digest.                                                 *)
(*                                                                         *)
(* A craft file is a sequence of at most MaxBytes bytes.  Its name, its    *)
(* ship type, the platform and client strings of HELLO and the reason of   *)
(* READY do not steer the session and are left out; so is ACK, which no    *)
(* code sends.                                                             *)
(***************************************************************************)
EXTENDS Naturals, SequencesExt

CONSTANTS
    Byte,                 \* the values of a byte
    MaxBytes,             \* the longest craft file considered
    DEFAULT_CHUNK_BYTES,  \* engine/mod.rs: payload of one DATA message
    Versions,             \* protocol versions of the builds in use
    Sha256Hex(_)          \* the digest, external crate sha2

Body == BoundedSeq(Byte, MaxBytes)

ASSUME SizeAssumption ==
    /\ MaxBytes \in Nat
    /\ DEFAULT_CHUNK_BYTES \in Nat \ {0}

(* SHA-256 is treated as injective: the check of the whole file is only as good. *)
ASSUME CollisionFree ==
    \A a, b \in Body : Sha256Hex(a) = Sha256Hex(b) => a = b

Digest == {Sha256Hex(b) : b \in Body}

CraftMetadata == [size_bytes : 0..MaxBytes, sha256 : Digest]

(* CraftFile::load: the metadata is computed from the bytes it is sent with. *)
MetadataOf(bytes) == [size_bytes |-> Len(bytes), sha256 |-> Sha256Hex(bytes)]

(* One item of craft.bytes.chunks(DEFAULT_CHUNK_BYTES). *)
ChunkEnd(bytes, offset) ==
    IF offset + DEFAULT_CHUNK_BYTES <= Len(bytes)
    THEN offset + DEFAULT_CHUNK_BYTES
    ELSE Len(bytes)

Chunk(bytes, offset) == SubSeq(bytes, offset + 1, ChunkEnd(bytes, offset))

(* offset += chunk.len(), and a seeded fault: the full chunk size. *)
NextOffsetFullChunk(bytes, offset) == offset + DEFAULT_CHUNK_BYTES
NextOffset(bytes, offset) == offset + Len(Chunk(bytes, offset))

-----------------------------------------------------------------------------
Hello(version)       == [kind |-> "HELLO", version |-> version]
Meta(metadata)       == [kind |-> "META", meta |-> metadata]
Ready(accept)        == [kind |-> "READY", accept |-> accept]
Data(offset, bytes)  == [kind |-> "DATA", offset |-> offset, bytes |-> bytes]
Eof                  == [kind |-> "EOF"]
Verify(sha256_ok)    == [kind |-> "VERIFY", sha256_ok |-> sha256_ok]
Done                 == [kind |-> "DONE"]
ErrorMsg             == [kind |-> "ERROR"]

(* The messages each end writes. *)
FromSender ==
    {Hello(v) : v \in Versions} \cup {Meta(m) : m \in CraftMetadata}
      \cup {Data(o, b) : o \in 0..MaxBytes, b \in Body} \cup {Eof, Done}

FromReceiver ==
    {Hello(v) : v \in Versions} \cup {Ready(a) : a \in BOOLEAN}
      \cup {Verify(ok) : ok \in BOOLEAN} \cup {ErrorMsg}
=============================================================================
