----------------------------- MODULE MCSession -----------------------------
(* A small instance of Session: bytes are bits, a craft file has at most   *)
(* five of them and a chunk has two, so that a file takes no DATA message, *)
(* one that is full, or three with a short last one.                       *)
EXTENDS SessionProperties

(* An injective digest over bits: the number written after a leading 1. *)
MCSha256Hex(bytes) == FoldLeft(LAMBDA n, b : 2 * n + b, 1, bytes)

MCCrafts == {<<>>, <<1, 0>>, <<0, 1, 1, 0, 1>>}
MCLongCraft == {<<>>, <<0, 1, 1, 0, 1>>}
MCOldFiles == {NoFile, <<1, 1>>}
=============================================================================
