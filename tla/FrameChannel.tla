---------------------------- MODULE FrameChannel ----------------------------
(***************************************************************************)
(* What module Session takes a stream for: frames arrive whole, in order   *)
(* and once, and a reader fails only when the stream has ended, with all   *)
(* that was left of it lost.                                               *)
(***************************************************************************)
EXTENDS Naturals, Sequences

CONSTANT Frame

VARIABLES sent, received, stream, reader

vars == <<sent, received, stream, reader>>

Init ==
    /\ sent = <<>>
    /\ received = <<>>
    /\ stream = "open"
    /\ reader = "open"

Send ==
    /\ stream = "open"
    /\ \E frame \in Frame : sent' = Append(sent, frame)
    /\ UNCHANGED <<received, stream, reader>>

Receive ==
    /\ reader = "open"
    /\ Len(received) < Len(sent)
    /\ received' = Append(received, sent[Len(received) + 1])
    /\ UNCHANGED <<sent, stream, reader>>

End ==
    /\ stream = "open"
    /\ stream' = "ended"
    /\ UNCHANGED <<sent, received, reader>>

ReaderFails ==
    /\ stream = "ended"
    /\ reader = "open"
    /\ reader' = "failed"
    /\ UNCHANGED <<sent, received, stream>>

Next == Send \/ Receive \/ End \/ ReaderFails

Spec == Init /\ [][Next]_vars
=============================================================================
