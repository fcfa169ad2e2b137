------------------------------ MODULE Transfer ------------------------------
(***************************************************************************)
(* What a transfer promises, whatever the transport and its messages:      *)
(* the sender reports "sent" only when the receiver holds the whole craft  *)
(* file, and the file at the target path changes only after that, and only *)
(* into a prefix of the craft file, the whole of it when the receiver      *)
(* reports "saved".  Each end may give up at any time.                     *)
(***************************************************************************)
EXTENDS SequencesExt

CONSTANTS Body, Crafts, OldFiles

VARIABLES craft, received, file, sender, receiver

vars == <<craft, received, file, sender, receiver>>

Init ==
    /\ craft \in Crafts
    /\ file \in OldFiles
    /\ received = <<>>
    /\ sender = "working"
    /\ receiver = "working"

(* Some of the file, or of what became of it on the way, reaches the       *)
(* receiver; nothing does once the sender has its confirmation.            *)
Deliver ==
    /\ receiver = "working"
    /\ sender # "sent"
    /\ received' \in Body
    /\ UNCHANGED <<craft, file, sender, receiver>>

Confirm ==
    /\ sender = "working"
    /\ received = craft
    /\ sender' = "sent"
    /\ UNCHANGED <<craft, received, file, receiver>>

Write ==
    /\ receiver = "working"
    /\ sender = "sent"
    /\ file' \in Prefixes(received)
    /\ UNCHANGED <<craft, received, sender, receiver>>

Save ==
    /\ receiver = "working"
    /\ sender = "sent"
    /\ file' = received
    /\ receiver' = "saved"
    /\ UNCHANGED <<craft, received, sender>>

SenderFails ==
    /\ sender = "working"
    /\ sender' = "failed"
    /\ UNCHANGED <<craft, received, file, receiver>>

ReceiverFails ==
    /\ receiver = "working"
    /\ receiver' = "failed"
    /\ \/ UNCHANGED file
       \/ sender = "sent" /\ file' \in Prefixes(received)
    /\ UNCHANGED <<craft, received, sender>>

Next ==
    Deliver \/ Confirm \/ Write \/ Save \/ SenderFails \/ ReceiverFails

Spec == Init /\ [][Next]_vars
=============================================================================
