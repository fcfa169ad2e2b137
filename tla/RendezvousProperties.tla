------------------------ MODULE RendezvousProperties ------------------------
(***************************************************************************)
(* What finding and reaching a peer must do, and what the runs check of    *)
(* module Rendezvous.                                                      *)
(***************************************************************************)
EXTENDS Rendezvous

(* Type correctness; no share is found twice.  (mdns.rs:133-137) *)
TypeOK ==
    /\ plan \in Plans
    /\ state \in [Proc -> Running \cup Results]
    /\ local \in [Proc -> Bindable]
    /\ \A p \in Proc : backlog[p] \in Seq(Proc)
    /\ peer \in [Proc -> Proc \cup {Nobody}]
    /\ air \subseteq Share
    /\ \A r \in Receivers :
         found[r] \in Seq(Share) /\ IsInjective(found[r])
    /\ due \in [Receivers -> SUBSET Senders]
    /\ picked \in [Receivers -> Share \cup {NoShare}]

(* A run takes one connection: whoever is in a session is in it with a     *)
(* process that is, or was, in a session with nobody else, and whoever     *)
(* still waits in a queue is in one only, without a peer.                  *)
(* (sender.rs:41-45, receiver.rs:43-49)                                    *)
Paired ==
    \A p \in Proc :
      /\ state[p] = "session" => peer[p] # Nobody /\ peer[peer[p]] = p
      /\ state[p] = "queued" =>
           \A q, u \in Proc :
             Contains(backlog[q], p) /\ Contains(backlog[u], p) => q = u

(* The share's sender waits no longer: it took another connection, or it   *)
(* is gone.                                                                *)
Taken(share) == state[share.owner] \in {"session", "closing"} \cup Results

(* A receiver reaches the sender whose share it picked, except that an     *)
(* announcement outlives its listener: a process that bound the same       *)
(* address after the sender stopped listening may answer in its place.     *)
(* (cli.rs:168-196, mdns.rs:124-149)                                       *)
ServedAsPicked ==
    \A r \in Receivers :
      state[r] = "session" /\ picked[r] # NoShare /\ peer[r] # picked[r].owner =>
        /\ Taken(picked[r])
        /\ local[peer[r]] = local[picked[r].owner]

(* A share is announced only when its address can be dialled: a receiver   *)
(* that is refused, or reset in the queue, came after another or after the *)
(* end of the sender, never before it was ready.  (cli.rs:168-173)         *)
RefusedOnlyIfTaken ==
    \A r \in Receivers :
      state[r] \in {"Refused", "ConnLost"} /\ picked[r] # NoShare =>
        Taken(picked[r])

(* An announcement is off the air when its sender has returned, however it *)
(* ended; and no two announcements have one name or one sender.            *)
(* (mdns.rs:52-54 "take the announcement off the air on early exit")       *)
AnnouncedByLiving ==
    /\ \A share \in air : state[share.owner] \in {"accepting", "session", "closing"}
    /\ \A s, t \in air : s.fullname = t.fullname \/ s.owner = t.owner => s = t

(* docs/discovery.md:34-35: the announced version "lets the receiver bail  *)
(* out early if the sender speaks a newer protocol it can't talk to".      *)
BailsOutEarly ==
    \A r \in Receivers :
      state[r] \in {"queued", "session"} /\ picked[r] # NoShare =>
        picked[r].version <= plan[r].version

(* Nothing more will happen to the process: it has returned, it waits for  *)
(* a connection and none has come, or it is one of two receivers that      *)
(* reached each other.                                                     *)
Settled(p) ==
    \/ state[p] \in Results
    \/ state[p] = "accepting" /\ backlog[p] = <<>>
    \/ state[p] = "session" /\ BothReceive(p) /\ state[peer[p]] = "session"

(* No process is left in a queue, in a session of a sender, or half way.   *)
EveryoneSettles == <>[](\A p \in Proc : Settled(p))

(* A receiver that starts to browse while a sender is on the air does not  *)
(* end up listening itself while that sender waits for it, when no answer  *)
(* is lost.  (cli.rs:231-234)                                              *)
NoMutualWait ==
    \A r \in Receivers, s \in Senders :
      state[r] = "start" /\ plan[r].how = "browse" /\ OnAir(s)
        ~> state[r] \in Results \cup {"session"} \/ state[s] # "accepting"
=============================================================================
