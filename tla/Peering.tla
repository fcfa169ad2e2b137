------------------------------ MODULE Peering ------------------------------
(***************************************************************************)
(* send --p2p and receive --ticket: cmd_send_p2p and cmd_receive_p2p       *)
(* (src/cli.rs) with the endpoints of src/engine/quic.rs.                  *)
(*                                                                         *)
(* A ticket travels by chat, may reach several receivers, and may lose its *)
(* end on the way.  A sender serves one connection.  iroh, which finds an  *)
(* endpoint by its id and proves that it has this id, is external; what    *)
(* happens on the connection is module Session.                            *)
(***************************************************************************)
EXTENDS Ticket

CONSTANTS
    Receivers,   \* the runs of receive; a run of send is named by its endpoint id
    Endpoints,   \* the addresses considered, a function from the id each
    Damaged,     \* the receivers whose ticket may lose its end
    Faults       \* the faults that may happen

(* An address, in the form in which iroh and std print it. *)
Valid(a) ==
    /\ a.kind = "Relay" => ParseRelayUrl(a.value) = Some(a.value)
    /\ a.kind = "Ip" => ParseSocketAddr(a.value) = Some(a.value)

ASSUME PeeringAssumption ==
    /\ EndpointIds \cap Receivers = {}
    /\ \A addrs \in Endpoints :
         /\ DOMAIN addrs = EndpointIds
         /\ \A s \in EndpointIds :
              addrs[s] \in Seq(TransportAddr) /\ \A a \in Range(addrs[s]) : Valid(a)
    /\ Damaged \subseteq Receivers
    /\ Faults \subseteq {"crash", "net", "disk"}

VARIABLES
    addr,      \* the address of each sender's endpoint
    ticket,    \* the ticket it has printed
    sender,    \* where each sender is, or its result
    incoming,  \* the connections that wait for it
    served,    \* the receivers whose connection it has accepted
    done,      \* the senders that have sent DONE and reported "Sent"
    receiver,  \* where each receiver is, or its result
    pasted,    \* the ticket given to it
    peer       \* the address it has decoded

vars == <<addr, ticket, sender, incoming, served, done, receiver, pasted, peer>>

SenderResults == {"Sent", "Lost", "Crashed"}
Sending == {"start", "waiting", "session", "closing"}
ReceiverResults == {"BadTicket", "Saved", "IoError", "Lost", "Crashed"}
Receiving == {"start", "dialling", "session", "saving"}

Init ==
    /\ addr \in {[s \in EndpointIds |-> [id |-> s, addrs |-> addrs[s]]] : addrs \in Endpoints}
    /\ ticket = [s \in EndpointIds |-> <<>>]
    /\ sender = [s \in EndpointIds |-> "start"]
    /\ incoming = [s \in EndpointIds |-> {}]
    /\ served = [s \in EndpointIds |-> {}]
    /\ done = {}
    /\ receiver = [r \in Receivers |-> "start"]
    /\ pasted = [r \in Receivers |-> <<>>]
    /\ peer = [r \in Receivers |-> None]

SenderGoto(s, next) == sender' = [sender EXCEPT ![s] = next]
ReceiverGoto(r, next) == receiver' = [receiver EXCEPT ![r] = next]

(* bind_p2p waits for the endpoint to be online before its address is *)
(* turned into a ticket.                                              *)
Online(s) ==
    /\ sender[s] = "start"
    /\ ticket' = [ticket EXCEPT ![s] = Encode(FromAddr(addr[s]))]
    /\ SenderGoto(s, "waiting")
    /\ UNCHANGED <<addr, incoming, served, done, receiver, pasted, peer>>

(* What a user may paste of a ticket. *)
Received(r, text) ==
    IF r \in Damaged THEN {SubSeq(text, 1, n) : n \in 0..Len(text)} ELSE {text}

(* The ticket is decoded before anything else, and dialled. *)
Dial(r) ==
    /\ receiver[r] = "start"
    /\ \E s \in EndpointIds : ticket[s] # <<>> /\ pasted' \in
         {[pasted EXCEPT ![r] = text] : text \in Received(r, ticket[s])}
    /\ LET decoded == Decode(pasted'[r])
           ids == {t.id : t \in decoded}
       IN /\ ReceiverGoto(r, IF decoded = None THEN "BadTicket" ELSE "dialling")
          /\ peer' = [peer EXCEPT ![r] = {ToAddr(t) : t \in decoded}]
          /\ incoming' = [s \in EndpointIds |->
               IF s \in ids /\ sender[s] = "waiting" THEN incoming[s] \cup {r} ELSE incoming[s]]
    /\ UNCHANGED <<addr, ticket, sender, served, done>>

(* send_blueprint_quic takes one connection; if its other end has given up *)
(* meanwhile, the sender fails.  A seeded fault goes on taking.            *)
AcceptEach(s, r) ==
    /\ sender[s] \in {"waiting", "session"}
    /\ r \in incoming[s]
    /\ incoming' = [incoming EXCEPT ![s] = @ \ {r}]
    /\ receiver[r] = "dialling"
    /\ SenderGoto(s, "session")
    /\ ReceiverGoto(r, "session")
    /\ served' = [served EXCEPT ![s] = @ \cup {r}]
    /\ UNCHANGED <<addr, ticket, done, pasted, peer>>

Accept(s, r) ==
    /\ sender[s] = "waiting"
    /\ r \in incoming[s]
    /\ incoming' = [incoming EXCEPT ![s] = @ \ {r}]
    /\ IF receiver[r] = "dialling"
       THEN /\ SenderGoto(s, "session")
            /\ ReceiverGoto(r, "session")
            /\ served' = [served EXCEPT ![s] = @ \cup {r}]
       ELSE SenderGoto(s, "Lost") /\ UNCHANGED <<receiver, served>>
    /\ UNCHANGED <<addr, ticket, done, pasted, peer>>

(* The receiver has verified the file: the sender sends DONE and reports   *)
(* "Sent".  Whether the file is saved it never learns.                     *)
SenderDone(s, r) ==
    /\ sender[s] = "session" /\ r \in served[s] /\ receiver[r] = "session"
    /\ SenderGoto(s, "closing")
    /\ done' = done \cup {s}
    /\ UNCHANGED <<addr, ticket, incoming, served, receiver, pasted, peer>>

(* Before that it fails with its receiver.                                 *)
SenderFails(s, r) ==
    /\ sender[s] = "session" /\ r \in served[s]
    /\ receiver[r] # "session"
    /\ SenderGoto(s, "Lost")
    /\ UNCHANGED <<addr, ticket, incoming, served, done, receiver, pasted, peer>>

(* conn.closed().await returns when the receiver has closed the connection *)
(* or dropped it, whatever its result, or has died.  A seeded fault waits  *)
(* for a receiver that has saved the file.                                 *)
GoneIfSaved(r) == receiver[r] = "Saved"
Gone(r) == receiver[r] \in ReceiverResults

SenderCloses(s, r) ==
    /\ sender[s] = "closing" /\ r \in served[s]
    /\ Gone(r)
    /\ SenderGoto(s, "Sent")
    /\ UNCHANGED <<addr, ticket, incoming, served, done, receiver, pasted, peer>>

(* The receiver reads DONE, also of a sender that has ended meanwhile; or  *)
(* it fails with its sender, and DONE is lost.                             *)
ReceiverDone(s, r) ==
    /\ receiver[r] = "session" /\ r \in served[s]
    /\ s \in done
    /\ ReceiverGoto(r, "saving")
    /\ UNCHANGED <<addr, ticket, sender, incoming, served, done, pasted, peer>>

ReceiverFails(s, r) ==
    /\ receiver[r] = "session" /\ r \in served[s]
    /\ sender[s] \in SenderResults
    /\ ReceiverGoto(r, "Lost")
    /\ UNCHANGED <<addr, ticket, sender, incoming, served, done, pasted, peer>>

(* The connection fails, and each end finds out for itself; or one end     *)
(* leaves the session, as when the user refuses.  After DONE it is all the *)
(* same to the sender.                                                     *)
ConnectionFails(s, r) ==
    /\ "net" \in Faults
    /\ r \in served[s]
    /\ \/ sender[s] = "session" /\ SenderGoto(s, "Lost") /\ UNCHANGED receiver
       \/ sender[s] = "closing" /\ SenderGoto(s, "Sent") /\ UNCHANGED receiver
       \/ receiver[r] = "session" /\ ReceiverGoto(r, "Lost") /\ UNCHANGED sender
    /\ UNCHANGED <<addr, ticket, incoming, served, done, pasted, peer>>

(* Only after DONE is the file created and written, for which the receiver *)
(* needs nobody.                                                           *)
Save(r) ==
    /\ receiver[r] = "saving"
    /\ \/ ReceiverGoto(r, "Saved")
       \/ "disk" \in Faults /\ ReceiverGoto(r, "IoError")
    /\ UNCHANGED <<addr, ticket, sender, incoming, served, done, pasted, peer>>

(* endpoint.close().await comes before the result is looked at. *)
Closed(s) == sender[s] \in {"Sent", "Lost"}

(* connect fails: the endpoint is closed, and says so; or nothing answers, *)
(* because the process has died; or it takes too long.                     *)
DialFails(r) ==
    /\ receiver[r] = "dialling"
    /\ \E a \in peer[r] : Closed(a.id) \/ sender[a.id] = "Crashed"
    /\ ReceiverGoto(r, "Lost")
    /\ UNCHANGED <<addr, ticket, sender, incoming, served, done, pasted, peer>>

DialTimesOut(r) ==
    /\ "net" \in Faults
    /\ receiver[r] = "dialling"
    /\ ReceiverGoto(r, "Lost")
    /\ UNCHANGED <<addr, ticket, sender, incoming, served, done, pasted, peer>>

SenderCrash(s) ==
    /\ "crash" \in Faults
    /\ sender[s] \notin SenderResults
    /\ SenderGoto(s, "Crashed")
    /\ UNCHANGED <<addr, ticket, incoming, served, done, receiver, pasted, peer>>

ReceiverCrash(r) ==
    /\ "crash" \in Faults
    /\ receiver[r] \notin ReceiverResults
    /\ ReceiverGoto(r, "Crashed")
    /\ UNCHANGED <<addr, ticket, sender, incoming, served, done, pasted, peer>>

Next ==
    \/ \E s \in EndpointIds : Online(s) \/ SenderCrash(s)
    \/ \E r \in Receivers :
         Dial(r) \/ DialFails(r) \/ DialTimesOut(r) \/ Save(r) \/ ReceiverCrash(r)
    \/ \E s \in EndpointIds, r \in Receivers :
         \/ Accept(s, r)
         \/ SenderDone(s, r) \/ SenderFails(s, r) \/ SenderCloses(s, r)
         \/ ReceiverDone(s, r) \/ ReceiverFails(s, r)
         \/ ConnectionFails(s, r)

(* Processes run, sessions end, and a failure of the peer is noticed.  No  *)
(* fault is fair, and neither is going online: bind_p2p waits without end. *)
Fairness ==
    /\ \A s \in EndpointIds, r \in Receivers :
         /\ WF_vars(Accept(s, r))
         /\ WF_vars(SenderDone(s, r) \/ SenderFails(s, r))
         /\ WF_vars(SenderCloses(s, r))
         /\ WF_vars(ReceiverDone(s, r) \/ ReceiverFails(s, r))
    /\ \A r \in Receivers : WF_vars(DialFails(r)) /\ WF_vars(Save(r))

Spec == Init /\ [][Next]_vars /\ Fairness

-----------------------------------------------------------------------------
(* Type correctness. *)
TypeOK ==
    /\ \A s \in EndpointIds : addr[s] \in EndpointAddr /\ addr[s].id = s
    /\ sender \in [EndpointIds -> Sending \cup SenderResults]
    /\ receiver \in [Receivers -> Receiving \cup ReceiverResults]
    /\ incoming \in [EndpointIds -> SUBSET Receivers]
    /\ served \in [EndpointIds -> SUBSET Receivers]
    /\ done \subseteq EndpointIds
    /\ \A r \in Receivers : \A a \in peer[r] :
         /\ a.id \in EndpointIds
         /\ \A t \in a.addrs : t \in TransportAddr /\ t.kind # "Custom" /\ Valid(t)

(* The addresses a ticket has room for: one relay (of several, the last)   *)
(* and the IP addresses.                                                   *)
Told(s) ==
    LET addrs == addr[s].addrs
    IN {addrs[i] : i \in
          {j \in DOMAIN addrs :
             \/ addrs[j].kind = "Ip"
             \/ /\ addrs[j].kind = "Relay"
                /\ \A k \in (j + 1)..Len(addrs) : addrs[k].kind # "Relay"}}

(* A ticket that arrives undamaged names the endpoint of its sender and    *)
(* every address it has room for, reserved characters included.            *)
(* (p2p.rs:52-153; docs/p2p.md:43, 47-49)                                  *)
RoundTrip ==
    \A r \in Receivers, s \in EndpointIds :
      pasted[r] # <<>> /\ pasted[r] = ticket[s] =>
        peer[r] = Some([id |-> s, addrs |-> Told(s)])

(* A ticket that has lost its end is refused or still names its sender,    *)
(* and at most its last address differs: a port or a host name may have    *)
(* lost its own end.  (p2p.rs:112-153)                                     *)
SamePeer ==
    \A r \in Receivers, s \in EndpointIds :
      IsPrefix(pasted[r], ticket[s]) /\ pasted[r] # <<>> =>
        \A a \in peer[r] :
          /\ a.id = s
          /\ \A t, u \in a.addrs \ Told(s) : t = u
          /\ \A t \in a.addrs \ Told(s) : \E told \in Told(s) :
               t.kind = told.kind /\ IsPrefix(Front(t.value), told.value)

Dialled == {"dialling", "session", "saving", "Saved", "IoError"}

(* A ticket cut within an escape is refused.  (p2p.rs:180-201)             *)
NoHalfEscape ==
    \A r \in Receivers, s \in EndpointIds :
      /\ pasted[r] # <<>> /\ IsPrefix(pasted[r], ticket[s])
      /\ \E i \in DOMAIN pasted[r] :
           pasted[r][i] = "%" /\ Len(pasted[r]) \in {i, i + 1}
      => receiver[r] \notin Dialled

(* Whoever hands a ticket to several people serves one of them, one that   *)
(* was given this ticket.  It reports "Sent" only if it has served one,    *)
(* and no failure after that; and nobody saves the file whose sender has   *)
(* not reported "Sent".  It does not learn what becomes of the file then:  *)
(* its receiver may still lose DONE, crash, or fail to save the file.      *)
(* (quic.rs:58-73, 82-90, 178-183, 292-308)                                *)
ServedOnce ==
    /\ \A s \in EndpointIds :
         /\ \A r, q \in served[s] : r = q
         /\ \A r \in served[s] : \A a \in peer[r] : a.id = s
         /\ sender[s] = "Sent" => s \in done
         /\ s \in done => served[s] # {} /\ sender[s] # "Lost"
    /\ \A r \in Receivers :
         receiver[r] \in {"saving", "Saved", "IoError"} => \E s \in done : r \in served[s]

(* A receiver that dials does not wait for ever for a sender that has      *)
(* gone, and a sender that is dialled comes to an end, unless it is still  *)
(* waiting for its first receiver.  (cli.rs:324-325, 360-361)              *)
DialEnds ==
    \A r \in Receivers : receiver[r] = "dialling" ~> receiver[r] # "dialling"
=============================================================================
