----------------------------- MODULE Rendezvous -----------------------------
(***************************************************************************)
(* How the senders and receivers of a LAN find and reach each other over   *)
(* TCP: the commands send and receive of src/cli.rs, the announcements of  *)
(* src/transport/mdns.rs, and the listeners and dials of                   *)
(* src/engine/sender.rs and receiver.rs.                                   *)
(*                                                                         *)
(* Every process is one run of a command.  A run takes at most one         *)
(* connection: its listener is closed as soon as accept has returned.      *)
(* What happens on the connection is module Session; here a session        *)
(* between a sender and a receiver ends some time, with any result.        *)
(***************************************************************************)
EXTENDS Naturals, SequencesExt

CONSTANTS
    Senders, Receivers,  \* runs of "send" and of "receive"
    Host, Port,          \* an address is a host and a port
    DEFAULT_PORT,
    Blueprint,           \* names of blueprints
    Version,             \* protocol versions of the builds in use
    Plans,               \* the command lines considered, one function each
    NoShare,             \* no share was picked
    Nobody,              \* no peer
    Faults               \* the faults that may happen

Proc == Senders \cup Receivers
Addr == [host : Host, port : Port]
AnyPort == 0
Bindable == [host : Host, port : Port \cup {AnyPort}]

(* A command line: a process listens (sender without --to, receiver with   *)
(* --bind, or with --no-mdns or --discover-timeout 0), dials (--to,        *)
(* --from), or browses first (receiver otherwise).  addr is what it asks   *)
(* to listen on if it does, to what it dials.                              *)
Plan == [how : {"listen", "dial", "browse"}, addr : Bindable, to : Addr,
         mdns : BOOLEAN, name : Blueprint, version : Version]

(* AnnouncedShare, and the sender that announces it.  Its full name is the *)
(* blueprint's, numbered by the mDNS daemon if another has it.             *)
Share == [fullname : Blueprint \X (Nat \ {0}), addr : Addr,
          version : Version, owner : Senders]

ASSUME RendezvousAssumption ==
    /\ Senders \cap Receivers = {}
    /\ IsFiniteSet(Proc)
    /\ DEFAULT_PORT \in Port /\ AnyPort \notin Port
    /\ Plans \subseteq [Proc -> Plan]
    /\ \A plan \in Plans, s \in Senders : plan[s].how # "browse"
    /\ NoShare \notin Share
    /\ Nobody \notin Proc
    /\ Faults \subseteq {"crash", "mdns", "lost"}

VARIABLES
    plan,     \* the command lines, fixed at the start
    state,    \* where each process is, or its result
    local,    \* where it listens; until it does, where it asks to
    backlog,  \* connections at each listener that were not accepted yet
    peer,     \* the process at the other end of the session
    air,      \* the announcements that answer a query
    found,    \* receiver: the shares resolved while browsing, oldest first
    due,      \* receiver: senders that have yet to answer its query
    picked    \* receiver: the share whose address it dials

vars == <<plan, state, local, backlog, peer, air, found, due, picked>>
mdnsVars == <<air, found, due, picked>>

Results ==
    {"Done", "AddrInUse", "Refused", "ConnLost", "MdnsFailed", "InvalidSelection",
     "Crashed"}
Running ==
    {"start", "bound", "accepting", "browsing", "picking", "dialing",
     "fallback", "queued", "session", "closing"}

Init ==
    /\ plan \in Plans
    /\ state = [p \in Proc |-> "start"]
    /\ local = [p \in Proc |-> plan[p].addr]
    /\ backlog = [p \in Proc |-> <<>>]
    /\ peer = [p \in Proc |-> Nobody]
    /\ air = {}
    /\ found = [r \in Receivers |-> <<>>]
    /\ due = [r \in Receivers |-> {}]
    /\ picked = [r \in Receivers |-> NoShare]

Goto(p, next) == state' = [state EXCEPT ![p] = next]

-----------------------------------------------------------------------------
(* Listening and dialling. *)

Listening(p) == state[p] \in {"bound", "accepting"}
ListensAt(p, a) == Listening(p) /\ local[p] = a

(* The free addresses that fit the one that is asked for: port 0 leaves    *)
(* the choice to the kernel.  std sets SO_REUSEADDR, so an address is free *)
(* again when its listener closes, while the accepted connection lives on. *)
Free(p) ==
    {a \in Addr : /\ a.host = plan[p].addr.host
                  /\ plan[p].addr.port \in {a.port, AnyPort}
                  /\ \A q \in Proc : ~ListensAt(q, a)}

(* TcpListener::bind. *)
Bind(p) ==
    /\ \/ state[p] = "start" /\ plan[p].how = "listen"
       \/ state[p] = "fallback"
    /\ \/ /\ \E a \in Free(p) : local' = [local EXCEPT ![p] = a]
          /\ Goto(p, IF p \in Senders THEN "bound" ELSE "accepting")
       \/ /\ Free(p) = {}
          /\ Goto(p, "AddrInUse")
          /\ UNCHANGED local
    /\ UNCHANGED <<plan, backlog, peer, mdnsVars>>

DialAddr(p) == IF plan[p].how = "dial" THEN plan[p].to ELSE picked[p].addr

(* TcpStream::connect: the kernel of a listening host completes the        *)
(* connection, whether or not the process has called accept.               *)
Dial(p) ==
    /\ \/ state[p] = "start" /\ plan[p].how = "dial"
       \/ state[p] = "dialing"
    /\ \/ \E q \in Proc :
            /\ ListensAt(q, DialAddr(p))
            /\ backlog' = [backlog EXCEPT ![q] = Append(@, p)]
            /\ Goto(p, "queued")
       \/ /\ \A q \in Proc : ~ListensAt(q, DialAddr(p))
          /\ Goto(p, "Refused")
          /\ UNCHANGED backlog
    /\ UNCHANGED <<plan, local, peer, mdnsVars>>

(* The listener is dropped at the end of the match arm that accepted, and  *)
(* the connections that still queue are reset.                             *)
BacklogKept(p) == Tail(backlog[p])  \* seeded fault: the listener stays open
BacklogAfterAccept(p) == <<>>

AcceptEach(p) ==  \* seeded fault: accept is called in a loop
    /\ state[p] \in {"accepting", "session"}
    /\ backlog[p] # <<>>
    /\ LET q == Head(backlog[p]) IN
         /\ state' = [state EXCEPT ![p] = "session", ![q] = "session"]
         /\ peer' = [peer EXCEPT ![p] = q, ![q] = p]
    /\ backlog' = [backlog EXCEPT ![p] = Tail(@)]
    /\ UNCHANGED <<plan, local, mdnsVars>>

Accept(p) ==
    /\ state[p] = "accepting"
    /\ backlog[p] # <<>>
    /\ LET q == Head(backlog[p]) IN
         /\ state' = [state EXCEPT ![p] = "session",
                                   ![q] = IF @ = "queued" THEN "session" ELSE @]
         /\ peer' = [peer EXCEPT ![p] = q, ![q] = p]
    /\ backlog' = [backlog EXCEPT ![p] = BacklogAfterAccept(p)]
    /\ UNCHANGED <<plan, local, mdnsVars>>

(* A connection that was reset in the queue: the session finds it lost.    *)
QueueReset(p) ==
    /\ state[p] = "queued"
    /\ \A q \in Proc : ~Contains(backlog[q], p)
    /\ Goto(p, "ConnLost")
    /\ UNCHANGED <<plan, local, backlog, peer, mdnsVars>>

(* Two receivers that reached each other both wait for the first HELLO.    *)
BothReceive(p) == p \in Receivers /\ peer[p] \in Receivers

SessionEnds(p) ==
    /\ state[p] = "session"
    /\ ~BothReceive(p) \/ state[peer[p]] # "session"
    /\ Goto(p, IF p \in Senders THEN "closing" ELSE "Done")
    /\ UNCHANGED <<plan, local, backlog, peer, mdnsVars>>

-----------------------------------------------------------------------------
(* mDNS. *)

FullName(name) ==
    LET used == {share.fullname : share \in air}
        free == {n \in 1..(Cardinality(air) + 1) : <<name, n>> \notin used}
    IN <<name, CHOOSE n \in free : \A m \in free : n <= m>>

(* The port announced is the one that was bound; seeded faults announce    *)
(* the default port, or the one that was asked for.                        *)
DefaultPort(s) == DEFAULT_PORT
AskedForPort(s) == plan[s].addr.port
AnnouncedPort(s) == local[s].port

ShareOf(s) ==
    [fullname |-> FullName(plan[s].name),
     addr |-> [host |-> local[s].host, port |-> AnnouncedPort(s)],
     version |-> plan[s].version,
     owner |-> s]

OnAir(s) == \E share \in air : share.owner = s
Without(s) == {share \in air : share.owner # s}

(* cmd_send announces what it has bound, then calls accept; a failure to   *)
(* announce is only a warning.                                             *)
Announce(s) ==
    /\ state[s] = "bound"
    /\ \/ plan[s].mdns /\ air' = air \cup {ShareOf(s)}
       \/ (~plan[s].mdns \/ "mdns" \in Faults) /\ UNCHANGED air
    /\ Goto(s, "accepting")
    /\ UNCHANGED <<plan, local, backlog, peer, found, due, picked>>

KeepOnAir(s) ==  \* seeded fault: the handle is leaked
    /\ state[s] = "closing"
    /\ Goto(s, "Done")
    /\ UNCHANGED <<plan, local, backlog, peer, mdnsVars>>

(* drop(mdns_handle), once send_blueprint has returned. *)
Unregister(s) ==
    /\ state[s] = "closing"
    /\ air' = Without(s)
    /\ Goto(s, "Done")
    /\ UNCHANGED <<plan, local, backlog, peer, found, due, picked>>

(* browse: a fresh daemon with an empty cache sends its query.  When there *)
(* is no daemon, receive fails.                                            *)
Browse(r) ==
    /\ state[r] = "start"
    /\ plan[r].how = "browse"
    /\ \/ /\ Goto(r, "browsing")
          /\ due' = [due EXCEPT ![r] = {s \in Senders : OnAir(s)}]
       \/ /\ "mdns" \in Faults
          /\ Goto(r, "MdnsFailed")
          /\ UNCHANGED due
    /\ UNCHANGED <<plan, local, backlog, peer, air, found, picked>>

(* A share is kept unless its full name was found before, whatever its     *)
(* address; two seeded faults have no test, or have it inverted.           *)
Unfiltered(r, share) == TRUE
OnlyKnown(r, share) == \E i \in DOMAIN found[r] : found[r][i].fullname = share.fullname
New(r, share) == \A i \in DOMAIN found[r] : found[r][i].fullname # share.fullname

(* ServiceResolved, in answer to the query or for a new announcement.      *)
Resolve(r, share) ==
    /\ state[r] = "browsing"
    /\ share \in air
    /\ due' = [due EXCEPT ![r] = @ \ {share.owner}]
    /\ found' = IF New(r, share) THEN [found EXCEPT ![r] = Append(@, share)]
                                 ELSE found
    /\ UNCHANGED <<plan, state, local, backlog, peer, air, picked>>

AnswerLost(r, s) ==
    /\ "lost" \in Faults
    /\ state[r] = "browsing"
    /\ s \in due[r]
    /\ due' = [due EXCEPT ![r] = @ \ {s}]
    /\ UNCHANGED <<plan, state, local, backlog, peer, air, found, picked>>

(* The browsing time is over; answers that were not lost are in by then.   *)
Deadline(r) ==
    /\ state[r] = "browsing"
    /\ \A s \in due[r] : ~OnAir(s)
    /\ CASE Len(found[r]) = 0 -> Goto(r, "fallback") /\ UNCHANGED picked
         [] Len(found[r]) = 1 -> /\ Goto(r, "dialing")
                                 /\ picked' = [picked EXCEPT ![r] = found[r][1]]
         [] OTHER -> Goto(r, "picking") /\ UNCHANGED picked
    /\ UNCHANGED <<plan, local, backlog, peer, air, found, due>>

(* The user types an index; anything that is not a number counts as 0.     *)
Pick(r) ==
    /\ state[r] = "picking"
    /\ \E idx \in 0..Len(found[r]) :
         IF idx < Len(found[r])
         THEN /\ Goto(r, "dialing")
              /\ picked' = [picked EXCEPT ![r] = found[r][idx + 1]]
         ELSE Goto(r, "InvalidSelection") /\ UNCHANGED picked
    /\ UNCHANGED <<plan, local, backlog, peer, air, found, due>>

-----------------------------------------------------------------------------
(* The process is killed or interrupted: there is no signal handler.       *)
Crash(p) ==
    /\ "crash" \in Faults
    /\ state[p] \in Running
    /\ Goto(p, "Crashed")
    /\ backlog' = [backlog EXCEPT ![p] = <<>>]
    /\ air' = Without(p)
    /\ UNCHANGED <<plan, local, peer, found, due, picked>>

SenderStep(s) == Announce(s) \/ Unregister(s)
ReceiverStep(r) == Browse(r) \/ Deadline(r) \/ Pick(r)
Step(p) ==
    \/ Bind(p) \/ Dial(p) \/ Accept(p) \/ QueueReset(p) \/ SessionEnds(p)
    \/ p \in Senders /\ SenderStep(p)
    \/ p \in Receivers /\ ReceiverStep(p)

Next ==
    \/ \E p \in Proc : Step(p) \/ Crash(p)
    \/ \E r \in Receivers :
         \/ \E share \in air : Resolve(r, share)
         \/ \E s \in Senders : AnswerLost(r, s)

Spec == Init /\ [][Next]_vars

(* Every process runs, its user answers, and a query is answered.          *)
Fairness ==
    /\ \A p \in Proc : WF_vars(Step(p))
    /\ \A r \in Receivers :
         WF_vars(\E share \in air : share.owner \in due[r] /\ Resolve(r, share))

FairSpec == Spec /\ Fairness
=============================================================================
