---------------------------- MODULE MCRendezvous ----------------------------
(* Two senders, two receivers and two hosts: the command lines that bring  *)
(* addresses, names and roles into conflict.                               *)
EXTENDS RendezvousProperties, TLC

At(host, port) == [host |-> host, port |-> port]
Default(host) == At(host, 7878)

Line(how, addr, to) ==
    [how |-> how, addr |-> addr, to |-> to, mdns |-> TRUE,
     name |-> "rocket", version |-> 1]

Listen(addr) == Line("listen", addr, Default(addr.host))
DialTo(addr) == Line("dial", addr, addr)
BrowseOn(host) == Line("browse", Default(host), Default(host))

(* s1 is announced on host A.  s2 wants its address, or any port of its    *)
(* host, or is not announced, or dials a receiver on host B.  The receivers*)
(* browse, or dial s1 by hand, or listen; r1 falls back on the address     *)
(* of s1.                                                                  *)
MCPlans ==
    {("s1" :> Listen(Default("A")) @@ "s2" :> p2 @@ "r1" :> q1 @@ "r2" :> q2) :
       p2 \in {Listen(Default("A")), Listen(At("A", AnyPort)),
               [Listen(Default("B")) EXCEPT !.mdns = FALSE], DialTo(Default("B"))},
       q1 \in {BrowseOn("A"), Listen(Default("B"))},
       q2 \in {BrowseOn("B"), DialTo(Default("A"))}}

(* One sender is of a newer build than the receivers. *)
MCMixedPlans ==
    {[q EXCEPT !["s1"].version = 2] : q \in MCPlans}
=============================================================================
