--------------------------- MODULE RendezvousProofs ---------------------------
(***************************************************************************)
(* The safety invariants of RendezvousProperties, for any number of        *)
(* senders and receivers, hosts and ports, any command lines and faults.   *)
(***************************************************************************)
EXTENDS RendezvousProperties, FiniteSetTheorems, WellFoundedInduction,
        SequenceTheorems, TLAPS

Late == {"accepting", "session", "closing"} \cup Results
TakenStates == {"session", "closing"} \cup Results

(* Where a process can be follows from its command; only a listener has a  *)
(* queue; whoever queues has been in no session and has dialled this       *)
(* listener; and no two processes listen at one address.                   *)
Places ==
    /\ DOMAIN backlog = Proc
    /\ \A p \in Proc :
         /\ state[p] \in {"browsing", "picking", "dialing", "fallback"} =>
              p \in Receivers /\ plan[p].how = "browse"
         /\ state[p] \in {"bound", "closing"} => p \in Senders
         /\ Listening(p) => local[p] \in Addr
         /\ backlog[p] # <<>> => Listening(p)
         /\ peer[p] # Nobody => state[p] \in TakenStates
    /\ \A p, q \in Proc :
         Contains(backlog[p], q) => state[q] \in {"queued", "Crashed"} /\ peer[q] = Nobody
    /\ \A p, q \in Proc :
         Listening(p) /\ Listening(q) /\ local[p] = local[q] => p = q

(* Who waits in a queue waits in one.                                      *)
OneQueue ==
    \A p, q, u \in Proc : Contains(backlog[q], p) /\ Contains(backlog[u], p) => q = u

(* What a share says stays true of its sender, which has announced it and  *)
(* never goes back to a place before that.                                 *)
Known(share) == share.addr = local[share.owner] /\ state[share.owner] \in Late

Shares ==
    /\ IsFiniteSet(air) /\ DOMAIN found = Receivers
    /\ \A share \in air : Known(share)
    /\ \A r \in Receivers :
         /\ \A i \in DOMAIN found[r] : Known(found[r][i])
         /\ picked[r] # NoShare =>
              Known(picked[r]) /\ state[r] \in {"dialing", "queued", "session"} \cup Results
         /\ state[r] = "dialing" => picked[r] # NoShare

(* A receiver that queues after it has picked a share queues at its        *)
(* address, and with its sender if that still listens.                     *)
Queues ==
    \A r \in Receivers :
      picked[r] # NoShare =>
        /\ \A p \in Proc : Contains(backlog[p], r) => local[p] = picked[r].addr
        /\ state[r] = "queued" =>
             Taken(picked[r]) \/ Contains(backlog[picked[r].owner], r)

(* Two processes in a session are in it with each other.                   *)
Pairs ==
    \A p \in Proc : state[p] = "session" => peer[p] # Nobody /\ peer[peer[p]] = p

IInv ==
    /\ TypeOK /\ Places /\ OneQueue /\ Shares /\ Queues
    /\ Pairs /\ ServedAsPicked /\ RefusedOnlyIfTaken /\ AnnouncedByLiving

-----------------------------------------------------------------------------
(* Queues. *)

LEMMA ContainsAppend ==
  ASSUME NEW S, NEW s \in Seq(S), NEW e \in S, NEW x
  PROVE  Contains(Append(s, e), x) <=> Contains(s, x) \/ x = e
<1>1. Len(Append(s, e)) = Len(s) + 1 /\ Len(s) \in Nat
  OBVIOUS
<1>2. \A i \in 1..(Len(s) + 1) : Append(s, e)[i] = IF i <= Len(s) THEN s[i] ELSE e
  OBVIOUS
<1> QED BY <1>1, <1>2 DEF Contains

LEMMA ContainsEmpty ==
  ASSUME NEW x
  PROVE  ~Contains(<<>>, x)
BY DEF Contains

LEMMA ContainsHead ==
  ASSUME NEW S, NEW s \in Seq(S), s # <<>>
  PROVE  Head(s) \in S /\ Contains(s, Head(s))
<1>1. Len(s) \in Nat /\ Len(s) >= 1 /\ Head(s) = s[1]
  OBVIOUS
<1> QED BY <1>1 DEF Contains

-----------------------------------------------------------------------------
(* Full names. *)

LEMMA LeastNat ==
  ASSUME NEW S, S \subseteq Nat, S # {}
  PROVE  \E m \in S : \A n \in S : m <= n
<1>1. PICK m \in S : \A n \in S : ~(<<n, m>> \in OpToRel(<, Nat))
  BY NatLessThanWellFounded, WFMin, Zenon
<1>2. \A n \in S : ~(n < m)
  BY <1>1, Zenon DEF OpToRel
<1> QED BY <1>2

(* There are fewer announcements than numbers to try. *)
LEMMA FreeNumber ==
  ASSUME NEW shares, IsFiniteSet(shares), NEW name
  PROVE  /\ Cardinality(shares) \in Nat
         /\ \E n \in 1..(Cardinality(shares) + 1) :
              \A share \in shares : share.fullname # <<name, n>>
<1>1. Cardinality(shares) \in Nat
  BY FS_CardinalityType
<1>2. PICK numbers : numbers = 1..(Cardinality(shares) + 1)
  OBVIOUS
<1>3. IsFiniteSet(numbers) /\ Cardinality(shares) < Cardinality(numbers)
  BY <1>1, <1>2, FS_Interval
<1>4. ASSUME \A n \in numbers : \E share \in shares : share.fullname = <<name, n>>
      PROVE  FALSE
  <2>1. PICK f : f = [n \in numbers |-> CHOOSE share \in shares : share.fullname = <<name, n>>]
    OBVIOUS
  <2>2. f \in [numbers -> shares] /\ \A n \in numbers : f[n].fullname = <<name, n>>
    BY <1>4, <2>1
  <2>3. \E m, n \in numbers : m # n /\ f[m] = f[n]
    BY <1>3, <2>2, FS_PigeonHole
  <2> QED BY <2>2, <2>3
<1> QED BY <1>1, <1>2, <1>4

(* The daemon finds a name that no other announcement has. *)
LEMMA FullNameIsFree ==
  ASSUME NEW name \in Blueprint, IsFiniteSet(air)
  PROVE  /\ FullName(name) \in Blueprint \X (Nat \ {0})
         /\ \A share \in air : share.fullname # FullName(name)
<1> DEFINE used == {share.fullname : share \in air}
           free == {n \in 1..(Cardinality(air) + 1) : <<name, n>> \notin used}
<1>1. /\ Cardinality(air) \in Nat
      /\ \E n \in 1..(Cardinality(air) + 1) : \A share \in air : share.fullname # <<name, n>>
  BY FreeNumber
<1>2. free # {} /\ free \subseteq Nat \ {0}
  <2>1. PICK n \in 1..(Cardinality(air) + 1) : \A share \in air : share.fullname # <<name, n>>
    BY <1>1
  <2>2. <<name, n>> \notin used
    BY <2>1
  <2>3. n \in free
    BY <2>2
  <2>4. 1..(Cardinality(air) + 1) \subseteq Nat \ {0}
    BY <1>1
  <2> HIDE DEF used
  <2> QED BY <2>3, <2>4
<1>3. \E n \in free : \A m \in free : n <= m
  <2> HIDE DEF free
  <2> QED BY <1>2, LeastNat
<1>4. PICK n \in free : FullName(name) = <<name, n>>
  BY <1>3 DEF FullName
<1> QED BY <1>2, <1>4

-----------------------------------------------------------------------------
(* Processes only go forward. *)

LEMMA InvariantInit ==
  ASSUME Init
  PROVE  IInv
<1> USE DEF Init
<1>1. TypeOK
  <2>1. \A p \in Proc : plan[p].addr \in Bindable
    BY RendezvousAssumption DEF Plan
  <2> QED BY <2>1, RendezvousAssumption DEF TypeOK, Running, IsInjective
<1>2. Places /\ OneQueue /\ Queues
  BY ContainsEmpty DEF Places, OneQueue, Queues, Listening
<1>3. Shares
  BY FS_EmptySet DEF Shares, Proc
<1>4. Pairs /\ ServedAsPicked /\ RefusedOnlyIfTaken /\ AnnouncedByLiving
  BY DEF Pairs, ServedAsPicked, RefusedOnlyIfTaken, AnnouncedByLiving, Proc
<1> QED BY <1>1, <1>2, <1>3, <1>4 DEF IInv

(* No run goes back: a sender that has announced a share never again has   *)
(* yet to announce it, and one that is taken stays taken.                  *)
LEMMA OnwardsStep ==
  ASSUME IInv, Next
  PROVE  /\ plan' = plan
         /\ \A p \in Proc : /\ state[p] \in Late => state'[p] \in Late
                            /\ state[p] \in TakenStates => state'[p] \in TakenStates
                            /\ state[p] \notin {"start", "fallback"} => local'[p] = local[p]
<1> DEFINE Onwards == /\ plan' = plan
                      /\ \A p \in Proc :
                           /\ state[p] \in Late => state'[p] \in Late
                           /\ state[p] \in TakenStates => state'[p] \in TakenStates
                           /\ state[p] \notin {"start", "fallback"} => local'[p] = local[p]
<1> USE DEF Late, TakenStates, Results
<1>0. state \in [Proc -> Running \cup Results]
  BY DEF IInv, TypeOK
<1>1. ASSUME NEW p \in Proc, NEW next \in Running \cup Results, Goto(p, next),
             plan' = plan, local' = local,
             /\ state[p] \in Late => next \in Late
             /\ state[p] \in TakenStates => next \in TakenStates
      PROVE  Onwards
  BY <1>0, <1>1 DEF Goto
<1>2. ASSUME NEW p \in Proc, Bind(p)
      PROVE  Onwards
  <2>1. /\ state[p] \in {"start", "fallback"} /\ plan' = plan
        /\ Goto(p, "AddrInUse") \/ Goto(p, "bound") \/ Goto(p, "accepting")
        /\ local' = local \/ \E a : local' = [local EXCEPT ![p] = a]
    BY <1>2 DEF Bind
  <2>2. \A q \in Proc \ {p} : local'[q] = local[q]
    BY <2>1 DEF IInv, TypeOK
  <2> QED BY <1>0, <2>1, <2>2 DEF Running, Goto
<1>3. ASSUME NEW p \in Proc, Dial(p)
      PROVE  Onwards
  <2>1. /\ state[p] \in {"start", "dialing"} /\ plan' = plan /\ local' = local
        /\ Goto(p, "queued") \/ Goto(p, "Refused")
    BY <1>3 DEF Dial
  <2> QED BY <2>1, <1>1 DEF Running
<1>4. ASSUME NEW p \in Proc, Accept(p)
      PROVE  Onwards
  <2>1. PICK q : q = Head(backlog[p])
    OBVIOUS
  <2>2. /\ state[p] = "accepting" /\ plan' = plan /\ local' = local
        /\ state' = [state EXCEPT ![p] = "session",
                                  ![q] = IF @ = "queued" THEN "session" ELSE @]
    BY <1>4, <2>1 DEF Accept
  <2> QED BY <1>0, <2>2
<1>5. ASSUME NEW p \in Proc, QueueReset(p) \/ SessionEnds(p) \/ Crash(p)
      PROVE  Onwards
  <2>1. /\ plan' = plan /\ local' = local /\ state[p] \in Running
        /\ \/ Goto(p, "ConnLost") \/ Goto(p, "Crashed")
           \/ state[p] = "session" /\ (Goto(p, "closing") \/ Goto(p, "Done"))
    BY <1>5 DEF QueueReset, SessionEnds, Crash, Running
  <2> QED BY <2>1, <1>1 DEF Running
<1>6. ASSUME NEW s \in Senders, SenderStep(s)
      PROVE  Onwards
  <2>1. /\ plan' = plan /\ local' = local /\ s \in Proc
        /\ \/ state[s] = "bound" /\ Goto(s, "accepting")
           \/ state[s] = "closing" /\ Goto(s, "Done")
    BY <1>6 DEF SenderStep, Announce, Unregister, Proc
  <2> QED BY <2>1, <1>1 DEF Running
<1>7. ASSUME NEW r \in Receivers, ReceiverStep(r)
      PROVE  Onwards
  <2>1. /\ plan' = plan /\ local' = local /\ r \in Proc
        /\ state[r] \in {"start", "browsing", "picking"}
        /\ \/ Goto(r, "browsing") \/ Goto(r, "fallback") \/ Goto(r, "dialing")
           \/ Goto(r, "picking") \/ Goto(r, "InvalidSelection") \/ Goto(r, "MdnsFailed")
    BY <1>7 DEF ReceiverStep, Browse, Deadline, Pick, Proc
  <2> QED BY <2>1, <1>1 DEF Running
<1>8. ASSUME NEW r, (\E share \in air : Resolve(r, share)) \/ (\E s \in Senders : AnswerLost(r, s))
      PROVE  Onwards
  BY <1>8 DEF Resolve, AnswerLost
<1> HIDE DEF Onwards
<1> QED BY <1>2, <1>3, <1>4, <1>5, <1>6, <1>7, <1>8, Zenon DEF Next, Step, Onwards

LEMMA KnownStays ==
  ASSUME IInv, Next
  PROVE  /\ \A share \in Share : Known(share) => Known(share)'
         /\ \A share \in Share : Taken(share) => Taken(share)'
<1>1. \A share \in Share : share.owner \in Proc
  BY DEF Share, Proc
<1>2. \A share \in Share : Known(share) => state[share.owner] \notin {"start", "fallback"}
  BY DEF Known, Late, Results
<1> QED BY <1>1, <1>2, OnwardsStep DEF Known, Taken, TakenStates

(* What the invariant says of a share that is found or picked. *)
LEMMA SharesTyped ==
  ASSUME TypeOK
  PROVE  /\ \A share \in air : share \in Share
         /\ \A r \in Receivers : \A i \in DOMAIN found[r] : found[r][i] \in Share
         /\ \A r \in Receivers : picked[r] # NoShare => picked[r] \in Share
<1>1. \A r \in Receivers : found[r] \in Seq(Share)
  BY DEF TypeOK
<1>2. \A r \in Receivers : \A i \in DOMAIN found[r] : found[r][i] \in Share
  BY <1>1, ElementOfSeq, LenProperties
<1> QED BY <1>2 DEF TypeOK

-----------------------------------------------------------------------------
(* Every step keeps the invariant. *)

LEMMA BindStep ==
  ASSUME IInv, Next, NEW p \in Proc, Bind(p)
  PROVE  IInv'
<1>1. /\ UNCHANGED <<plan, backlog, peer, air, found, due, picked>>
      /\ state[p] \in {"start", "fallback"}
  BY DEF Bind, mdnsVars
<1>2. PICK next \in {"AddrInUse", "bound", "accepting"}, a \in Bindable :
           /\ state' = [state EXCEPT ![p] = next]
           /\ local' = [local EXCEPT ![p] = a]
           /\ next # "AddrInUse" => a \in Addr /\ \A q \in Proc : ~ListensAt(q, a)
           /\ next = "bound" => p \in Senders
  <2>1. local[p] \in Bindable /\ local = [local EXCEPT ![p] = local[p]]
    BY DEF IInv, TypeOK
  <2>2. \A a \in Free(p) : a \in Addr /\ a \in Bindable /\ \A q \in Proc : ~ListensAt(q, a)
    BY DEF Free, Addr, Bindable
  <2>3. \/ /\ \E a \in Free(p) : local' = [local EXCEPT ![p] = a]
           /\ Goto(p, IF p \in Senders THEN "bound" ELSE "accepting")
        \/ local' = local /\ Goto(p, "AddrInUse")
    BY DEF Bind
  <2> QED BY <2>1, <2>2, <2>3 DEF Goto
<1>3. state \in [Proc -> Running \cup Results] /\ local \in [Proc -> Bindable]
  BY DEF IInv, TypeOK
<1>4. /\ local'[p] = a /\ \A q \in Proc \ {p} : local'[q] = local[q]
      /\ state'[p] = next /\ \A q \in Proc \ {p} : state'[q] = state[q]
  BY <1>2, <1>3
<1>5. TypeOK'
  <2>1. state' \in [Proc -> Running \cup Results]
    BY <1>2, <1>3 DEF Running, Results
  <2>2. local' \in [Proc -> Bindable]
    BY <1>2, <1>3
  <2> QED BY <1>1, <2>1, <2>2 DEF IInv, TypeOK
<1>6. Places'
  BY <1>1, <1>2, <1>4 DEF IInv, Places, Listening, ListensAt, TakenStates, Results
<1>7. OneQueue'
  BY <1>1 DEF IInv, OneQueue
<1>8. Shares'
  BY <1>1, <1>2, <1>4, KnownStays, SharesTyped DEF IInv, Shares, Results
<1>9. Queues'
  <2>1. \A r \in Proc : ~Contains(backlog[p], r)
    BY <1>1, ContainsEmpty DEF IInv, Places, Listening
  <2> QED BY <1>1, <1>2, <1>4, <2>1, KnownStays, SharesTyped DEF IInv, Queues, Proc
<1>10. Pairs' /\ RefusedOnlyIfTaken'
  BY <1>1, <1>2, <1>4, KnownStays, SharesTyped DEF IInv, Pairs, RefusedOnlyIfTaken
<1>11. ServedAsPicked'
  <2>1. ASSUME NEW r \in Receivers, state'[r] = "session", picked[r] # NoShare,
               peer[r] # picked[r].owner
        PROVE  Taken(picked[r])' /\ local'[peer[r]] = local'[picked[r].owner]
    <3>1. r \in Proc /\ state[r] = "session"
      BY <1>2, <1>4, <2>1 DEF Proc
    <3>2. picked[r] \in Share /\ picked[r].owner \in Proc /\ Known(picked[r])
      BY <2>1, SharesTyped DEF IInv, Shares, Share, Proc
    <3>3. Taken(picked[r])' /\ local[peer[r]] = local[picked[r].owner]
      BY <1>1, <2>1, <3>1, <3>2, KnownStays DEF IInv, ServedAsPicked
    <3>4. picked[r].owner # p
      BY <1>1, <3>2 DEF Known, Late, Results
    <3>5. peer[r] \in Proc /\ peer[r] # p
      <4>1. peer[r] \in Proc /\ peer[peer[r]] = r /\ r # Nobody
        BY <3>1, RendezvousAssumption DEF IInv, Pairs, TypeOK
      <4> QED BY <1>1, <4>1 DEF IInv, Places, TakenStates, Results
    <3> QED BY <1>4, <3>2, <3>3, <3>4, <3>5
  <2> QED BY <1>1, <2>1 DEF ServedAsPicked
<1>12. AnnouncedByLiving'
  BY <1>1, <1>2, <1>4 DEF IInv, AnnouncedByLiving
<1> QED BY <1>5, <1>6, <1>7, <1>8, <1>9, <1>10, <1>11, <1>12 DEF IInv

LEMMA DialStep ==
  ASSUME IInv, Next, NEW p \in Proc, Dial(p)
  PROVE  IInv'
<1>1. /\ UNCHANGED <<plan, local, peer, air, found, due, picked>>
      /\ state[p] \in {"start", "dialing"}
      /\ state[p] = "start" => plan[p].how = "dial"
  BY DEF Dial, mdnsVars
<1>2. /\ state \in [Proc -> Running \cup Results]
      /\ DOMAIN backlog = Proc /\ \A q \in Proc : backlog[q] \in Seq(Proc)
  BY DEF IInv, TypeOK, Places
<1>3. p \in Receivers /\ picked[p] # NoShare =>
        /\ DialAddr(p) = picked[p].addr /\ Known(picked[p])
        /\ picked[p] \in Share /\ picked[p].owner \in Proc
  BY <1>1, SharesTyped DEF IInv, Shares, Places, DialAddr, Results, Share, Proc
<1>4. \A q \in Proc : ~Contains(backlog[q], p)
  BY <1>1 DEF IInv, Places
<1>5. CASE \E q \in Proc : /\ ListensAt(q, DialAddr(p))
                           /\ backlog' = [backlog EXCEPT ![q] = Append(@, p)]
                           /\ Goto(p, "queued")
  <2>1. PICK q \in Proc : /\ ListensAt(q, DialAddr(p))
                          /\ backlog' = [backlog EXCEPT ![q] = Append(@, p)]
                          /\ state' = [state EXCEPT ![p] = "queued"]
    BY <1>5 DEF Goto
  <2>2. q # p /\ Listening(q) /\ local[q] = DialAddr(p)
    BY <1>1, <2>1 DEF ListensAt, Listening
  <2>3. \A u, v \in Proc : Contains(backlog'[u], v) <=>
                             Contains(backlog[u], v) \/ (u = q /\ v = p)
    <3>1. /\ backlog[q] \in Seq(Proc) /\ backlog'[q] = Append(backlog[q], p)
          /\ \A u \in Proc : u # q => backlog'[u] = backlog[u]
      BY <1>2, <2>1
    <3>2. \A v \in Proc : Contains(backlog'[q], v) <=> Contains(backlog[q], v) \/ v = p
      BY <3>1, ContainsAppend
    <3> QED BY <3>1, <3>2
  <2>4. \A u \in Proc : backlog'[u] \in Seq(Proc) /\ (u # q => backlog'[u] = backlog[u])
    BY <1>2, <2>1
  <2>5. TypeOK'
    BY <1>1, <1>2, <2>1, <2>4 DEF IInv, TypeOK, Running
  <2>6. Places'
    <3>1. /\ state'[p] = "queued" /\ \A u \in Proc \ {p} : state'[u] = state[u]
          /\ DOMAIN backlog' = Proc
      BY <1>2, <2>1
    <3>2. \A u \in Proc : /\ Listening(u)' <=> Listening(u)
                          /\ backlog'[u] # <<>> => Listening(u)'
      BY <1>1, <2>2, <2>4, <3>1 DEF IInv, Places, Listening
    <3>3. \A u \in Proc :
            /\ state'[u] \in {"browsing", "picking", "dialing", "fallback"} =>
                 u \in Receivers /\ plan'[u].how = "browse"
            /\ state'[u] \in {"bound", "closing"} => u \in Senders
            /\ peer'[u] # Nobody => state'[u] \in TakenStates
      BY <1>1, <3>1 DEF IInv, Places, TakenStates, Results
    <3>4. \A u, v \in Proc : Contains(backlog'[u], v) =>
            state'[v] \in {"queued", "Crashed"} /\ peer'[v] = Nobody
      BY <1>1, <2>3, <3>1 DEF IInv, Places, TakenStates, Results
    <3> QED BY <1>1, <3>1, <3>2, <3>3, <3>4 DEF IInv, Places
  <2>7. OneQueue'
    BY <1>4, <2>3 DEF IInv, OneQueue
  <2>8. Queues'
    <3>1. \A r \in Receivers : r \in Proc
      BY DEF Proc
    <3>2. p \in Receivers /\ picked[p] # NoShare =>
            Taken(picked[p])' \/ Contains(backlog'[picked[p].owner], p)
      <4>1. p \in Receivers /\ picked[p] # NoShare /\ ~Taken(picked[p]) =>
              Listening(picked[p].owner)
        BY <1>3 DEF Known, Taken, Late, Results, Listening
      <4>2. p \in Receivers /\ picked[p] # NoShare /\ ~Taken(picked[p]) =>
              picked[p].owner = q
        BY <1>3, <2>2, <4>1 DEF IInv, Places, Known
      <4>3. Contains(backlog'[q], p)
        BY <2>3
      <4> QED BY <1>1, <1>3, <4>2, <4>3, KnownStays
    <3>3. ASSUME NEW r \in Receivers, picked[r] # NoShare, r # p
          PROVE  state'[r] = "queued" =>
                   Taken(picked[r])' \/ Contains(backlog'[picked[r].owner], r)
      <4>1. picked[r] \in Share /\ picked[r].owner \in Proc /\ state'[r] = state[r]
        BY <1>2, <2>1, <3>1, <3>3, SharesTyped DEF IInv, Share, Proc
      <4>2. state[r] = "queued" => Taken(picked[r]) \/ Contains(backlog[picked[r].owner], r)
        BY <3>3 DEF IInv, Queues
      <4>3. Contains(backlog[picked[r].owner], r) => Contains(backlog'[picked[r].owner], r)
        BY <2>3, <3>1, <4>1
      <4> QED BY <1>1, <4>1, <4>2, <4>3, KnownStays
    <3> QED BY <1>1, <1>3, <2>2, <2>3, <3>1, <3>2, <3>3 DEF IInv, Queues
  <2>9. Shares'
    BY <1>1, <1>2, <2>1, KnownStays, SharesTyped DEF IInv, Shares
  <2>10. Pairs' /\ ServedAsPicked' /\ RefusedOnlyIfTaken' /\ AnnouncedByLiving'
    BY <1>1, <1>2, <2>1, KnownStays, SharesTyped
    DEF IInv, Pairs, ServedAsPicked, RefusedOnlyIfTaken, AnnouncedByLiving
  <2> QED BY <2>5, <2>6, <2>7, <2>8, <2>9, <2>10 DEF IInv
<1>6. CASE /\ \A q \in Proc : ~ListensAt(q, DialAddr(p))
           /\ Goto(p, "Refused") /\ UNCHANGED backlog
  <2>1. state' = [state EXCEPT ![p] = "Refused"] /\ UNCHANGED backlog
    BY <1>6 DEF Goto
  <2>2. TypeOK'
    BY <1>1, <1>2, <2>1 DEF IInv, TypeOK, Running, Results
  <2>3. Places' /\ OneQueue'
    BY <1>1, <1>2, <2>1 DEF IInv, Places, OneQueue, Listening, TakenStates, Results
  <2>4. Shares' /\ Queues'
    BY <1>1, <1>2, <2>1, KnownStays, SharesTyped DEF IInv, Shares, Queues, Results
  <2>5. RefusedOnlyIfTaken'
    <3>1. p \in Receivers /\ picked[p] # NoShare => Taken(picked[p])
      BY <1>3, <1>6 DEF ListensAt, Listening, Known, Late, Taken, Results
    <3> QED BY <1>1, <1>2, <2>1, <3>1, KnownStays, SharesTyped DEF IInv, RefusedOnlyIfTaken
  <2>6. Pairs' /\ ServedAsPicked' /\ AnnouncedByLiving'
    BY <1>1, <1>2, <2>1, KnownStays, SharesTyped
    DEF IInv, Pairs, ServedAsPicked, AnnouncedByLiving
  <2> QED BY <2>2, <2>3, <2>4, <2>5, <2>6 DEF IInv
<1> QED BY <1>5, <1>6 DEF Dial

LEMMA AcceptStep ==
  ASSUME IInv, Next, NEW p \in Proc, Accept(p)
  PROVE  IInv'
<1>1. /\ UNCHANGED <<plan, local, air, found, due, picked>>
      /\ state[p] = "accepting" /\ backlog[p] # <<>>
      /\ backlog' = [backlog EXCEPT ![p] = <<>>]
  BY DEF Accept, mdnsVars, BacklogAfterAccept
<1>2. PICK q \in Proc :
        /\ Contains(backlog[p], q)
        /\ state' = [state EXCEPT ![p] = "session",
                                  ![q] = IF @ = "queued" THEN "session" ELSE @]
        /\ peer' = [peer EXCEPT ![p] = q, ![q] = p]
  <2>1. backlog[p] \in Seq(Proc)
    BY DEF IInv, TypeOK
  <2>2. Head(backlog[p]) \in Proc /\ Contains(backlog[p], Head(backlog[p]))
    BY <1>1, <2>1, ContainsHead
  <2> QED BY <2>2 DEF Accept
<1>3. /\ state \in [Proc -> Running \cup Results] /\ peer \in [Proc -> Proc \cup {Nobody}]
      /\ DOMAIN backlog = Proc /\ \A u \in Proc : backlog[u] \in Seq(Proc)
  BY DEF IInv, TypeOK, Places
<1>4. /\ state[q] \in {"queued", "Crashed"} /\ q # p
      /\ peer[q] = Nobody /\ peer[p] = Nobody
  BY <1>1, <1>2 DEF IInv, Places, TakenStates, Results
<1>5. /\ state'[p] = "session" /\ state'[q] \in {"session", "Crashed"}
      /\ peer'[p] = q /\ peer'[q] = p
      /\ \A u \in Proc \ {p, q} : state'[u] = state[u] /\ peer'[u] = peer[u]
      /\ backlog'[p] = <<>> /\ \A u \in Proc \ {p} : backlog'[u] = backlog[u]
      /\ DOMAIN backlog' = Proc
  BY <1>1, <1>2, <1>3, <1>4
<1>6. \A u, v \in Proc : Contains(backlog'[u], v) =>
        u # p /\ v # p /\ v # q /\ Contains(backlog[u], v)
  <2>1. ~\E v \in Proc : Contains(backlog'[p], v)
    BY <1>5, ContainsEmpty
  <2>2. \A u \in Proc : ~Contains(backlog[u], p)
    BY <1>1 DEF IInv, Places
  <2>3. \A u \in Proc : Contains(backlog[u], q) => u = p
    BY <1>2 DEF IInv, OneQueue
  <2> QED BY <1>5, <2>1, <2>2, <2>3
<1>7. TypeOK'
  <2>1. state' \in [Proc -> Running \cup Results] /\ peer' \in [Proc -> Proc \cup {Nobody}]
    BY <1>2, <1>3 DEF Running
  <2>2. \A u \in Proc : backlog'[u] \in Seq(Proc)
    BY <1>3, <1>5, EmptySeq
  <2> QED BY <1>1, <2>1, <2>2 DEF IInv, TypeOK
<1>8. Places'
  <2>1. \A u \in Proc : /\ Listening(u)' => Listening(u) /\ u # p /\ u # q
                        /\ backlog'[u] # <<>> => Listening(u)'
    BY <1>4, <1>5 DEF IInv, Places, Listening
  <2>2. \A u \in Proc :
          /\ state'[u] \in {"browsing", "picking", "dialing", "fallback"} =>
               u \in Receivers /\ plan'[u].how = "browse"
          /\ state'[u] \in {"bound", "closing"} => u \in Senders
          /\ peer'[u] # Nobody => state'[u] \in TakenStates
    BY <1>1, <1>5 DEF IInv, Places, TakenStates, Results
  <2>3. \A u, v \in Proc : Contains(backlog'[u], v) =>
          state'[v] \in {"queued", "Crashed"} /\ peer'[v] = Nobody
    BY <1>5, <1>6 DEF IInv, Places
  <2> QED BY <1>1, <1>5, <2>1, <2>2, <2>3 DEF IInv, Places
<1>9. OneQueue'
  BY <1>6 DEF IInv, OneQueue
<1>10. Shares'
  BY <1>1, <1>3, <1>5, KnownStays, SharesTyped DEF IInv, Shares, Results, Proc
<1>11. Queues'
  <2>1. ASSUME NEW r \in Receivers, picked[r] # NoShare, state'[r] = "queued"
        PROVE  Taken(picked[r])' \/ Contains(backlog'[picked[r].owner], r)
    <3>1. /\ r \in Proc /\ state[r] = "queued"
          /\ picked[r] \in Share /\ picked[r].owner \in Proc
      BY <1>5, <2>1, SharesTyped DEF IInv, Share, Proc
    <3>2. picked[r].owner = p => Taken(picked[r])'
      BY <1>1, <1>5 DEF Taken
    <3>3. Taken(picked[r]) => Taken(picked[r])'
      BY <1>1, <3>1, KnownStays
    <3> QED BY <1>5, <2>1, <3>1, <3>2, <3>3 DEF IInv, Queues
  <2> QED BY <1>1, <1>6, <2>1 DEF IInv, Queues, Proc
<1>12. Pairs'
  <2>1. \A u \in Proc \ {p, q} : state[u] = "session" => peer[u] \in Proc \ {p, q}
    BY <1>3, <1>4, RendezvousAssumption DEF IInv, Pairs
  <2>2. \A u \in Proc \ {p, q} : state'[u] = "session" =>
          peer'[u] # Nobody /\ peer'[peer'[u]] = u
    BY <1>5, <2>1 DEF IInv, Pairs
  <2>3. peer'[p] # Nobody /\ peer'[q] # Nobody /\ peer'[peer'[p]] = p /\ peer'[peer'[q]] = q
    BY <1>5, RendezvousAssumption
  <2> QED BY <2>2, <2>3 DEF Pairs
<1>13. ServedAsPicked'
  <2>1. p \in Receivers => picked[p] = NoShare
    BY <1>1 DEF IInv, Shares, Results
  <2>2. q \in Receivers /\ picked[q] # NoShare /\ picked[q].owner # p =>
          Taken(picked[q])' /\ local[p] = local[picked[q].owner]
    <3>1. SUFFICES ASSUME q \in Receivers, picked[q] # NoShare, picked[q].owner # p
                   PROVE  Taken(picked[q])' /\ local[p] = local[picked[q].owner]
      OBVIOUS
    <3>2. picked[q] \in Share /\ picked[q].owner \in Proc /\ Known(picked[q])
      BY <3>1, SharesTyped DEF IInv, Shares, Share, Proc
    <3>3. local[p] = picked[q].addr /\ local[p] = local[picked[q].owner]
      BY <1>2, <3>1, <3>2 DEF IInv, Queues, Known
    <3>4. ~Listening(picked[q].owner)
      BY <1>1, <3>1, <3>2, <3>3 DEF IInv, Places, Listening
    <3>5. Taken(picked[q])
      BY <3>2, <3>4 DEF Known, Late, Taken, Results, Listening
    <3> QED BY <1>1, <3>2, <3>3, <3>5, KnownStays
  <2>3. ASSUME NEW r \in Receivers, r # p, r # q, state[r] = "session", picked[r] # NoShare,
               peer[r] # picked[r].owner
        PROVE  Taken(picked[r])' /\ local[peer[r]] = local[picked[r].owner]
    <3>1. picked[r] \in Share /\ Taken(picked[r])
      BY <2>3, SharesTyped DEF IInv, ServedAsPicked
    <3> QED BY <1>1, <2>3, <3>1, KnownStays DEF IInv, ServedAsPicked
  <2> QED BY <1>1, <1>5, <2>1, <2>2, <2>3 DEF ServedAsPicked, Proc
<1>14. RefusedOnlyIfTaken'
  BY <1>1, <1>5, KnownStays, SharesTyped DEF IInv, RefusedOnlyIfTaken, Proc
<1>15. AnnouncedByLiving'
  <2>1. \A share \in air : share.owner \in Proc /\ share.owner # q
    BY <1>4, SharesTyped DEF IInv, AnnouncedByLiving, Share, Proc
  <2> QED BY <1>1, <1>5, <2>1 DEF IInv, AnnouncedByLiving
<1> QED
  BY <1>7, <1>8, <1>9, <1>10, <1>11, <1>12, <1>13, <1>14, <1>15 DEF IInv

(* A step of a process that is neither listening nor about to: nothing but *)
(* its own place changes, and it does not queue afterwards.                *)
LEMMA EndStep ==
  ASSUME IInv, Next, NEW p \in Proc, NEW next \in {"closing"} \cup Results, Goto(p, next),
         state[p] \in {"queued", "session"}, \A q \in Proc : ~Contains(backlog[q], p),
         next = "closing" => p \in Senders, next # "closing" => p \in Receivers \/ state[p] = "queued",
         next \in {"Refused", "ConnLost"} =>
           (p \in Receivers /\ picked[p] # NoShare => Taken(picked[p])),
         UNCHANGED <<plan, local, backlog, peer, air, found, due, picked>>
  PROVE  IInv'
<1>1. /\ state' = [state EXCEPT ![p] = next]
      /\ state \in [Proc -> Running \cup Results] /\ DOMAIN backlog = Proc
  BY DEF IInv, TypeOK, Goto, Places
<1>2. TypeOK'
  BY <1>1 DEF IInv, TypeOK, Running, Results
<1>3. Places' /\ OneQueue'
  BY <1>1 DEF IInv, Places, OneQueue, Listening, TakenStates, Results
<1>4. Shares' /\ Queues'
  <2>1. p \in Receivers => next \in Results
    BY RendezvousAssumption
  <2>2. Shares'
    BY <1>1, <2>1, KnownStays, SharesTyped DEF IInv, Shares, Results, Proc
  <2>3. Queues'
    BY <1>1, KnownStays, SharesTyped DEF IInv, Queues, Results, Proc
  <2> QED BY <2>2, <2>3
<1>5. Pairs'
  BY <1>1 DEF IInv, Pairs, Results
<1>6. ServedAsPicked' /\ RefusedOnlyIfTaken'
  BY <1>1, KnownStays, SharesTyped DEF IInv, ServedAsPicked, RefusedOnlyIfTaken, Results, Proc
<1>7. AnnouncedByLiving'
  <2>1. \A share \in air : share.owner \in Senders
    BY SharesTyped DEF IInv, Share
  <2> QED BY <1>1, <2>1, RendezvousAssumption DEF IInv, AnnouncedByLiving
<1> QED BY <1>2, <1>3, <1>4, <1>5, <1>6, <1>7 DEF IInv

LEMMA SessionStep ==
  ASSUME IInv, Next, NEW p \in Proc, QueueReset(p) \/ SessionEnds(p)
  PROVE  IInv'
<1>1. UNCHANGED <<plan, local, backlog, peer, air, found, due, picked>>
  BY DEF QueueReset, SessionEnds, mdnsVars
<1>2. CASE QueueReset(p)
  <2>1. /\ state[p] = "queued" /\ Goto(p, "ConnLost")
        /\ \A q \in Proc : ~Contains(backlog[q], p)
    BY <1>2 DEF QueueReset
  <2>2. p \in Receivers /\ picked[p] # NoShare => Taken(picked[p])
    BY <2>1, SharesTyped DEF IInv, Queues, Share, Proc
  <2> QED BY <1>1, <2>1, <2>2, EndStep DEF Results
<1>3. CASE SessionEnds(p)
  <2>1. /\ state[p] = "session"
        /\ p \in Senders => Goto(p, "closing")
        /\ p \notin Senders => Goto(p, "Done")
    BY <1>3 DEF SessionEnds
  <2>2. \A q \in Proc : ~Contains(backlog[q], p)
    BY <2>1 DEF IInv, Places
  <2> QED BY <1>1, <2>1, <2>2, EndStep DEF Results, Proc
<1> QED BY <1>2, <1>3

LEMMA CrashStep ==
  ASSUME IInv, Next, NEW p \in Proc, Crash(p)
  PROVE  IInv'
<1>1. /\ UNCHANGED <<plan, local, peer, found, due, picked>>
      /\ state[p] \in Running /\ state' = [state EXCEPT ![p] = "Crashed"]
      /\ backlog' = [backlog EXCEPT ![p] = <<>>] /\ air' = Without(p)
  BY DEF Crash, Goto
<1>2. /\ state \in [Proc -> Running \cup Results]
      /\ DOMAIN backlog = Proc /\ \A u \in Proc : backlog[u] \in Seq(Proc)
  BY DEF IInv, TypeOK, Places
<1>3. /\ backlog'[p] = <<>> /\ \A u \in Proc \ {p} : backlog'[u] = backlog[u]
      /\ state'[p] = "Crashed" /\ \A u \in Proc \ {p} : state'[u] = state[u]
      /\ DOMAIN backlog' = Proc /\ state' \in [Proc -> Running \cup Results]
  BY <1>1, <1>2 DEF Results
<1>4. \A u, v \in Proc : Contains(backlog'[u], v) => u # p /\ Contains(backlog[u], v)
  BY <1>3, ContainsEmpty
<1>5. /\ air' \subseteq air /\ \A share \in air' : share.owner # p
      /\ \A share \in air' : share \in Share /\ share.owner \in Proc
  BY <1>1, SharesTyped DEF IInv, Without, Share, Proc
<1>6. TypeOK'
  <2>1. \A u \in Proc : backlog'[u] \in Seq(Proc)
    BY <1>2, <1>3, EmptySeq
  <2> QED BY <1>1, <1>3, <1>5, <2>1 DEF IInv, TypeOK
<1>7. Places' /\ OneQueue'
  BY <1>1, <1>3, <1>4 DEF IInv, Places, OneQueue, Listening, TakenStates, Results
<1>8. Shares'
  <2>1. IsFiniteSet(air')
    BY <1>5, FS_Subset DEF IInv, Shares
  <2>2. \A share \in air' : Known(share)'
    BY <1>5, KnownStays DEF IInv, Shares
  <2> QED BY <1>1, <1>3, <2>1, <2>2, KnownStays, SharesTyped DEF IInv, Shares, Results, Proc
<1>9. Queues'
  <2>1. ASSUME NEW r \in Receivers, picked[r] # NoShare, state'[r] = "queued"
        PROVE  Taken(picked[r])' \/ Contains(backlog'[picked[r].owner], r)
    <3>1. /\ r \in Proc /\ state[r] = "queued"
          /\ picked[r] \in Share /\ picked[r].owner \in Proc
      BY <1>3, <2>1, SharesTyped DEF IInv, Share, Proc
    <3>2. picked[r].owner = p => Taken(picked[r])'
      BY <1>1, <1>3 DEF Taken, Results
    <3>3. Taken(picked[r]) => Taken(picked[r])'
      BY <1>1, <3>1, KnownStays
    <3> QED BY <1>3, <2>1, <3>1, <3>2, <3>3 DEF IInv, Queues
  <2> QED BY <1>1, <1>4, <2>1 DEF IInv, Queues, Proc
<1>10. Pairs'
  BY <1>1, <1>3 DEF IInv, Pairs
<1>11. ServedAsPicked' /\ RefusedOnlyIfTaken'
  BY <1>1, <1>3, KnownStays, SharesTyped DEF IInv, ServedAsPicked, RefusedOnlyIfTaken, Proc
<1>12. AnnouncedByLiving'
  BY <1>3, <1>5 DEF IInv, AnnouncedByLiving
<1> QED BY <1>6, <1>7, <1>8, <1>9, <1>10, <1>11, <1>12 DEF IInv

LEMMA AnnounceStep ==
  ASSUME IInv, Next, NEW s \in Senders, Announce(s)
  PROVE  IInv'
<1>1. /\ UNCHANGED <<plan, local, backlog, peer, found, due, picked>>
      /\ state[s] = "bound" /\ state' = [state EXCEPT ![s] = "accepting"]
      /\ UNCHANGED air \/ air' = air \cup {ShareOf(s)}
  BY DEF Announce, Goto
<1>2. /\ state \in [Proc -> Running \cup Results] /\ s \in Proc
      /\ state'[s] = "accepting" /\ \A u \in Proc \ {s} : state'[u] = state[u]
      /\ state' \in [Proc -> Running \cup Results]
  BY <1>1 DEF IInv, TypeOK, Proc, Running
<1>3. PICK new \in Share :
        /\ UNCHANGED air \/ air' = air \cup {new}
        /\ new.addr = local[s] /\ new.owner = s
        /\ \A share \in air : share.fullname # new.fullname
  <2>1. plan[s] \in Plan
    BY <1>2, RendezvousAssumption DEF IInv, TypeOK
  <2>2. /\ plan[s].name \in Blueprint /\ plan[s].version \in Version
    BY <2>1 DEF Plan
  <2>a. local[s] \in Addr
    BY <1>1, <1>2 DEF IInv, Places, Listening
  <2>3. [host |-> local[s].host, port |-> AnnouncedPort(s)] = local[s]
    BY <2>a DEF AnnouncedPort, Addr
  <2>4. /\ FullName(plan[s].name) \in Blueprint \X (Nat \ {0})
        /\ \A share \in air : share.fullname # FullName(plan[s].name)
    BY <2>2, FullNameIsFree DEF IInv, Shares
  <2>5. ShareOf(s) = [fullname |-> FullName(plan[s].name), addr |-> local[s],
                      version |-> plan[s].version, owner |-> s]
    BY <2>3 DEF ShareOf
  <2>6. ShareOf(s) \in Share
    BY <2>2, <2>a, <2>4, <2>5 DEF Share
  <2> QED BY <1>1, <2>4, <2>5, <2>6
<1>4. \A share \in air : share \in Share /\ share.owner # s
  BY <1>1, SharesTyped DEF IInv, AnnouncedByLiving
<1>5. TypeOK'
  BY <1>1, <1>2, <1>3 DEF IInv, TypeOK
<1>6. Places' /\ OneQueue'
  BY <1>1, <1>2 DEF IInv, Places, OneQueue, Listening, TakenStates, Results
<1>7. Shares'
  <2>1. IsFiniteSet(air')
    BY <1>3, FS_AddElement DEF IInv, Shares
  <2>2. Known(new)'
    BY <1>1, <1>2, <1>3 DEF Known, Late
  <2> QED
    BY <1>1, <1>2, <1>3, <2>1, <2>2, KnownStays, SharesTyped, RendezvousAssumption
    DEF IInv, Shares
<1>8. Queues'
  BY <1>1, <1>2, KnownStays, SharesTyped DEF IInv, Queues, Proc
<1>9. Pairs' /\ ServedAsPicked' /\ RefusedOnlyIfTaken'
  BY <1>1, <1>2, KnownStays, SharesTyped
  DEF IInv, Pairs, ServedAsPicked, RefusedOnlyIfTaken, Proc
<1>10. AnnouncedByLiving'
  BY <1>1, <1>2, <1>3, <1>4 DEF IInv, AnnouncedByLiving, Share, Proc
<1> QED BY <1>5, <1>6, <1>7, <1>8, <1>9, <1>10 DEF IInv

LEMMA UnregisterStep ==
  ASSUME IInv, Next, NEW s \in Senders, Unregister(s)
  PROVE  IInv'
<1>1. /\ UNCHANGED <<plan, local, backlog, peer, found, due, picked>>
      /\ state[s] = "closing" /\ state' = [state EXCEPT ![s] = "Done"]
      /\ air' = Without(s)
  BY DEF Unregister, Goto
<1>2. /\ state \in [Proc -> Running \cup Results] /\ s \in Proc
      /\ state'[s] = "Done" /\ \A u \in Proc \ {s} : state'[u] = state[u]
      /\ state' \in [Proc -> Running \cup Results]
  BY <1>1 DEF IInv, TypeOK, Proc, Results
<1>3. /\ air' \subseteq air /\ \A share \in air' : share.owner # s
      /\ \A share \in air' : share \in Share /\ share.owner \in Proc
  BY <1>1, SharesTyped DEF IInv, Without, Share, Proc
<1>4. TypeOK'
  BY <1>1, <1>2, <1>3 DEF IInv, TypeOK
<1>5. Places' /\ OneQueue'
  BY <1>1, <1>2 DEF IInv, Places, OneQueue, Listening, TakenStates, Results
<1>6. Shares'
  <2>1. IsFiniteSet(air')
    BY <1>3, FS_Subset DEF IInv, Shares
  <2>2. \A share \in air' : Known(share)'
    BY <1>3, KnownStays DEF IInv, Shares
  <2> QED BY <1>1, <1>2, <2>1, <2>2, KnownStays, SharesTyped DEF IInv, Shares, Results, Proc
<1>7. Queues'
  BY <1>1, <1>2, KnownStays, SharesTyped DEF IInv, Queues, Proc
<1>8. Pairs' /\ ServedAsPicked' /\ RefusedOnlyIfTaken'
  BY <1>1, <1>2, KnownStays, SharesTyped
  DEF IInv, Pairs, ServedAsPicked, RefusedOnlyIfTaken, Proc
<1>9. AnnouncedByLiving'
  BY <1>2, <1>3 DEF IInv, AnnouncedByLiving
<1> QED BY <1>4, <1>5, <1>6, <1>7, <1>8, <1>9 DEF IInv

(* The steps by which a receiver makes up its mind. *)
LEMMA BrowseStep ==
  ASSUME IInv, Next, NEW r \in Receivers, ReceiverStep(r)
  PROVE  IInv'
<1>1. /\ UNCHANGED <<plan, local, backlog, peer, air, found>>
      /\ state[r] \in {"start", "browsing", "picking"}
      /\ state[r] = "start" => plan[r].how = "browse"
      /\ due' \in [Receivers -> SUBSET Senders]
  BY DEF IInv, TypeOK, ReceiverStep, Browse, Deadline, Pick
<1>2. found[r] \in Seq(Share) /\ r \in Proc /\ picked[r] = NoShare
      /\ \A i \in DOMAIN found[r] : found[r][i] \in Share /\ Known(found[r][i])
  BY <1>1, SharesTyped DEF IInv, TypeOK, Shares, Results, Proc
<1>3. PICK next, share :
        /\ state' = [state EXCEPT ![r] = next]
        /\ picked' = [picked EXCEPT ![r] = share]
        /\ \/ next \in {"browsing", "picking", "fallback", "InvalidSelection", "MdnsFailed"}
              /\ share = NoShare
           \/ next = "dialing" /\ share \in Share /\ Known(share)
  <2> DEFINE Chosen == {found[r][i] : i \in DOMAIN found[r]}
  <2>1. picked = [picked EXCEPT ![r] = NoShare]
    BY <1>2 DEF IInv, TypeOK
  <2>2. \A i \in 1..Len(found[r]) : found[r][i] \in Share /\ Known(found[r][i])
    BY <1>2
  <2>3. CASE Browse(r)
    BY <2>1, <2>3 DEF Browse, Goto
  <2>4. CASE Deadline(r)
    <3>1. Len(found[r]) = 1 => found[r][1] \in Share /\ Known(found[r][1])
      BY <2>2
    <3>2. \/ Goto(r, "fallback") /\ UNCHANGED picked
          \/ Goto(r, "picking") /\ UNCHANGED picked
          \/ /\ Len(found[r]) = 1 /\ Goto(r, "dialing")
             /\ picked' = [picked EXCEPT ![r] = found[r][1]]
      BY <2>4 DEF Deadline
    <3> QED BY <2>1, <3>1, <3>2 DEF Goto
  <2>5. CASE Pick(r)
    <3>1. PICK idx \in 0..Len(found[r]) :
            IF idx < Len(found[r])
            THEN Goto(r, "dialing") /\ picked' = [picked EXCEPT ![r] = found[r][idx + 1]]
            ELSE Goto(r, "InvalidSelection") /\ UNCHANGED picked
      BY <2>5 DEF Pick
    <3>2. idx < Len(found[r]) => found[r][idx + 1] \in Share /\ Known(found[r][idx + 1])
      BY <1>2, <2>2
    <3> QED BY <2>1, <3>1, <3>2 DEF Goto
  <2> QED BY <2>3, <2>4, <2>5 DEF ReceiverStep
<1>4. /\ state \in [Proc -> Running \cup Results]
      /\ state'[r] = next /\ \A u \in Proc \ {r} : state'[u] = state[u]
      /\ picked'[r] = share /\ \A q \in Receivers \ {r} : picked'[q] = picked[q]
  BY <1>2, <1>3 DEF IInv, TypeOK
<1>5. TypeOK'
  <2>1. state' \in [Proc -> Running \cup Results]
    BY <1>3, <1>4 DEF Running, Results
  <2>2. picked' \in [Receivers -> Share \cup {NoShare}]
    BY <1>3 DEF IInv, TypeOK
  <2> QED BY <1>1, <2>1, <2>2 DEF IInv, TypeOK
<1>6. Places' /\ OneQueue'
  BY <1>1, <1>2, <1>3, <1>4 DEF IInv, Places, OneQueue, Listening, TakenStates, Results
<1>7. Shares'
  <2>1. share # NoShare => Known(share)' /\ next = "dialing"
    BY <1>3, KnownStays
  <2>2. next = "dialing" => share # NoShare
    BY <1>3, RendezvousAssumption
  <2> QED
    BY <1>1, <1>4, <2>1, <2>2, KnownStays, SharesTyped DEF IInv, Shares, Proc
<1>8. Queues'
  <2>1. \A p \in Proc : ~Contains(backlog[p], r)
    BY <1>1, <1>2 DEF IInv, Places
  <2> QED BY <1>1, <1>2, <1>3, <1>4, <2>1, KnownStays, SharesTyped DEF IInv, Queues, Proc
<1>9. Pairs' /\ ServedAsPicked' /\ RefusedOnlyIfTaken'
  BY <1>1, <1>2, <1>3, <1>4, KnownStays, SharesTyped
  DEF IInv, Pairs, ServedAsPicked, RefusedOnlyIfTaken, Proc
<1>10. AnnouncedByLiving'
  BY <1>1, <1>4, SharesTyped DEF IInv, AnnouncedByLiving, Share, Proc
<1> QED BY <1>5, <1>6, <1>7, <1>8, <1>9, <1>10 DEF IInv

LEMMA AnswerStep ==
  ASSUME IInv, Next, NEW r \in Receivers,
         (\E share \in air : Resolve(r, share)) \/ (\E s \in Senders : AnswerLost(r, s))
  PROVE  IInv'
<1> DEFINE Good(shares) == /\ shares \in Seq(Share) /\ IsInjective(shares)
                            /\ \A i \in DOMAIN shares : Known(shares[i])
<1>1. /\ UNCHANGED <<plan, state, local, backlog, peer, air, picked>>
      /\ due' \in [Receivers -> SUBSET Senders]
  BY DEF IInv, TypeOK, Resolve, AnswerLost
<1>2. /\ DOMAIN found = Receivers
      /\ \A q \in Receivers : found[q] \in Seq(Share) /\ IsInjective(found[q])
  BY DEF IInv, TypeOK, Shares
<1>3. \/ UNCHANGED found
      \/ \E share \in air : /\ New(r, share)
                            /\ found' = [found EXCEPT ![r] = Append(@, share)]
  BY DEF Resolve, AnswerLost
<1>4. DOMAIN found' = Receivers /\ \A q \in Receivers : Good(found'[q])
  <2>1. CASE UNCHANGED found
    BY <1>2, <2>1 DEF IInv, Shares
  <2>2. ASSUME NEW share \in air, New(r, share),
               found' = [found EXCEPT ![r] = Append(@, share)]
        PROVE  DOMAIN found' = Receivers /\ \A q \in Receivers : Good(found'[q])
    <3>1. share \in Share /\ Known(share)
      BY SharesTyped DEF IInv, Shares
    <3>2. /\ found'[r] = Append(found[r], share) /\ DOMAIN found' = Receivers
          /\ \A q \in Receivers \ {r} : found'[q] = found[q]
      BY <1>2, <2>2
    <3>3. PICK old \in Seq(Share) : old = found[r]
      BY <1>2
    <3>4. /\ \A i, k \in 1..Len(old) : old[i] = old[k] => i = k
          /\ \A i \in 1..Len(old) : old[i] # share /\ Known(old[i])
      BY <1>2, <2>2, <3>3 DEF New, IsInjective, IInv, Shares
    <3>5. /\ Append(old, share) \in Seq(Share) /\ Len(old) \in Nat
          /\ DOMAIN Append(old, share) = 1..(Len(old) + 1)
          /\ \A i \in 1..(Len(old) + 1) :
               Append(old, share)[i] = IF i <= Len(old) THEN old[i] ELSE share
      BY <3>1, <3>3
    <3>6. IsInjective(Append(old, share))
      BY <3>4, <3>5 DEF IsInjective
    <3>7. \A i \in DOMAIN Append(old, share) : Known(Append(old, share)[i])
      BY <3>1, <3>4, <3>5
    <3> QED BY <1>2, <3>2, <3>3, <3>5, <3>6, <3>7 DEF IInv, Shares
  <2> QED BY <1>3, <2>1, <2>2
<1>5. TypeOK'
  BY <1>1, <1>4 DEF IInv, TypeOK
<1>6. Places' /\ OneQueue' /\ Queues' /\ Pairs'
  BY <1>1 DEF IInv, Places, OneQueue, Queues, Pairs, Listening, Taken
<1>7. Shares'
  BY <1>1, <1>4 DEF IInv, Shares, Known
<1>8. ServedAsPicked' /\ RefusedOnlyIfTaken' /\ AnnouncedByLiving'
  BY <1>1 DEF IInv, ServedAsPicked, RefusedOnlyIfTaken, AnnouncedByLiving, Taken
<1> QED BY <1>5, <1>6, <1>7, <1>8 DEF IInv

LEMMA InvariantStep ==
  ASSUME IInv, [Next]_vars
  PROVE  IInv'
<1>1. CASE Next
  <2>1. ASSUME NEW p \in Proc, Step(p) \/ Crash(p)
        PROVE  IInv'
    <3>1. CASE Crash(p)
      BY <1>1, <3>1, CrashStep
    <3>2. CASE Bind(p) \/ Dial(p) \/ Accept(p) \/ QueueReset(p) \/ SessionEnds(p)
      BY <1>1, <3>2, BindStep, DialStep, AcceptStep, SessionStep
    <3>3. CASE p \in Senders /\ SenderStep(p)
      BY <1>1, <3>3, AnnounceStep, UnregisterStep DEF SenderStep
    <3>4. CASE p \in Receivers /\ ReceiverStep(p)
      BY <1>1, <3>4, BrowseStep
    <3> QED BY <2>1, <3>1, <3>2, <3>3, <3>4 DEF Step
  <2>2. ASSUME NEW r \in Receivers,
               (\E share \in air : Resolve(r, share)) \/ (\E s \in Senders : AnswerLost(r, s))
        PROVE  IInv'
    BY <1>1, <2>2, AnswerStep
  <2> QED BY <1>1, <2>1, <2>2, Zenon DEF Next
<1>2. CASE UNCHANGED vars
  BY <1>2 DEF vars, mdnsVars, IInv, TypeOK, Places, OneQueue, Shares, Queues, Pairs,
     ServedAsPicked, RefusedOnlyIfTaken, AnnouncedByLiving, Listening, Known, Taken
<1> QED BY <1>1, <1>2

(* What all theorems below rest on: IInv holds in every reachable state. *)
THEOREM Invariant == Spec => []IInv
<1>1. Init /\ [][Next]_vars => []IInv
  BY InvariantInit, InvariantStep, PTL
<1> QED BY <1>1, PTL DEF Spec

-----------------------------------------------------------------------------
(* Type correctness; and no receiver keeps a share twice, however often    *)
(* and with whatever address it is resolved.                               *)
THEOREM RendezvousTypeCorrect == Spec => []TypeOK
<1>1. IInv => TypeOK
  BY DEF IInv
<1> QED BY <1>1, Invariant, PTL

(* A run serves one connection, and nobody waits in two queues.            *)
THEOREM OneConnection == Spec => []Paired
<1>1. IInv => Paired
  BY DEF IInv, Pairs, OneQueue, Paired
<1> QED BY <1>1, Invariant, PTL

(* Who answers a receiver in place of the sender it picked has its address *)
(* and came after it.                                                      *)
THEOREM PickedIsServed == Spec => []ServedAsPicked
<1>1. IInv => ServedAsPicked
  BY DEF IInv
<1> QED BY <1>1, Invariant, PTL

(* A share is on the air only when it can be dialled.                      *)
THEOREM NeverTooEarly == Spec => []RefusedOnlyIfTaken
<1>1. IInv => RefusedOnlyIfTaken
  BY DEF IInv
<1> QED BY <1>1, Invariant, PTL

(* No announcement outlives its sender, and all have names of their own.   *)
THEOREM AnnouncementsEnd == Spec => []AnnouncedByLiving
<1>1. IInv => AnnouncedByLiving
  BY DEF IInv
<1> QED BY <1>1, Invariant, PTL
=============================================================================
