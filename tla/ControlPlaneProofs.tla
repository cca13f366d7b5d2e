------------------------- MODULE ControlPlaneProofs -------------------------
(* Proofs about ControlPlane, for any actors, decisions, jobs, intents,      *)
(* clients and bounds.  There is one inductive invariant for each of the     *)
(* broker, the inbox, the radar and the hub; the one of the inbox rests on   *)
(* the one of the broker.                                                    *)
EXTENDS ControlPlane, FiniteSetTheorems, SequenceTheorems, TLAPS

-----------------------------------------------------------------------------
(* The broker *)

\* Tickets are numbered as they are issued.
BrokerInv ==
    /\ clock \in 0..MaxTime /\ requests \in 0..MaxRequests
    /\ IsFiniteSet(issued) /\ active \subseteq issued
    /\ \A t \in issued : t.id \in 1..Cardinality(issued) /\ t.expires \in Nat
    /\ LiveTicketsKept

\* A new ticket has an id that none has.
LEMMA NewTicket ==
    ASSUME BrokerInv, NEW a, NEW c, NEW l \in Nat
    PROVE  LET t == Ticket(a, c, l) IN
           /\ t.id = NewId /\ t.actor = a /\ t.expires \in Nat
           /\ NewId \in Nat /\ \A u \in issued : u.id # NewId /\ u # t
           /\ Cardinality(issued) \in Nat
<1>1. Cardinality(issued) \in Nat /\ clock \in Nat
  BY FS_CardinalityType, ControlPlaneAssumption DEF BrokerInv, ControlPlaneAssumption
<1>2. \A u \in issued : u.id # NewId
  BY <1>1 DEF BrokerInv, NewId
<1>3. QED
  BY <1>1, <1>2 DEF Ticket, NewId

LEMMA IssueBroker ==
    ASSUME BrokerInv, NEW a, NEW c, NEW l \in Nat, Issue(Ticket(a, c, l)),
           clock' = clock, requests' \in 0..MaxRequests
    PROVE  BrokerInv'
<1> DEFINE t == Ticket(a, c, l)
<1>1. /\ t.id = NewId /\ t.expires \in Nat /\ t \notin issued
      /\ \A u \in issued : u.id # NewId
      /\ NewId = Cardinality(issued) + 1 /\ Cardinality(issued) \in Nat
  BY NewTicket DEF NewId
<1>2. issued' = issued \union {t} /\ active' = Enter(active, t)
  BY DEF Issue
<1> HIDE DEF t
<1>3. IsFiniteSet(issued') /\ Cardinality(issued') = Cardinality(issued) + 1
  BY <1>1, <1>2, FS_AddElement DEF BrokerInv
<1>4. active' = active \union {t}
  BY <1>1, <1>2 DEF Enter, BrokerInv
<1>5. \A u \in issued' : u.id \in 1..Cardinality(issued') /\ u.expires \in Nat
  BY <1>1, <1>2, <1>3 DEF BrokerInv
<1>6. LiveTicketsKept'
  BY <1>2, <1>4 DEF LiveTicketsKept, BrokerInv
<1>7. QED
  BY <1>2, <1>3, <1>4, <1>5, <1>6 DEF BrokerInv

LEMMA BrokerInit == Init => BrokerInv
BY FS_EmptySet, ControlPlaneAssumption DEF Init, BrokerInv, LiveTicketsKept, ControlPlaneAssumption

LEMMA BrokerSame ==
    ASSUME BrokerInv, UNCHANGED <<clock, broker>>, requests' \in 0..MaxRequests
    PROVE  BrokerInv'
BY DEF BrokerInv, broker, LiveTicketsKept

LEMMA BrokerVerify ==
    ASSUME BrokerInv, NEW id, VerifyTicket(id), clock' = clock, requests' \in 0..MaxRequests
    PROVE  BrokerInv'
<1>1. issued' = issued /\ active' = {t \in active : t.id # id \/ ~(t.expires < clock)}
  BY DEF VerifyTicket, Expired
<1>2. LiveTicketsKept'
  BY <1>1 DEF LiveTicketsKept, BrokerInv
<1>3. QED
  BY <1>1, <1>2 DEF BrokerInv

LEMMA BrokerTick ==
    ASSUME BrokerInv, Tick
    PROVE  BrokerInv'
<1>1. clock \in Nat /\ clock' = clock + 1 /\ clock' \in 0..MaxTime
  BY ControlPlaneAssumption DEF BrokerInv, Tick, ControlPlaneAssumption
<1>2. issued' = issued /\ active' = active /\ requests' = requests
  BY DEF Tick, broker
<1>3. LiveTicketsKept'
  BY <1>1, <1>2 DEF LiveTicketsKept, BrokerInv
<1>4. QED
  BY <1>1, <1>2, <1>3 DEF BrokerInv

\* Each request issues one ticket, verifies one, or leaves the broker alone.
LEMMA RequestBroker ==
    ASSUME Request
    PROVE  \/ \E a, c : \E l \in Nat : Issue(Ticket(a, c, l))
           \/ \E id : VerifyTicket(id)
           \/ UNCHANGED broker
<1>1. CASE \E a \in Actors, p \in Capabilities, l \in Lifetimes : RequestTicket(a, p, l)
  BY <1>1, ControlPlaneAssumption DEF RequestTicket, ControlPlaneAssumption
<1>2. CASE \E t \in issued : VerifyTicket(t.id)
  BY <1>2
<1>3. CASE \E c \in Clients : Connect(c) \/ Close(c)
  BY <1>3 DEF Connect, Close
<1>4. CASE \E a \in Actors, j \in Jobs : StopJob(a, j)
  BY <1>4, ControlPlaneAssumption DEF StopJob, ControlPlaneAssumption
<1>5. CASE \E a \in Actors : Quarantine(a) \/ AuthorizeOnly(a)
  BY <1>5, ControlPlaneAssumption DEF Quarantine, AuthorizeOnly, ControlPlaneAssumption
<1>6. CASE \E a \in Actors, d \in Decisions \union {Unknown}, v \in Verdicts :
               ResolveDecision(d, v, a)
  BY <1>6, ControlPlaneAssumption DEF ResolveDecision, ControlPlaneAssumption
<1>7. CASE \E i \in Intents : RegisterIntent(i)
  BY <1>7 DEF RegisterIntent
<1>8. CASE LookAtRadar
  BY <1>8 DEF LookAtRadar
<1>9. QED
  BY <1>1, <1>2, <1>3, <1>4, <1>5, <1>6, <1>7, <1>8 DEF Request

LEMMA Served ==
    ASSUME BrokerInv, Serve
    PROVE  requests' \in 0..MaxRequests /\ clock' = clock
BY ControlPlaneAssumption DEF Serve, BrokerInv, ControlPlaneAssumption

LEMMA BrokerNext == BrokerInv /\ [Next]_vars => BrokerInv'
<1> SUFFICES ASSUME BrokerInv, [Next]_vars PROVE BrokerInv'
  OBVIOUS
<1>1. CASE Tick
  BY <1>1, BrokerTick
<1>2. CASE Serve
  BY <1>2, Served, RequestBroker, IssueBroker, BrokerVerify, BrokerSame DEF Serve
<1>3. CASE UNCHANGED vars
  BY <1>3, BrokerSame DEF vars, broker, BrokerInv
<1>4. QED
  BY <1>1, <1>2, <1>3 DEF Next

\* A ticket is honoured for as long as it was issued for (credentialBroker.js).
THEOREM TicketsLive == Spec => []LiveTicketsKept
<1>1. BrokerInv => LiveTicketsKept
  BY DEF BrokerInv
<1>2. QED
  BY BrokerInit, BrokerNext, <1>1, PTL DEF Spec

-----------------------------------------------------------------------------
(* The hub *)

Events == {"EMERGENCY_QUARANTINE", "decision.resolved", "COLLISION_ALERT"}

HubInv ==
    /\ clients \subseteq Clients /\ broadcasts \in Seq(Events)
    /\ received \in [Clients -> Seq(Events)] /\ joined \in [Clients -> Nat]
    /\ \A c \in Clients : joined[c] <= Len(broadcasts)
    /\ StreamsComplete

\* The end of a sequence, extended.
LEMMA SubSeqAppend ==
    ASSUME NEW S, NEW s \in Seq(S), NEW e \in S, NEW k \in Nat, k <= Len(s)
    PROVE  SubSeq(Append(s, e), k + 1, Len(s) + 1) = Append(SubSeq(s, k + 1, Len(s)), e)
<1> DEFINE n == Len(s)
           t == Append(s, e)
           v == SubSeq(s, k + 1, n)
<1>1. n \in Nat /\ \A i \in (k + 1)..n : s[i] \in S
  OBVIOUS
<1>2. t \in Seq(S) /\ Len(t) = n + 1 /\ t[n + 1] = e
  BY AppendProperties
<1>3. t = s \o <<e>> /\ <<e>> \in Seq(S)
  BY AppendIsConcat
<1>4. v \in Seq(S)
  BY <1>1, SubSeqProperties
<1> HIDE DEF n, t
<1>5. SubSeq(t, k + 1, n + 1) = SubSeq(t, k + 1, n) \o <<e>>
  <2>1. k + 1 \in 1..Len(t) /\ n + 1 \in (k + 1)..Len(t) /\ (n + 1) - 1 = n
    BY <1>1, <1>2 DEF n
  <2>2. SubSeq(t, k + 1, n + 1) = SubSeq(t, k + 1, (n + 1) - 1) \o <<t[n + 1]>>
    BY <1>2, <2>1, SubSeqRecursiveSecond
  <2>3. QED
    BY <2>1, <2>2, <1>2
<1>6. SubSeq(t, k + 1, n) = v
  <2>1. CASE k = n
    <3>1. n < k + 1 /\ k + 1 \in Int /\ n \in Int
      BY <1>1, <2>1
    <3>2. SubSeq(t, k + 1, n) = <<>> /\ SubSeq(s, k + 1, n) = <<>>
      BY <3>1, SubSeqEmpty
    <3>3. QED
      BY <3>2
  <2>2. CASE k # n
    <3>1. k + 1 \in 1..Len(s) /\ n \in 1..Len(s)
      BY <1>1, <2>2 DEF n
    <3>2. SubSeq(s \o <<e>>, k + 1, n) = SubSeq(s, k + 1, n)
      BY <1>3, <3>1, SubSeqOfConcat1
    <3>3. QED
      BY <1>3, <3>2
  <2>3. QED
    BY <2>1, <2>2
<1>7. v \o <<e>> = Append(v, e)
  BY <1>4, AppendIsConcat
<1>8. QED
  BY <1>5, <1>6, <1>7 DEF n, t

LEMMA HubSame ==
    ASSUME HubInv, UNCHANGED hub
    PROVE  HubInv'
BY DEF HubInv, hub, StreamsComplete

LEMMA HubBroadcast ==
    ASSUME HubInv, NEW event \in Events, Broadcast(event)
    PROVE  HubInv'
<1> PICK gone \in SUBSET clients :
        /\ clients' = clients \ gone
        /\ received' = [c \in Clients |-> IF c \in Delivered(gone)
                                       THEN Append(received[c], event) ELSE received[c]]
        /\ broadcasts' = Append(broadcasts, event)
        /\ UNCHANGED joined
  BY DEF Broadcast
<1>0. broadcasts \in Seq(Events) /\ Len(broadcasts) \in Nat
  BY DEF HubInv
<1>1. broadcasts' \in Seq(Events) /\ Len(broadcasts') = Len(broadcasts) + 1 /\ Len(broadcasts) \in Nat
  BY <1>0, AppendProperties
<1>2. received' \in [Clients -> Seq(Events)] /\ joined' = joined /\ clients' \subseteq Clients
  BY AppendProperties DEF HubInv
<1>3. \A c \in Clients : joined'[c] <= Len(broadcasts')
  BY <1>1, <1>2 DEF HubInv
<1>4. ASSUME NEW c \in clients'
      PROVE  received'[c] = SubSeq(broadcasts', joined'[c] + 1, Len(broadcasts'))
  <2>1. c \in Clients /\ c \in clients /\ c \in Delivered(gone)
    BY <1>2 DEF Delivered, HubInv
  <2>2. received'[c] = Append(received[c], event)
    BY <2>1
  <2>3. received[c] = SubSeq(broadcasts, joined[c] + 1, Len(broadcasts)) /\ joined[c] \in Nat
        /\ joined[c] <= Len(broadcasts) /\ broadcasts \in Seq(Events)
    BY <2>1 DEF HubInv, StreamsComplete
  <2>4. SubSeq(Append(broadcasts, event), joined[c] + 1, Len(broadcasts) + 1) = Append(received[c], event)
    BY <2>3, SubSeqAppend
  <2>5. QED
    BY <1>1, <1>2, <2>2, <2>4
<1>5. QED
  BY <1>1, <1>2, <1>3, <1>4 DEF HubInv, StreamsComplete

LEMMA HubConnect ==
    ASSUME HubInv, NEW c \in Clients, Connect(c)
    PROVE  HubInv'
<1>1. /\ clients' = clients \union {c} /\ broadcasts' = broadcasts
      /\ received' = [received EXCEPT ![c] = <<>>] /\ joined' = [joined EXCEPT ![c] = Len(broadcasts)]
  BY DEF Connect
<1>2. Len(broadcasts) \in Nat /\ <<>> \in Seq(Events)
  BY DEF HubInv
<1>3. SubSeq(broadcasts, Len(broadcasts) + 1, Len(broadcasts)) = <<>>
  BY <1>2, SubSeqEmpty
<1>4. /\ received' \in [Clients -> Seq(Events)] /\ joined' \in [Clients -> Nat]
      /\ clients' \subseteq Clients
  BY <1>1, <1>2 DEF HubInv
<1>5. received'[c] = <<>> /\ joined'[c] = Len(broadcasts)
  BY <1>1 DEF HubInv
<1>6. \A d \in Clients : d # c => received'[d] = received[d] /\ joined'[d] = joined[d]
  BY <1>1 DEF HubInv
<1>7. \A d \in Clients : joined'[d] <= Len(broadcasts')
  BY <1>1, <1>2, <1>5, <1>6 DEF HubInv
<1>8. ASSUME NEW d \in clients' PROVE received'[d] = SubSeq(broadcasts', joined'[d] + 1, Len(broadcasts'))
  <2>1. CASE d = c
    BY <2>1, <1>1, <1>3, <1>5
  <2>2. CASE d # c
    <3>1. d \in clients /\ d \in Clients
      BY <1>1, <2>2 DEF HubInv
    <3>2. QED
      BY <3>1, <2>2, <1>1, <1>6 DEF HubInv, StreamsComplete
  <2>3. QED
    BY <2>1, <2>2
<1>9. QED
  BY <1>1, <1>4, <1>7, <1>8 DEF HubInv, StreamsComplete

LEMMA HubClose ==
    ASSUME HubInv, NEW c \in Clients, Close(c)
    PROVE  HubInv'
<1>1. clients' \subseteq clients /\ broadcasts' = broadcasts /\ received' = received /\ joined' = joined
  BY DEF Close
<1>2. StreamsComplete'
  BY <1>1 DEF HubInv, StreamsComplete
<1>3. QED
  BY <1>1, <1>2 DEF HubInv

LEMMA HubInit == Init => HubInv
<1> SUFFICES ASSUME Init PROVE HubInv
  OBVIOUS
<1>1. clients = {} /\ broadcasts = <<>> /\ received = [c \in Clients |-> <<>>] /\ joined = [c \in Clients |-> 0]
  BY DEF Init
<1>2. <<>> \in Seq(Events) /\ Len(<<>>) = 0
  OBVIOUS
<1>3. QED
  BY <1>1, <1>2 DEF HubInv, StreamsComplete

\* Each request connects a client, closes one, broadcasts an event or leaves the hub alone.
LEMMA RequestHub ==
    ASSUME Request
    PROVE  \/ \E c \in Clients : Connect(c) \/ Close(c)
           \/ Broadcast("EMERGENCY_QUARANTINE") \/ Broadcast("decision.resolved")
           \/ Broadcast("COLLISION_ALERT") \/ UNCHANGED hub
<1>1. CASE \E a \in Actors, p \in Capabilities, l \in Lifetimes : RequestTicket(a, p, l)
  BY <1>1 DEF RequestTicket
<1>2. CASE \E t \in issued : VerifyTicket(t.id)
  BY <1>2 DEF VerifyTicket
<1>3. CASE \E c \in Clients : Connect(c) \/ Close(c)
  BY <1>3
<1>4. CASE \E a \in Actors, j \in Jobs : StopJob(a, j)
  BY <1>4 DEF StopJob
<1>5. CASE \E a \in Actors : Quarantine(a) \/ AuthorizeOnly(a)
  BY <1>5 DEF Quarantine, AuthorizeOnly
<1>6. CASE \E a \in Actors, d \in Decisions \union {Unknown}, v \in Verdicts :
               ResolveDecision(d, v, a)
  BY <1>6 DEF ResolveDecision
<1>7. CASE \E i \in Intents : RegisterIntent(i)
  BY <1>7 DEF RegisterIntent
<1>8. CASE LookAtRadar
  BY <1>8 DEF LookAtRadar
<1>9. QED
  BY <1>1, <1>2, <1>3, <1>4, <1>5, <1>6, <1>7, <1>8 DEF Request

LEMMA HubNext == HubInv /\ [Next]_vars => HubInv'
<1> SUFFICES ASSUME HubInv, [Next]_vars PROVE HubInv'
  OBVIOUS
<1>1. CASE Tick
  BY <1>1, HubSame DEF Tick
<1>2. CASE Serve
  <2>1. Request
    BY <1>2 DEF Serve
  <2>2. CASE \E c \in Clients : Connect(c) \/ Close(c)
    BY <2>2, HubConnect, HubClose
  <2>3. CASE Broadcast("EMERGENCY_QUARANTINE")
    BY <2>3, HubBroadcast DEF Events
  <2>4. CASE Broadcast("decision.resolved")
    BY <2>4, HubBroadcast DEF Events
  <2>5. CASE Broadcast("COLLISION_ALERT")
    BY <2>5, HubBroadcast DEF Events
  <2>6. CASE UNCHANGED hub
    BY <2>6, HubSame
  <2>7. QED
    BY <2>1, <2>2, <2>3, <2>4, <2>5, <2>6, RequestHub
<1>3. CASE UNCHANGED vars
  BY <1>3, HubSame DEF vars
<1>4. QED
  BY <1>1, <1>2, <1>3 DEF Next

\* A connected browser was sent every event since it connected (RealtimeHub.broadcast).
THEOREM StreamsWhole == Spec => []StreamsComplete
<1>1. HubInv => StreamsComplete
  BY DEF HubInv
<1>2. QED
  BY HubInit, HubNext, <1>1, PTL DEF Spec

-----------------------------------------------------------------------------
(* The inbox and the jobs *)

\* Who resolved a decision holds the ticket it names.
Settled(r) ==
    r.status \in Statuses
    /\ \E t \in issued : t.actor \in Actors
                        /\ r = [status |-> r.status, by |-> t.actor, ticket |-> t.id]

UsedOnce == \A u, w \in Acts : u.ticket = w.ticket => u = w

InboxInv ==
    /\ decisions = [d \in Decisions |-> decisions[d]]
    /\ \A d \in Decisions : decisions[d] = Pending \/ Settled(decisions[d])
    /\ \A r \in told : r.decision \in Decisions /\ decisions[r.decision] # Pending
    /\ AnswersHold
    /\ \A u \in Acts : Authorised(u)
    /\ UsedOnce
    /\ jobs \subseteq Jobs

\* A settled decision stays settled while tickets are added.
LEMMA SettledStays ==
    ASSUME NEW r, Settled(r), issued \subseteq issued'
    PROVE  Settled(r)'
BY DEF Settled

\* A step that does at most one thing more, with a new ticket issued for it.
LEMMA ActsGrow ==
    ASSUME BrokerInv, InboxInv, NEW new, NEW t, t.id = NewId, issued' = issued \union {t},
           new.ticket = t.id, new.by = t.actor, t.capability \in new.needs,
           Acts' \subseteq Acts \union {new}
    PROVE  UsedOnce' /\ (\A u \in Acts : Authorised(u))'
<1>1. \A u \in Acts : u.ticket # NewId
  <2>1. \A k \in issued : k.id # NewId
    BY NewTicket, ControlPlaneAssumption DEF ControlPlaneAssumption
  <2>2. QED
    BY <2>1 DEF InboxInv, Authorised
<1>2. UsedOnce'
  BY <1>1 DEF InboxInv, UsedOnce
<1>3. ASSUME NEW u \in Acts'
      PROVE  \E k \in issued' : k.id = u.ticket /\ k.actor = u.by /\ k.capability \in u.needs
  <2>1. CASE u \in Acts
    BY <2>1 DEF InboxInv, Authorised
  <2>2. CASE u = new
    BY <2>2
  <2>3. QED
    BY <1>3, <2>1, <2>2
<1>4. QED
  BY <1>2, <1>3 DEF Authorised

\* Tickets come, nothing else of the inbox changes.
LEMMA InboxSame ==
    ASSUME InboxInv, UNCHANGED <<decisions, jobs, stopped, told>>, issued \subseteq issued'
    PROVE  InboxInv'
<1>1. Acts' = Acts
  BY DEF Acts, Decided
<1>2. \A d \in Decisions : decisions[d] = Pending \/ Settled(decisions[d])'
  <2> TAKE d \in Decisions
  <2>1. CASE decisions[d] = Pending
    BY <2>1
  <2>2. CASE Settled(decisions[d])
    BY <2>2 DEF Settled
  <2>3. QED
    BY <2>1, <2>2 DEF InboxInv
<1>3. AnswersHold'
  BY DEF InboxInv, AnswersHold
<1>4. UsedOnce' /\ (\A u \in Acts : Authorised(u))'
  BY <1>1 DEF InboxInv, UsedOnce, Authorised
<1>5. QED
  BY <1>2, <1>3, <1>4 DEF InboxInv, Pending

LEMMA InboxStopJob ==
    ASSUME BrokerInv, InboxInv, NEW a \in Actors, NEW j \in Jobs, StopJob(a, j)
    PROVE  InboxInv'
<1> DEFINE t == Ticket(a, "job.stop", DefaultTTL)
           new == [what |-> j, by |-> a, ticket |-> NewId, needs |-> {"job.stop"}]
<1>1. t.id = NewId /\ t.actor = a /\ t.capability = "job.stop"
  BY DEF Ticket
<1>2. issued' = issued \union {t} /\ decisions' = decisions /\ told' = told
      /\ jobs' = jobs \ {j}
      /\ stopped' = stopped \union {[job |-> i, by |-> a, ticket |-> t.id] : i \in jobs \intersect {j}}
  BY DEF StopJob, Issue
<1>3. new.ticket = NewId /\ new.by = a /\ new.needs = {"job.stop"}
  OBVIOUS
<1> HIDE DEF t
<1>4. Acts' \subseteq Acts \union {new}
  <2>1. Decided' = Decided
    BY <1>2 DEF Decided
  <2>2. ASSUME NEW k \in stopped'
        PROVE  k \in stopped \/ k = [job |-> j, by |-> a, ticket |-> NewId]
    BY <1>1, <1>2
  <2>3. QED
    BY <2>1, <2>2 DEF Acts
<1> HIDE DEF new
<1>5. UsedOnce' /\ (\A u \in Acts : Authorised(u))'
  BY <1>1, <1>2, <1>3, <1>4, ActsGrow
<1>6. \A d \in Decisions : decisions'[d] = Pending \/ Settled(decisions[d])'
  <2> TAKE d \in Decisions
  <2>1. CASE decisions[d] = Pending
    BY <2>1, <1>2
  <2>2. CASE Settled(decisions[d])
    BY <2>2, <1>2 DEF Settled
  <2>3. QED
    BY <2>1, <2>2 DEF InboxInv
<1>7. AnswersHold'
  BY <1>2 DEF InboxInv, AnswersHold
<1>8. QED
  BY <1>2, <1>6, <1>7, <1>5 DEF InboxInv, Pending

LEMMA InboxResolve ==
    ASSUME BrokerInv, InboxInv, NEW a \in Actors, NEW d \in Decisions, NEW v \in Verdicts,
           ResolveDecision(d, v, a), Resolvable(d)
    PROVE  InboxInv'
<1> DEFINE t == Ticket(a, Capability(v), DefaultTTL)
           r == Resolution(v, a, t)
           new == [what |-> d, by |-> a, ticket |-> NewId, needs |-> Needs(r.status)]
<1>1. t.id = NewId /\ t.actor = a /\ t.capability = Capability(v)
  BY DEF Ticket
<1>2. /\ r.status = Outcome(v) /\ r = [status |-> r.status, by |-> a, ticket |-> t.id]
      /\ r.ticket = NewId /\ r.by = a
  BY <1>1 DEF Resolution
<1>3. r.status \in Statuses
  BY <1>2 DEF Outcome, Verdicts, Statuses
<1>4. /\ new.ticket = NewId /\ new.by = a /\ new.needs = Needs(r.status)
       /\ t.capability \in new.needs
  BY <1>1, <1>2 DEF Needs
<1>5. /\ issued' = issued \union {t} /\ decisions' = [decisions EXCEPT ![d] = r]
      /\ told' = told \union {[decision |-> d, answer |-> r]}
      /\ jobs' = jobs /\ stopped' = stopped
  BY DEF ResolveDecision, Issue
<1> HIDE DEF t, r
<1>6. /\ decisions'[d] = r /\ \A e \in Decisions : e # d => decisions'[e] = decisions[e]
      /\ decisions' = [e \in Decisions |-> decisions'[e]]
  BY <1>5 DEF InboxInv
<1>7. r # Pending
  BY <1>3 DEF Pending, Statuses
<1>8. decisions[d].status = "PENDING"
  BY DEF Resolvable
<1>9. decisions[d] = Pending
  BY <1>8 DEF InboxInv, Settled, Statuses
<1>10. Acts' \subseteq Acts \union {new}
  <2> SUFFICES ASSUME NEW u \in Decided' PROVE u \in Decided \/ u = new
    BY <1>5 DEF Acts
  <2>1. PICK e \in Decisions : /\ decisions'[e] # Pending
                               /\ u = [what |-> e, by |-> decisions'[e].by,
                                       ticket |-> decisions'[e].ticket,
                                       needs |-> Needs(decisions'[e].status)]
    BY DEF Decided, Pending, Needs
  <2>2. CASE e = d
    BY <2>1, <2>2, <1>2, <1>6
  <2>3. CASE e # d
    BY <2>1, <2>3, <1>6 DEF Decided
  <2>4. QED
    BY <2>2, <2>3
<1> HIDE DEF new
<1>11. UsedOnce' /\ (\A u \in Acts : Authorised(u))'
  BY <1>1, <1>5, <1>10, <1>4, ActsGrow
<1>12. \A e \in Decisions : decisions'[e] = Pending \/ Settled(decisions[e])'
  <2> TAKE e \in Decisions
  <2>1. CASE e = d
    BY <2>1, <1>1, <1>2, <1>5, <1>6, <1>3 DEF Settled
  <2>2. CASE e # d /\ decisions[e] = Pending
    BY <2>2, <1>6
  <2>3. CASE e # d /\ Settled(decisions[e])
    BY <2>3, <1>5, <1>6 DEF Settled
  <2>4. QED
    BY <2>1, <2>2, <2>3 DEF InboxInv
<1>13. \A q \in told : q.decision \in Decisions /\ q.decision # d
                       /\ decisions[q.decision] # Pending /\ decisions[q.decision] = q.answer
  BY <1>9 DEF InboxInv, AnswersHold
<1>14. \A q \in told' : q.decision \in Decisions /\ decisions'[q.decision] # Pending
                        /\ decisions'[q.decision] = q.answer
  BY <1>5, <1>6, <1>7, <1>13
<1>15. QED
  BY <1>5, <1>6, <1>11, <1>12, <1>14 DEF InboxInv, AnswersHold, Pending

LEMMA InboxInit == Init => InboxInv
<1> SUFFICES ASSUME Init PROVE InboxInv
  OBVIOUS
<1>1. decisions = [d \in Decisions |-> Pending] /\ told = {} /\ stopped = {} /\ jobs = Jobs
  BY DEF Init
<1>2. Acts = {}
  BY <1>1 DEF Acts, Decided
<1>3. QED
  BY <1>1, <1>2 DEF InboxInv, AnswersHold, UsedOnce

LEMMA InboxRequest ==
    ASSUME BrokerInv, InboxInv, Request
    PROVE  InboxInv'
<1>1. CASE \E a \in Actors, p \in Capabilities, l \in Lifetimes : RequestTicket(a, p, l)
  BY <1>1, InboxSame DEF RequestTicket, Issue
<1>2. CASE \E t \in issued : VerifyTicket(t.id)
  BY <1>2, InboxSame DEF VerifyTicket
<1>3. CASE \E c \in Clients : Connect(c) \/ Close(c)
  BY <1>3, InboxSame DEF Connect, Close, broker
<1>4. CASE \E a \in Actors, j \in Jobs : StopJob(a, j)
  BY <1>4, InboxStopJob
<1>5. CASE \E a \in Actors : Quarantine(a) \/ AuthorizeOnly(a)
  BY <1>5, InboxSame DEF Quarantine, AuthorizeOnly, Issue
<1>6. CASE \E a \in Actors, d \in Decisions \union {Unknown}, v \in Verdicts :
               ResolveDecision(d, v, a)
  <2> PICK a \in Actors, d \in Decisions \union {Unknown}, v \in Verdicts : ResolveDecision(d, v, a)
    BY <1>6
  <2>1. CASE Resolvable(d)
    <3>1. d \in Decisions
      BY <2>1 DEF Resolvable
    <3>2. QED
      BY <2>1, <3>1, InboxResolve
  <2>2. CASE ~Resolvable(d)
    BY <2>2, InboxSame DEF ResolveDecision, Issue
  <2>3. QED
    BY <2>1, <2>2
<1>7. CASE \E i \in Intents : RegisterIntent(i)
  BY <1>7, InboxSame DEF RegisterIntent, broker
<1>8. CASE LookAtRadar
  BY <1>8, InboxSame DEF LookAtRadar, broker
<1>9. QED
  BY <1>1, <1>2, <1>3, <1>4, <1>5, <1>6, <1>7, <1>8 DEF Request

LEMMA InboxNext == BrokerInv /\ InboxInv /\ [Next]_vars => InboxInv'
<1> SUFFICES ASSUME BrokerInv, InboxInv, [Next]_vars PROVE InboxInv'
  OBVIOUS
<1>1. CASE Tick
  BY <1>1, InboxSame DEF Tick, broker
<1>2. CASE Serve
  BY <1>2, InboxRequest DEF Serve
<1>3. CASE UNCHANGED vars
  BY <1>3, InboxSame DEF vars, broker
<1>4. QED
  BY <1>1, <1>2, <1>3 DEF Next

\* What an operator was answered stays true (resolveDecision).
THEOREM AnswersStand == Spec => []AnswersHold
<1>1. InboxInv => AnswersHold
  BY DEF InboxInv
<1>2. QED
  BY BrokerInit, BrokerNext, InboxInit, InboxNext, <1>1, PTL DEF Spec

\* Every resolved decision and every stopped job has a ticket of its own, issued to the
\* one who asked and for what was done (server.js, credentialBroker.js).
THEOREM OneTicketPerAct == Spec => []TicketPerAct
<1>1. InboxInv => TicketPerAct
  BY DEF InboxInv, UsedOnce, TicketPerAct
<1>2. QED
  BY BrokerInit, BrokerNext, InboxInit, InboxNext, <1>1, PTL DEF Spec

-----------------------------------------------------------------------------
(* The radar *)

Entry(e) == e.intent \in Intents /\ e.expires \in Nat

\* A later declaration took the id.
DisplacedSince(g) == \E k \in declared : k.entry.id = g.entry.id /\ g.at < k.at

\* Declarations are in the order of the requests, and a live one is on the radar unless
\* a later one took its id.
RadarInv ==
    /\ clock \in Nat /\ requests \in Nat
    /\ \A e \in intents : Entry(e)
    /\ \A e, f \in intents : e.id = f.id => e = f
    /\ \A g \in declared : /\ Entry(g.entry) /\ g.at \in Nat /\ g.at < requests
                           /\ g.entry \in intents \/ Expired(g.entry) \/ DisplacedSince(g)
    /\ NotBothApproved

\* Two intents that overlap in files and contracts are of high risk.
LEMMA OverlapCollides ==
    ASSUME NEW e, NEW f, e.id # f.id, Overlap(e.intent, f.intent)
    PROVE  Collides(f, e)
<1>1. e.id # f.id /\ e.intent.agent # f.intent.agent /\ e.intent.repo = f.intent.repo
  BY DEF Overlap
<1>2. e.intent.files \intersect f.intent.files # {} /\ e.intent.contracts \intersect f.intent.contracts # {}
  BY DEF Overlap
<1>3. Risk(f.intent, e.intent) >= High
  <2>1. f.intent.files \intersect e.intent.files # {} /\ f.intent.contracts \intersect e.intent.contracts # {}
    BY <1>2
  <2>2. QED
    BY <2>1 DEF Risk, High
<1>4. QED
  BY <1>1, <1>3 DEF Collides, Comparable

\* Entries go only when they have expired; nothing is declared.
LEMMA RadarKept ==
    ASSUME RadarInv, declared' = declared, intents' \subseteq intents,
           \A e \in intents : e \in intents' \/ Expired(e)',
           clock' \in Nat, clock <= clock', requests' \in Nat, requests <= requests'
    PROVE  RadarInv'
<1>1. \A g \in declared : (Expired(g.entry) => Expired(g.entry)')
  BY DEF Expired, RadarInv, Entry
<1>2. Contended' \subseteq Contended
  BY <1>1 DEF Contended
<1>3. NotBothApproved'
  BY <1>2 DEF RadarInv, NotBothApproved, Displaced
<1>4. \A g \in declared :
          /\ Entry(g.entry) /\ g.at \in Nat /\ g.at < requests'
          /\ g.entry \in intents' \/ Expired(g.entry)' \/ DisplacedSince(g)
  BY <1>1 DEF RadarInv
<1>5. \A g \in declared : DisplacedSince(g) => DisplacedSince(g)'
  BY DEF DisplacedSince
<1>6. QED
  BY <1>3, <1>4, <1>5 DEF RadarInv, Entry

LEMMA RadarRegister ==
    ASSUME RadarInv, NEW i \in Intents, RegisterIntent(i), clock' = clock, requests' = requests + 1
    PROVE  RadarInv'
<1> DEFINE new == Intent(i)
           all == Purged(Enter(intents, new))
           conflict == \E other \in all : Collides(new, other)
           n == [entry |-> new, warned |-> conflict, at |-> requests]
<1>1. intents' = all /\ declared' = declared \union {n}
  BY DEF RegisterIntent
<1>2. Entry(new) /\ ~Expired(new)
  BY ControlPlaneAssumption DEF Intent, Entry, Expired, RadarInv, ControlPlaneAssumption
<1>3. n.entry = new /\ n.warned = conflict /\ n.at = requests
  OBVIOUS
<1>4. /\ \A e \in all : e = new \/ (e \in intents /\ e.id # new.id)
      /\ new \in all
      /\ \A e \in intents : e.id # new.id /\ ~Expired(e) => e \in all
  BY <1>2 DEF Enter, Purged
<1>5. (\E other \in all : Collides(new, other)) <=> conflict
  OBVIOUS
<1> HIDE DEF new, all, conflict, n
<1>6. \A g \in declared : Expired(g.entry)' = Expired(g.entry)
  BY DEF Expired
<1>7. \A g \in declared : DisplacedSince(g) => DisplacedSince(g)'
  BY <1>1 DEF DisplacedSince
<1>8. requests \in Nat /\ \A g \in declared : g.at \in Nat /\ g.at < requests
  BY DEF RadarInv
<1>9. n \in declared' /\ \A g \in declared' : g \in declared \/ g = n
  BY <1>1
<1>10. \A e \in all : Entry(e)
  BY <1>2, <1>4 DEF RadarInv
<1>11. \A e, f \in all : e.id = f.id => e = f
  BY <1>4 DEF RadarInv
<1>12. \A g \in declared' :
          /\ Entry(g.entry) /\ g.at \in Nat /\ g.at < requests'
          /\ g.entry \in intents' \/ Expired(g.entry)' \/ DisplacedSince(g)'
  <2> TAKE g \in declared'
  <2>1. CASE g = n
    BY <2>1, <1>1, <1>2, <1>3, <1>4 DEF RadarInv
  <2>2. CASE g # n /\ g.entry.id = new.id
    <3>1. g \in declared
      BY <2>2, <1>1
    <3>2. DisplacedSince(g)'
      BY <2>2, <3>1, <1>3, <1>8, <1>9 DEF DisplacedSince
    <3>3. QED
      BY <3>1, <3>2, <1>8 DEF RadarInv
  <2>3. CASE g # n /\ g.entry.id # new.id
    <3>1. g \in declared
      BY <2>3, <1>1
    <3>2. Entry(g.entry) /\ (g.entry \in intents \/ Expired(g.entry) \/ DisplacedSince(g))
      BY <3>1 DEF RadarInv
    <3>3. QED
      BY <3>1, <3>2, <2>3, <1>1, <1>4, <1>6, <1>7, <1>8
  <2>4. QED
    BY <2>1, <2>2, <2>3
\* A live declaration that overlaps with the new one is on the radar and makes it warned,
\* or was displaced, at the latest by the new one.
<1>13. ASSUME NEW g \in declared, ~Expired(g.entry), Overlap(g.entry.intent, new.intent)
       PROVE  \/ n.warned
              \/ \E k \in declared' : k.entry.id = g.entry.id /\ g.at < k.at /\ k.at <= n.at
  <2>1. CASE g.entry.id = new.id
    <3>1. n.entry.id = g.entry.id /\ g.at < n.at /\ n.at <= n.at /\ n \in declared'
      BY <2>1, <1>3, <1>8, <1>9
    <3>2. QED
      BY <3>1
  <2>2. CASE DisplacedSince(g)
    <3>1. PICK k \in declared : k.entry.id = g.entry.id /\ g.at < k.at
      BY <2>2 DEF DisplacedSince
    <3>2. k.at <= n.at
      BY <1>3, <1>8
    <3>3. k \in declared' /\ n \in declared'
      BY <1>1
    <3>4. QED
      BY <3>1, <3>2, <3>3
  <2>3. CASE g.entry.id # new.id /\ ~DisplacedSince(g)
    <3>1. g.entry \in all
      BY <2>3, <1>4, <1>13 DEF RadarInv
    <3>2. Collides(new, g.entry)
      BY <2>3, <1>13, OverlapCollides
    <3>3. QED
      BY <3>1, <3>2, <1>3, <1>5
  <2>4. QED
    BY <2>1, <2>2, <2>3
<1>14. ASSUME NEW g \in declared', NEW h \in declared', g.at < h.at,
              ~Expired(g.entry)', ~Expired(h.entry)', Overlap(g.entry.intent, h.entry.intent)
       PROVE  h.warned \/ Displaced(g, h)'
  <2>1. CASE g \in declared /\ h \in declared
    <3>1. <<g, h>> \in Contended
      BY <1>6, <1>14, <2>1 DEF Contended
    <3>2. h.warned \/ Displaced(g, h)
      BY <3>1 DEF RadarInv, NotBothApproved
    <3>3. QED
      BY <3>2, <1>1 DEF Displaced
  <2>2. CASE g \in declared /\ h = n
    <3>1. ~Expired(g.entry) /\ Overlap(g.entry.intent, new.intent)
      BY <1>3, <1>6, <1>14, <2>2
    <3>2. n.warned \/ \E k \in declared' : k.entry.id = g.entry.id /\ g.at < k.at /\ k.at <= n.at
      BY <1>13, <2>2, <3>1
    <3>3. QED
      BY <2>2, <3>2 DEF Displaced
  <2>3. CASE g = n
    <3>1. h.at \in Nat /\ h.at <= n.at
      BY <1>3, <1>8, <1>9
    <3>2. QED
      BY <2>3, <3>1, <1>3, <1>14, <1>8
  <2>4. QED
    BY <1>1, <2>1, <2>2, <2>3
<1>15. NotBothApproved'
  BY <1>14 DEF NotBothApproved, Contended
<1>16. QED
  BY <1>1, <1>10, <1>11, <1>12, <1>15 DEF RadarInv

LEMMA RadarInit == Init => RadarInv
BY DEF Init, RadarInv, NotBothApproved, Contended

\* Each request declares an intent, looks at the radar or leaves it alone.
LEMMA RequestRadar ==
    ASSUME Request
    PROVE  (\E i \in Intents : RegisterIntent(i)) \/ LookAtRadar \/ UNCHANGED radar
<1>1. CASE \E a \in Actors, p \in Capabilities, l \in Lifetimes : RequestTicket(a, p, l)
  BY <1>1 DEF RequestTicket
<1>2. CASE \E t \in issued : VerifyTicket(t.id)
  BY <1>2 DEF VerifyTicket
<1>3. CASE \E c \in Clients : Connect(c) \/ Close(c)
  BY <1>3 DEF Connect, Close
<1>4. CASE \E a \in Actors, j \in Jobs : StopJob(a, j)
  BY <1>4 DEF StopJob
<1>5. CASE \E a \in Actors : Quarantine(a) \/ AuthorizeOnly(a)
  BY <1>5 DEF Quarantine, AuthorizeOnly
<1>6. CASE \E a \in Actors, d \in Decisions \union {Unknown}, v \in Verdicts :
               ResolveDecision(d, v, a)
  BY <1>6 DEF ResolveDecision
<1>7. QED
  BY <1>1, <1>2, <1>3, <1>4, <1>5, <1>6 DEF Request

LEMMA RadarNext == RadarInv /\ [Next]_vars => RadarInv'
<1> SUFFICES ASSUME RadarInv, [Next]_vars PROVE RadarInv'
  OBVIOUS
<1>1. clock \in Nat /\ requests \in Nat
  BY DEF RadarInv
<1>2. CASE Tick
  BY <1>1, <1>2, RadarKept DEF Tick, radar
<1>3. CASE Serve
  <2>1. clock' = clock /\ requests' = requests + 1 /\ Request
    BY <1>3 DEF Serve
  <2>2. CASE \E i \in Intents : RegisterIntent(i)
    BY <2>1, <2>2, RadarRegister
  <2>3. CASE LookAtRadar
    <3>1. \A e : Expired(e)' = Expired(e)
      BY <2>1 DEF Expired
    <3>2. QED
      BY <1>1, <2>1, <2>3, <3>1, RadarKept DEF LookAtRadar, Purged
  <2>4. CASE UNCHANGED radar
    BY <1>1, <2>1, <2>4, RadarKept DEF radar
  <2>5. QED
    BY <2>1, <2>2, <2>3, <2>4, RequestRadar
<1>4. CASE UNCHANGED vars
  BY <1>1, <1>4, RadarKept DEF vars, radar
<1>5. QED
  BY <1>2, <1>3, <1>4 DEF Next

\* Of two agents whose live intents overlap in files and contracts the later to declare
\* was warned, unless the earlier declaration had been displaced by one with its id
\* (registerIntent, evaluateCollisions).
THEOREM OneIsWarned == Spec => []NotBothApproved
<1>1. RadarInv => NotBothApproved
  BY DEF RadarInv
<1>2. QED
  BY RadarInit, RadarNext, <1>1, PTL DEF Spec

\* The broker, the inbox, the hub and the radar hold what their collections hold.
THEOREM TypeCorrect == Spec => []TypeOK
<1>1. BrokerInv /\ InboxInv /\ HubInv /\ RadarInv => TypeOK
  <2> SUFFICES ASSUME BrokerInv, InboxInv, HubInv, RadarInv PROVE TypeOK
    OBVIOUS
  <2>1. \A t \in issued : t.id \in Nat /\ t.expires \in Nat
    <3>1. Cardinality(issued) \in Nat
      BY FS_CardinalityType DEF BrokerInv
    <3>2. QED
      BY <3>1 DEF BrokerInv
  <2>2. ASSUME NEW d \in Decisions, decisions[d] # Pending
        PROVE  decisions[d] \in [status : Statuses, by : Actors, ticket : {t.id : t \in issued}]
    <3>1. Settled(decisions[d])
      BY <2>2 DEF InboxInv
    <3>2. PICK t \in issued : t.actor \in Actors
              /\ decisions[d] = [status |-> decisions[d].status, by |-> t.actor, ticket |-> t.id]
      BY <3>1 DEF Settled
    <3>3. decisions[d].status \in Statuses
      BY <3>1 DEF Settled
    <3>4. QED
      BY <3>2, <3>3
  <2>3. QED
    BY <2>1, <2>2 DEF TypeOK, BrokerInv, InboxInv, HubInv, RadarInv, Entry
<1>2. QED
  BY BrokerInit, BrokerNext, InboxInit, InboxNext, HubInit, HubNext, RadarInit, RadarNext,
     <1>1, PTL DEF Spec

=============================================================================
