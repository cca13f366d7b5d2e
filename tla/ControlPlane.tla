---------------------------- MODULE ControlPlane ----------------------------
(***************************************************************************)
(* The command plane of the Node API server (apps/api/src/server.js): the  *)
(* tickets of CredentialBroker, the Decision Inbox of                      *)
(* OperationalOntologyEngine, the jobs of the VDS node bridge, the intents *)
(* of the collision radar and the RealtimeHub that tells connected         *)
(* operators what happened.                                                *)
(*                                                                         *)
(* A handler runs in one turn of the event loop once the body of its       *)
(* request has arrived (executeCommand is async but never awaits), so one  *)
(* request is one step; the requests of several actors interleave.  The    *)
(* clock is Date.now(): several requests may fall in one millisecond.      *)
(***************************************************************************)
EXTENDS CommandRecords

VARIABLES
    requests,        \* requests served so far
    jobs,            \* NodeBridgeDaemon.activeJobs
    intents          \* MultiDimensionalCollisionEngine.activeIntents

broker == <<active, issued>>
radar  == <<intents, declared>>
hub    == <<clients, received, broadcasts, joined>>
vars   == <<clock, requests, broker, decisions, jobs, stopped, told, radar, hub>>

-----------------------------------------------------------------------------
(* CredentialBroker *)

\* An id of the time alone: two tickets of one millisecond share it.
NewId_Millis == clock + 1

\* A ticket id is the time and four random bytes: it does not come back.
NewId == Cardinality(issued) + 1

Ticket(actor, capability, ttl) ==
    [id |-> NewId, actor |-> actor, capability |-> capability, expires |-> clock + ttl]

\* Map.set: an entry under the same key is replaced.
Enter(map, entry) == {e \in map : e.id # entry.id} \union {entry}

Issue(ticket) ==
    /\ active' = Enter(active, ticket)
    /\ issued' = issued \union {ticket}

RequestTicket(actor, capability, ttl) ==
    /\ Issue(Ticket(actor, capability, ttl))
    /\ UNCHANGED <<decisions, jobs, stopped, told, radar, hub>>

\* verifyTicket forgets an expired ticket, and nothing else does.
VerifyTicket(id) ==
    /\ active' = {t \in active : t.id # id \/ ~Expired(t)}
    /\ UNCHANGED <<issued, decisions, jobs, stopped, told, radar, hub>>

-----------------------------------------------------------------------------
(* RealtimeHub *)

Connect(c) ==
    /\ c \notin clients
    /\ clients' = clients \union {c}
    /\ received' = [received EXCEPT ![c] = <<>>]
    /\ joined' = [joined EXCEPT ![c] = Len(broadcasts)]
    /\ UNCHANGED <<broadcasts, broker, decisions, jobs, stopped, told, radar>>

Close(c) ==
    /\ c \in clients
    /\ clients' = clients \ {c}
    /\ UNCHANGED <<received, joined, broadcasts, broker, decisions, jobs, stopped, told, radar>>

\* The loop is left at the first client that throws.
Delivered_StopsAtThrow(gone) == IF clients \intersect gone = {} THEN clients ELSE {}

\* Writing to a client that is gone throws: it is dropped, the others are served.
Delivered(gone) == clients \ gone

Broadcast(event) ==
    \E gone \in SUBSET clients :
        /\ clients' = clients \ gone
        /\ received' = [c \in Clients |->
                           IF c \in Delivered(gone) THEN Append(received[c], event) ELSE received[c]]
        /\ broadcasts' = Append(broadcasts, event)
        /\ UNCHANGED joined

-----------------------------------------------------------------------------
(* POST /api/commands/dispatch *)

StopJob(actor, job) ==
    LET ticket == Ticket(actor, "job.stop", DefaultTTL)
    IN  /\ Issue(ticket)
        /\ jobs' = jobs \ {job}
        /\ stopped' = stopped \union {[job |-> j, by |-> actor, ticket |-> ticket.id]
                                          : j \in jobs \intersect {job}}
        /\ UNCHANGED <<decisions, told, radar, hub>>

\* Quarantine issues a ticket and tells the operators; no agent is changed.
Quarantine(actor) ==
    /\ Issue(Ticket(actor, "agent.quarantine", DefaultTTL))
    /\ Broadcast("EMERGENCY_QUARANTINE")
    /\ UNCHANGED <<decisions, jobs, stopped, told, radar>>

\* Any other command is answered AUTHORIZED and not executed.
AuthorizeOnly(actor) ==
    /\ Issue(Ticket(actor, "system.command", DefaultTTL))
    /\ UNCHANGED <<decisions, jobs, stopped, told, radar, hub>>

-----------------------------------------------------------------------------
(* POST /api/ontology/decisions/<id>/action *)

Resolution(verdict, actor, ticket) ==
    [status |-> Outcome(verdict), by |-> actor, ticket |-> ticket.id]

\* Anything but a rejected decision may be resolved again.
Resolvable_UnlessRejected(d) == d \in Decisions /\ decisions[d].status # "REJECTED"

Resolvable(d) == d \in Decisions /\ decisions[d].status = "PENDING"

\* The ticket is requested before the decision is looked at.
ResolveDecision(d, verdict, actor) ==
    LET ticket     == Ticket(actor, Capability(verdict), DefaultTTL)
        resolution == Resolution(verdict, actor, ticket)
    IN  /\ Issue(ticket)
        /\ \/ /\ Resolvable(d)
              /\ decisions' = [decisions EXCEPT ![d] = resolution]
              /\ told' = told \union {[decision |-> d, answer |-> resolution]}
              /\ Broadcast("decision.resolved")
           \/ /\ ~Resolvable(d)
              /\ UNCHANGED <<decisions, told, hub>>
        /\ UNCHANGED <<jobs, stopped, radar>>

-----------------------------------------------------------------------------
(* The collision radar *)

\* Hundredths of the weights of evaluateCollisions: files 45, contracts 35, branch 20.
Risk(a, b) ==
      (IF a.files \intersect b.files # {} THEN 95 ELSE 20) * 45
    + (IF a.contracts \intersect b.contracts # {} THEN 90 ELSE 10) * 35
    + (IF a.branch = b.branch THEN 85 ELSE 40) * 20

High == 7000

Comparable(a, b) == a.id # b.id /\ a.intent.agent # b.intent.agent /\ a.intent.repo = b.intent.repo

\* The branch has to be the same too.
Collides_SameBranch(a, b) ==
    Comparable(a, b) /\ Risk(a.intent, b.intent) >= High /\ a.intent.branch = b.intent.branch

Collides(a, b) == Comparable(a, b) /\ Risk(a.intent, b.intent) >= High

\* An intent that brings no id gets its agent and the millisecond for one.
Intent(i) ==
    [id |-> IF i.id = NoId THEN <<i.agent, clock>> ELSE i.id,
     intent |-> i, expires |-> clock + i.lasts]

\* getActiveIntents forgets what has expired.
Purged(map) == {e \in map : ~Expired(e)}

\* The intent is entered, and evaluated against what the purge leaves.
RegisterIntent(i) ==
    LET new       == Intent(i)
        all       == Purged(Enter(intents, new))
        conflict  == \E other \in all : Collides(new, other)
    IN  /\ intents' = all
        /\ declared' = declared \union {[entry |-> new, warned |-> conflict, at |-> requests]}
        /\ IF conflict THEN Broadcast("COLLISION_ALERT") ELSE UNCHANGED hub
        /\ UNCHANGED <<broker, decisions, jobs, stopped, told>>

\* GET /api/radar/collisions
LookAtRadar ==
    /\ intents' = Purged(intents)
    /\ UNCHANGED <<declared, broker, decisions, jobs, stopped, told, hub>>

-----------------------------------------------------------------------------
Init ==
    /\ clock = 0 /\ requests = 0
    /\ active = {} /\ issued = {}
    /\ decisions = [d \in Decisions |-> Pending]
    /\ jobs = Jobs /\ stopped = {} /\ told = {}
    /\ intents = {} /\ declared = {}
    /\ clients = {} /\ broadcasts = <<>>
    /\ received = [c \in Clients |-> <<>>]
    /\ joined = [c \in Clients |-> 0]

Tick ==
    /\ clock < MaxTime
    /\ clock' = clock + 1
    /\ UNCHANGED <<requests, broker, decisions, jobs, stopped, told, radar, hub>>

Request ==
    \/ \E a \in Actors, p \in Capabilities, l \in Lifetimes : RequestTicket(a, p, l)
    \/ \E t \in issued : VerifyTicket(t.id)
    \/ \E c \in Clients : Connect(c) \/ Close(c)
    \/ \E a \in Actors, j \in Jobs : StopJob(a, j)
    \/ \E a \in Actors : Quarantine(a) \/ AuthorizeOnly(a)
    \/ \E a \in Actors, d \in Decisions \union {Unknown}, v \in Verdicts : ResolveDecision(d, v, a)
    \/ \E i \in Intents : RegisterIntent(i)
    \/ LookAtRadar

Serve ==
    /\ requests < MaxRequests
    /\ requests' = requests + 1
    /\ UNCHANGED clock
    /\ Request

Next == Tick \/ Serve

Spec == Init /\ [][Next]_vars

-----------------------------------------------------------------------------
Statuses == {"APPROVED", "REJECTED", "EXECUTED"}

\* Every variable has the values its collection holds: tickets and intents are
\* keyed, a decision is pending or carries who resolved it and with what.
TypeOK ==
    /\ clock \in 0..MaxTime /\ requests \in 0..MaxRequests
    /\ active \subseteq issued
    /\ \A t \in issued : t.id \in Nat /\ t.expires \in Nat
    /\ \A d \in Decisions :
           \/ decisions[d] = Pending
           \/ decisions[d] \in [status : Statuses, by : Actors, ticket : {t.id : t \in issued}]
    /\ jobs \subseteq Jobs /\ clients \subseteq Clients
    /\ \A e \in intents : e.intent \in Intents /\ e.expires \in Nat
    /\ \A e, f \in intents : e.id = f.id => e = f

=============================================================================
