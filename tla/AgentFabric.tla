----------------------------- MODULE AgentFabric -----------------------------
(***************************************************************************)
(* The desktop client's agent projection (agents.go, agents_api.go): the   *)
(* Agent Bridge posts heartbeats and events, its handlers run at the same  *)
(* time, and each changes the stored snapshot in calls of mutateAgents.    *)
(* A handler takes the time of the observation before its call.            *)
(*                                                                         *)
(* A session has a sequence, a state and the time of its heartbeat; of an  *)
(* event its id and time are kept.                                         *)
(***************************************************************************)
EXTENDS AgentRecords, FiniteSetsExt

CONSTANTS
    Sessions,        \* ids of sessions
    Events,          \* ids of events
    States,          \* states posted by the sessions
    KeepSessions,    \* 120
    StaleAfter,      \* AgentStaleSeconds
    Tolerance,       \* 5 minutes, by which an event may lie in the future
    MaxSequence,     \* bound on the sequences; 0 is a heartbeat without one
    MaxTime,         \* bound on the clock
    MaxOpen,         \* bound on the requests being handled
    MaxAsked         \* bound on the requests

VARIABLES
    now,             \* App.nowUTC()
    open,            \* the requests being handled
    asked            \* requests so far

vars == <<now, sessions, recent, bridge, open, asked, best, accepted, observed>>

-----------------------------------------------------------------------------
(* summarizeAgentsAt, the end of every mutation *)

Marked(session) ==
    IF session.state # "offline" /\ now - session.at > StaleAfter
    THEN [session EXCEPT !.state = "stale"] ELSE session

Rank == [blocked |-> 0, running |-> 1, waiting |-> 2, idle |-> 3, stale |-> 4, offline |-> 5]

Before(x, y) == Rank[x.state] < Rank[y.state] \/ (x.state = y.state /\ x.at > y.at)

\* The first of the sorted list, in any order of those that sort alike.
Firsts(S, keep, Less(_, _)) ==
    {K \in SUBSET S : /\ Cardinality(K) = IF Cardinality(S) > keep THEN keep ELSE Cardinality(S)
                      /\ \A k \in K, d \in S \ K : ~Less(d, k)}

\* The oldest events come first.
NewerFirst_Reversed(x, y) == x[2] < y[2]

NewerFirst(x, y) == x[2] > y[2]

Summarize(all, entries) ==
    LET marked == [id \in DOMAIN all |-> Marked(all[id])]
        Less(i, j) == Before(marked[i], marked[j])
    IN  /\ \E kept \in Firsts(DOMAIN all, KeepSessions, Less) :
               sessions' = [id \in kept |-> marked[id]]
        /\ recent' \in Firsts(entries, KeepEvents, NewerFirst)

-----------------------------------------------------------------------------
(* The handlers *)

Ask(request) ==
    /\ asked < MaxAsked /\ Cardinality(open) < MaxOpen
    /\ asked' = asked + 1
    /\ open' = open \union {request}
    /\ UNCHANGED <<now, sessions, recent, bridge, best, accepted, observed>>

Heartbeat(id, sequence, state) ==
    Ask([n |-> asked, kind |-> "heartbeat", id |-> id, at |-> now,
         session |-> [sequence |-> sequence, state |-> state, at |-> now]])

\* An event may come without a time.
NoTime == 0

Event(id, time) == Ask([n |-> asked, kind |-> "event", id |-> id, at |-> time])

\* What is left is to note that the bridge was observed, at one of these times.
Done(request, times) ==
    open' = (open \ {request}) \union {[n |-> request.n, kind |-> "observe", times |-> times]}

\* A heartbeat without a sequence always counts.
Supersedes_Unordered(old, new) == new.sequence = 0 \/ new.sequence > old.sequence

Supersedes(old, new) == old.sequence = 0 \/ new.sequence > old.sequence

\* A late heartbeat changes nothing, and is answered like any other.
UpsertAgent(request) ==
    LET id   == request.id
        new  == request.session
        late == id \in DOMAIN sessions /\ ~Supersedes(sessions[id], new)
    IN  /\ request \in open /\ request.kind = "heartbeat"
        /\ IF late
           THEN UNCHANGED <<sessions, recent, best>>
           ELSE /\ Summarize([i \in DOMAIN sessions \union {id} |->
                                  IF i = id THEN new ELSE sessions[i]], recent)
                /\ best' = [best EXCEPT ![id] =
                                IF id \in DOMAIN sessions THEN Max({@, new.sequence})
                                ELSE new.sequence]
        /\ Done(request, {request.at})
        /\ UNCHANGED <<now, bridge, asked, accepted, observed>>

Time(request) == IF request.at = NoTime THEN now ELSE request.at

\* The clock is read again after the event was added, at this instant or a later one.
AddAgentEvent(request) ==
    /\ request \in open /\ request.kind = "event"
    /\ Time(request) <= now + Tolerance
    /\ LET entry == <<request.id, Time(request)>> IN
       IF \E old \in recent : old[1] = request.id
       THEN UNCHANGED <<sessions, recent, accepted>>
       ELSE Summarize(sessions, recent \union {entry}) /\ accepted' = accepted \union {entry}
    /\ Done(request, now..MaxTime)
    /\ UNCHANGED <<now, bridge, asked, best, observed>>

RefuseAgentEvent(request) ==
    /\ request \in open /\ request.kind = "event"
    /\ Time(request) > now + Tolerance
    /\ open' = open \ {request}
    /\ UNCHANGED <<now, sessions, recent, bridge, asked, best, accepted, observed>>

UpdateAgentSource(request) ==
    /\ request \in open /\ request.kind = "observe"
    /\ \E at \in request.times \intersect 1..now :
           /\ IF at < bridge
              THEN UNCHANGED <<bridge, sessions, recent>>
              ELSE bridge' = at /\ Summarize(sessions, recent)
           /\ observed' = Max({observed, at})
    /\ open' = open \ {request}
    /\ UNCHANGED <<now, asked, best, accepted>>

Tick ==
    /\ now < MaxTime /\ now' = now + 1
    /\ UNCHANGED <<sessions, recent, bridge, open, asked, best, accepted, observed>>

Init ==
    /\ now = 1 /\ sessions = [id \in {} |-> 0] /\ recent = {} /\ bridge = 0
    /\ open = {} /\ asked = 0
    /\ best = [id \in Sessions |-> 0] /\ accepted = {} /\ observed = 0

Next ==
    \/ \E id \in Sessions, q \in 0..MaxSequence, s \in States : Heartbeat(id, q, s)
    \/ \E id \in Events, t \in NoTime..MaxTime : Event(id, t)
    \/ \E r \in open :
           UpsertAgent(r) \/ AddAgentEvent(r) \/ RefuseAgentEvent(r) \/ UpdateAgentSource(r)
    \/ Tick

Spec == Init /\ [][Next]_vars

=============================================================================
