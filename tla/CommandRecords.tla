--------------------------- MODULE CommandRecords ---------------------------
(***************************************************************************)
(* What the command plane of the Node API server keeps of tickets,         *)
(* decisions, intents and open streams, and what it promises of them.      *)
(* ControlPlane changes it.                                                *)
(*                                                                         *)
(* The variables issued, stopped, told, declared, broadcasts and joined    *)
(* are observations: no action of the program reads them.                  *)
(***************************************************************************)
EXTENDS Integers, Sequences, FiniteSets

CONSTANTS
    Actors,          \* operators and bots that ask for tickets and decide
    Capabilities,    \* capabilities asked for at /api/auth/ticket
    Lifetimes,       \* ttlSeconds asked for there; DefaultTTL when absent
    DefaultTTL,      \* 300 s, also of the tickets of commands and decisions
    Decisions,       \* the ids of initCanonicalDecisions
    Unknown,         \* an id that names no decision
    Jobs,            \* the jobs running on the node
    Intents,         \* declarations that agents send to the radar
    NoId,            \* the id of a declaration that brings none
    Clients,         \* browsers on /api/realtime/stream
    MaxTime,         \* bound on the clock
    MaxRequests      \* bound on the requests served

\* The actions posted to a decision; "reject" is one of the words that the code does
\* not know.
Verdicts == {"APPROVE", "REJECT", "reject"}

ASSUME ControlPlaneAssumption ==
    /\ DefaultTTL \in Nat /\ Lifetimes \subseteq Nat
    /\ Unknown \notin Decisions
    /\ MaxTime \in Nat /\ MaxRequests \in Nat
    /\ \A i \in Intents :
           /\ DOMAIN i = {"id", "agent", "repo", "branch", "files", "contracts", "lasts"}
           /\ i.lasts \in Nat

VARIABLES
    clock,           \* Date.now()
    active,          \* CredentialBroker.activeTickets
    decisions,       \* OperationalOntologyEngine.decisions
    clients,         \* RealtimeHub.clients
    received,        \* what each client was sent since it connected
    issued, stopped, told, declared, broadcasts, joined

-----------------------------------------------------------------------------
\* Expires a millisecond early.
Expired_AtOnce(e) == e.expires <= clock

Expired(e) == e.expires < clock

Pending == [status |-> "PENDING"]

\* The word in lower case, behind "decision.".
Capability(verdict) == IF verdict = "APPROVE" THEN "decision.approve" ELSE "decision.reject"

\* Any word but the two is an execution.
Outcome(verdict) ==
    CASE verdict = "APPROVE" -> "APPROVED"
      [] verdict = "REJECT"  -> "REJECTED"
      [] OTHER               -> "EXECUTED"

-----------------------------------------------------------------------------
(* Properties *)

\* What an operator was answered stays true: whoever was told that a decision is
\* theirs finds it in the inbox with their verdict and ticket, whatever the other
\* operators posted since and however often a lost answer was retried
\* (resolveDecision, ontology/src/index.js).
AnswersHold == \A r \in told : decisions[r.decision] = r.answer

\* Every resolved decision and every stopped job names a ticket that was issued to the
\* one who asked for it and for what was done: job.stop for a job, the capability of an
\* action with that outcome for a decision.  No ticket serves two of them (server.js,
\* dispatch and decision action; credentialBroker.js, requestScopedTicket).
Needs(status) == {Capability(v) : v \in {w \in Verdicts : Outcome(w) = status}}

Decided ==
    {[what |-> d, by |-> decisions[d].by, ticket |-> decisions[d].ticket,
      needs |-> Needs(decisions[d].status)] : d \in {x \in Decisions : decisions[x] # Pending}}

Acts ==
    Decided \union {[what |-> s.job, by |-> s.by, ticket |-> s.ticket, needs |-> {"job.stop"}]
                        : s \in stopped}

Authorised(act) ==
    \E t \in issued : t.id = act.ticket /\ t.actor = act.by /\ t.capability \in act.needs

TicketPerAct ==
    /\ \A u, w \in Acts : u.ticket = w.ticket => u = w
    /\ \A u \in Acts : Authorised(u)

\* A ticket is honoured for as long as it was issued for: neither a later ticket nor
\* the verification of another takes it out of the broker (credentialBroker.js).
LiveTicketsKept == \A t \in issued : t \in active \/ t.expires < clock

Overlap(a, b) ==
    /\ a.agent # b.agent /\ a.repo = b.repo
    /\ a.files \intersect b.files # {} /\ a.contracts \intersect b.contracts # {}

\* Two live declarations that overlap in files and contracts, the earlier one first.
Contended ==
    {pair \in declared \X declared :
        /\ pair[1].at < pair[2].at
        /\ ~Expired(pair[1].entry) /\ ~Expired(pair[2].entry)
        /\ Overlap(pair[1].entry.intent, pair[2].entry.intent)}

\* By the time of the second, the first had lost its place to one with the same id.
Displaced(g, h) == \E k \in declared : k.entry.id = g.entry.id /\ g.at < k.at /\ k.at <= h.at

\* Of two agents whose live intents overlap in files and contracts, the one who declared
\* later was warned, unless the earlier declaration had been displaced by then
\* (registerIntent, evaluateCollisions).
NotBothApproved == \A pair \in Contended : pair[2].warned \/ Displaced(pair[1], pair[2])

\* The same without the exception, as the radar's answer has it: an agent told to proceed
\* overlaps with no live intent declared before.
OverlapIsWarned == \A pair \in Contended : pair[2].warned

\* A connected browser was sent every event since it connected, in order, although
\* other browsers vanish in the middle of a broadcast (RealtimeHub.broadcast).
StreamsComplete ==
    \A c \in clients : received[c] = SubSeq(broadcasts, joined[c] + 1, Len(broadcasts))

=============================================================================
