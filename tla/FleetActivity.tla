---------------------------- MODULE FleetActivity ----------------------------
(***************************************************************************)
(* What the server keeps and reports about the agents whose observations   *)
(* it ingests: the fleet records of StateProjector, which registration and *)
(* heartbeats change too, and for each observation the verdict of          *)
(* BayesianRiskEngine and TemporalAnomalyEngine.  An observation that the  *)
(* store accepts is projected and evaluated in one turn of the event loop. *)
(***************************************************************************)
EXTENDS AgentVerdicts, Subsequences

CONSTANTS
    Bots,            \* the agents whose id names a bot, codex or forge
    MaxTime,         \* bound on the clock
    MaxActions       \* bound on the observations

VARIABLES
    clock,           \* Date.now()
    agents,          \* StateProjector.agents: the known agents' totalActions
    window           \* TemporalAnomalyEngine.history

vars == <<clock, agents, window, verdict, history>>

-----------------------------------------------------------------------------
(* TemporalAnomalyEngine *)

\* At most one time is dropped per observation.
Pruned_One(times) == IF Head(times) < clock - Minute THEN Tail(times) ELSE times

\* The times are in order: those at the front that are too old are dropped.
Pruned(times) == Select(times, {t \in Nat : t >= clock - Minute})

Window(a) == Pruned(Append(window[a], clock))

-----------------------------------------------------------------------------
(* BayesianRiskEngine *)

PlanePriors == [governance |-> 40, execution |-> 28, agents |-> 22, experience |-> 12]

\* Deletions count less.
MutationLR_Lower(mutation) ==
    CASE mutation = "destructive" -> 260 [] mutation = "push" -> 115 [] OTHER -> 90

MutationLR(mutation) ==
    CASE mutation = "destructive" -> 280 [] mutation = "push" -> 115 [] OTHER -> 90

ActorLR(a) == IF a \in Bots THEN 135 ELSE 85

\* The posterior in percent, rounded; odds are defect : clean.
Score(a, plane, mutation) ==
    LET defect == PlanePriors[plane] * ActorLR(a) * MutationLR(mutation)
        clean  == (100 - PlanePriors[plane]) * 10000
    IN  (200 * defect + defect + clean) \div (2 * (defect + clean))

RiskLevel(score) ==
    IF score >= 70 THEN "CRITICAL" ELSE IF score >= 40 THEN "ELEVATED" ELSE "NOMINAL"

\* handleLiveObservation warns the operator and sounds the hazard tone.
Alarm(score) == score > 70

Verdict(a, plane, mutation) ==
    LET score == Score(a, plane, mutation)
    IN  [at |-> clock, actions |-> Len(Window(a)), runaway |-> Len(Window(a)) >= RunawayMin,
         level |-> RiskLevel(score), alarm |-> Alarm(score)]

-----------------------------------------------------------------------------
(* The fleet *)

NaN == -1

\* A registered agent has no totalActions, and undefined + 1 is not a number.
OneMore(total) == IF total = NaN THEN NaN ELSE total + 1

\* The first observation enters the agent.
Seen(a) == IF a \in DOMAIN agents THEN OneMore(agents[a]) ELSE 1

Set(a, total) == [x \in DOMAIN agents \union {a} |-> IF x = a THEN total ELSE agents[x]]

Observe(a, plane, mutation) ==
    /\ Len(history) < MaxActions
    /\ agents' = Set(a, Seen(a))
    /\ window' = [window EXCEPT ![a] = Window(a)]
    /\ verdict' = [verdict EXCEPT ![a] = Verdict(a, plane, mutation)]
    /\ history' = Append(history, <<a, clock>>)
    /\ UNCHANGED clock

\* The record is replaced; the window of the engine is not.
Register(a) ==
    /\ agents' = Set(a, NaN)
    /\ UNCHANGED <<clock, window, verdict, history>>

Tick ==
    /\ clock < MaxTime
    /\ clock' = clock + 1
    /\ UNCHANGED <<agents, window, verdict, history>>

Init ==
    /\ clock = 0 /\ agents = [a \in {} |-> 0]
    /\ window = [a \in Agents |-> <<>>]
    /\ verdict = [a \in Agents |-> [at |-> 0, actions |-> 0, runaway |-> FALSE,
                                    level |-> "NOMINAL", alarm |-> FALSE]]
    /\ history = <<>>

Next ==
    \/ Tick
    \/ \E a \in Agents :
           \/ Register(a)
           \/ \E p \in DOMAIN PlanePriors, m \in {"destructive", "push", "read"} : Observe(a, p, m)

Spec == Init /\ [][Next]_vars

=============================================================================
