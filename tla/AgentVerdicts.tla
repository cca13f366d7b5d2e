---------------------------- MODULE AgentVerdicts ----------------------------
(***************************************************************************)
(* The last verdict of the engines on each agent whose observations the    *)
(* server ingests, and what they promise of it.  FleetActivity gives the   *)
(* verdicts.                                                               *)
(*                                                                         *)
(* The variable history is an observation.                                 *)
(***************************************************************************)
EXTENDS Integers, Sequences, FiniteSets

CONSTANTS
    Agents,
    Minute,          \* 60000 ms
    RunawayMin       \* actions within a minute that make a runaway (20)

ASSUME VerdictsAssumption == Minute \in Nat /\ RunawayMin \in Nat \ {0}

VARIABLES
    verdict,         \* per agent: the last verdict and when it was given
    history          \* <<agent, time>> of the observations so far

Recent(a, now) == {i \in DOMAIN history : history[i][1] = a /\ history[i][2] >= now - Minute}

\* The last verdict on an agent names exactly its observations of the minute before it,
\* and calls a runaway at the limit, although an agent's times are pruned only when it
\* acts again (TemporalAnomalyEngine.evaluate).
WindowExact ==
    \A a \in Agents :
        LET seen == Cardinality(Recent(a, verdict[a].at))
        IN  verdict[a].actions = seen /\ verdict[a].runaway = (seen >= RunawayMin)

\* The cockpit warns of an observation exactly when the engine calls it CRITICAL: no
\* score lies between the two limits (BayesianRiskEngine.evaluate, handleLiveObservation).
AlarmMeansCritical == \A a \in Agents : verdict[a].alarm = (verdict[a].level = "CRITICAL")

=============================================================================
