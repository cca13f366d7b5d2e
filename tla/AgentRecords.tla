---------------------------- MODULE AgentRecords ----------------------------
(***************************************************************************)
(* The sessions, events and the source that the desktop client records of  *)
(* the Agent Bridge, and what it promises of them however late a request   *)
(* is handled.  AgentFabric changes them.                                  *)
(*                                                                         *)
(* The variables best, accepted and observed are observations.             *)
(***************************************************************************)
EXTENDS Integers, FiniteSets

CONSTANT KeepEvents  \* 250

VARIABLES
    sessions,        \* AgentSnapshot.Sessions, by id
    recent,          \* AgentSnapshot.Events: <<id, time>>
    bridge,          \* LastObservedAt of the source agent-bridge; 0 before the first
    best,            \* per session the highest sequence stored since it was last added
    accepted,        \* every event that was ever added
    observed         \* the latest time at which a handler observed the bridge

\* Whatever order the handlers of heartbeats finish in, a session shows the highest
\* sequence stored since it was last added, and the bridge the latest time at which it was
\* observed: nothing newer is overwritten by something late (upsertAgent,
\* updateAgentSource).
LateIsIgnored ==
    /\ \A id \in DOMAIN sessions : sessions[id].sequence = best[id]
    /\ bridge = observed

\* The retained events have different ids and are the newest of all that were ever added,
\* although a repetition is recognised only while the event is retained: an old event that
\* is delivered again cannot push a newer one out (addAgentEvent, summarizeAgentsAt).
NewestRetained ==
    /\ \A x, y \in recent : x[1] = y[1] => x = y
    /\ \A x \in accepted \ recent :
           Cardinality(recent) = KeepEvents /\ \A y \in recent : x[2] <= y[2]

=============================================================================
