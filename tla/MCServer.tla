------------------------------ MODULE MCServer ------------------------------
(***************************************************************************)
(* The Node API server in one run: its observation pipeline and its        *)
(* command plane.  They share no state: in each behaviour one of them      *)
(* moves.                                                                  *)
(***************************************************************************)
EXTENDS MCObservationPipeline, CommandRecords, TLC

CONSTANTS op1, op2, d1, none, j1, c1, c2, forge, anna, slot

VARIABLES part, requests, jobs, intents

MCIntent(id, agent, branch, contracts, lasts) ==
    [id |-> id, agent |-> agent, repo |-> "runtime", branch |-> branch, files |-> {"policy"},
     contracts |-> contracts, lasts |-> lasts]

MCActors == {op1, op2}
MCCapabilities == {"github.merge"}
MCLifetimes == {0, 1}
MCDecisions == {d1}
MCJobs == {j1}
MCClients == {c1, c2}

\* Two of the declarations bring the same id.
MCIntents == {MCIntent(NoId, forge, "main", {"token"}, 1), MCIntent(slot, forge, "feat", {"token"}, 2),
              MCIntent(NoId, anna, "main", {"token"}, 2), MCIntent(slot, anna, "main", {}, 1)}

\* Two agents that bring one id.
MCSharedId == {MCIntent(slot, agent, "main", {"token"}, 1) : agent \in {forge, anna}}

MCSymmetry == Permutations(MCActors) \union Permutations(MCClients)

Control == INSTANCE ControlPlane

controlVars == <<clock, requests, active, decisions, jobs, clients, received, intents,
                 issued, stopped, told, declared, broadcasts, joined>>
allVars     == <<part, vars, controlVars>>

MCInit == part \in {"pipeline", "control"} /\ Init /\ Control!Init

MCNext ==
    /\ UNCHANGED part
    /\ \/ part = "pipeline" /\ Next /\ UNCHANGED controlVars
       \/ part = "control" /\ Control!Next /\ UNCHANGED vars

MCSpec == MCInit /\ [][MCNext]_allVars

=============================================================================
