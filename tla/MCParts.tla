----------------------------- MODULE MCParts ----------------------------------
(***************************************************************************)
(* The GitHub syncs of both programs; of the Node server, the activity it  *)
(* judges agents by and its evidence gate; of the desktop client, its      *)
(* agent projection, its TypeSafe policy, its updater, and its page with   *)
(* the event stream, in one run.  They share no state: in each behaviour   *)
(* one of them moves.                                                      *)
(***************************************************************************)
EXTENDS OrgSync, Inventory, Executables, PageAndStream, AgentRecords, EvaluationBudget,
        AgentVerdicts, MCTiers

CONSTANTS runtime, atlas, s1, s2, forge, anna

MCRepos == {runtime, atlas}
MCKeyRepos == {runtime}
MCSyncs == {s1, s2}
MCAgents == {forge, anna}

VARIABLES part,
          credential, exists, connector, syncMu, actor, syncs, changes,
          now, open, asked,
          clock, state, key, typeSafeDay, typeSafeCalls, typeSafeRunning, typeSafeLastHash,
          decision, caller, begun,
          stage, version, queued, stores, failures, breaks,
          minute, agents, window

Control == INSTANCE SyncControl WITH
               Public <- {runtime}, Requests <- {"operator"},
               MaxSyncs <- 3, MaxChanges <- 2,
               token <- credential, sync <- actor

Fabric == INSTANCE AgentFabric WITH
              Sessions <- {"forge", "anna"}, Events <- {"push", "review"},
              States <- {"running", "idle"}, KeepSessions <- 1,
              StaleAfter <- 0, Tolerance <- 0, MaxSequence <- 2,
              MaxTime <- 2, MaxOpen <- 2, MaxAsked <- 3

Policy == INSTANCE TypeSafePolicy WITH
              Callers <- {"loop", "operator"}, States <- {1, 2},
              MinInterval <- 1, DayLength <- 2, MaxTime <- 3, MaxCalls <- 3

Updates == INSTANCE Updater WITH MaxRuns <- 2, MaxFaults <- 2

Page == INSTANCE DesktopStream WITH
            ChannelSize <- 1, WireSize <- 1, MaxChanges <- 3, MaxFailures <- 1, MaxBreaks <- 1,
            changes <- stores

Fleet == INSTANCE FleetActivity WITH
             Bots <- {forge}, MaxTime <- 3, MaxActions <- 4, clock <- minute

Gate == INSTANCE EvidenceGate WITH MaxChain <- 2

controlVars == <<credential, exists, stored, connector, syncMu, actor, known, blank,
                 syncs, changes>>
fabricVars  == <<now, sessions, recent, bridge, open, asked, best, accepted, observed>>
policyVars  == <<clock, state, key, typeSafeDay, typeSafeCalls, typeSafeRunning,
                 typeSafeLastHash, decision, caller, begun, automatic>>
updateVars  == <<install, stage, previous, archived, candidate, pc, result, runs, faults>>
pageVars    == <<version, toTell, told, stream, channel, wire, request, queued, shown,
                 failed, destroyed, stores, failures, breaks>>
fleetVars   == <<minute, agents, window, verdict, history>>
gateVars    == <<calibration, mission>>
allVars     == <<part, vars, controlVars, fabricVars, policyVars, updateVars, pageVars,
                 fleetVars, gateVars>>

MCInit ==
    /\ part \in {"org", "control", "fabric", "policy", "update", "page", "fleet", "gate"}
    /\ Init /\ Control!Init /\ Fabric!Init /\ Policy!Init /\ Updates!Init /\ Page!Init
    /\ Fleet!Init /\ Gate!Init
    /\ part # "control" => ~credential /\ exists = {}
    /\ part # "policy" => state = 1
    /\ part # "update" => candidate = "good"

Org(A) ==
    part = "org" /\ A
    /\ UNCHANGED <<part, controlVars, fabricVars, policyVars, updateVars, pageVars,
                   fleetVars, gateVars>>
Syncing(A) ==
    part = "control" /\ A
    /\ UNCHANGED <<part, vars, fabricVars, policyVars, updateVars, pageVars,
                   fleetVars, gateVars>>
Sessioning(A) ==
    part = "fabric" /\ A
    /\ UNCHANGED <<part, vars, controlVars, policyVars, updateVars, pageVars,
                   fleetVars, gateVars>>
Asking(A) ==
    part = "policy" /\ A
    /\ UNCHANGED <<part, vars, controlVars, fabricVars, updateVars, pageVars,
                   fleetVars, gateVars>>
Updating(A) ==
    part = "update" /\ A
    /\ UNCHANGED <<part, vars, controlVars, fabricVars, policyVars, pageVars,
                   fleetVars, gateVars>>
Desktop(A) ==
    part = "page" /\ A
    /\ UNCHANGED <<part, vars, controlVars, fabricVars, policyVars, updateVars,
                   fleetVars, gateVars>>
Judging(A) ==
    part = "fleet" /\ A
    /\ UNCHANGED <<part, vars, controlVars, fabricVars, policyVars, updateVars,
                   pageVars, gateVars>>
Gating(A) ==
    part = "gate" /\ A
    /\ UNCHANGED <<part, vars, controlVars, fabricVars, policyVars, updateVars,
                   pageVars, fleetVars>>

MCNext ==
    \/ Org(Next) \/ Syncing(Control!Next) \/ Sessioning(Fabric!Next)
    \/ Asking(Policy!Next) \/ Updating(Updates!Next) \/ Desktop(Page!Next)
    \/ Judging(Fleet!Next) \/ Gating(Gate!Next)

\* The fairness of DesktopStream, in the behaviours in which it moves.
MCFairness ==
    /\ WF_allVars(Desktop(Page!Poll))
    /\ WF_allVars(Desktop(Page!Answer)) /\ WF_allVars(Desktop(Page!Arrive))

MCSpec == MCInit /\ [][MCNext]_allVars /\ MCFairness

\* A page without events catches up (DesktopStream).
PageCatchesUp == part = "page" => Page!PageCatchesUp

=============================================================================
