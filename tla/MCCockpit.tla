------------------------------ MODULE MCCockpit ------------------------------
(***************************************************************************)
(* The operator cockpit in one run: its panels, its time machine, and its  *)
(* terminal, drawer and capsule.  They share no state: in each behaviour   *)
(* one of them moves.                                                      *)
(***************************************************************************)
EXTENDS OperatorConsole, PlayTimers, TerminalAndCapsule

CONSTANTS d1, runtime, atlas

MCPanels == {"radar", "inbox"}
MCDecisions == {d1}
MCRepos == {runtime, atlas}

VARIABLES part,
          slider, label, plays, moves,
          logs, events, paused, entity

TimeMachine == INSTANCE Timeline WITH
                   End <- 6, Step <- 1, Jump <- 2, MaxPlays <- 3, MaxMoves <- 2

Desk == INSTANCE CockpitDesk WITH MaxLogs <- 2

timelineVars == <<slider, label, playing, handle, running, plays, moves>>
deskVars     == <<logs, logged, events, lines, filter, paused, entity,
                  capsule, mode, output, modal>>
allVars      == <<part, vars, timelineVars, deskVars>>

MCInit ==
    /\ part \in {"console", "timeline", "desk"}
    /\ Init /\ TimeMachine!Init /\ Desk!Init

Console(A)   == part = "console" /\ A /\ UNCHANGED <<part, timelineVars, deskVars>>
Timeline(A)  == part = "timeline" /\ A /\ UNCHANGED <<part, vars, deskVars>>
Operating(A) == part = "desk" /\ A /\ UNCHANGED <<part, vars, timelineVars>>

MCNext ==
    Console(Next) \/ Timeline(TimeMachine!Next) \/ Operating(Desk!Next)

\* The fairness of OperatorConsole and Timeline, in the behaviours in which they move.
MCFairness ==
    /\ WF_allVars(Console(Second)) /\ SF_allVars(Console(SummaryArrives(1)))
    /\ \A p \in Panels : WF_allVars(Console(PanelArrives(p, 1)))
    /\ WF_allVars(Console(ResolveAnswered))
    /\ \A t \in 1..3 : WF_allVars(Timeline(TimeMachine!TimerTick(t)))

MCSpec == MCInit /\ [][MCNext]_allVars /\ MCFairness

\* Every panel comes to show the server's state (OperatorConsole).
PanelsCatchUp == part = "console" => EventuallyCurrent

\* A timeline that is played stops (Timeline).
PlayingStops == TimeMachine!PlayingStops

=============================================================================
