----------------------------- MODULE CockpitDesk -----------------------------
(***************************************************************************)
(* Three pieces of the operator cockpit (app.js) that are drawn from the   *)
(* state of the page: the event terminal, the drawer with the selected     *)
(* entity and the continuity capsule.  Nothing redraws them but the        *)
(* handlers themselves.                                                    *)
(***************************************************************************)
EXTENDS TerminalAndCapsule

CONSTANT MaxLogs     \* bound on the events after the seeds

VARIABLES
    logs,            \* state.terminalLogs: <<tag, number of the event>>
    events,          \* events so far, also those that came during a pause
    paused,          \* state.terminalPaused
    entity           \* state.selectedEntity; the drawer is open unless "none"

terminalVars == <<logs, logged, events, lines, filter, paused>>
capsuleVars  == <<capsule, mode, output, modal>>
vars         == <<terminalVars, entity, capsuleVars>>

Filters == {"all", "auth", "fleet", "hazard", "telemetry"}
Modes   == {"markdown", "json"}

\* The tags of the page's own events; no filter selects the upper-case one, which the
\* operator's actions log.
Tags == {"auth", "AUTH", "hazard", "telemetry"}

-----------------------------------------------------------------------------
(* The terminal *)

\* The newest line is dropped.
Kept_Oldest(entries) ==
    IF Len(entries) > KeepLogs THEN SubSeq(entries, 1, KeepLogs) ELSE entries

Kept(entries) == IF Len(entries) > KeepLogs THEN Tail(entries) ELSE entries

\* A paused terminal drops the event.
AddTerminalLog(tag) ==
    LET entry == <<tag, events + 1>> IN
    /\ events < Len(Seeds) + MaxLogs
    /\ events' = events + 1
    /\ IF paused
       THEN UNCHANGED <<logs, logged, lines>>
       ELSE /\ logs' = Kept(Append(logs, entry))
            /\ logged' = Append(logged, entry)
            /\ lines' = Filtered(logs', filter)
    /\ UNCHANGED <<filter, paused, entity, capsuleVars>>

ClearTerminal ==
    /\ logs' = << >> /\ logged' = << >>
    /\ lines' = Filtered(logs', filter)
    /\ UNCHANGED <<events, filter, paused, entity, capsuleVars>>

PauseTerminal ==
    /\ paused' = ~paused
    /\ UNCHANGED <<logs, logged, events, lines, filter, entity, capsuleVars>>

FilterTerminal(f) ==
    /\ filter' = f
    /\ lines' = Filtered(logs, f)
    /\ UNCHANGED <<logs, logged, events, paused, entity, capsuleVars>>

-----------------------------------------------------------------------------
(* The drawer and the capsule *)

OpenEntityDetail(repo) ==
    entity' = repo /\ UNCHANGED <<terminalVars, capsuleVars>>

\* By its button, or by Escape while the drawer is open.
CloseEntityDetail ==
    entity # "none" /\ entity' = "none" /\ UNCHANGED <<terminalVars, capsuleVars>>

\* Without an active capsule the output stays as it is.
Rendered == IF capsule' = "none" THEN output ELSE <<capsule', mode'>>

OpenRepoCapsule(repo) ==
    /\ capsule' = repo /\ modal' = TRUE
    /\ UNCHANGED <<mode, terminalVars, entity>>
    /\ output' = Rendered

\* The drawer's button.
OpenFromDrawer == entity # "none" /\ OpenRepoCapsule(entity)

SetCapsuleMode(m) ==
    /\ modal
    /\ mode' = m
    /\ UNCHANGED <<capsule, modal, terminalVars, entity>>
    /\ output' = Rendered

\* The window is hidden, the capsule stays active.
CloseCapsule ==
    /\ modal /\ modal' = FALSE
    /\ UNCHANGED <<capsule, mode, output, terminalVars, entity>>

Init ==
    /\ logs = [i \in 1..Len(Seeds) |-> <<Seeds[i], i>>]
    /\ logged = logs /\ lines = logs /\ events = Len(Seeds)
    /\ filter = "all" /\ paused = FALSE
    /\ entity = "none" /\ capsule = "none" /\ mode = "markdown"
    /\ output = << >> /\ modal = FALSE

Next ==
    \/ \E tag \in Tags : AddTerminalLog(tag)
    \/ ClearTerminal \/ PauseTerminal
    \/ \E f \in Filters : FilterTerminal(f)
    \/ \E repo \in Repos : OpenEntityDetail(repo) \/ OpenRepoCapsule(repo)
    \/ CloseEntityDetail \/ OpenFromDrawer \/ CloseCapsule
    \/ \E m \in Modes : SetCapsuleMode(m)

Spec == Init /\ [][Next]_vars

=============================================================================
