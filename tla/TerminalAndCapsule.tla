------------------------- MODULE TerminalAndCapsule -------------------------
(***************************************************************************)
(* The event terminal and the continuity capsule of the operator cockpit   *)
(* (app.js), and what they promise to show.  Both are drawn by the         *)
(* handlers that change them and by nothing else: CockpitDesk.             *)
(*                                                                         *)
(* The variable logged is an observation.                                  *)
(***************************************************************************)
EXTENDS Integers, Sequences, Subsequences

CONSTANTS
    KeepLogs,        \* 100, the lines the terminal keeps
    Repos            \* the repositories that have a capsule

VARIABLES
    logged,          \* every line accepted since the terminal was last cleared
    lines,           \* what el.terminalLogs shows
    filter,          \* state.terminalFilter
    capsule,         \* state.activeCapsule, or "none"
    mode,            \* state.capsuleMode
    output,          \* el.capsuleOutput.value: <<repository, mode>>, or << >>
    modal            \* the capsule's window is displayed

\* The tags of the lines that the terminal starts with.
Seeds == <<"auth", "telemetry", "telemetry", "hazard", "fleet", "auth">>

\* The seeds are not counted against the limit, and lie below it.
ASSUME CockpitAssumption ==
    /\ KeepLogs \in Nat /\ KeepLogs >= Len(Seeds)
    /\ "none" \notin Repos

Filtered(entries, f) == Select(entries, {e \in ToSet(entries) : f = "all" \/ e[1] = f})

Newest(entries) ==
    IF Len(entries) > KeepLogs
    THEN SubSeq(entries, Len(entries) - KeepLogs + 1, Len(entries)) ELSE entries

\* In whatever order events arrive and the operator pauses, clears and filters the
\* terminal, it shows exactly the newest lines of those accepted since it was last cleared
\* that the chosen filter selects; and an open capsule window shows the repository
\* chosen last, from the palette or the drawer, in the format chosen last
\* (addTerminalLog, renderTerminalLogs, renderCapsuleContent).
ScreensFollowState ==
    /\ lines = Filtered(Newest(logged), filter)
    /\ modal => output = <<capsule, mode>>

=============================================================================
