----------------------------- MODULE PlayTimers -----------------------------
(***************************************************************************)
(* The interval timers that play the cockpit's time machine (app.js), and  *)
(* what the page promises of them.  Timeline starts and clears them.       *)
(***************************************************************************)
EXTENDS Integers

VARIABLES
    playing,         \* state.timeMachinePlaying
    handle,          \* state.timeMachineInterval; 0 before the first
    running          \* the interval timers of the browser that run

\* However the operator presses play, pause, step and live, the timers that run are
\* none, or the one that the state can clear while the timeline is played: no timer is
\* left behind that would move the slider on its own (initTimeMachineControls).
TimelineOwned == running = IF playing THEN {handle} ELSE {}

=============================================================================
