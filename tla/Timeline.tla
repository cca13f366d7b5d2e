------------------------------- MODULE Timeline -------------------------------
(***************************************************************************)
(* The time machine of the operator cockpit (app.js): a slider that the    *)
(* operator drags or steps, and that an interval timer moves while the     *)
(* timeline is played.  Timers are started and cleared by the handle that  *)
(* the state keeps; a timer whose handle is lost runs on.                  *)
(***************************************************************************)
EXTENDS Integers, PlayTimers

CONSTANTS
    End,             \* 100, the live end of the slider
    Step,            \* 2, per tick of the timer
    Jump,            \* 10, per press of a step button
    MaxPlays,        \* bound on the presses of play
    MaxMoves         \* bound on the operator's moves of the slider

VARIABLES
    slider,          \* timeMachineSlider.value
    label,           \* the value the label was written for
    plays, moves

vars == <<slider, label, playing, handle, running, plays, moves>>

-----------------------------------------------------------------------------
\* The slider is set and its input event dispatched.
Show(value) == slider' = value /\ label' = value

\* Play starts over at the end, without an event.
Rewound == IF slider >= End THEN 0 ELSE slider

Play ==
    /\ ~playing /\ plays < MaxPlays
    /\ plays' = plays + 1
    /\ playing' = TRUE
    /\ slider' = Rewound
    /\ handle' = plays + 1
    /\ running' = running \union {plays + 1}
    /\ UNCHANGED <<label, moves>>

Pause ==
    /\ playing
    /\ playing' = FALSE
    /\ running' = running \ {handle}
    /\ UNCHANGED <<slider, label, handle, plays, moves>>

\* The timer starts over at the end.
Advanced_Wraps == IF slider + Step >= End THEN 0 ELSE slider + Step

Advanced == IF slider + Step >= End THEN End ELSE slider + Step

\* A timer reads the slider, and clears the timer of the handle at the end.
TimerTick(t) ==
    /\ t \in running
    /\ Show(Advanced)
    /\ playing' = (playing /\ Advanced # End)
    /\ running' = IF Advanced = End THEN running \ {handle} ELSE running
    /\ UNCHANGED <<handle, plays, moves>>

Move(value) ==
    /\ moves < MaxMoves
    /\ moves' = moves + 1
    /\ Show(value)
    /\ UNCHANGED <<playing, handle, running, plays>>

StepBack    == Move(IF slider < Jump THEN 0 ELSE slider - Jump)
StepForward == Move(IF slider + Jump > End THEN End ELSE slider + Jump)
Drag        == \E value \in 0..End : Move(value)

\* The timer is left running.
StillRunning_All == running

StillRunning == running \ {handle}

Live ==
    /\ running' = StillRunning
    /\ playing' = FALSE
    /\ Show(End)
    /\ UNCHANGED <<handle, plays, moves>>

Init ==
    /\ slider = End /\ label = End
    /\ playing = FALSE /\ handle = 0 /\ running = {}
    /\ plays = 0 /\ moves = 0

Next ==
    \/ Play \/ Pause \/ StepBack \/ StepForward \/ Drag \/ Live
    \/ \E t \in 1..MaxPlays : TimerTick(t)

\* The browser fires the interval timers that run.
Fairness == \A t \in 1..MaxPlays : WF_vars(TimerTick(t))

Spec == Init /\ [][Next]_vars /\ Fairness

-----------------------------------------------------------------------------
(* Properties *)

\* A timeline that is played comes to a stop by itself, whatever the operator did to the
\* slider meanwhile (initTimeMachineControls).
PlayingStops == playing ~> ~playing

=============================================================================
