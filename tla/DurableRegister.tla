-------------------------- MODULE DurableRegister --------------------------
(***************************************************************************)
(* What the desktop state store promises its callers, without the files    *)
(* it is built from: one register per state file whose stored version      *)
(* changes in one atomic step, survives a crash of the process, and is     *)
(* shown to readers only once it is stored.  The promise is void for a     *)
(* register that is at risk (only one, displaced or damaged, copy of it    *)
(* is left): such a register may lose its version.                         *)
(***************************************************************************)
EXTENDS Naturals

CONSTANT Files       \* the names of the state files

VARIABLES
    up,              \* is a process serving the registers?
    stored,          \* [Files -> Nat]: the version a restart would load
    shown,           \* [Files -> Nat]: the version readers of the process get
    atRisk           \* SUBSET Files: registers with a single copy left

regvars == <<up, stored, shown, atRisk>>

\* Version 0 is the built-in default a process uses when nothing is stored.
NothingShown == [f \in Files |-> 0]

Init ==
    /\ up = FALSE
    /\ stored \in [Files -> {0, 1}]
    /\ shown = NothingShown
    /\ atRisk = {}

\* A write takes effect: the register jumps to a newer version.
Commit(f) ==
    /\ up
    /\ stored'[f] > stored[f]
    /\ stored' = [stored EXCEPT ![f] = stored'[f]]
    /\ atRisk' = atRisk \ {f}
    /\ UNCHANGED <<up, shown>>

\* The write returns: readers of the process get what is stored.
Publish(f) ==
    /\ up
    /\ shown' = [shown EXCEPT ![f] = stored[f]]
    /\ UNCHANGED <<up, stored, atRisk>>

Crash ==
    /\ up' = FALSE
    /\ shown' = NothingShown
    /\ UNCHANGED <<stored, atRisk>>

Restart ==
    /\ ~up
    /\ up' = TRUE
    /\ shown' = stored
    /\ UNCHANGED <<stored, atRisk>>

\* Registers come to be at risk, or the copy of one is restored to its place.
Expose ==
    /\ \E F \in SUBSET Files : atRisk' = atRisk \union F
    /\ UNCHANGED <<up, stored, shown>>

Repair(f) ==
    /\ atRisk' = atRisk \ {f}
    /\ UNCHANGED <<up, stored, shown>>

\* The medium damages the newest copy: an older version takes its place.
Damage(f) ==
    /\ stored'[f] <= stored[f]
    /\ stored' = [stored EXCEPT ![f] = stored'[f]]
    /\ atRisk' = atRisk \union {f}
    /\ UNCHANGED <<up, shown>>

\* A register at risk loses its version altogether.
Lose(f) ==
    /\ f \in atRisk
    /\ stored' = [stored EXCEPT ![f] = 0]
    /\ UNCHANGED <<up, shown, atRisk>>

Next ==
    \/ Crash
    \/ Restart
    \/ Expose
    \/ \E f \in Files :
          \/ Commit(f)
          \/ Publish(f)
          \/ Repair(f)
          \/ Damage(f)
          \/ Lose(f)

Spec == Init /\ [][Next]_regvars
=============================================================================
