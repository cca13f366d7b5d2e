------------------------------- MODULE Updater -------------------------------
(***************************************************************************)
(* The desktop updater's Apply (internal/updater/apply.go) from the staging *)
(* of a verified candidate on.  Every step on the disk may fail, the       *)
(* updater may be killed before any of them, and the operator may run it   *)
(* again.  Each run has a backup directory of its own.                     *)
(***************************************************************************)
EXTENDS Integers, Executables

CONSTANTS
    MaxRuns,         \* bound on the runs of the updater
    MaxFaults        \* bound on the steps that fail

VARIABLE stage       \* the file beside the executable that takes its place

files == <<install, stage, previous, archived>>
vars  == <<files, candidate, pc, result, runs, faults>>

-----------------------------------------------------------------------------
Goto(step) == pc' = step /\ UNCHANGED <<candidate, result, runs, faults>>
End(r) == pc' = "idle" /\ result' = r /\ UNCHANGED <<candidate, runs>>
Fault == faults < MaxFaults /\ faults' = faults + 1

\* An install path without an executable is refused; left-overs of a run are removed.
Start ==
    /\ pc = "idle" /\ runs < MaxRuns
    /\ runs' = runs + 1
    /\ IF install = "none"
       THEN result' = "failed" /\ UNCHANGED <<pc, files>>
       ELSE /\ pc' = "stage" /\ result' = "none"
            /\ stage' = "none" /\ previous' = "none"
            /\ UNCHANGED <<install, archived>>
    /\ UNCHANGED <<candidate, faults>>

Stage ==
    /\ pc = "stage"
    /\ \/ stage' = "new" /\ Goto("aside")
       \/ Fault /\ stage' = "none" /\ End("failed")
    /\ UNCHANGED <<install, previous, archived>>

Aside ==
    /\ pc = "aside"
    /\ \/ previous' = install /\ install' = "none" /\ Goto("swap") /\ UNCHANGED stage
       \/ Fault /\ stage' = "none" /\ End("failed") /\ UNCHANGED <<install, previous>>
    /\ UNCHANGED archived

Rollback == pc' = "remove" /\ UNCHANGED <<files, candidate, result, runs>>

\* The rollback of a failed swap is not asked whether it failed.
Swap ==
    /\ pc = "swap"
    /\ \/ install' = stage /\ stage' = "none" /\ Goto("check") /\ UNCHANGED <<previous, archived>>
       \/ Fault /\ pc' = "remove" /\ result' = "failed" /\ UNCHANGED <<files, candidate, runs>>

\* A failed health check goes on.
Passes_Always == TRUE

\* The artifact is verified again and its health checked.
Passes == candidate = "good"

Check ==
    /\ pc = "check"
    /\ \/ Passes /\ Goto("archive") /\ UNCHANGED files
       \/ ~Passes /\ Rollback /\ UNCHANGED faults
       \/ Fault /\ Rollback

\* The installed executable is archived instead of the previous one.
Archived_Installed == archived \union {install}

Archived == archived \union {previous}

Archive ==
    /\ pc = "archive"
    /\ \/ archived' = Archived /\ Goto("drop") /\ UNCHANGED <<install, stage, previous>>
       \/ Fault /\ Rollback

\* A previous executable that stays makes the run fail, though the update is in place.
Drop ==
    /\ pc = "drop"
    /\ \/ previous' = "none" /\ End("applied") /\ UNCHANGED faults
       \/ Fault /\ End("failedLate") /\ UNCHANGED previous
    /\ UNCHANGED <<install, stage, archived>>

\* restore removes the executable and moves the previous one back.
Remove ==
    /\ pc = "remove"
    /\ install' = "none" /\ Goto("restore")
    /\ UNCHANGED <<stage, previous, archived>>

Restore ==
    /\ pc = "restore"
    /\ \/ install' = previous /\ previous' = "none" /\ End("failed") /\ UNCHANGED faults
       \/ /\ Fault /\ UNCHANGED <<install, previous>>
          /\ End(IF result = "failed" THEN "failed" ELSE "rollbackFailed")
    /\ UNCHANGED <<stage, archived>>

Kill ==
    /\ pc # "idle"
    /\ pc' = "idle" /\ result' = "killed"
    /\ UNCHANGED <<files, candidate, runs, faults>>

-----------------------------------------------------------------------------
Init ==
    /\ install = "old" /\ stage = "none" /\ previous = "none" /\ archived = {}
    /\ candidate \in {"good", "bad"}
    /\ pc = "idle" /\ result = "none" /\ runs = 0 /\ faults = 0

Next == \/ Start \/ Stage \/ Aside \/ Swap \/ Check \/ Archive \/ Drop
        \/ Remove \/ Restore \/ Kill

Spec == Init /\ [][Next]_vars

=============================================================================
