---------------------------- MODULE Executables -----------------------------
(***************************************************************************)
(* The executables that an update of the desktop client handles, and what  *)
(* is promised of them.  Updater changes them.                             *)
(***************************************************************************)
EXTENDS Integers

VARIABLES
    install,         \* the executable at InstallPath: "none", "old" or "new"
    previous,        \* the file beside it
    archived,        \* the executables in the backup directories
    candidate,       \* the new executable: "good" when it passes the health check
    pc, result,      \* where a run of the updater is, and how the last one ended
    runs, faults     \* runs and failing steps so far

\* Until the updater is run again, the old executable is at its place, beside it or
\* archived, whenever the updater was killed and however many steps failed (Apply).
OldExecutableKept == runs < 2 => "old" \in {install, previous} \union archived

\* After one run that was not killed and had one failing step at most, the new executable
\* is in place, good and the old one archived, or the old one is in place, or the run
\* says that its rollback failed (Apply).
FaultUndone ==
    runs = 1 /\ pc = "idle" /\ result # "killed" /\ faults < 2 =>
        IF result \in {"applied", "failedLate"}
        THEN install = "new" /\ candidate = "good" /\ "old" \in archived
        ELSE install = "old" \/ result = "rollbackFailed"

=============================================================================
