----------------------------- MODULE StateStore -----------------------------
(***************************************************************************)
(* The desktop client's state store (desktop/store.go): replacement of a   *)
(* state file through a temporary file, a backup and one shared            *)
(* persistence journal, recovery of an interrupted replacement at startup, *)
(* and publication in memory of what was written.                          *)
(*                                                                         *)
(* Every step that changes the directory is an action, so that a kill of   *)
(* the process (Crash) can fall between any two of them.  writeJSON runs   *)
(* under Store.mu and Store.persistMu, so at most one write is in progress *)
(* and one control location pc suffices.  A step whose system call fails   *)
(* is an action of its own (...Fails), bounded by MaxFaults.               *)
(*                                                                         *)
(* A file's contents are abstracted to a kind, the envelope's generation   *)
(* and the identity of the payload: the number of the write that made it.  *)
(* Of the journal's fields recovery uses the file name only; its phase is  *)
(* validated and then ignored.                                             *)
(***************************************************************************)
EXTENDS Naturals, FiniteSets

CONSTANTS
    Files,           \* state files ("settings.json", "agents.json", ...)
    NoJournal,       \* the journal file does not exist
    TornJournal,     \* the journal file exists but does not decode
    NoFile,          \* no write is in progress
    MaxWrites,       \* bound on writeJSON calls
    MaxCrashes,      \* bound on kills of the process
    MaxFaults,       \* bound on failing system calls
    MaxDamages       \* bound on damage to a primary by the medium

ASSUME StoreAssumption ==
    /\ {NoJournal, TornJournal, NoFile} \intersect Files = {}
    /\ NoJournal # TornJournal
    /\ MaxWrites \in Nat /\ MaxCrashes \in Nat
    /\ MaxFaults \in Nat /\ MaxDamages \in Nat

VARIABLES
    primary,         \* <name>: the state file itself
    backup,          \* <name>.bak: the previous generation
    tmp,             \* <name>.tmp: the generation being written
    journal,         \* .persistence-journal.json
    pc,              \* where the process is
    file,            \* the file writeJSON is replacing
    new,             \* the contents it is writing
    hadPrimary,      \* writeJSON's local of that name
    mem,             \* what the process shows its readers
    floor,           \* history: newest version acknowledged or shown so far
    degraded,        \* history: files left without a sound primary
    exposed,         \* history: degraded files whose write removed the backup
    writes, crashes, faults, damages

disk == <<primary, backup, tmp, journal>>
local == <<file, new, hadPrimary>>
budget == <<crashes, faults, damages>>
history == <<floor, degraded, exposed>>
vars == <<disk, pc, local, mem, history, writes, budget>>

-----------------------------------------------------------------------------
(* Contents of a file.  Generation 0 marks what has no readable envelope:   *)
(* a missing file, one that does not decode, or legacy raw JSON.            *)

Absent == [kind |-> "absent", gen |-> 0, id |-> 0]
Corrupt == [kind |-> "corrupt", gen |-> 0, id |-> 0]
Version(g, i) == [kind |-> "valid", gen |-> g, id |-> i]

Contents == {Absent, Corrupt} \union [kind : {"valid"}, gen : Nat, id : Nat]

Exists(c) == c.kind # "absent"
Valid(c) == c.kind = "valid"

\* Mutant: the backup is preferred whenever it decodes.
Loaded_PrefersBackup(f) == IF Valid(backup[f]) THEN backup[f] ELSE primary[f]

\* readJSON: the candidate of the higher generation first, then the other.
Loaded(f) ==
    IF Valid(backup[f]) /\ (~Valid(primary[f]) \/ backup[f].gen > primary[f].gen)
    THEN backup[f]
    ELSE primary[f]

\* Mutant: the generation of the backup is not taken into account.
NextGeneration_OfPrimary(f) == 1 + primary[f].gen

NextGeneration(f) ==
    1 + IF backup[f].gen > primary[f].gen THEN backup[f].gen ELSE primary[f].gen

NothingLoaded == [f \in Files |-> 0]

BootLocations == {"down", "boot", "promote", "recovered", "load"}
WriteLocations ==
    {"tmp_open", "tmp_synced", "prepare", "prepared", "backup_removed",
     "backed_up", "mark_backup", "ready", "replaced", "commit", "committed",
     "cleared", "undo", "abort"}

Locations == BootLocations \union {"idle"} \union WriteLocations

-----------------------------------------------------------------------------
(* A directory left by an earlier run, or a fresh one.                      *)
Init ==
    /\ primary \in [Files -> {Absent, Version(0, 1), Version(1, 1)}]
    /\ backup = [f \in Files |-> Absent]
    /\ tmp = [f \in Files |-> Absent]
    /\ journal = NoJournal
    /\ pc = "down"
    /\ file = NoFile /\ new = Absent /\ hadPrimary = FALSE
    /\ mem = NothingLoaded
    /\ floor = [f \in Files |-> primary[f].id]
    /\ degraded = {} /\ exposed = {}
    /\ writes = 1 /\ crashes = 0 /\ faults = 0 /\ damages = 0

Goto(l) == pc' = l

\* The write is over: its locals die with the call.
Return ==
    /\ pc' = "idle"
    /\ file' = NoFile /\ new' = Absent /\ hadPrimary' = FALSE

Fault ==
    /\ faults < MaxFaults
    /\ faults' = faults + 1
    /\ UNCHANGED <<crashes, damages>>

-----------------------------------------------------------------------------
(* writeJSON: the temporary file                                            *)

\* A save operation starts: the generation is read off both files, and the
\* temporary file is opened with O_TRUNC.
BeginWrite(f) ==
    /\ pc = "idle"
    /\ writes < MaxWrites
    /\ writes' = writes + 1
    /\ file' = f
    /\ new' = Version(NextGeneration(f), writes + 1)
    /\ tmp' = [tmp EXCEPT ![f] = Corrupt]
    /\ Goto("tmp_open")
    /\ UNCHANGED <<primary, backup, journal, hadPrimary, mem, history, budget>>

\* Write, fsync, close.
WriteTmp ==
    /\ pc = "tmp_open"
    /\ tmp' = [tmp EXCEPT ![file] = new]
    /\ Goto("tmp_synced")
    /\ UNCHANGED <<primary, backup, journal, local, mem, history, writes, budget>>

WriteTmpFails ==
    /\ pc = "tmp_open"
    /\ Fault
    /\ tmp' = [tmp EXCEPT ![file] = Absent]
    /\ Return
    /\ UNCHANGED <<primary, backup, journal, mem, history, writes>>

-----------------------------------------------------------------------------
(* writePersistenceJournal, called for the phases prepared,                 *)
(* primary-backed-up and committed: the file is truncated when it is opened *)
(* and holds nothing that decodes until it is written.                      *)

TruncateJournal ==
    /\ \/ pc = "tmp_synced" /\ Goto("prepare")
       \/ pc = "backed_up" /\ Goto("mark_backup")
       \/ pc = "replaced" /\ Goto("commit")
    /\ journal' = TornJournal
    /\ UNCHANGED <<primary, backup, tmp, local, mem, history, writes, budget>>

WriteJournal ==
    /\ \/ pc = "prepare" /\ Goto("prepared")
       \/ pc = "mark_backup" /\ Goto("ready")
       \/ pc = "commit" /\ Goto("committed")
    /\ journal' = file
    /\ UNCHANGED <<primary, backup, tmp, local, mem, history, writes, budget>>

\* The open, the write or the fsync fails; in the last case the journal is there
\* all the same.  What writeJSON does next depends on the phase.
JournalFails ==
    /\ Fault
    /\ journal' \in {journal, file}

PrepareJournalFails ==
    /\ pc \in {"tmp_synced", "prepare"}
    /\ JournalFails
    /\ tmp' = [tmp EXCEPT ![file] = Absent]
    /\ Return
    /\ UNCHANGED <<primary, backup, mem, history, writes>>

BackedUpJournalFails ==
    /\ pc \in {"backed_up", "mark_backup"}
    /\ JournalFails
    /\ Goto("undo")
    /\ UNCHANGED <<primary, backup, tmp, local, mem, history, writes>>

\* The new primary is in place, but the caller is told that the write failed.
CommittedJournalFails ==
    /\ pc \in {"replaced", "commit"}
    /\ JournalFails
    /\ Return
    /\ UNCHANGED <<primary, backup, tmp, mem, history, writes>>

-----------------------------------------------------------------------------
(* writeJSON: the replacement                                               *)

\* The result of os.Remove(backup) is ignored.
RemoveBackup ==
    /\ pc = "prepared"
    /\ \/ backup' = [backup EXCEPT ![file] = Absent] /\ UNCHANGED budget
       \/ Fault /\ UNCHANGED backup
    /\ exposed' = exposed \union ({file} \intersect degraded)
    /\ Goto("backup_removed")
    /\ UNCHANGED <<primary, tmp, journal, local, mem, floor, degraded, writes>>

\* Mutant: the primary is removed instead of being moved.
MoveToBackup_Removes ==
    /\ pc = "backup_removed"
    /\ Exists(primary[file])
    /\ primary' = [primary EXCEPT ![file] = Absent]
    /\ hadPrimary' = TRUE
    /\ Goto("backed_up")
    /\ UNCHANGED <<backup, tmp, journal, file, new, mem, history, writes, budget>>

MoveToBackup ==
    /\ pc = "backup_removed"
    /\ Exists(primary[file])
    /\ backup' = [backup EXCEPT ![file] = primary[file]]
    /\ primary' = [primary EXCEPT ![file] = Absent]
    /\ hadPrimary' = TRUE
    /\ Goto("backed_up")
    /\ UNCHANGED <<tmp, journal, file, new, mem, history, writes, budget>>

MoveToBackupFails ==
    /\ pc = "backup_removed"
    /\ Exists(primary[file])
    /\ Fault
    /\ Goto("abort")
    /\ UNCHANGED <<disk, local, mem, history, writes>>

\* The first write of a file: there is nothing to back up.
NoPrimary ==
    /\ pc = "backup_removed"
    /\ ~Exists(primary[file])
    /\ Goto("ready")
    /\ UNCHANGED <<disk, local, mem, history, writes, budget>>

\* os.Stat fails otherwise: the call returns and leaves the journal behind.
StatFails ==
    /\ pc = "backup_removed"
    /\ Fault
    /\ tmp' = [tmp EXCEPT ![file] = Absent]
    /\ Return
    /\ UNCHANGED <<primary, backup, journal, mem, history, writes>>

Replace ==
    /\ pc = "ready"
    /\ primary' = [primary EXCEPT ![file] = tmp[file]]
    /\ tmp' = [tmp EXCEPT ![file] = Absent]
    /\ degraded' = degraded \ {file}
    /\ exposed' = exposed \ {file}
    /\ Goto("replaced")
    /\ UNCHANGED <<backup, journal, local, mem, floor, writes, budget>>

ReplaceFails ==
    /\ pc = "ready"
    /\ Fault
    /\ IF hadPrimary THEN Goto("undo") ELSE Goto("abort")
    /\ UNCHANGED <<disk, local, mem, history, writes>>

\* The error paths put the backup back; the result of that rename is ignored.
UndoBackup ==
    /\ pc = "undo"
    /\ primary' = [primary EXCEPT ![file] = backup[file]]
    /\ backup' = [backup EXCEPT ![file] = Absent]
    /\ Goto("abort")
    /\ UNCHANGED <<tmp, journal, local, mem, history, writes, budget>>

UndoBackupFails ==
    /\ pc = "undo"
    /\ Fault
    /\ degraded' = degraded \union {file}
    /\ Goto("abort")
    /\ UNCHANGED <<disk, local, mem, floor, exposed, writes>>

\* clearPersistenceJournal ignores the result of its os.Remove.
ClearJournal ==
    \/ journal' = NoJournal /\ UNCHANGED budget
    \/ Fault /\ UNCHANGED journal

Abort ==
    /\ pc = "abort"
    /\ tmp' = [tmp EXCEPT ![file] = Absent]
    /\ ClearJournal
    /\ Return
    /\ UNCHANGED <<primary, backup, mem, history, writes>>

Finish ==
    /\ pc = "committed"
    /\ ClearJournal
    /\ Goto("cleared")
    /\ UNCHANGED <<primary, backup, tmp, local, mem, history, writes>>

\* Mutant: memory is assigned before the file is replaced.
Publish_BeforeReplace ==
    /\ pc \in {"ready", "cleared"}
    /\ mem' = [mem EXCEPT ![file] = new.id]
    /\ floor' = [floor EXCEPT ![file] = new.id]
    /\ Return
    /\ UNCHANGED <<disk, degraded, exposed, writes, budget>>

\* writeJSON returned nil: the save operation publishes and acknowledges.
Publish ==
    /\ pc = "cleared"
    /\ mem' = [mem EXCEPT ![file] = new.id]
    /\ floor' = [floor EXCEPT ![file] = new.id]
    /\ Return
    /\ UNCHANGED <<disk, degraded, exposed, writes, budget>>

-----------------------------------------------------------------------------
(* newStore: recoverPersistenceJournal, then loadState for every file       *)

Start ==
    /\ pc = "down"
    /\ Goto("boot")
    /\ UNCHANGED <<disk, local, mem, history, writes, budget>>

NothingToRecover ==
    /\ pc = "boot"
    /\ journal = NoJournal
    /\ Goto("load")
    /\ UNCHANGED <<disk, local, mem, history, writes, budget>>

\* The journal does not decode: it is renamed away and every temporary file
\* is removed.  A file whose primary was moved aside stays without one.
Quarantine ==
    /\ pc = "boot"
    /\ journal = TornJournal
    /\ journal' = NoJournal
    /\ tmp' = [f \in Files |-> Absent]
    /\ degraded' = degraded \union
           {f \in Files : ~Exists(primary[f]) /\ Exists(backup[f])}
    /\ Goto("load")
    /\ UNCHANGED <<primary, backup, local, mem, floor, exposed, writes, budget>>

QuarantineFails ==
    /\ pc = "boot"
    /\ journal = TornJournal
    /\ Fault
    /\ Goto("down")
    /\ UNCHANGED <<disk, local, mem, history, writes>>

\* Mutant: recovery compares generations only, and legacy files have none.
MustRestore_ByGeneration(f) == backup[f].gen > primary[f].gen

MustRestore(f) ==
    \/ backup[f].gen > primary[f].gen
    \/ ~Exists(primary[f]) /\ Exists(backup[f])

\* A primary older than its backup is moved out of the way first.
BeginRestore ==
    /\ pc = "boot"
    /\ journal \in Files
    /\ MustRestore(journal)
    /\ primary' = [primary EXCEPT ![journal] = Absent]
    /\ Goto("promote")
    /\ UNCHANGED <<backup, tmp, journal, local, mem, history, writes, budget>>

Restore ==
    /\ pc = "promote"
    /\ primary' = [primary EXCEPT ![journal] = backup[journal]]
    /\ backup' = [backup EXCEPT ![journal] = Absent]
    /\ degraded' = IF Valid(backup[journal]) THEN degraded \ {journal} ELSE degraded
    /\ exposed' = IF Valid(backup[journal]) THEN exposed \ {journal} ELSE exposed
    /\ Goto("recovered")
    /\ UNCHANGED <<tmp, journal, local, mem, floor, writes, budget>>

\* newStore returns the error and the program exits.
RestoreFails ==
    /\ pc = "promote"
    /\ Fault
    /\ Goto("down")
    /\ UNCHANGED <<disk, local, mem, history, writes>>

KeepPrimary ==
    /\ pc = "boot"
    /\ journal \in Files
    /\ ~MustRestore(journal)
    /\ Goto("recovered")
    /\ UNCHANGED <<disk, local, mem, history, writes, budget>>

\* Mutant: recovery promotes a temporary file that was written completely.
FinishRecovery_PromotesTmp ==
    /\ pc = "recovered"
    /\ tmp' = [tmp EXCEPT ![journal] = Absent]
    /\ primary' = [primary EXCEPT ![journal] = IF Valid(tmp[journal]) THEN tmp[journal] ELSE @]
    /\ ClearJournal
    /\ Goto("load")
    /\ UNCHANGED <<backup, local, mem, history, writes>>

FinishRecovery ==
    /\ pc = "recovered"
    /\ tmp' = [tmp EXCEPT ![journal] = Absent]
    /\ ClearJournal
    /\ Goto("load")
    /\ UNCHANGED <<primary, backup, local, mem, history, writes>>

Load ==
    /\ pc = "load"
    /\ mem' = [f \in Files |-> Loaded(f).id]
    /\ floor' = [f \in Files |-> IF Loaded(f).id > floor[f] THEN Loaded(f).id
                                                             ELSE floor[f]]
    /\ Goto("idle")
    /\ UNCHANGED <<disk, local, degraded, exposed, writes, budget>>

-----------------------------------------------------------------------------
(* The environment                                                          *)

\* The process is killed.  What it did to the directory stays done.
Crash ==
    /\ pc # "down"
    /\ crashes < MaxCrashes
    /\ crashes' = crashes + 1
    /\ pc' = "down"
    /\ file' = NoFile /\ new' = Absent /\ hadPrimary' = FALSE
    /\ mem' = NothingLoaded
    /\ UNCHANGED <<disk, history, writes, faults, damages>>

\* The medium damages a primary.  What is promised falls back to the backup.
Damage(f) ==
    /\ pc \in {"idle", "down"}
    /\ damages < MaxDamages
    /\ damages' = damages + 1
    /\ Valid(primary[f])
    /\ primary' = [primary EXCEPT ![f] = Corrupt]
    /\ floor' = [floor EXCEPT ![f] = backup[f].id]
    /\ degraded' = degraded \union {f}
    /\ UNCHANGED <<backup, tmp, journal, pc, local, mem, exposed, writes, crashes, faults>>

WriteStep ==
    \/ WriteTmp \/ TruncateJournal \/ WriteJournal \/ RemoveBackup
    \/ MoveToBackup \/ NoPrimary \/ Replace \/ Finish \/ Publish

WriteFault ==
    \/ WriteTmpFails \/ PrepareJournalFails \/ BackedUpJournalFails
    \/ CommittedJournalFails \/ MoveToBackupFails \/ StatFails
    \/ ReplaceFails \/ UndoBackup \/ UndoBackupFails \/ Abort

RecoveryStep ==
    \/ Start \/ NothingToRecover \/ Quarantine \/ QuarantineFails
    \/ BeginRestore \/ Restore \/ RestoreFails \/ KeepPrimary
    \/ FinishRecovery \/ Load

Next ==
    \/ \E f \in Files : BeginWrite(f) \/ Damage(f)
    \/ WriteStep
    \/ WriteFault
    \/ RecoveryStep
    \/ Crash

Spec == Init /\ [][Next]_vars

-----------------------------------------------------------------------------
(* Properties                                                               *)

\* Types of the files, of writeJSON's locals and of the history; writeJSON has a
\* file exactly while a write is in progress.
TypeOK ==
    /\ primary \in [Files -> Contents]
    /\ backup \in [Files -> Contents]
    /\ tmp \in [Files -> Contents]
    /\ journal \in Files \union {NoJournal, TornJournal}
    /\ pc \in Locations
    /\ file \in Files \union {NoFile}
    /\ pc \in WriteLocations <=> file \in Files
    /\ new \in Contents
    /\ hadPrimary \in BOOLEAN
    /\ mem \in [Files -> Nat]
    /\ floor \in [Files -> Nat]
    /\ degraded \subseteq Files
    /\ exposed \subseteq Files
    /\ writes \in Nat /\ crashes \in Nat /\ faults \in Nat /\ damages \in Nat

\* Whatever the instant of a kill, the next startup loads a version at least as
\* new as the newest one acknowledged or shown, for every file except those
\* whose backup was removed by a write that began without a sound primary.
Durable == \A f \in Files \ exposed : Loaded(f).id >= floor[f]

\* Even where a version can be lost, recovery and reading never bring back one
\* older than the newest acknowledged: a loser of the generation comparison, a
\* left-over backup or a temporary file is never resurrected.
NoResurrection == \A f \in Files : Loaded(f).id = 0 \/ Loaded(f).id >= floor[f]

\* The generation comparison of readJSON and recovery picks the newer version:
\* of two readable copies the primary is the later write and has the larger
\* generation, also when generations are reused by writes that failed.
GenerationsOrderVersions ==
    \A f \in Files :
        Valid(primary[f]) /\ Valid(backup[f]) =>
            /\ primary[f].gen > backup[f].gen
            /\ primary[f].id > backup[f].id

\* Recovery decides nothing: no step of it changes the version a file loads as,
\* so a recovery that is itself killed and repeated ends in the same versions,
\* and an uncommitted temporary file is never promoted.
RecoveryKeepsVersions ==
    [][RecoveryStep => \A f \in Files : Loaded(f)'.id = Loaded(f).id]_vars

\* Readers of the process are shown a new version only when a kill at that very
\* moment would not take it back.
PublishedIsDurable ==
    [][\A f \in Files : mem'[f] # mem[f] /\ pc' = "idle" => Loaded(f)'.id = mem'[f]]_vars

\* The files implement an atomic register per state file that only a register
\* at risk may lose.
Register == INSTANCE DurableRegister
    WITH up <- pc \notin BootLocations,
         stored <- [f \in Files |-> Loaded(f).id],
         shown <- mem,
         atRisk <- degraded

\* writeJSON, its journal and newStore's recovery implement that register.
ImplementsRegister == Register!Spec

\* What TestProcessLevelCrashRecovery asserts once recovery has run: the version
\* that is read is the old or the new one, so some version is there.
OldOrNewAfterCrash ==
    pc = "load" => \A f \in Files : floor[f] > 0 => Loaded(f).id >= floor[f]

-----------------------------------------------------------------------------
(* The inductive invariant behind the properties above.                     *)

\* Until it is renamed the temporary file holds a version newer, and of a larger
\* generation, than both files it will stand beside.
BeforeReplace ==
    {"tmp_open", "tmp_synced", "prepare", "prepared", "backup_removed",
     "backed_up", "mark_backup", "ready"}

WriterInv ==
    /\ pc \in BeforeReplace =>
           /\ Valid(new) /\ new.id = writes
           /\ pc # "tmp_open" => tmp[file] = new
           /\ floor[file] < new.id
           /\ \A c \in {primary[file], backup[file]} : c.gen < new.gen /\ c.id < new.id
    /\ pc \in {"backed_up", "mark_backup", "ready", "undo"} => primary[file] = Absent
    /\ pc \in {"prepared", "backup_removed", "backed_up", "ready"} => journal = file
    /\ pc \in {"prepare", "mark_backup"} => journal = TornJournal
    /\ pc \in {"backed_up", "mark_backup"} => hadPrimary = TRUE
    /\ pc = "undo" => journal \in {file, TornJournal}
    /\ pc = "backup_removed" /\ file \in degraded => file \in exposed
    /\ pc \in {"replaced", "commit", "committed", "cleared"} =>
           Valid(new) /\ primary[file] = new

RestoreInv == pc \in {"promote", "recovered"} =>
    /\ journal \in Files
    /\ pc = "promote" => primary[journal] = Absent

\* A file is without a primary, its last version in the backup, only while the
\* writer is about to put one there or the journal tells recovery to do so.
InGap(f) ==
    /\ journal \in {f, TornJournal}
    /\ \/ pc \in {"down", "boot", "promote"}
       \/ file = f /\ pc \in {"backed_up", "mark_backup", "undo"}
       \/ file = f /\ pc = "ready" /\ hadPrimary = TRUE

\* A file that is not degraded has its newest version in the primary, or was
\* never written, or is in the gap.
Sound(f) ==
    f \notin degraded =>
        \/ Valid(primary[f]) /\ primary[f].id >= floor[f]
        \/ primary[f] = Absent /\ backup[f] = Absent /\ floor[f] = 0
        \/ /\ primary[f] = Absent
           /\ Valid(backup[f]) /\ backup[f].id >= floor[f]
           /\ InGap(f)

SoundInv == \A f \in Files : Sound(f)

\* What the copies of a file always satisfy, whatever the writer is doing.
CopiesSound(f) ==
    /\ floor[f] <= writes
    /\ \A c \in {primary[f], backup[f]} : c.id <= writes /\ (Valid(c) => c.id >= 1)
    /\ Valid(primary[f]) /\ Valid(backup[f]) =>
           primary[f].gen > backup[f].gen /\ primary[f].id > backup[f].id
    /\ f \in exposed => f \in degraded /\ (Loaded(f).id = 0 \/ Loaded(f).id >= floor[f])
    /\ f \in degraded \ exposed => Loaded(f).id >= floor[f]

CopiesInv == \A f \in Files : CopiesSound(f)

IInv ==
    /\ TypeOK
    /\ CopiesInv
    /\ WriterInv
    /\ RestoreInv
    /\ SoundInv
=============================================================================
