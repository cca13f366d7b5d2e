-------------------------- MODULE StateStoreProofs --------------------------
(* Proofs about StateStore, for any set of files and any bounds.            *)
EXTENDS StateStore, TLAPS

LEMMA ContentsFacts ==
    /\ Absent \in Contents /\ Corrupt \in Contents
    /\ ~Valid(Absent) /\ ~Valid(Corrupt)
    /\ \A g, i \in Nat : Version(g, i) \in Contents /\ Valid(Version(g, i))
    /\ \A c \in Contents :
           /\ c.gen \in Nat /\ c.id \in Nat
           /\ ~Valid(c) => c.gen = 0 /\ c.id = 0
           /\ ~Exists(c) <=> c = Absent
  BY DEF Contents, Absent, Corrupt, Version, Valid, Exists

LEMMA SentinelFacts ==
    NoFile \notin Files /\ NoJournal \notin Files /\ TornJournal \notin Files
  BY StoreAssumption

LEMMA LoadedType ==
    ASSUME TypeOK, NEW f \in Files
    PROVE  Loaded(f) \in Contents /\ NextGeneration(f) \in Nat
  BY ContentsFacts DEF TypeOK, Loaded, NextGeneration

LEMMA ReturnFacts ==
    ASSUME Return
    PROVE  /\ pc' = "idle" /\ pc' \in Locations /\ pc' \notin WriteLocations
           /\ file' \in Files \union {NoFile} /\ file' \notin Files
           /\ new' \in Contents /\ hadPrimary' \in BOOLEAN
  BY ContentsFacts, SentinelFacts DEF Return, Locations, WriteLocations

LEMMA BudgetFacts ==
    ASSUME TypeOK, Fault \/ UNCHANGED budget
    PROVE  crashes' \in Nat /\ faults' \in Nat /\ damages' \in Nat
  BY DEF TypeOK, Fault, budget

LEMMA BeginWriteType ==
    ASSUME TypeOK, NEW f \in Files, BeginWrite(f)
    PROVE  TypeOK'
<1>1. /\ UNCHANGED <<primary, backup, journal, hadPrimary, mem, floor, degraded, exposed>>
      /\ UNCHANGED <<crashes, faults, damages>>
      /\ pc' = "tmp_open" /\ file' = f /\ writes' = writes + 1
      /\ new' = Version(NextGeneration(f), writes + 1)
      /\ tmp' = [tmp EXCEPT ![f] = Corrupt]
  BY DEF BeginWrite, Goto, history, budget
<1>2. new' \in Contents /\ tmp' \in [Files -> Contents]
  BY <1>1, ContentsFacts, LoadedType DEF TypeOK
<1>3. pc' \in Locations /\ pc' \in WriteLocations
  BY <1>1 DEF Locations, WriteLocations
<1>4. QED
  BY <1>1, <1>2, <1>3 DEF TypeOK

LEMMA TypeStep == TypeOK /\ [Next]_vars => TypeOK'
<1> SUFFICES ASSUME TypeOK, [Next]_vars PROVE TypeOK'
  OBVIOUS
<1> USE ContentsFacts, LoadedType, SentinelFacts, ReturnFacts, BudgetFacts
        DEF TypeOK, Locations, BootLocations, WriteLocations, Goto,
        ClearJournal, NothingLoaded, history, local, disk
<1>1. ASSUME NEW f \in Files, BeginWrite(f) PROVE TypeOK'
  BY <1>1, BeginWriteType
<1>2. ASSUME NEW f \in Files, Damage(f) PROVE TypeOK'
  BY <1>2 DEF Damage, budget
<1>3. CASE WriteTmp
  BY <1>3 DEF WriteTmp
<1>4. CASE TruncateJournal
  BY <1>4 DEF TruncateJournal
<1>5. CASE WriteJournal
  BY <1>5 DEF WriteJournal
<1>6. CASE RemoveBackup
  BY <1>6 DEF RemoveBackup
<1>7. CASE MoveToBackup
  BY <1>7 DEF MoveToBackup
<1>8. CASE NoPrimary
  BY <1>8 DEF NoPrimary
<1>9. CASE Replace
  BY <1>9 DEF Replace
<1>10. CASE Finish
  BY <1>10 DEF Finish
<1>11. CASE Publish
  BY <1>11 DEF Publish
<1>12. CASE WriteTmpFails
  BY <1>12 DEF WriteTmpFails
<1>13. CASE PrepareJournalFails
  BY <1>13 DEF PrepareJournalFails, JournalFails
<1>14. CASE BackedUpJournalFails
  BY <1>14 DEF BackedUpJournalFails, JournalFails
<1>15. CASE CommittedJournalFails
  BY <1>15 DEF CommittedJournalFails, JournalFails
<1>16. CASE MoveToBackupFails
  BY <1>16 DEF MoveToBackupFails
<1>17. CASE StatFails
  BY <1>17 DEF StatFails
<1>18. CASE ReplaceFails
  BY <1>18 DEF ReplaceFails
<1>19. CASE UndoBackup
  BY <1>19 DEF UndoBackup
<1>20. CASE UndoBackupFails
  BY <1>20 DEF UndoBackupFails
<1>21. CASE Abort
  BY <1>21 DEF Abort
<1>22. CASE Start
  BY <1>22 DEF Start
<1>23. CASE NothingToRecover
  BY <1>23 DEF NothingToRecover
<1>24. CASE Quarantine
  BY <1>24 DEF Quarantine
<1>25. CASE QuarantineFails
  BY <1>25 DEF QuarantineFails
<1>26. CASE BeginRestore
  BY <1>26 DEF BeginRestore
<1>27. CASE Restore
  BY <1>27 DEF Restore
<1>28. CASE RestoreFails
  BY <1>28 DEF RestoreFails
<1>29. CASE KeepPrimary
  BY <1>29 DEF KeepPrimary
<1>30. CASE FinishRecovery
  BY <1>30 DEF FinishRecovery
<1>31. CASE Load
  BY <1>31 DEF Load
<1>32. CASE Crash
  <2>1. mem' \in [Files -> Nat]
    BY <1>32 DEF Crash
  <2>2. pc' \notin WriteLocations /\ file' \notin Files
    BY <1>32 DEF Crash
  <2>3. /\ pc' \in Locations /\ file' \in Files \union {NoFile}
        /\ new' \in Contents /\ hadPrimary' \in BOOLEAN
    BY <1>32 DEF Crash
  <2>4. /\ degraded' \subseteq Files /\ exposed' \subseteq Files
        /\ crashes' \in Nat /\ faults' \in Nat /\ damages' \in Nat
    BY <1>32 DEF Crash
  <2>5. /\ primary' \in [Files -> Contents] /\ backup' \in [Files -> Contents]
        /\ tmp' \in [Files -> Contents] /\ floor' \in [Files -> Nat] /\ writes' \in Nat
        /\ journal' \in Files \union {NoJournal, TornJournal}
    BY <1>32 DEF Crash
  <2>6. QED
    BY <2>1, <2>2, <2>3, <2>4, <2>5
<1>33. CASE UNCHANGED vars
  BY <1>33 DEF vars, budget
<1>34. QED
  BY <1>1, <1>2, <1>3, <1>4, <1>5, <1>6, <1>7, <1>8, <1>9, <1>10, <1>11, <1>12, <1>13, <1>14,
     <1>15, <1>16, <1>17, <1>18, <1>19, <1>20, <1>21, <1>22, <1>23, <1>24, <1>25, <1>26, <1>27,
     <1>28, <1>29, <1>30, <1>31, <1>32, <1>33
     DEF Next, WriteStep, WriteFault, RecoveryStep

LEMMA LoadedFacts ==
    ASSUME TypeOK, NEW f \in Files, CopiesSound(f)
    PROVE  /\ Valid(primary[f]) => Loaded(f) = primary[f]
           /\ ~Valid(primary[f]) /\ Valid(backup[f]) => Loaded(f) = backup[f]
           /\ ~Valid(primary[f]) /\ ~Valid(backup[f]) => Loaded(f).id = 0
  BY ContentsFacts DEF TypeOK, CopiesSound, Loaded

LEMMA WriterFile == TypeOK /\ pc \in WriteLocations => file \in Files
  BY DEF TypeOK

\* The copies of g, and the history kept of them, are untouched by a step.
Same(g) ==
    /\ primary'[g] = primary[g] /\ backup'[g] = backup[g] /\ floor'[g] = floor[g]
    /\ g \in degraded' <=> g \in degraded
    /\ g \in exposed' <=> g \in exposed

LEMMA CopiesFrame ==
    ASSUME TypeOK, CopiesInv, writes' \in Nat, writes' >= writes, NEW g \in Files, Same(g)
    PROVE  CopiesSound(g)'
  BY ContentsFacts DEF CopiesInv, CopiesSound, Same, Loaded, TypeOK

LEMMA CopiesKept ==
    ASSUME TypeOK, CopiesInv, UNCHANGED <<primary, backup, floor, degraded, exposed, writes>>
    PROVE  CopiesInv'
  BY CopiesFrame DEF CopiesInv, Same, TypeOK

-----------------------------------------------------------------------------

LEMMA InvariantStep == IInv /\ [Next]_vars => IInv'
<1> SUFFICES ASSUME IInv, [Next]_vars PROVE IInv'
  OBVIOUS
<1> TypeOK'
  BY TypeStep DEF IInv
<1> USE DEF IInv, Goto, Return, disk, history, local
<1>1. CASE RemoveBackup
  <2>1. CopiesInv'
    <3>1. file \in Files
      BY <1>1, WriterFile DEF RemoveBackup, WriteLocations
    <3>2. \A g \in Files \ {file} : Same(g)
      BY <1>1 DEF RemoveBackup, Same, TypeOK
    <3>3. CopiesSound(file)'
      <4>1. /\ UNCHANGED <<primary, floor, degraded, writes, file>>
            /\ backup'[file] \in {Absent, backup[file]}
            /\ file \in exposed' <=> (file \in exposed \/ file \in degraded)
        BY <1>1, <3>1 DEF RemoveBackup, TypeOK
      <4>2. CopiesSound(file) /\ primary[file] \in Contents /\ backup[file] \in Contents
        BY <3>1 DEF CopiesInv, TypeOK
      <4>3. /\ floor'[file] <= writes'
            /\ \A c \in {primary'[file], backup'[file]} :
                   c.id <= writes' /\ (Valid(c) => c.id >= 1)
            /\ Valid(primary'[file]) /\ Valid(backup'[file]) =>
                   /\ primary'[file].gen > backup'[file].gen
                   /\ primary'[file].id > backup'[file].id
        <5>1. 0 <= writes /\ Absent.id = 0 /\ ~Valid(Absent)
          BY DEF TypeOK, Absent, Valid
        <5>2. CASE backup'[file] = backup[file]
          BY <4>1, <4>2, <5>2 DEF CopiesSound
        <5>3. CASE backup'[file] = Absent
          BY <4>1, <4>2, <5>1, <5>3 DEF CopiesSound
        <5>4. QED
          BY <4>1, <5>2, <5>3
      <4>4. file \in degraded' => Loaded(file)'.id = 0 \/ Loaded(file)'.id >= floor'[file]
        BY <4>1, <4>2, ContentsFacts DEF CopiesSound, Loaded, TypeOK
      <4>5. file \in exposed' <=> file \in degraded'
        BY <4>1, <4>2 DEF CopiesSound
      <4>6. QED
        BY <4>1, <4>3, <4>4, <4>5 DEF CopiesSound
    <3>4. QED
      BY <1>1, <3>1, <3>2, <3>3, CopiesFrame DEF RemoveBackup, CopiesInv, TypeOK
  <2>2. WriterInv'
    BY <1>1, ContentsFacts DEF RemoveBackup, TypeOK, WriterInv, BeforeReplace
  <2>3. RestoreInv'
    BY <1>1 DEF RemoveBackup, RestoreInv
  <2>4. SoundInv'
    BY <1>1 DEF RemoveBackup, TypeOK, SoundInv, Sound, InGap
  <2>5. QED
    BY <2>1, <2>2, <2>3, <2>4
<1>2. CASE MoveToBackup
  <2>1. CopiesInv'
    <3>1. file \in Files
      BY <1>2, WriterFile DEF MoveToBackup, WriteLocations
    <3>2. \A g \in Files \ {file} : Same(g)
      BY <1>2 DEF MoveToBackup, Same
    <3>3. CopiesSound(file)'
      BY <1>2, <3>1, ContentsFacts
         DEF MoveToBackup, CopiesInv, CopiesSound, Loaded, TypeOK, WriterInv, BeforeReplace
    <3>4. QED
      BY <1>2, <3>1, <3>2, <3>3, CopiesFrame DEF MoveToBackup, CopiesInv, TypeOK
  <2>2. WriterInv'
    BY <1>2, ContentsFacts DEF MoveToBackup, TypeOK, WriterInv, BeforeReplace
  <2>3. RestoreInv'
    BY <1>2 DEF MoveToBackup, RestoreInv
  <2>4. SoundInv'
    BY <1>2 DEF MoveToBackup, TypeOK, SoundInv, Sound, InGap, WriterInv
  <2>5. QED
    BY <2>1, <2>2, <2>3, <2>4
<1>3. CASE Replace
  <2>1. CopiesInv'
    <3>1. file \in Files
      BY <1>3, WriterFile DEF Replace, WriteLocations
    <3>2. \A g \in Files \ {file} : Same(g)
      BY <1>3 DEF Replace, Same
    <3>3. CopiesSound(file)'
      BY <1>3, <3>1 DEF Replace, CopiesInv, CopiesSound, TypeOK, WriterInv, BeforeReplace
    <3>4. QED
      BY <1>3, <3>1, <3>2, <3>3, CopiesFrame DEF Replace, CopiesInv, TypeOK
  <2>2. WriterInv'
    BY <1>3 DEF Replace, TypeOK, WriterInv, BeforeReplace
  <2>3. RestoreInv'
    BY <1>3 DEF Replace, RestoreInv
  <2>4. SoundInv'
    BY <1>3 DEF Replace, TypeOK, SoundInv, Sound, InGap, WriterInv, BeforeReplace
  <2>5. QED
    BY <2>1, <2>2, <2>3, <2>4
<1>4. CASE UndoBackup
  <2>1. CopiesInv'
    <3>1. file \in Files
      BY <1>4, WriterFile DEF UndoBackup, WriteLocations
    <3>2. \A g \in Files \ {file} : Same(g)
      BY <1>4 DEF UndoBackup, Same
    <3>3. CopiesSound(file)'
      BY <1>4, <3>1, ContentsFacts
         DEF UndoBackup, CopiesInv, CopiesSound, Loaded, TypeOK, WriterInv
    <3>4. QED
      BY <1>4, <3>1, <3>2, <3>3, CopiesFrame DEF UndoBackup, CopiesInv, TypeOK
  <2>2. WriterInv'
    BY <1>4 DEF UndoBackup, WriterInv, BeforeReplace
  <2>3. RestoreInv'
    BY <1>4 DEF UndoBackup, RestoreInv
  <2>4. SoundInv'
    BY <1>4, ContentsFacts DEF UndoBackup, TypeOK, SoundInv, Sound, InGap, WriterInv
  <2>5. QED
    BY <2>1, <2>2, <2>3, <2>4
<1>5. CASE UndoBackupFails
  <2>1. CopiesInv'
    <3>1. file \in Files
      BY <1>5, WriterFile DEF UndoBackupFails, WriteLocations
    <3>2. \A g \in Files \ {file} : Same(g)
      BY <1>5 DEF UndoBackupFails, Same
    <3>3. CopiesSound(file)'
      BY <1>5, <3>1, ContentsFacts
         DEF UndoBackupFails, CopiesInv, CopiesSound, Loaded, TypeOK, SoundInv, Sound
    <3>4. QED
      BY <1>5, <3>1, <3>2, <3>3, CopiesFrame DEF UndoBackupFails, CopiesInv, TypeOK
  <2>2. WriterInv'
    BY <1>5 DEF UndoBackupFails, WriterInv, BeforeReplace
  <2>3. RestoreInv'
    BY <1>5 DEF UndoBackupFails, RestoreInv
  <2>4. SoundInv'
    BY <1>5 DEF UndoBackupFails, SoundInv, Sound, InGap
  <2>5. QED
    BY <2>1, <2>2, <2>3, <2>4
<1>6. CASE Publish
  <2>1. CopiesInv'
    <3>1. PICK g \in Files : g = file
      BY <1>6, WriterFile DEF Publish, WriteLocations
    <3>2. \A h \in Files \ {g} : Same(h)
      BY <1>6, <3>1 DEF Publish, Same
    <3>3. /\ UNCHANGED <<primary, backup, degraded, exposed, writes>>
          /\ floor'[g] = new.id
      BY <1>6, <3>1 DEF Publish, TypeOK
    <3>4. Valid(primary[g]) /\ primary[g] = new
      BY <1>6, <3>1 DEF Publish, WriterInv
    <3>5. Loaded(g)' = Loaded(g) /\ Loaded(g) = new /\ CopiesSound(g)
      BY <3>1, <3>3, <3>4, LoadedFacts DEF Loaded, CopiesInv
    <3>6. CopiesSound(g)'
      BY <3>1, <3>3, <3>4, <3>5 DEF CopiesSound, TypeOK
    <3>7. writes' \in Nat /\ writes' >= writes
      BY <3>3 DEF TypeOK
    <3>8. \A h \in Files : CopiesSound(h)'
      BY <3>2, <3>6, <3>7, CopiesFrame
    <3>9. QED
      BY <3>8 DEF CopiesInv
  <2>2. WriterInv'
    BY <1>6 DEF Publish, WriterInv, BeforeReplace
  <2>3. RestoreInv'
    BY <1>6 DEF Publish, RestoreInv
  <2>4. SoundInv'
    BY <1>6 DEF Publish, TypeOK, SoundInv, Sound, InGap, WriterInv
  <2>5. QED
    BY <2>1, <2>2, <2>3, <2>4
<1>7. CASE BeginRestore
  <2>1. CopiesInv'
    <3>1. journal \in Files
      BY <1>7 DEF BeginRestore
    <3>2. \A g \in Files \ {journal} : Same(g)
      BY <1>7 DEF BeginRestore, Same
    <3>3. CopiesSound(journal)'
      <4>1. /\ primary'[journal] = Absent
            /\ UNCHANGED <<backup, floor, degraded, exposed, writes, journal>>
        BY <1>7, <3>1 DEF BeginRestore, TypeOK
      <4>2. CopiesSound(journal)
        BY <3>1 DEF CopiesInv
      <4>3. ~Valid(primary[journal])
        BY <1>7, <3>1, <4>2, ContentsFacts
           DEF BeginRestore, MustRestore, CopiesSound, TypeOK, Valid, Exists
      <4>4. Loaded(journal)'.id = Loaded(journal).id
        BY <3>1, <4>1, <4>3, ContentsFacts DEF Loaded, TypeOK
      <4>5. QED
        BY <3>1, <4>1, <4>2, <4>4, ContentsFacts DEF CopiesSound, TypeOK
    <3>4. QED
      BY <1>7, <3>1, <3>2, <3>3, CopiesFrame DEF BeginRestore, CopiesInv, TypeOK
  <2>2. WriterInv'
    BY <1>7 DEF BeginRestore, WriterInv, BeforeReplace
  <2>3. RestoreInv'
    BY <1>7 DEF BeginRestore, TypeOK, RestoreInv
  <2>4. SoundInv'
    BY <1>7, ContentsFacts
       DEF BeginRestore, TypeOK, SoundInv, Sound, InGap, MustRestore, CopiesInv, CopiesSound
  <2>5. QED
    BY <2>1, <2>2, <2>3, <2>4
<1>8. CASE Restore
  <2>1. CopiesInv'
    <3>1. journal \in Files
      BY <1>8 DEF Restore, RestoreInv
    <3>2. \A g \in Files \ {journal} : Same(g)
      BY <1>8 DEF Restore, Same
    <3>3. CopiesSound(journal)'
      BY <1>8, <3>1, ContentsFacts
         DEF Restore, CopiesInv, CopiesSound, Loaded, TypeOK, BeforeReplace, RestoreInv
    <3>4. QED
      BY <1>8, <3>1, <3>2, <3>3, CopiesFrame DEF Restore, CopiesInv, TypeOK
  <2>2. WriterInv'
    BY <1>8 DEF Restore, WriterInv, BeforeReplace
  <2>3. RestoreInv'
    BY <1>8 DEF Restore, RestoreInv
  <2>4. SoundInv'
    BY <1>8, ContentsFacts, SentinelFacts
       DEF Restore, TypeOK, SoundInv, Sound, InGap, RestoreInv, CopiesInv, CopiesSound, Loaded
  <2>5. QED
    BY <2>1, <2>2, <2>3, <2>4
<1>9. CASE Quarantine
  <2>1. CopiesInv'
    <3>1. UNCHANGED <<primary, backup, floor, exposed, writes>>
      BY <1>9 DEF Quarantine
    <3>2. ASSUME NEW g \in Files PROVE CopiesSound(g)'
      <4>1. CASE g \in degraded' <=> g \in degraded
        BY <3>1, <4>1, CopiesFrame DEF Same, TypeOK
      <4>2. CASE g \in degraded' /\ g \notin degraded
        <5>1. ~Exists(primary[g]) /\ Exists(backup[g])
          BY <1>9, <4>2 DEF Quarantine
        <5>2. Valid(backup[g]) /\ backup[g].id >= floor[g] /\ ~Valid(primary[g])
          BY <4>2, <5>1 DEF SoundInv, Sound, Valid, Exists
        <5>3. CopiesSound(g) /\ g \notin exposed
          BY <4>2 DEF CopiesInv, CopiesSound
        <5>4. Loaded(g)' = backup[g]
          BY <3>1, <5>2 DEF Loaded
        <5>5. QED
          BY <3>1, <5>2, <5>3, <5>4 DEF CopiesSound
      <4>3. QED
        BY <1>9, <4>1, <4>2 DEF Quarantine
    <3>3. QED
      BY <3>2 DEF CopiesInv
  <2>2. WriterInv'
    BY <1>9 DEF Quarantine, WriterInv, BeforeReplace
  <2>3. RestoreInv'
    BY <1>9 DEF Quarantine, RestoreInv
  <2>4. SoundInv'
    BY <1>9, ContentsFacts DEF Quarantine, TypeOK, SoundInv, Sound
  <2>5. QED
    BY <2>1, <2>2, <2>3, <2>4
<1>10. CASE Load
  <2>1. CopiesInv'
    BY <1>10 DEF Load, CopiesInv, CopiesSound, Loaded, TypeOK
  <2>2. WriterInv'
    BY <1>10 DEF Load, WriterInv, BeforeReplace
  <2>3. RestoreInv'
    BY <1>10 DEF Load, RestoreInv
  <2>4. SoundInv'
    BY <1>10, ContentsFacts
       DEF Load, TypeOK, SoundInv, Sound, InGap, CopiesInv, CopiesSound, Loaded
  <2>5. QED
    BY <2>1, <2>2, <2>3, <2>4
<1>11. CASE WriteTmp
  <2>1. CopiesInv'
    BY <1>11, CopiesKept DEF WriteTmp
  <2>2. WriterInv'
    BY <1>11 DEF WriteTmp, TypeOK, WriterInv, BeforeReplace
  <2>3. RestoreInv'
    BY <1>11 DEF WriteTmp, RestoreInv
  <2>4. SoundInv'
    BY <1>11 DEF WriteTmp, SoundInv, Sound, InGap
  <2>5. QED
    BY <2>1, <2>2, <2>3, <2>4
<1>12. CASE TruncateJournal
  <2>1. CopiesInv'
    BY <1>12, CopiesKept DEF TruncateJournal
  <2>2. WriterInv'
    BY <1>12 DEF TruncateJournal, WriterInv, BeforeReplace
  <2>3. RestoreInv'
    BY <1>12 DEF TruncateJournal, RestoreInv
  <2>4. SoundInv'
    BY <1>12 DEF TruncateJournal, SoundInv, Sound, InGap
  <2>5. QED
    BY <2>1, <2>2, <2>3, <2>4
<1>13. CASE WriteJournal
  <2>1. CopiesInv'
    BY <1>13, CopiesKept DEF WriteJournal
  <2>2. WriterInv'
    BY <1>13 DEF WriteJournal, WriterInv, BeforeReplace
  <2>3. RestoreInv'
    BY <1>13 DEF WriteJournal, RestoreInv
  <2>4. SoundInv'
    BY <1>13 DEF WriteJournal, SoundInv, Sound, InGap, WriterInv
  <2>5. QED
    BY <2>1, <2>2, <2>3, <2>4
<1>14. CASE WriteTmpFails
  <2>1. CopiesInv'
    BY <1>14, CopiesKept DEF WriteTmpFails
  <2>2. WriterInv'
    BY <1>14 DEF WriteTmpFails, WriterInv, BeforeReplace
  <2>3. RestoreInv'
    BY <1>14 DEF WriteTmpFails, RestoreInv
  <2>4. SoundInv'
    BY <1>14 DEF WriteTmpFails, SoundInv, Sound, InGap
  <2>5. QED
    BY <2>1, <2>2, <2>3, <2>4
<1>15. CASE PrepareJournalFails
  <2>1. CopiesInv'
    BY <1>15, CopiesKept DEF PrepareJournalFails, JournalFails
  <2>2. WriterInv'
    BY <1>15 DEF PrepareJournalFails, JournalFails, WriterInv, BeforeReplace
  <2>3. RestoreInv'
    BY <1>15 DEF PrepareJournalFails, JournalFails, RestoreInv
  <2>4. SoundInv'
    BY <1>15 DEF PrepareJournalFails, JournalFails, SoundInv, Sound, InGap
  <2>5. QED
    BY <2>1, <2>2, <2>3, <2>4
<1>16. CASE BackedUpJournalFails
  <2>1. CopiesInv'
    BY <1>16, CopiesKept DEF BackedUpJournalFails, JournalFails
  <2>2. WriterInv'
    BY <1>16 DEF BackedUpJournalFails, JournalFails, WriterInv, BeforeReplace
  <2>3. RestoreInv'
    BY <1>16 DEF BackedUpJournalFails, JournalFails, RestoreInv
  <2>4. SoundInv'
    BY <1>16 DEF BackedUpJournalFails, JournalFails, SoundInv, Sound, InGap
  <2>5. QED
    BY <2>1, <2>2, <2>3, <2>4
<1>17. CASE CommittedJournalFails
  <2>1. CopiesInv'
    BY <1>17, CopiesKept DEF CommittedJournalFails, JournalFails
  <2>2. WriterInv'
    BY <1>17 DEF CommittedJournalFails, JournalFails, WriterInv, BeforeReplace
  <2>3. RestoreInv'
    BY <1>17 DEF CommittedJournalFails, JournalFails, RestoreInv
  <2>4. SoundInv'
    BY <1>17 DEF CommittedJournalFails, JournalFails, SoundInv, Sound, InGap
  <2>5. QED
    BY <2>1, <2>2, <2>3, <2>4
<1>18. CASE MoveToBackupFails
  <2>1. CopiesInv'
    BY <1>18, CopiesKept DEF MoveToBackupFails
  <2>2. WriterInv'
    BY <1>18 DEF MoveToBackupFails, WriterInv, BeforeReplace
  <2>3. RestoreInv'
    BY <1>18 DEF MoveToBackupFails, RestoreInv
  <2>4. SoundInv'
    BY <1>18 DEF MoveToBackupFails, SoundInv, Sound, InGap
  <2>5. QED
    BY <2>1, <2>2, <2>3, <2>4
<1>19. CASE NoPrimary
  <2>1. CopiesInv'
    BY <1>19, CopiesKept DEF NoPrimary
  <2>2. WriterInv'
    <3>1. file \in Files
      BY <1>19, WriterFile DEF NoPrimary, WriteLocations
    <3>2. primary[file] = Absent
      BY <1>19, <3>1, ContentsFacts DEF NoPrimary, TypeOK
    <3>3. QED
      BY <1>19, <3>2 DEF NoPrimary, WriterInv, BeforeReplace
  <2>3. RestoreInv'
    BY <1>19 DEF NoPrimary, RestoreInv
  <2>4. SoundInv'
    BY <1>19 DEF NoPrimary, SoundInv, Sound, InGap
  <2>5. QED
    BY <2>1, <2>2, <2>3, <2>4
<1>20. CASE StatFails
  <2>1. CopiesInv'
    BY <1>20, CopiesKept DEF StatFails
  <2>2. WriterInv'
    BY <1>20 DEF StatFails, WriterInv, BeforeReplace
  <2>3. RestoreInv'
    BY <1>20 DEF StatFails, RestoreInv
  <2>4. SoundInv'
    BY <1>20 DEF StatFails, SoundInv, Sound, InGap
  <2>5. QED
    BY <2>1, <2>2, <2>3, <2>4
<1>21. CASE ReplaceFails
  <2>1. CopiesInv'
    BY <1>21, CopiesKept DEF ReplaceFails
  <2>2. WriterInv'
    BY <1>21 DEF ReplaceFails, WriterInv, BeforeReplace
  <2>3. RestoreInv'
    BY <1>21 DEF ReplaceFails, RestoreInv
  <2>4. SoundInv'
    BY <1>21 DEF ReplaceFails, SoundInv, Sound, InGap
  <2>5. QED
    BY <2>1, <2>2, <2>3, <2>4
<1>22. CASE Abort
  <2>1. CopiesInv'
    BY <1>22, CopiesKept DEF Abort
  <2>2. WriterInv'
    BY <1>22 DEF Abort, WriterInv, BeforeReplace
  <2>3. RestoreInv'
    BY <1>22 DEF Abort, RestoreInv
  <2>4. SoundInv'
    BY <1>22 DEF Abort, SoundInv, Sound, InGap
  <2>5. QED
    BY <2>1, <2>2, <2>3, <2>4
<1>23. CASE Finish
  <2>1. CopiesInv'
    BY <1>23, CopiesKept DEF Finish
  <2>2. WriterInv'
    BY <1>23 DEF Finish, WriterInv, BeforeReplace
  <2>3. RestoreInv'
    BY <1>23 DEF Finish, RestoreInv
  <2>4. SoundInv'
    BY <1>23 DEF Finish, SoundInv, Sound, InGap
  <2>5. QED
    BY <2>1, <2>2, <2>3, <2>4
<1>24. CASE Start
  <2>1. CopiesInv'
    BY <1>24, CopiesKept DEF Start
  <2>2. WriterInv'
    BY <1>24 DEF Start, WriterInv, BeforeReplace
  <2>3. RestoreInv'
    BY <1>24 DEF Start, RestoreInv
  <2>4. SoundInv'
    BY <1>24 DEF Start, SoundInv, Sound, InGap
  <2>5. QED
    BY <2>1, <2>2, <2>3, <2>4
<1>25. CASE NothingToRecover
  <2>1. CopiesInv'
    BY <1>25, CopiesKept DEF NothingToRecover
  <2>2. WriterInv'
    BY <1>25 DEF NothingToRecover, WriterInv, BeforeReplace
  <2>3. RestoreInv'
    BY <1>25 DEF NothingToRecover, RestoreInv
  <2>4. SoundInv'
    BY <1>25, StoreAssumption DEF NothingToRecover, SoundInv, Sound, InGap
  <2>5. QED
    BY <2>1, <2>2, <2>3, <2>4
<1>26. CASE QuarantineFails
  <2>1. CopiesInv'
    BY <1>26, CopiesKept DEF QuarantineFails
  <2>2. WriterInv'
    BY <1>26 DEF QuarantineFails, WriterInv, BeforeReplace
  <2>3. RestoreInv'
    BY <1>26 DEF QuarantineFails, RestoreInv
  <2>4. SoundInv'
    BY <1>26 DEF QuarantineFails, SoundInv, Sound, InGap
  <2>5. QED
    BY <2>1, <2>2, <2>3, <2>4
<1>27. CASE RestoreFails
  <2>1. CopiesInv'
    BY <1>27, CopiesKept DEF RestoreFails
  <2>2. WriterInv'
    BY <1>27 DEF RestoreFails, WriterInv, BeforeReplace
  <2>3. RestoreInv'
    BY <1>27 DEF RestoreFails, RestoreInv
  <2>4. SoundInv'
    BY <1>27 DEF RestoreFails, SoundInv, Sound, InGap
  <2>5. QED
    BY <2>1, <2>2, <2>3, <2>4
<1>28. CASE KeepPrimary
  <2>1. CopiesInv'
    BY <1>28, CopiesKept DEF KeepPrimary
  <2>2. WriterInv'
    BY <1>28 DEF KeepPrimary, WriterInv, BeforeReplace
  <2>3. RestoreInv'
    BY <1>28 DEF KeepPrimary, RestoreInv
  <2>4. SoundInv'
    BY <1>28, ContentsFacts, SentinelFacts
       DEF KeepPrimary, TypeOK, SoundInv, Sound, InGap, MustRestore
  <2>5. QED
    BY <2>1, <2>2, <2>3, <2>4
<1>29. CASE FinishRecovery
  <2>1. CopiesInv'
    BY <1>29, CopiesKept DEF FinishRecovery
  <2>2. WriterInv'
    BY <1>29 DEF FinishRecovery, WriterInv, BeforeReplace
  <2>3. RestoreInv'
    BY <1>29 DEF FinishRecovery, RestoreInv
  <2>4. SoundInv'
    BY <1>29 DEF FinishRecovery, SoundInv, Sound, InGap
  <2>5. QED
    BY <2>1, <2>2, <2>3, <2>4
<1>30. CASE Crash
  <2>1. CopiesInv'
    BY <1>30, CopiesKept DEF Crash
  <2>2. WriterInv'
    BY <1>30 DEF Crash, WriterInv, BeforeReplace
  <2>3. RestoreInv'
    BY <1>30 DEF Crash, RestoreInv
  <2>4. SoundInv'
    BY <1>30 DEF Crash, SoundInv, Sound, InGap
  <2>5. QED
    BY <2>1, <2>2, <2>3, <2>4
<1>31. ASSUME NEW f \in Files, BeginWrite(f) PROVE IInv'
  <2>1. CopiesInv'
    <3>1. \A g \in Files : Same(g)
      BY <1>31 DEF BeginWrite, Same
    <3>2. writes' \in Nat /\ writes' >= writes
      BY <1>31 DEF BeginWrite, TypeOK
    <3>3. QED
      BY <3>1, <3>2, CopiesFrame DEF CopiesInv
  <2>2. WriterInv'
    <3>1. /\ UNCHANGED <<primary, backup, floor, degraded>> /\ file' = f /\ pc' = "tmp_open"
          /\ writes' = writes + 1
          /\ new' = Version(NextGeneration(f), writes + 1)
      BY <1>31 DEF BeginWrite
    <3>2. /\ NextGeneration(f) \in Nat /\ NextGeneration(f) > primary[f].gen
          /\ NextGeneration(f) > backup[f].gen
      <4>1. primary[f] \in Contents /\ backup[f] \in Contents
        BY DEF TypeOK
      <4>2. primary[f].gen \in Nat /\ backup[f].gen \in Nat
        BY <4>1, ContentsFacts
      <4>3. QED
        BY <4>2 DEF NextGeneration
    <3>3. Valid(new') /\ new'.gen = NextGeneration(f) /\ new'.id = writes'
      BY <3>1, <3>2 DEF Version, Valid
    <3>4. CopiesSound(f)
      BY DEF CopiesInv
    <3>5. floor[f] < writes' /\ \A c \in {primary[f], backup[f]} : c.id < writes'
      BY <3>1, <3>4, ContentsFacts DEF CopiesSound, TypeOK
    <3>6. QED
      BY <3>1, <3>2, <3>3, <3>5 DEF WriterInv
  <2>3. RestoreInv'
    BY <1>31 DEF BeginWrite, RestoreInv
  <2>4. SoundInv'
    BY <1>31 DEF BeginWrite, SoundInv, Sound, InGap
  <2>5. QED
    BY <2>1, <2>2, <2>3, <2>4
<1>32. ASSUME NEW f \in Files, Damage(f) PROVE IInv'
  <2>1. CopiesInv'
    <3>1. f \in Files
      OBVIOUS
    <3>2. \A g \in Files \ {f} : Same(g)
      BY <1>32 DEF Damage, Same
    <3>3. CopiesSound(f)'
      <4>1. /\ primary'[f] = Corrupt /\ floor'[f] = backup[f].id
            /\ f \in degraded'
            /\ UNCHANGED <<backup, exposed, writes>>
        BY <1>32 DEF Damage, TypeOK
      <4>2. CopiesSound(f)
        BY DEF CopiesInv
      <4>3. Valid(primary[f]) /\ (f \in exposed => f \in degraded)
        BY <1>32, <4>2 DEF Damage, CopiesSound
      <4>4. Loaded(f)'.id = backup[f].id
        BY <4>1, ContentsFacts DEF Loaded, TypeOK
      <4>5. QED
        BY <4>1, <4>2, <4>3, <4>4, ContentsFacts, LoadedType, ReturnFacts
           DEF CopiesSound, TypeOK
    <3>4. QED
      BY <1>32, <3>1, <3>2, <3>3, CopiesFrame DEF Damage, CopiesInv, TypeOK
  <2>2. WriterInv'
    BY <1>32 DEF Damage, WriterInv, BeforeReplace
  <2>3. RestoreInv'
    BY <1>32 DEF Damage, RestoreInv
  <2>4. SoundInv'
    BY <1>32, LoadedType, ReturnFacts DEF Damage, SoundInv, Sound, InGap
  <2>5. QED
    BY <2>1, <2>2, <2>3, <2>4
<1>33. CASE UNCHANGED vars
  BY <1>33, LoadedType, ReturnFacts
     DEF vars, CopiesInv, CopiesSound, Loaded, WriterInv, RestoreInv, SoundInv, Sound, InGap
<1>34. QED
  BY <1>1, <1>2, <1>3, <1>4, <1>5, <1>6, <1>7, <1>8, <1>9, <1>10, <1>11, <1>12, <1>13, <1>14,
     <1>15, <1>16, <1>17, <1>18, <1>19, <1>20, <1>21, <1>22, <1>23, <1>24, <1>25, <1>26, <1>27,
     <1>28, <1>29, <1>30, <1>31, <1>32, <1>33
     DEF Next, WriteStep, WriteFault, RecoveryStep

LEMMA InvariantInit == Init => IInv
<1> SUFFICES ASSUME Init PROVE IInv
  OBVIOUS
<1> USE ContentsFacts, SentinelFacts DEF Init
<1>1. \A f \in Files : primary[f] \in Contents /\ backup[f] = Absent
  OBVIOUS
<1>2. TypeOK
  BY <1>1, StoreAssumption DEF TypeOK, NothingLoaded, Locations, BootLocations, WriteLocations
<1>3. CopiesInv
  BY <1>1, <1>2 DEF CopiesInv, CopiesSound, Loaded, Absent, Version, Valid
<1>4. WriterInv /\ RestoreInv
  BY DEF WriterInv, RestoreInv, BeforeReplace
<1>5. SoundInv
  BY <1>1 DEF SoundInv, Sound, Absent, Version, Valid
<1>6. QED
  BY <1>2, <1>3, <1>4, <1>5 DEF IInv

\* The inductive invariant holds in every reachable state of the store.
THEOREM Invariant == Spec => []IInv
  BY InvariantInit, InvariantStep, PTL DEF Spec

\* Type correctness, for any set of files and any bounds.
THEOREM TypeCorrect == Spec => []TypeOK
<1>1. IInv => TypeOK
  BY DEF IInv
<1>2. QED
  BY <1>1, Invariant, PTL

LEMMA InvariantIsDurable == IInv => Durable
<1> SUFFICES ASSUME IInv, NEW f \in Files \ exposed PROVE Loaded(f).id >= floor[f]
  BY DEF Durable
<1>1. CopiesSound(f) /\ Sound(f)
  BY DEF IInv, CopiesInv, SoundInv
<1>2. CASE f \in degraded
  BY <1>1, <1>2 DEF CopiesSound
<1>3. CASE f \notin degraded
  <2>1. Valid(primary[f]) => Loaded(f) = primary[f]
    BY <1>1, LoadedFacts DEF IInv
  <2>2. primary[f] = Absent /\ Valid(backup[f]) => Loaded(f) = backup[f]
    BY <1>1, LoadedFacts, ContentsFacts DEF IInv
  <2>3. primary[f] = Absent /\ backup[f] = Absent => Loaded(f).id = 0
    BY <1>1, LoadedFacts, ContentsFacts DEF IInv
  <2>4. floor[f] \in Nat
    BY DEF IInv, TypeOK
  <2>5. QED
    BY <1>1, <1>3, <2>1, <2>2, <2>3, <2>4 DEF Sound
<1>4. QED
  BY <1>2, <1>3

\* No kill, at any instant and any number of times, and no failing system call
\* costs an acknowledged version of a file that was not exposed.
THEOREM Durability == Spec => []Durable
  BY InvariantIsDurable, Invariant, PTL

\* A version older than the newest acknowledged one is never loaded again.
THEOREM NothingResurrected == Spec => []NoResurrection
<1>1. IInv => NoResurrection
  <2> SUFFICES ASSUME IInv, NEW f \in Files
               PROVE  Loaded(f).id = 0 \/ Loaded(f).id >= floor[f]
    BY DEF NoResurrection
  <2>1. CASE f \in exposed
    BY <2>1 DEF IInv, CopiesInv, CopiesSound
  <2>2. CASE f \notin exposed
    BY <2>2, InvariantIsDurable DEF Durable
  <2>3. QED
    BY <2>1, <2>2
<1>2. QED
  BY <1>1, Invariant, PTL

\* Of two readable copies, the primary is the later one and has the larger
\* generation.
THEOREM GenerationsOrdered == Spec => []GenerationsOrderVersions
<1>1. IInv => GenerationsOrderVersions
  BY DEF IInv, CopiesInv, CopiesSound, GenerationsOrderVersions
<1>2. QED
  BY <1>1, Invariant, PTL

-----------------------------------------------------------------------------

LEMMA LoadedKept ==
    ASSUME UNCHANGED <<primary, backup>>, NEW f \in Files
    PROVE  Loaded(f)' = Loaded(f)
  BY DEF Loaded

LEMMA BeginRestoreKeeps ==
    ASSUME IInv, BeginRestore, NEW f \in Files
    PROVE  Loaded(f)'.id = Loaded(f).id
<1> USE ContentsFacts DEF IInv
<1>1. CASE f # journal
  BY <1>1 DEF BeginRestore, Loaded, TypeOK
<1>2. CASE f = journal
  <2>1. CopiesSound(f)
    BY DEF CopiesInv
  <2>2. ~Valid(primary[f])
    BY <1>2, <2>1 DEF BeginRestore, MustRestore, CopiesSound, TypeOK, Valid, Exists
  <2>3. primary'[f] = Absent /\ backup'[f] = backup[f]
    BY <1>2 DEF BeginRestore, TypeOK
  <2>4. QED
    BY <2>2, <2>3 DEF Loaded, TypeOK
<1>3. QED
  BY <1>1, <1>2

LEMMA RestoreKeeps ==
    ASSUME IInv, Restore, NEW f \in Files
    PROVE  Loaded(f)'.id = Loaded(f).id
<1> USE ContentsFacts DEF IInv
<1>1. CASE f # journal
  BY <1>1 DEF Restore, Loaded, TypeOK
<1>2. CASE f = journal
  <2>1. primary[f] = Absent
    BY <1>2 DEF Restore, RestoreInv
  <2>2. primary'[f] = backup[f] /\ backup'[f] = Absent
    BY <1>2 DEF Restore, TypeOK
  <2>3. QED
    BY <2>1, <2>2 DEF Loaded, TypeOK
<1>3. QED
  BY <1>1, <1>2

LEMMA RecoveryKeeps ==
    ASSUME IInv, RecoveryStep, NEW f \in Files
    PROVE  Loaded(f)'.id = Loaded(f).id
<1>1. CASE BeginRestore
  BY <1>1, BeginRestoreKeeps
<1>2. CASE Restore
  BY <1>2, RestoreKeeps
<1>3. CASE ~BeginRestore /\ ~Restore
  <2>1. UNCHANGED <<primary, backup>>
    BY <1>3 DEF RecoveryStep, Start, NothingToRecover, Quarantine, QuarantineFails,
       RestoreFails, KeepPrimary, FinishRecovery, Load, disk
  <2>2. QED
    BY <2>1, LoadedKept
<1>4. QED
  BY <1>1, <1>2, <1>3

\* Recovery, killed and repeated any number of times, changes no version.
THEOREM RecoveryDecidesNothing == Spec => RecoveryKeepsVersions
<1>1. IInv => [RecoveryStep => \A f \in Files : Loaded(f)'.id = Loaded(f).id]_vars
  BY RecoveryKeeps
<1>2. QED
  BY <1>1, Invariant, PTL DEF RecoveryKeepsVersions

\* A reader is shown a new version only if the next startup would load it too.
THEOREM PublicationIsDurable == Spec => PublishedIsDurable
<1> DEFINE Shown == \A f \in Files : mem'[f] # mem[f] /\ pc' = "idle"
                                         => Loaded(f)'.id = mem'[f]
<1>1. ASSUME IInv, [Next]_vars PROVE [Shown]_vars
  <2>1. CASE Publish
    <3>1. SUFFICES ASSUME NEW f \in Files, mem'[f] # mem[f]
                   PROVE  Loaded(f)'.id = mem'[f]
      OBVIOUS
    <3>2. f = file /\ mem'[f] = new.id
      BY <2>1, <3>1 DEF Publish, IInv, TypeOK
    <3>3. Valid(primary[f]) /\ primary[f] = new
      BY <1>1, <2>1, <3>2 DEF Publish, IInv, WriterInv
    <3>4. Loaded(f) = new
      BY <1>1, <3>3, LoadedFacts DEF IInv, CopiesInv
    <3>5. Loaded(f)' = Loaded(f)
      BY <2>1, LoadedKept DEF Publish, disk
    <3>6. QED
      BY <3>2, <3>4, <3>5
  <2>2. CASE Load
    <3>1. SUFFICES ASSUME NEW f \in Files
                   PROVE  Loaded(f)'.id = mem'[f]
      OBVIOUS
    <3>2. QED
      BY <2>2, LoadedKept DEF Load, disk
  <2>3. CASE mem' = mem \/ pc' # "idle"
    BY <2>3
  <2>4. Publish \/ Load \/ mem' = mem \/ pc' # "idle"
    BY <1>1 DEF Next, WriteStep, WriteFault, RecoveryStep, BeginWrite, Damage, Crash,
       WriteTmp, TruncateJournal, WriteJournal, RemoveBackup, MoveToBackup, NoPrimary,
       Replace, Finish, WriteTmpFails, PrepareJournalFails, BackedUpJournalFails,
       CommittedJournalFails, MoveToBackupFails, StatFails, ReplaceFails, UndoBackup,
       UndoBackupFails, Abort, Start, NothingToRecover, Quarantine, QuarantineFails,
       BeginRestore, Restore, RestoreFails, KeepPrimary, FinishRecovery, vars
  <2>5. QED
    BY <2>1, <2>2, <2>3, <2>4
<1>2. QED
  BY <1>1, Invariant, PTL DEF Spec, PublishedIsDurable

-----------------------------------------------------------------------------
(* Refinement: every step of the store is a step of the atomic register     *)
(* specification, or changes nothing of it.                                 *)

stored == [f \in Files |-> Loaded(f).id]
serving == pc \notin BootLocations

LEMMA InitRefines == Init => Register!Init
<1> SUFFICES ASSUME Init PROVE Register!Init
  OBVIOUS
<1>1. \A f \in Files : Loaded(f).id \in {0, 1}
  BY DEF Init, Loaded, Absent, Version, Valid
<1>2. pc \in BootLocations /\ mem = NothingLoaded /\ degraded = {}
  BY DEF Init, BootLocations
<1>3. QED
  BY <1>1, <1>2 DEF Register!Init, Register!NothingShown, NothingLoaded

\* A step after which a restart would load the same versions.
LEMMA StoredKept ==
    ASSUME \A f \in Files : Loaded(f)'.id = Loaded(f).id
    PROVE  stored' = stored
  BY DEF stored

\* A step that changes the version of one file only.
LEMMA StoredChanged ==
    ASSUME NEW f \in Files, NEW v, Loaded(f)'.id = v,
           \A g \in Files \ {f} : primary'[g] = primary[g] /\ backup'[g] = backup[g]
    PROVE  stored' = [stored EXCEPT ![f] = v]
<1>1. \A g \in Files \ {f} : Loaded(g)'.id = Loaded(g).id
  BY DEF Loaded
<1>2. QED
  BY <1>1 DEF stored

LEMMA Stutter ==
    ASSUME stored' = stored, UNCHANGED <<mem, degraded, serving>>
    PROVE  UNCHANGED Register!regvars
  BY DEF Register!regvars, stored, serving

\* Steps that move the writer or recovery along, and touch neither the state
\* file nor its backup.
LEMMA ControlRefines ==
    ASSUME \/ \E f \in Files : BeginWrite(f)
           \/ WriteTmp \/ TruncateJournal \/ WriteJournal \/ NoPrimary \/ Finish
           \/ WriteTmpFails \/ PrepareJournalFails \/ BackedUpJournalFails
           \/ CommittedJournalFails \/ MoveToBackupFails \/ StatFails \/ ReplaceFails
           \/ Abort \/ Start \/ NothingToRecover \/ QuarantineFails \/ RestoreFails
           \/ KeepPrimary \/ FinishRecovery
    PROVE  UNCHANGED Register!regvars
<1>1. UNCHANGED <<primary, backup, mem, degraded>>
  BY DEF BeginWrite, WriteTmp, TruncateJournal, WriteJournal, NoPrimary, Finish,
     WriteTmpFails, PrepareJournalFails, BackedUpJournalFails, CommittedJournalFails,
     MoveToBackupFails, StatFails, ReplaceFails, Abort, Start, NothingToRecover,
     QuarantineFails, RestoreFails, KeepPrimary, FinishRecovery, disk, history
<1>2. serving' = serving
  BY DEF BeginWrite, WriteTmp, TruncateJournal, WriteJournal, NoPrimary, Finish,
     WriteTmpFails, PrepareJournalFails, BackedUpJournalFails, CommittedJournalFails,
     MoveToBackupFails, StatFails, ReplaceFails, Abort, Start, NothingToRecover,
     QuarantineFails, RestoreFails, KeepPrimary, FinishRecovery, Goto, Return,
     serving, BootLocations
<1>3. stored' = stored
  BY <1>1, LoadedKept, StoredKept
<1>4. QED
  BY <1>1, <1>2, <1>3, Stutter

LEMMA StepRefines ==
    ASSUME IInv, [Next]_vars
    PROVE  [Register!Next]_(Register!regvars)
<1> USE ContentsFacts, SentinelFacts DEF IInv, Goto, Return, disk, history, local
<1>1. ASSUME Replace PROVE \E f \in Files : Register!Commit(f)
  <2>1. PICK f \in Files : f = file
    BY <1>1, WriterFile DEF Replace, WriteLocations
  <2>2. primary'[f] = new /\ backup' = backup /\ Valid(new) /\ degraded' = degraded \ {f}
    BY <1>1, <2>1 DEF Replace, WriterInv, BeforeReplace, TypeOK
  <2>3. backup[f].gen < new.gen /\ backup[f].id < new.id /\ primary[f].id < new.id
    BY <1>1, <2>1 DEF Replace, WriterInv, BeforeReplace
  <2>4. Loaded(f)'.id = new.id
    BY <1>1, <2>1, <2>2, <2>3 DEF Replace, Loaded, TypeOK
  <2>5. Loaded(f).id < new.id
    BY <2>3 DEF Loaded
  <2>6. stored' = [stored EXCEPT ![f] = new.id]
    <3>1. \A g \in Files \ {f} : primary'[g] = primary[g] /\ backup'[g] = backup[g]
      BY <1>1, <2>1 DEF Replace, TypeOK
    <3>2. PICK v : v = new.id
      OBVIOUS
    <3>3. stored' = [stored EXCEPT ![f] = v]
      BY <2>4, <3>1, <3>2, StoredChanged
    <3>4. QED
      BY <3>2, <3>3
  <2>7. Register!Commit(f)
    BY <1>1, <2>2, <2>5, <2>6 DEF Replace, Register!Commit, stored, BootLocations
  <2>8. QED
    BY <2>7
<1>2. ASSUME Publish PROVE Register!Publish(file)
  <2>1. file \in Files /\ Valid(primary[file]) /\ primary[file] = new
    BY <1>2, WriterFile DEF Publish, WriterInv, WriteLocations
  <2>2. Loaded(file).id = new.id
    BY <2>1, LoadedFacts DEF CopiesInv
  <2>3. stored' = stored
    BY <1>2, LoadedKept, StoredKept DEF Publish
  <2>4. QED
    BY <1>2, <2>1, <2>2, <2>3 DEF Publish, Register!Publish, stored, BootLocations
<1>3. ASSUME Crash PROVE Register!Crash
  <2>1. stored' = stored
    BY <1>3, LoadedKept, StoredKept DEF Crash
  <2>2. QED
    BY <1>3, <2>1 DEF Crash, Register!Crash, Register!NothingShown, NothingLoaded, stored,
       BootLocations
<1>4. ASSUME Load PROVE Register!Restart
  <2>1. stored' = stored
    BY <1>4, LoadedKept, StoredKept DEF Load
  <2>2. QED
    BY <1>4, <2>1 DEF Load, Register!Restart, stored, BootLocations
<1>5. ASSUME Quarantine \/ UndoBackupFails PROVE Register!Expose
  <2>1. UNCHANGED <<primary, backup, mem>>
    BY <1>5 DEF Quarantine, UndoBackupFails
  <2>2. stored' = stored
    BY <2>1, LoadedKept, StoredKept
  <2>3. \E F \in SUBSET Files : degraded' = degraded \union F
    BY <1>5, WriterFile DEF Quarantine, UndoBackupFails, WriteLocations
  <2>4. serving' = serving
    BY <1>5 DEF Quarantine, UndoBackupFails, serving, BootLocations
  <2>5. QED
    BY <2>1, <2>2, <2>3, <2>4 DEF Register!Expose, stored, serving
<1>6. ASSUME BeginRestore PROVE UNCHANGED Register!regvars
  <2>1. stored' = stored
    BY <1>6, BeginRestoreKeeps, StoredKept
  <2>2. QED
    BY <1>6, <2>1, Stutter DEF BeginRestore, serving, BootLocations
<1>7. ASSUME Restore
      PROVE  Register!Repair(journal) \/ UNCHANGED Register!regvars
  <2>1. stored' = stored
    BY <1>7, RestoreKeeps, StoredKept
  <2>2. UNCHANGED <<mem, serving>>
    BY <1>7 DEF Restore, serving, BootLocations
  <2>3. CASE degraded' = degraded \ {journal}
    BY <2>1, <2>2, <2>3 DEF Register!Repair, stored, serving
  <2>4. CASE degraded' = degraded
    BY <2>1, <2>2, <2>4, Stutter
  <2>5. QED
    BY <1>7, <2>3, <2>4 DEF Restore
<1>8. ASSUME RemoveBackup \/ MoveToBackup \/ UndoBackup
      PROVE  (\E f \in Files : Register!Lose(f)) \/ UNCHANGED Register!regvars
  <2>1. PICK f \in Files : f = file
    BY <1>8, WriterFile DEF RemoveBackup, MoveToBackup, UndoBackup, WriteLocations
  <2>2. UNCHANGED <<mem, degraded, serving>>
    BY <1>8 DEF RemoveBackup, MoveToBackup, UndoBackup, serving, BootLocations
  <2>3. \A g \in Files \ {f} : primary'[g] = primary[g] /\ backup'[g] = backup[g]
    BY <1>8, <2>1 DEF RemoveBackup, MoveToBackup, UndoBackup, TypeOK
  <2>4. Loaded(f)'.id = Loaded(f).id \/ (f \in degraded /\ Loaded(f)'.id = 0)
    <3>1. CopiesSound(f) /\ Sound(f)
      BY DEF CopiesInv, SoundInv
    <3>2. CASE RemoveBackup
      <4>1. primary'[f] = primary[f] /\ (backup'[f] = backup[f] \/ backup'[f] = Absent)
        BY <2>1, <3>2 DEF RemoveBackup, TypeOK
      <4>2. ~InGap(f)
        BY <2>1, <3>2 DEF RemoveBackup, InGap
      <4>3. CASE Valid(primary[f])
        <5>1. Loaded(f) = primary[f]
          BY <3>1, <4>3, LoadedFacts
        <5>2. Loaded(f)' = primary[f]
          <6>1. CASE backup'[f] = backup[f]
            BY <4>1, <5>1, <6>1 DEF Loaded
          <6>2. CASE backup'[f] = Absent
            BY <4>1, <6>2 DEF Loaded
          <6>3. QED
            BY <4>1, <6>1, <6>2
        <5>3. QED
          BY <5>1, <5>2
      <4>4. CASE ~Valid(primary[f]) /\ backup'[f] = Absent
        <5>1. primary[f].id = 0 /\ Loaded(f)' = primary[f]
          BY <4>1, <4>4 DEF Loaded, TypeOK
        <5>2. f \in degraded \/ (primary[f] = Absent /\ backup[f] = Absent)
          BY <3>1, <4>2, <4>4 DEF Sound
        <5>3. QED
          BY <5>1, <5>2 DEF Loaded
      <4>5. CASE backup'[f] = backup[f]
        BY <4>1, <4>5 DEF Loaded
      <4>6. QED
        BY <4>1, <4>3, <4>4, <4>5
    <3>3. CASE MoveToBackup
      <4>1. Exists(primary[f]) /\ primary'[f] = Absent /\ backup'[f] = primary[f]
        BY <2>1, <3>3 DEF MoveToBackup, TypeOK
      <4>2. CASE Valid(primary[f])
        <5>1. Loaded(f) = primary[f]
          BY <3>1, <4>2, LoadedFacts
        <5>2. Loaded(f)' = primary[f]
          BY <4>1, <4>2 DEF Loaded
        <5>3. QED
          BY <5>1, <5>2
      <4>3. CASE ~Valid(primary[f])
        <5>1. f \in degraded
          BY <3>1, <4>1, <4>3 DEF Sound, Exists
        <5>2. Loaded(f)' = Absent
          BY <4>1, <4>3 DEF Loaded
        <5>3. QED
          BY <5>1, <5>2
      <4>4. QED
        BY <4>2, <4>3
    <3>4. CASE UndoBackup
      <4>1. primary[f] = Absent /\ primary'[f] = backup[f] /\ backup'[f] = Absent
        BY <2>1, <3>4 DEF UndoBackup, WriterInv, TypeOK
      <4>2. CASE Valid(backup[f])
        <5>1. Loaded(f) = backup[f] /\ Loaded(f)' = backup[f]
          BY <4>1, <4>2 DEF Loaded
        <5>2. QED
          BY <5>1
      <4>3. CASE ~Valid(backup[f])
        <5>1. Loaded(f) = Absent /\ Loaded(f)' = backup[f] /\ backup[f].id = 0
          BY <4>1, <4>3 DEF Loaded, TypeOK
        <5>2. QED
          BY <5>1
      <4>4. QED
        BY <4>2, <4>3
    <3>5. QED
      BY <1>8, <3>2, <3>3, <3>4
  <2>5. CASE Loaded(f)'.id = Loaded(f).id
    <3>1. \A g \in Files \ {f} : Loaded(g)'.id = Loaded(g).id
      BY <2>3 DEF Loaded
    <3>2. stored' = stored
      BY <2>5, <3>1, StoredKept
    <3>3. QED
      BY <2>2, <3>2, Stutter
  <2>6. CASE f \in degraded /\ Loaded(f)'.id = 0
    <3>1. stored' = [stored EXCEPT ![f] = 0]
      BY <2>3, <2>6, StoredChanged
    <3>2. Register!Lose(f)
      BY <2>2, <2>6, <3>1 DEF Register!Lose, stored, serving
    <3>3. QED
      BY <3>2
  <2>7. QED
    BY <2>4, <2>5, <2>6
<1>9. ASSUME NEW f \in Files, Damage(f) PROVE Register!Damage(f)
  <2>1. primary'[f] = Corrupt /\ UNCHANGED <<backup, pc, mem>> /\ degraded' = degraded \union {f}
    BY <1>9 DEF Damage, TypeOK
  <2>2. Loaded(f)'.id = backup[f].id
    BY <2>1 DEF Loaded, TypeOK
  <2>3. Loaded(f).id >= backup[f].id
    <3>1. Valid(primary[f]) /\ CopiesSound(f)
      BY <1>9 DEF Damage, CopiesInv
    <3>2. Loaded(f) = primary[f]
      BY <3>1, LoadedFacts
    <3>3. primary[f].id >= backup[f].id
      BY <3>1 DEF CopiesSound, TypeOK
    <3>4. QED
      BY <3>2, <3>3
  <2>4. stored' = [stored EXCEPT ![f] = backup[f].id]
    <3>1. \A g \in Files \ {f} : primary'[g] = primary[g] /\ backup'[g] = backup[g]
      BY <1>9 DEF Damage, TypeOK
    <3>2. QED
      BY <2>2, <3>1, StoredChanged
  <2>5. QED
    BY <2>1, <2>3, <2>4 DEF Register!Damage, stored
<1>10. CASE UNCHANGED vars
  <2>1. stored' = stored
    BY <1>10, LoadedKept, StoredKept DEF vars
  <2>2. QED
    BY <1>10, <2>1, Stutter DEF vars, serving
<1>11. ASSUME Next PROVE Register!Next \/ UNCHANGED Register!regvars
  <2>1. CASE \E f \in Files : Damage(f)
    BY <2>1, <1>9 DEF Register!Next
  <2>2. CASE RemoveBackup \/ MoveToBackup \/ UndoBackup
    BY <2>2, <1>8 DEF Register!Next
  <2>3. CASE Restore
    BY <2>3, <1>7 DEF Register!Next, Restore, RestoreInv
  <2>4. CASE Publish
    BY <2>4, <1>2, WriterFile DEF Register!Next, Publish, WriteLocations
  <2>5. QED
    BY <1>11, <2>1, <2>2, <2>3, <2>4, <1>1, <1>3, <1>4, <1>5, <1>6, ControlRefines
       DEF Next, WriteStep, WriteFault, RecoveryStep, Register!Next
<1>12. QED
  BY <1>10, <1>11

\* The files of a state directory implement an atomic register per state file,
\* which only a register at risk may lose.
THEOREM Implementation == Spec => ImplementsRegister
  BY InitRefines, StepRefines, Invariant, PTL DEF Spec, ImplementsRegister, Register!Spec
=============================================================================
