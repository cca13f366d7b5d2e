SPECIFICATION Spec
CONSTANTS
    Files = {settings, agents}
    NoJournal = NoJournal
    TornJournal = TornJournal
    NoFile = NoFile
    MaxWrites = 4
    MaxCrashes = 2
    MaxFaults = 0
    MaxDamages = 0
SYMMETRY Symmetry
INVARIANT OldOrNewAfterCrash
CHECK_DEADLOCK FALSE
