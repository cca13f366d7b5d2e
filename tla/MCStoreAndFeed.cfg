SPECIFICATION MCSpec
CONSTANTS
    Files = {settings, agents}
    NoJournal = NoJournal
    TornJournal = TornJournal
    NoFile = NoFile
    MaxWrites = 4
    MaxCrashes = 3
    MaxFaults = 2
    MaxDamages = 1
    forge = forge
    anna = anna
    Events <- MCEvents
    Prs <- MCPrs
    MinEvents = 2
    BurstMin = 2
    ChurnMin = 2
    MaxBlocks = 2
SYMMETRY Symmetry
INVARIANTS
    Durable
    NoResurrection
    GenerationsOrderVersions
    TamperEvident
    AnomaliesExact
    CollisionsExact
    HighRiskIsReviewed
PROPERTIES
    RecoveryKeepsVersions
    PublishedIsDurable
    ImplementsRegister
CHECK_DEADLOCK FALSE
