CONSTANTS
    runtime = runtime
    atlas = atlas
    s1 = s1
    s2 = s2
    Private = {atlas}
    Repos <- MCRepos
    KeyRepos <- MCKeyRepos
    Governed <- MCRepos
    SeedRepos <- MCKeyRepos
    Syncs <- MCSyncs
    MaxHead = 2
    KeepEvents = 1
    Budget = 1
    forge = forge
    anna = anna
    Agents <- MCAgents
    Minute = 1
    RunawayMin = 3
    Tiers <- MCTierNames
    Sensitivity <- MCSensitivity
    Specificity <- MCSpecificity
    Prior <- MCPrior
    MinSamples = 10
    Alpha = 5
    MaxGate = 2
    BoundScale = 1000
    MaxOutcomes = 11
SPECIFICATION MCSpec
INVARIANTS
    UndisturbedSyncIsExact
    PrivateInventoryKept
    LateIsIgnored
    NewestRetained
    AutomaticWithinBudget
    OldExecutableKept
    FaultUndone
    QuietMeansCurrent
    WindowExact
    AlarmMeansCritical
    ZeroBoundIsDeclared
    AutonomyRestsOnAPass
PROPERTIES
    VerifiedHeadsForward
    PageCatchesUp
    OutcomesMoveSensitivity
CHECK_DEADLOCK FALSE
