CONSTANTS
    repo = repo
    sha1 = sha1
    sha2 = sha2
    Observations <- MCObservations
    Seeds <- MCSeeds
    Repos = {repo}
    Baseline = {}
    NoRepo = NoRepo
    DefaultSha = DefaultSha
    ZeroSha = ZeroSha
    SyncedShas = {}
    NoSha = NoSha
    Torn = Torn
    NoTail = NoTail
    NoCursor = NoCursor
    ChainWindow = 2
    ReadWindow = 2
    MaxCrashes = 0
    MaxFaults = 0
    op1 = op1
    op2 = op2
    d1 = d1
    none = none
    j1 = j1
    c1 = c1
    c2 = c2
    forge = forge
    anna = anna
    slot = slot
    NoId = NoId
    Actors <- MCActors
    Capabilities <- MCCapabilities
    Lifetimes <- MCLifetimes
    DefaultTTL = 1
    Decisions <- MCDecisions
    Unknown = none
    Jobs <- MCJobs
    Intents <- MCSharedId
    Clients <- MCClients
    MaxTime = 2
    MaxRequests = 4
SPECIFICATION MCSpec
INVARIANT OverlapIsWarned
CHECK_DEADLOCK FALSE
