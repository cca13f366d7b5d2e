SPECIFICATION Spec
CONSTANTS
    repo = repo
    sha1 = sha1
    sha2 = sha2
    Observations <- MCObservations
    Seeds <- MCSeeds
    Repos = {repo}
    Baseline = {repo}
    NoRepo = NoRepo
    DefaultSha = DefaultSha
    ZeroSha = ZeroSha
    SyncedShas = {sha1}
    NoSha = NoSha
    Torn = Torn
    NoTail = NoTail
    NoCursor = NoCursor
    ChainWindow = 2
    ReadWindow = 2
    MaxCrashes = 2
    MaxFaults = 0
INVARIANT AckedIsLogged
