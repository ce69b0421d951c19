SPECIFICATION LateSpec
CONSTANTS
    m1 = m1
    m2 = m2
    s1 = s1
    s2 = s2
    s3 = s3
    Miners = {m1}
    Shares = {s1, s3}
    MinerOf <- OneFinder
    EpochOf <- BlobOf
    MaxEpoch = 3
    CollectRuns = {c1}
    Processors = {p1}
    Together = 1
    Solvers = {}
    RedisMayBeDown = FALSE
    BatchSize = 2
    EpochCountDelay = 1
    MaxSubmitted = 2
    InsertRuns = {r1}
    CrawlRuns = {k1}
    PoolBlocks = {2}
    PPLNSDEPTH = 2
    PoolMayBePoor = FALSE
    MaxMints = 1
    LateShares = TRUE
    MaxFaults = 0
    None = None
INVARIANTS RewardedOnce
