SPECIFICATION Spec
CONSTANTS
    m1 = m1
    m2 = m2
    s1 = s1
    s2 = s2
    s3 = s3
    Miners = {m1, m2}
    Shares = {s1, s2, s3}
    MinerOf <- FinderOf
    EpochOf <- BlobOf
    MaxEpoch = 2
    CollectRuns = {c1}
    Processors = {p1, p2}
    Together = 1
    Solvers = {s1}
    RedisMayBeDown = TRUE
    BatchSize = 2
    EpochCountDelay = 1
    MaxSubmitted = 2
    InsertRuns = {}
    CrawlRuns = {}
    PoolBlocks = {}
    PPLNSDEPTH = 2
    PoolMayBePoor = TRUE
    MaxMints = 0
    LateShares = FALSE
    MaxFaults = 1
    None = None
INVARIANTS TypeOK UsedAtMostOnce TotalCoversMiners NothingLost
