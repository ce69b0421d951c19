SPECIFICATION FairSpec
CONSTANTS
    m1 = m1
    m2 = m2
    s1 = s1
    s2 = s2
    s3 = s3
    Miners = {m1, m2}
    Shares = {s1}
    MinerOf <- FinderOf
    EpochOf <- BlobOf
    MaxEpoch = 3
    CollectRuns = {c1}
    Processors = {p1, p2}
    Together = 1
    Solvers = {s1}
    RedisMayBeDown = FALSE
    BatchSize = 2
    EpochCountDelay = 0
    MaxSubmitted = 1
    InsertRuns = {}
    CrawlRuns = {}
    PoolBlocks = {}
    PPLNSDEPTH = 2
    PoolMayBePoor = TRUE
    MaxMints = 0
    LateShares = FALSE
    MaxFaults = 2
    None = None
INVARIANTS UsedAtMostOnce
PROPERTIES ShareIsHandled DataCatchesUp
