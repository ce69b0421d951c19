SPECIFICATION FairMintedSpec
CONSTANTS
    m1 = m1
    m2 = m2
    s1 = s1
    s2 = s2
    s3 = s3
    Miners = {m1, m2}
    Shares = {s1, s2, s3}
    MinerOf <- FinderOf
    EpochOf <- BlobOf
    MaxEpoch = 5
    CollectRuns = {}
    Processors = {}
    Together = 1
    Solvers = {s1}
    RedisMayBeDown = FALSE
    BatchSize = 2
    EpochCountDelay = 1
    MaxSubmitted = 0
    InsertRuns = {r1, r2}
    CrawlRuns = {k1, k2}
    PoolBlocks = {1, 3, 4}
    PPLNSDEPTH = 2
    PoolMayBePoor = TRUE
    MaxMints = 5
    LateShares = FALSE
    MaxFaults = 2
    None = None
INVARIANTS RewardedOnce WithinReward NobodyForgotten StatusFourNever
PROPERTIES MintIsShared
