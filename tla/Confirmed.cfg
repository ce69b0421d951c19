SPECIFICATION FairQueuedSpec
CONSTANTS
    m1 = m1
    m2 = m2
    u1 = u1
    u2 = u2
    Miners = {m1}
    ValidMiners = {m1}
    Uuids = {u1}
    CustomMinPayout <- NoCustomPayout
    MinBalanceForTransfer = 1
    SweepMinimum = 0
    MinPaymentsInBatch = 1
    MaxTxInBatch = 2
    MaxEarned = 2
    BuildRuns = {}
    BatchRuns = {}
    BroadcastRuns = {c1}
    MonitorRuns = {o1}
    StuckRuns = {s1}
    StaleRuns = {a1}
    RequeueRuns = {q1}
    ToolRuns = {}
    StaleAfter = 0
    RequeueAfter = 0
    StrayMining = FALSE
    FundsMayRunOut = FALSE
    MaxSent = 2
    MaxBlock = 2
    MaxFaults = 0
    None = None
PROPERTIES PaidIsConfirmed
