SPECIFICATION Spec
CONSTANTS
    m1 = m1
    m2 = m2
    u1 = u1
    u2 = u2
    Miners = {m1, m2}
    ValidMiners = {m1, m2}
    Uuids = {u1, u2}
    CustomMinPayout <- OneCustomPayout
    MinBalanceForTransfer = 2
    SweepMinimum = 0
    MinPaymentsInBatch = 1
    MaxTxInBatch = 2
    MaxEarned = 3
    BuildRuns = {b1, b2}
    BatchRuns = {k1, k2}
    BroadcastRuns = {}
    MonitorRuns = {}
    StuckRuns = {}
    StaleRuns = {}
    RequeueRuns = {}
    ToolRuns = {}
    StaleAfter = 0
    RequeueAfter = 0
    StrayMining = TRUE
    FundsMayRunOut = TRUE
    MaxSent = 0
    MaxBlock = 0
    MaxFaults = 1
    None = None
INVARIANTS NeverOverpaid BooksBalance StampedIsQueued
PROPERTIES BatchIsFinal
