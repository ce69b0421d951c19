SPECIFICATION Spec
CONSTANTS
    m1 = m1
    m2 = m2
    u1 = u1
    u2 = u2
    Miners = {m1}
    ValidMiners = {m1}
    Uuids = {u1, u2}
    CustomMinPayout <- NoCustomPayout
    MinBalanceForTransfer = 1
    SweepMinimum = 0
    MinPaymentsInBatch = 1
    MaxTxInBatch = 2
    MaxEarned = 2
    BuildRuns = {b1}
    BatchRuns = {k1}
    BroadcastRuns = {c1}
    MonitorRuns = {o1}
    StuckRuns = {}
    StaleRuns = {}
    RequeueRuns = {}
    ToolRuns = {t1}
    StaleAfter = 0
    RequeueAfter = 0
    StrayMining = TRUE
    FundsMayRunOut = TRUE
    MaxSent = 2
    MaxBlock = 0
    MaxFaults = 1
    None = None
INVARIANTS TypeOK PaidAtMostOnce
PROPERTIES KeepsTheLedger
