SPECIFICATION FairSpec
CONSTANTS
    s1 = s1
    s2 = s2
    Solutions = {s1, s2}
    ChallengeOf <- SolvedBy
    BroadcastRuns = {b1, b2}
    MaxEpoch = 2
    MaxFaults = 1
    None = None
INVARIANTS TypeOK MinedSolutionIsKept
PROPERTIES PendingNotDisplaced QueueMovesOn
