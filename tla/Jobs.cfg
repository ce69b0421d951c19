\* The last challenge is out and the miner has left: nothing more happens.
SPECIFICATION FairSpec
CONSTANTS
    Workers = {w1}
    Calls = {k1, k2}
    MaxEpoch = 2
    MaxLogins = 1
    MaxFaults = 1
INVARIANTS TypeOK 
PROPERTIES  WorkerCatchesUp RetargetLives
CHECK_DEADLOCK FALSE
