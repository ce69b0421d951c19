------------------------------ MODULE MCMining ------------------------------
(***************************************************************************)
(* MiningSystem on small instances for TLC.                                *)
(***************************************************************************)
EXTENDS MiningSystem

CONSTANTS m1, m2, s1, s2, s3

\* Two shares of one miner under the first blob, the third of another under the next.
FinderOf == [s \in Shares |-> IF s = s3 THEN m2 ELSE m1]
BlobOf == [s \in Shares |-> IF s = s3 THEN 2 ELSE 1]

TallyOf(shares) == [s \in Shares |-> IF s \in shares THEN 1 ELSE 0]

ContractOf(e) == [challenge |-> e, epoch |-> e, blob |-> e]

(***************************************************************************)
(* A state the pool reaches: the collector was down in epoch 1, m1 has     *)
(* found s1 in epoch 2 and m2 has found s3 in epoch 3, and the pool has    *)
(* mined the blocks of the epochs 1, 3 and 4; a scan has found the first.  *)
(* The window is two epochs, so m1 has a part in the block of epoch 3 and  *)
(* none in that of epoch 4, and m2 has one in both.  Runs that start here  *)
(* share these blocks out; CollectRuns and Processors are empty.           *)
(***************************************************************************)
MintedInit ==
    /\ contractEpoch = 5
    /\ miningContractData = ContractOf(5)
    /\ allminingContracts =
            [e \in Epochs |-> IF e = 1 THEN NoContract ELSE ContractOf(e)]
    /\ totaldiff_challengenumber =
            <<None, TallyOf({s1}), TallyOf({s3}), TallyOf({}), TallyOf({})>>
    /\ miner_challengediff =
            <<NewRow(m1, 2, TallyOf({s1})), NewRow(m2, 3, TallyOf({s3}))>>
    /\ pool_mints = <<[epoch |-> 1, poolstatus |-> 1]>>
    /\ rewards = <<>>
    /\ inserting = [r \in InsertRuns |-> 0]
    /\ rewardCrawlRunning = FALSE
    /\ crawl = [r \in CrawlRuns |-> IdleCrawl]
    /\ CollectInit
    /\ ShareInit
    /\ faults = 0

MintedSpec == MintedInit /\ [][Next]_vars
FairMintedSpec == MintedSpec /\ Fairness

(***************************************************************************)
(* The seconds after the pool has mined the block of epoch 2: m1 has found *)
(* s1 in epoch 1, the contract has gone on and the collector has not yet.  *)
(***************************************************************************)
OneFinder == [s \in Shares |-> m1]

LateInit ==
    /\ contractEpoch = 3
    /\ miningContractData = ContractOf(2)
    /\ allminingContracts = [e \in Epochs |-> IF e = 3 THEN NoContract ELSE ContractOf(e)]
    /\ totaldiff_challengenumber = <<TallyOf({s1}), TallyOf({}), None>>
    /\ miner_challengediff = <<NewRow(m1, 1, TallyOf({s1}))>>
    /\ RewardInit
    /\ CollectInit
    /\ stream = <<s1>>
    /\ acked = {1}
    /\ pending = [p \in Processors |-> {}]
    /\ miner_pendingshares = {[share |-> s1, challenge |-> 1]}
    /\ lastSubmitted = {m1}
    /\ solutions = <<>>
    /\ proc = [p \in Processors |-> Down]
    /\ faults = 0

LateSpec == LateInit /\ [][Next]_vars

=============================================================================
