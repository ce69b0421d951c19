---------------------------- MODULE MintRewards ----------------------------
(***************************************************************************)
(* TransactionCoordinator.detectPoolMiningSuccess finds the blocks the     *)
(* pool has mined, and rewardCrawl divides the reward of each among the    *)
(* miners: the sum of a miner's difficulties over the last PPLNSDEPTH      *)
(* epochs in proportion to that of the pool.                               *)
(*                                                                         *)
(* The scan does not wait for the calls of insertMint it makes: a slot of  *)
(* InsertRuns is such a call at work.  A slot of CrawlRuns is a call of    *)
(* rewardCrawl; its flag keeps two apart.                                  *)
(***************************************************************************)
EXTENDS MiningData

CONSTANTS
    InsertRuns, CrawlRuns,
    PoolBlocks,         \* the epochs that end with a Mint event of the pool's account
    PPLNSDEPTH,         \* 5
    PoolMayBePoor,      \* whether the pool's balance may be below PoolSecurityBalance
    MaxMints            \* bound on the documents of pool_mints

ASSUME RewardAssumption ==
    /\ PoolBlocks \subseteq Epochs
    /\ PPLNSDEPTH \in Nat \ {0}
    /\ PoolMayBePoor \in BOOLEAN
    /\ MaxMints \in Nat

VARIABLES
    pool_mints,         \* collection "pool_mints"
    rewards,            \* the increments of alltimeTokenBalance, as "ppnls_rewards" lists them
    inserting,          \* per call of insertMint the epoch it has not found, or 0
    rewardCrawlRunning, \* this._rewardCrawlRunning
    crawl               \* the local state of each call of rewardCrawl

mintVars == <<pool_mints, rewards>>
crawlVars == <<rewardCrawlRunning, crawl>>
rewardVars == <<mintVars, inserting, crawlVars>>

\* poolstatus 1: to be shared out, 2: shared out, 4: its epoch is not known.
PoolMint == [epoch: Epochs, poolstatus: {1, 2, 4}]
Mints == DOMAIN pool_mints

\* The Mint events of the pool so far.
minted == {e \in PoolBlocks : e < contractEpoch}

Reward == [mint: Nat, miner: Miners, challenge: Epochs, shares: Tally, poolshares: Tally]

\* A call: the mints and the rows it has yet to come to, the mint and the row at hand, and
\* what it has gathered on them; records and miners are lists it is working through.
CrawlState ==
    [pc: {"idle", "mint", "window", "totals", "fill", "zero", "rows",
          "sum", "award"},
     mints: SUBSET Nat, mint: Nat, challenge: 0..MaxEpoch, records: SUBSET Contract,
     challenges: Seq(Epochs), total: Tally, miners: SUBSET Miners,
     miner: Miners \cup {None}, rows: SUBSET Nat, row: Nat, read: Nat, mine: Tally]

IdleCrawl ==
    [pc |-> "idle", mints |-> {}, mint |-> 0, challenge |-> 0, records |-> {},
     challenges |-> <<>>, total |-> NoShares, miners |-> {}, miner |-> None,
     rows |-> {}, row |-> 0, read |-> 0, mine |-> NoShares]

RewardInit ==
    /\ pool_mints = <<>>
    /\ rewards = <<>>
    /\ inserting = [r \in InsertRuns |-> 0]
    /\ rewardCrawlRunning = FALSE
    /\ crawl = [r \in CrawlRuns |-> IdleCrawl]

RewardTypeOK ==
    /\ pool_mints \in Seq(PoolMint)
    /\ rewards \in Seq(Reward)
    /\ inserting \in [InsertRuns -> 0..MaxEpoch]
    /\ rewardCrawlRunning \in BOOLEAN
    /\ crawl \in [CrawlRuns -> CrawlState]

SumTally(a, b) == [s \in Shares |-> a[s] + b[s]]

----------------------------------------------------------------------------
(* detectPoolMiningSuccess and insertMint *)

SetInsert(r, e) ==
    /\ inserting' = [inserting EXCEPT ![r] = e]
    /\ UNCHANGED <<rewards, crawlVars, miningVars>>

\* A scan has come upon the event of this epoch, among those of the last 2000 blocks.
LookForMint(r, e) ==
    /\ inserting[r] = 0
    /\ r = CHOOSE q \in InsertRuns : inserting[q] = 0
    /\ e \in minted
    /\ \A i \in Mints : pool_mints[i].epoch # e
    /\ SetInsert(r, e)
    /\ UNCHANGED pool_mints

InsertMint(r) ==
    /\ inserting[r] # 0
    /\ Len(pool_mints) < MaxMints
    /\ pool_mints' = Append(pool_mints, [epoch |-> inserting[r], poolstatus |-> 1])
    /\ SetInsert(r, 0)

----------------------------------------------------------------------------
(* rewardCrawl: what a mint is divided by *)

SetCrawl(r, state) ==
    /\ crawl' = [crawl EXCEPT ![r] = state]
    /\ UNCHANGED inserting
    /\ UNCHANGED <<contractEpoch, miningContractData, allminingContracts,
                   totaldiff_challengenumber>>

BeginCrawl(r) ==
    /\ crawl[r].pc = "idle"
    /\ r = CHOOSE q \in CrawlRuns : crawl[q].pc = "idle"
    /\ rewardCrawlRunning' = TRUE
    /\ SetCrawl(r, [IdleCrawl EXCEPT
            !.pc = "mint", !.mints = {i \in Mints : pool_mints[i].poolstatus = 1}])
    /\ UNCHANGED <<pool_mints, rewards, miner_challengediff>>

\* Mutant: the call starts although an earlier one has not returned.
StartCrawlUnguarded(r) == BeginCrawl(r)

StartCrawl(r) ==
    /\ ~rewardCrawlRunning
    /\ BeginCrawl(r)

Reads(r, pc) ==
    /\ crawl[r].pc = pc
    /\ UNCHANGED <<pool_mints, rewards, rewardCrawlRunning, miner_challengediff>>

SetMint(r, i, poolstatus) ==
    /\ pool_mints' = [pool_mints EXCEPT ![i].poolstatus = poolstatus]
    /\ SetCrawl(r, [IdleCrawl EXCEPT !.pc = "mint", !.mints = crawl[r].mints \ {i}])
    /\ UNCHANGED <<rewards, rewardCrawlRunning, miner_challengediff>>

Record(r, i) == allminingContracts[pool_mints[i].epoch]

\* The mint after those it has shared out: the record of its epoch gives the challenge.
FindContract(r, i) ==
    /\ Reads(r, "mint")
    /\ i \in crawl[r].mints
    /\ i = FirstOf(crawl[r].mints)
    /\ Record(r, i) # NoContract
    /\ SetCrawl(r, [crawl[r] EXCEPT !.pc = "window", !.mint = i,
                                    !.challenge = Record(r, i).challenge])

NoContractFound(r, i) ==
    /\ crawl[r].pc = "mint"
    /\ i \in crawl[r].mints
    /\ i = FirstOf(crawl[r].mints)
    /\ Record(r, i) = NoContract
    /\ SetMint(r, i, 4)

\* The records of the last PPLNSDEPTH epochs.
FindWindow(r) ==
    LET e == pool_mints[crawl[r].mint].epoch IN
    /\ Reads(r, "window")
    /\ SetCrawl(r, [crawl[r] EXCEPT
            !.pc = "totals",
            !.records = {allminingContracts[d] :
                            d \in {f \in Epochs : f <= e /\ f > e - PPLNSDEPTH}} \ {NoContract}])

AddTotal(r, sum) ==
    LET record == CHOOSE f \in crawl[r].records :
                        \A g \in crawl[r].records : f.epoch <= g.epoch
        total == totaldiff_challengenumber[record.challenge]
        rest == [crawl[r] EXCEPT !.records = @ \ {record}]
    IN  /\ Reads(r, "totals")
        /\ crawl[r].records # {}
        /\ SetCrawl(r, IF total = None THEN rest
                       ELSE [rest EXCEPT !.total = SumTally(sum, total),
                                         !.challenges = Append(@, record.challenge)])

\* Mutant: the total of each challenge takes the place of the one before.
ReadLastTotal(r) == AddTotal(r, NoShares)

\* The totals of the window are read and added up one at a time.
ReadTotalDifficulty(r) == AddTotal(r, crawl[r].total)

MinersOf(challenges) ==
    {miner_challengediff[i].miner :
        i \in {j \in Rows : miner_challengediff[j].challenge \in challenges}}

FindMinersOf(r, challenges) ==
    /\ Reads(r, "totals")
    /\ crawl[r].records = {}
    /\ SetCrawl(r, [crawl[r] EXCEPT !.pc = "fill", !.miners = MinersOf(challenges)])

\* Mutant: only the miners of the challenge that was mined are looked for.
FindMinersOfChallenge(r) == FindMinersOf(r, {crawl[r].challenge})

FindMiners(r) ==
    FindMinersOf(r, {crawl[r].challenges[k] : k \in DOMAIN crawl[r].challenges})

FillRow(r, m) ==
    /\ Reads(r, "fill")
    /\ m \in crawl[r].miners
    /\ SetCrawl(r, IF RowsOf(m, crawl[r].challenge) # {}
                   THEN [crawl[r] EXCEPT !.miners = @ \ {m}]
                   ELSE [crawl[r] EXCEPT !.miners = @ \ {m}, !.pc = "zero", !.miner = m])

\* A miner without a share of the challenge gets a row of difficulty 0.
InsertZeroRow(r) ==
    /\ crawl[r].pc = "zero"
    /\ miner_challengediff' = Append(miner_challengediff,
            NewRow(crawl[r].miner, crawl[r].challenge, NoShares))
    /\ SetCrawl(r, [crawl[r] EXCEPT !.pc = "fill", !.miner = None])
    /\ UNCHANGED <<pool_mints, rewards, rewardCrawlRunning>>

ListRows(r) ==
    /\ Reads(r, "fill")
    /\ crawl[r].miners = {}
    /\ SetCrawl(r, [crawl[r] EXCEPT
            !.pc = "rows",
            !.rows = {i \in Rows : /\ miner_challengediff[i].challenge = crawl[r].challenge
                                   /\ miner_challengediff[i].status = 1}])

----------------------------------------------------------------------------
(* processAddressforChallenge, for one row after the other *)

\* On to the next row, with the row at hand given this status.
SetRow(r, i, status) ==
    /\ miner_challengediff' = [miner_challengediff EXCEPT ![i].status = status]
    /\ SetCrawl(r, [crawl[r] EXCEPT !.pc = "rows", !.rows = @ \ {i}, !.row = 0,
                                    !.read = 0, !.mine = NoShares])
    /\ UNCHANGED <<pool_mints, rewards, rewardCrawlRunning>>

\* A row of status 1 of this miner and challenge: the first one it finds may be another.
StillOpen(i) ==
    \E j \in RowsOf(miner_challengediff[i].miner, miner_challengediff[i].challenge) :
        miner_challengediff[j].status = 1

RecheckRow(r, i) ==
    /\ crawl[r].pc = "rows"
    /\ i \in crawl[r].rows
    /\ i = FirstOf(crawl[r].rows)
    /\ IF StillOpen(i)
       THEN Reads(r, "rows") /\ SetCrawl(r, [crawl[r] EXCEPT !.pc = "sum", !.row = i])
       ELSE SetRow(r, i, 4)

\* The miner's difficulties over the window are read and added up one at a time.
SumRow(r) ==
    LET k == crawl[r].read + 1
        rows == RowsOf(miner_challengediff[crawl[r].row].miner, crawl[r].challenges[k])
    IN  /\ Reads(r, "sum")
        /\ k <= Len(crawl[r].challenges)
        /\ SetCrawl(r, [crawl[r] EXCEPT
                !.read = k,
                !.mine = IF rows = {} THEN @
                         ELSE SumTally(@, miner_challengediff[FirstOf(rows)].totaldiff)])

Summed(r) ==
    /\ crawl[r].pc = "sum"
    /\ crawl[r].read = Len(crawl[r].challenges)

NothingToShare(r) ==
    /\ Summed(r)
    /\ crawl[r].mine = NoShares
    /\ SetRow(r, crawl[r].row, 3)

PoolTooPoor(r) ==
    /\ PoolMayBePoor
    /\ Summed(r)
    /\ crawl[r].mine # NoShares
    /\ SetRow(r, crawl[r].row, 5)

\* The pool is rich enough: the row is closed before the tokens are awarded.
MarkRewarded(r) ==
    /\ Summed(r)
    /\ crawl[r].mine # NoShares
    /\ miner_challengediff' = [miner_challengediff EXCEPT ![crawl[r].row].status = 2]
    /\ SetCrawl(r, [crawl[r] EXCEPT !.pc = "award"])
    /\ UNCHANGED <<pool_mints, rewards, rewardCrawlRunning>>

\* awardTokensBalanceForShares: mine / total of the reward, by an increment.
AwardTokensForShares(r) ==
    LET i == crawl[r].row
        reward == [mint |-> crawl[r].mint, miner |-> miner_challengediff[i].miner,
                   challenge |-> crawl[r].challenge,
                   shares |-> crawl[r].mine, poolshares |-> crawl[r].total]
    IN
    /\ crawl[r].pc = "award"
    /\ rewards' = IF crawl[r].total = NoShares THEN rewards ELSE Append(rewards, reward)
    /\ SetCrawl(r, [crawl[r] EXCEPT !.pc = "rows", !.rows = @ \ {i}, !.row = 0,
                                    !.read = 0, !.mine = NoShares])
    /\ UNCHANGED <<pool_mints, rewardCrawlRunning, miner_challengediff>>

FinishMint(r) ==
    /\ crawl[r].pc = "rows"
    /\ crawl[r].rows = {}
    /\ SetMint(r, crawl[r].mint, 2)

FinishCrawl(r) ==
    /\ crawl[r].pc = "mint"
    /\ crawl[r].mints = {}
    /\ rewardCrawlRunning' = FALSE
    /\ SetCrawl(r, IdleCrawl)
    /\ UNCHANGED <<pool_mints, rewards, miner_challengediff>>

----------------------------------------------------------------------------

FailInsert(r) ==
    /\ inserting[r] # 0
    /\ SetInsert(r, 0)
    /\ UNCHANGED pool_mints

AbortCrawl(r, running) ==
    /\ crawl[r].pc # "idle"
    /\ rewardCrawlRunning' = running
    /\ SetCrawl(r, IdleCrawl)
    /\ UNCHANGED <<pool_mints, rewards, miner_challengediff>>

\* Mutant: a call that failed leaves the flag up.
FailCrawlFlagUp(r) == AbortCrawl(r, TRUE)

\* A database call rejects: the finally block lowers the flag.
FailCrawl(r) == AbortCrawl(r, FALSE)

RewardFault ==
    \/ \E r \in InsertRuns : FailInsert(r)
    \/ \E r \in CrawlRuns : FailCrawl(r)

RewardCrash ==
    /\ inserting' = [r \in InsertRuns |-> 0]
    /\ crawl' = [r \in CrawlRuns |-> IdleCrawl]
    /\ rewardCrawlRunning' = FALSE
    /\ UNCHANGED mintVars

ScanStep(r) ==
    \/ \E e \in Epochs : LookForMint(r, e)
    \/ InsertMint(r)

MintStep(r) ==
    \/ FindWindow(r)
    \/ ReadTotalDifficulty(r)
    \/ FindMiners(r)
    \/ \E m \in Miners : FillRow(r, m)
    \/ InsertZeroRow(r)
    \/ ListRows(r)
    \/ FinishMint(r)

RowStep(r) ==
    \/ \E i \in Rows : RecheckRow(r, i)
    \/ SumRow(r)
    \/ NothingToShare(r)
    \/ PoolTooPoor(r)
    \/ MarkRewarded(r)
    \/ AwardTokensForShares(r)

=============================================================================
