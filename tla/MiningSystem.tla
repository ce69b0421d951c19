---------------------------- MODULE MiningSystem ----------------------------
(***************************************************************************)
(* The way of a share: ChallengeCollector follows the contract,            *)
(* ShareProcessor counts the shares for the challenge the collector has    *)
(* written, and MintRewards divides what the pool has mined by these       *)
(* counts, while epochs pass, calls fail and processes die.                *)
(***************************************************************************)
EXTENDS ShareProcessor, MintRewards

CONSTANTS
    LateShares,     \* whether a mint may be shared out while its shares still come in
    MaxFaults       \* bound on the failures and crashes of a behaviour

ASSUME SystemAssumption ==
    /\ LateShares \in BOOLEAN
    /\ MaxFaults \in Nat

VARIABLE faults         \* how many there were

vars == <<miningVars, collectVars, shareVars, rewardVars, faults>>

Init ==
    /\ MiningInit
    /\ CollectInit
    /\ ShareInit
    /\ RewardInit
    /\ faults = 0

CollectSide(A) == A /\ UNCHANGED <<shareVars, rewardVars, faults>>
ShareSide(A) == A /\ UNCHANGED <<rewardVars, faults>>
RewardSide(A) == A /\ UNCHANGED <<collectVars, shareVars, faults>>

\* A block is mined, by the pool or by somebody else.
MineBlock ==
    /\ NewEpoch
    /\ UNCHANGED <<rewardVars, collectVars, shareVars, faults>>

(***************************************************************************)
(* The shares of an epoch are settled when the collector has gone on and   *)
(* no processor is still at one of them.  The timers make that likely when *)
(* its mint is shared out, but nothing makes sure of it.                   *)
(***************************************************************************)
Settled(e) ==
    /\ miningContractData.challenge > e
    /\ \A p \in Processors : proc[p].challenge \notin 1..e

OpenMint(r, i) ==
    /\ LateShares \/ Settled(pool_mints[i].epoch)
    /\ FindContract(r, i) \/ NoContractFound(r, i)

CrawlStep(r) ==
    \/ StartCrawl(r)
    \/ \E i \in Mints : OpenMint(r, i)
    \/ MintStep(r)
    \/ RowStep(r)
    \/ FinishCrawl(r)

\* The collector, the scans and the crawls run in one process, the token collector.
CollectorCrash ==
    /\ RewardCrash
    /\ collect' = [r \in CollectRuns |-> IdleCollect]
    /\ UNCHANGED <<queued_shares_list, miningVars>>

Fault ==
    /\ faults < MaxFaults
    /\ faults' = faults + 1
    /\ \/ \E r \in CollectRuns : FailCollect(r) /\ UNCHANGED <<shareVars, rewardVars>>
       \/ \E p \in Processors : FailShare(p) /\ UNCHANGED rewardVars
       \/ \E p \in Processors : CrashProcess(p) /\ UNCHANGED rewardVars
       \/ RewardFault /\ UNCHANGED <<collectVars, shareVars>>
       \/ CollectorCrash /\ UNCHANGED shareVars

Next ==
    \/ MineBlock
    \/ \E r \in CollectRuns : CollectSide(CollectStep(r))
    \/ \E p \in Processors : ShareSide(ProcessStep(p))
    \/ ShareSide(WorkerStep)
    \/ ShareSide(CleanPendingShares)
    \/ \E r \in InsertRuns : RewardSide(ScanStep(r))
    \/ \E r \in CrawlRuns : RewardSide(CrawlStep(r))
    \/ Fault

Spec == Init /\ [][Next]_vars

TypeOK ==
    /\ MiningTypeOK
    /\ CollectTypeOK
    /\ ShareTypeOK
    /\ RewardTypeOK
    /\ faults \in Nat

\* A share is being counted: the pool's total may have it before the miner's row has.
Counting(s) ==
    \E p \in Processors :
        /\ proc[p].share = s
        /\ proc[p].pc \in {"both", "insert", "row", "credit"}

Queueing(s) ==
    \E p \in Processors : proc[p].share = s /\ proc[p].pc \in
        {"both", "insert", "row", "credit", "queue"}

InRow(s, i) == miner_challengediff[i].totaldiff[s] > 0

(***************************************************************************)
(* However often a share is submitted, delivered, claimed and retried, it  *)
(* is credited to its miner at most once and sent to the contract at most  *)
(* once, even after the cleaner has forgotten its digest.                  *)
(***************************************************************************)
UsedAtMostOnce ==
    \A s \in Shares :
        /\ \A i \in Rows : miner_challengediff[i].totaldiff[s] <= 1
        /\ \A i, j \in Rows : InRow(s, i) /\ InRow(s, j) => i = j
        /\ \A i, j \in DOMAIN solutions : solutions[i] = s /\ solutions[j] = s => i = j

(***************************************************************************)
(* The pool divides a reward by a total that has every share some miner is *)
(* credited with for that challenge, whatever fails in between: the miners *)
(* never share out more than the whole.                                    *)
(***************************************************************************)
TotalCoversMiners ==
    \A i \in Rows, s \in Shares :
        InRow(s, i) =>
            LET total == totaldiff_challengenumber[miner_challengediff[i].challenge]
            IN  total # None /\ total[s] > 0

(***************************************************************************)
(* As long as nothing has failed no work is lost: a share in the pool's    *)
(* total is in a row of its miner under the same challenge, exactly once   *)
(* in each, and a solution among them is queued for the contract.          *)
(***************************************************************************)
NothingLost ==
    faults = 0 =>
        \A c \in Epochs, s \in Shares :
            (totaldiff_challengenumber[c] # None /\ totaldiff_challengenumber[c][s] > 0) =>
                /\ totaldiff_challengenumber[c][s] = 1
                /\ \/ Counting(s)
                   \/ \E i \in RowsOf(MinerOf[s], c) : InRow(s, i)
                /\ s \in Solvers => \/ Queueing(s)
                                    \/ \E k \in DOMAIN solutions : solutions[k] = s

(***************************************************************************)
(* No miner gets the tokens of a block twice, although its mint may be     *)
(* recorded twice and a crawl may fail half way and be run again.          *)
(***************************************************************************)
RewardedOnce ==
    \A j, k \in DOMAIN rewards :
        /\ rewards[j].miner = rewards[k].miner
        /\ pool_mints[rewards[j].mint].epoch = pool_mints[rewards[k].mint].epoch
        => j = k

(***************************************************************************)
(* The parts of a block add up to no more than the block: all its miners   *)
(* are paid by the same total, each for shares of its own that are in it.  *)
(***************************************************************************)
FactorWithinOne ==
    \A k \in DOMAIN rewards, s \in Shares :
        rewards[k].shares[s] <= rewards[k].poolshares[s]

WithinReward ==
    /\ FactorWithinOne
    /\ \A k \in DOMAIN rewards, s \in Shares :
        rewards[k].shares[s] > 0 => MinerOf[s] = rewards[k].miner
    /\ \A j, k \in DOMAIN rewards :
        pool_mints[rewards[j].mint].epoch = pool_mints[rewards[k].mint].epoch
            => rewards[j].poolshares = rewards[k].poolshares

(***************************************************************************)
(* As long as nothing has failed and the pool was rich enough, a mint that *)
(* counts as shared out has given its part to every miner with a share in  *)
(* the window, those without one in the challenge itself included.         *)
(***************************************************************************)
InWindow(m, e) ==
    \E i \in Rows :
        /\ miner_challengediff[i].miner = m
        /\ miner_challengediff[i].challenge \in (e - PPLNSDEPTH + 1)..e
        /\ miner_challengediff[i].totaldiff # NoShares

NobodyForgotten ==
    (faults = 0 /\ \A i \in Rows : miner_challengediff[i].status # 5) =>
        \A i \in Mints, m \in Miners :
            (pool_mints[i].poolstatus = 2 /\ InWindow(m, pool_mints[i].epoch)) =>
                \E k \in DOMAIN rewards :
                    /\ rewards[k].miner = m
                    /\ pool_mints[rewards[k].mint].epoch = pool_mints[i].epoch

(***************************************************************************)
(* "Should arrive here for process only if status is still 1, make a check *)
(* for security but should definitely never happen": no row is found       *)
(* closed between the list of a crawl and the turn of the row.             *)
(***************************************************************************)
StatusFourNever == \A i \in Rows : miner_challengediff[i].status # 4

(***************************************************************************)
(* Every block the pool mines is in the end shared out, or found to be of  *)
(* an unknown epoch, whatever the scan and the crawl fail at.              *)
(***************************************************************************)
MintIsShared ==
    \A e \in Epochs :
        (e \in minted) ~>
            \E i \in Mints : pool_mints[i].epoch = e /\ pool_mints[i].poolstatus # 1

(***************************************************************************)
(* Every share the stream has taken is in the end handled and              *)
(* acknowledged, although the process that held it may fail or be replaced *)
(* by one with another name.                                               *)
(***************************************************************************)
ShareIsHandled ==
    \A k \in 1..MaxSubmitted : (k \in Entries) ~> (k \in acked)

(***************************************************************************)
(* The pool catches up with the contract: once the last epoch has come,    *)
(* its challenge is in force, under its own blob and epoch number, and is  *)
(* ready to be counted for.  A failure between the writes may spoil that.  *)
(***************************************************************************)
CaughtUp ==
    /\ miningContractData.challenge = MaxEpoch
    /\ miningContractData.blob = MaxEpoch
    /\ allminingContracts[MaxEpoch] = miningContractData
    /\ totaldiff_challengenumber[MaxEpoch] # None

DataCatchesUp ==
    (contractEpoch = MaxEpoch) ~> (faults > 0 \/ CaughtUp)

(***************************************************************************)
(* The timers keep firing, a call that was made goes on, and a process     *)
(* that died is started again.  Every turn of its loop ends in a read, and *)
(* once a minute it begins with a claim; what a dead consumer holds is     *)
(* idle for good, so that a claim takes all of it in the end.              *)
(***************************************************************************)
Fairness ==
    /\ \A r \in CollectRuns : WF_vars(CollectSide(CollectStep(r)))
    /\ \A r \in InsertRuns : WF_vars(RewardSide(ScanStep(r)))
    /\ WF_vars(\E r \in CrawlRuns : RewardSide(CrawlStep(r)))
    /\ WF_vars(\E p \in Processors : ShareSide(Start(p)))
    /\ WF_vars(\E p \in Processors : ShareSide(LoopStep(p) \/ HandleStep(p)))
    /\ SF_vars(\E p \in Processors : ShareSide(Reclaim(p)))
    /\ SF_vars(\E p \in Processors : ShareSide(ReadShares(p)))
    /\ SF_vars(\E p \in Processors : ShareSide(Claim(p, HeldByOthers(p))))

FairSpec == Spec /\ Fairness

=============================================================================
