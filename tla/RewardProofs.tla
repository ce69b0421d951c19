---------------------------- MODULE RewardProofs ----------------------------
(***************************************************************************)
(* RewardedOnce, WithinReward and NobodyForgotten, for every value of the  *)
(* constants but one share processor at a time, mints that are shared out  *)
(* when their epoch is settled, and a collector whose calls take turns; to *)
(* forget nobody, also one that reads the values of one epoch.  What a     *)
(* settled epoch has recorded stays as it is, and so do the sums of its    *)
(* shares, and whom they are of.                                           *)
(***************************************************************************)
EXTENDS ShareProofs

(***************************************************************************)
(* A call of the collector is over when the next one begins: it takes less *)
(* than the three seconds of the timer, which nothing makes sure of.       *)
(***************************************************************************)
InTurn == \A q, r \in CollectRuns : collect[q].at > 1 /\ collect[r].at > 1 => q = r

\* What a call has read is not older than what the pool has.
Forward ==
    /\ miningContractData.challenge <= contractEpoch
    /\ \A r \in CollectRuns :
        collect[r].at > 1 => miningContractData.challenge <= collect[r].contract.challenge

----------------------------------------------------------------------------
(* What is settled stays so. *)

LEMMA DataTypes ==
    ASSUME MiningInvariant
    PROVE  /\ CollectorInvariant /\ MiningTypeOK
           /\ contractEpoch \in Nat /\ miningContractData.challenge \in Nat
           /\ allminingContracts \in [Epochs -> Contract]
           /\ totaldiff_challengenumber \in [Epochs -> Tally \cup {None}]
           /\ \A r \in CollectRuns : /\ collect[r] \in CollectState
                                     /\ collect[r].at \in 1..4
                                     /\ collect[r].contract \in Contract
                                     /\ collect[r].contract.challenge \in Nat
<1>1. CollectorInvariant /\ MiningTypeOK
  BY DEF MiningInvariant, ShareInvariant, CollectorInvariant
<1>2. contractEpoch \in Nat /\ miningContractData.challenge \in Nat
  BY <1>1, EpochAssumption DEF MiningTypeOK, Epochs, Contract
<1>3. ASSUME NEW r \in CollectRuns
      PROVE  /\ collect[r] \in CollectState /\ collect[r].at \in 1..4
             /\ collect[r].contract \in Contract
  BY <1>1, ParametersAre DEF CollectorInvariant, CollectTypeOK, CollectState
<1>4. \A c \in Contract : c.challenge \in Nat
  BY EpochAssumption DEF Contract
<1> QED
  BY <1>1, <1>2, <1>3, <1>4 DEF MiningTypeOK

\* A call of the collector moves: it reads on, keeps what it has read, or is over.
ReadsOn(old, new) ==
    \/ new.at = 1
    \/ new.at > 1 /\ old.at = 1 /\ new.contract.challenge = contractEpoch
    \/ old.at > 1 /\ new.contract.challenge = old.contract.challenge

LEMMA CollectReadsOn ==
    ASSUME MiningInvariant, NEW r \in CollectRuns, CollectStep(r)
    PROVE  /\ \A q \in CollectRuns : q # r => collect'[q] = collect[q]
           /\ ReadsOn(collect[r], collect'[r])
<1> DEFINE old == collect[r]
<1>0. /\ collect \in [CollectRuns -> CollectState] /\ IdleCollect.at = 1
      /\ old \in CollectState /\ old.at \in 1..4 /\ old.contract \in Contract /\ CollectOK(old)
  BY DataTypes, ContractTypes DEF CollectorInvariant, CollectTypeOK, CollectsOK
<1>1. ASSUME NEW new, collect' = [collect EXCEPT ![r] = new], ReadsOn(old, new)
      PROVE  /\ \A q \in CollectRuns : q # r => collect'[q] = collect[q]
             /\ ReadsOn(collect[r], collect'[r])
  BY <1>0, <1>1
<1>2. ReadsOn(old, IdleCollect)
  BY <1>0 DEF ReadsOn
<1>3. CASE ReadParameter(r)
  <2> DEFINE n == old.at
             contract == [old.contract EXCEPT ![Parameters[n]] = contractEpoch]
             new == [old EXCEPT !.at = n + 1, !.contract = contract]
  <2>1. collect' = [collect EXCEPT ![r] = new]
    BY <1>0, <1>3 DEF ReadParameter, CollectState
  <2>2. n \in {1, 2, 3}
    BY <1>0, <1>3, ParametersAre DEF ReadParameter
  <2>3. /\ n = 1 => contract.challenge = contractEpoch
        /\ n # 1 => contract.challenge = old.contract.challenge
    BY <1>0, <2>2, ParametersAre DEF Contract
  <2> HIDE DEF contract, n
  <2>4. new.at = n + 1 /\ new.contract = contract
    BY <1>0 DEF CollectState
  <2>5. ReadsOn(old, new)
    BY <2>2, <2>3, <2>4 DEF ReadsOn, n
  <2> HIDE DEF new
  <2> QED
    BY <1>1, <2>1, <2>5
<1>4. CASE CompareChallenge(r)
  <2> DEFINE going == [old EXCEPT !.pc = "data", !.existing = miningContractData.challenge]
             new == IF old.contract.challenge = miningContractData.challenge
                    THEN IdleCollect ELSE going
  <2>1. collect' = [collect EXCEPT ![r] = new] /\ old.at > 1
    BY <1>4, <1>0, ParametersAre DEF CompareChallenge, Compare
  <2>2. going.at = old.at /\ going.contract = old.contract
    BY <1>0 DEF CollectState
  <2> HIDE DEF going
  <2>3. ReadsOn(old, new)
    BY <1>2, <2>1, <2>2 DEF ReadsOn
  <2> HIDE DEF new
  <2> QED
    BY <1>1, <2>1, <2>3
<1>5. CASE WriteMiningContractData(r) \/ WriteAllMiningContracts(r) \/ EnsureTotal(r)
  <2>1. PICK pc \in {"record", "total", "purge"} :
            collect' = [collect EXCEPT ![r] = [old EXCEPT !.pc = pc]]
    BY <1>5 DEF WriteMiningContractData, WriteAllMiningContracts, EnsureTotal
  <2> DEFINE new == [old EXCEPT !.pc = pc]
  <2>2. old.at > 1
    BY <1>0, <1>5 DEF WriteMiningContractData, WriteAllMiningContracts, EnsureTotal, CollectOK
  <2>3. new.contract = old.contract
    BY <1>0 DEF CollectState
  <2> HIDE DEF new
  <2>4. ReadsOn(old, new)
    BY <2>2, <2>3 DEF ReadsOn
  <2> QED
    BY <1>1, <2>1, <2>4 DEF new
<1>6. CASE PurgeQueuedShares(r)
  BY <1>1, <1>2, <1>6 DEF PurgeQueuedShares
<1> QED
  BY <1>3, <1>4, <1>5, <1>6 DEF CollectStep

LEMMA CollectGoesOn ==
    ASSUME MiningInvariant, [Next]_vars
    PROVE  \A r \in CollectRuns : collect'[r] = collect[r] \/ ReadsOn(collect[r], collect'[r])
<1>0. /\ collect \in [CollectRuns -> CollectState] /\ IdleCollect.at = 1
  BY DataTypes, ContractTypes DEF CollectorInvariant, CollectTypeOK
<1>1. CASE \E r \in CollectRuns : CollectSide(CollectStep(r))
  BY <1>1, CollectReadsOn DEF CollectSide
<1>2. CASE Fault
  <2>1. \/ collect' = collect
        \/ \E r \in CollectRuns : collect' = [collect EXCEPT ![r] = IdleCollect]
        \/ collect' = [r \in CollectRuns |-> IdleCollect]
    BY <1>2 DEF Fault, FailCollect, FailShare, CrashProcess, SetProcess, CollectorCrash,
       collectVars
  <2> QED
    BY <1>0, <2>1 DEF ReadsOn
<1>3. CASE ~(\E r \in CollectRuns : CollectSide(CollectStep(r))) /\ ~Fault
  <2>1. collect' = collect
    BY <1>3 DEF Next, vars, MineBlock, ShareSide, ProcessStep, Start, StartWithoutRedis,
       Reclaim, LoopStep, ClaimStaleShares, Claim, ReadPendingShares, ReadShares,
       TakeFromList, HandleStep, CheckShare, Accept, FindDigest, InPace, TooFast, ReadTotal,
       WriteTotal, InsertPendingShare, FindRow, CreditMiner, WriteRow, QueueSolution,
       AckShare, Ack, Goto, SetProcess, WorkerStep, AddShare, AddShareToList,
       CleanPendingShares, RewardSide, collectVars
  <2> QED
    BY <2>1
<1> QED
  BY <1>1, <1>2, <1>3

LEMMA EpochGoesOn ==
    ASSUME MiningInvariant, [Next]_vars
    PROVE  contractEpoch' = contractEpoch \/ contractEpoch' = contractEpoch + 1
<1>1. CASE MineBlock \/ UNCHANGED vars
  BY <1>1 DEF MineBlock, NewEpoch, vars, miningVars
<1>2. CASE \E r \in CollectRuns : CollectSide(CollectStep(r))
  BY <1>2 DEF CollectSide, CollectStep, ReadParameter, CompareChallenge, Compare,
     WriteMiningContractData, WriteAllMiningContracts, EnsureTotal, PurgeQueuedShares,
     miningVars
<1>3. CASE \E p \in Processors : ShareSide(ProcessStep(p))
  BY <1>3 DEF ShareSide, ProcessStep, Start, StartWithoutRedis, Reclaim, LoopStep,
     ClaimStaleShares, Claim, ReadPendingShares, ReadShares, TakeFromList, HandleStep,
     CheckShare, Accept, FindDigest, InPace, TooFast, ReadTotal, WriteTotal,
     InsertPendingShare, FindRow, CreditMiner, WriteRow, QueueSolution, AckShare, Ack,
     Goto, SetProcess, miningVars
<1>4. CASE ShareSide(WorkerStep) \/ ShareSide(CleanPendingShares)
  BY <1>4 DEF ShareSide, WorkerStep, AddShare, AddShareToList, CleanPendingShares, miningVars
<1>5. CASE \E r \in InsertRuns : RewardSide(ScanStep(r))
  BY <1>5 DEF RewardSide, ScanStep, LookForMint, InsertMint, SetInsert, miningVars
<1>6. CASE \E r \in CrawlRuns : RewardSide(CrawlStep(r))
  BY <1>6, CrawlTypes DEF RewardSide, RowsStayTyped
<1>7. CASE Fault
  BY <1>7 DEF Fault, FailCollect, FailShare, CrashProcess, SetProcess, RewardFault,
     FailInsert, SetInsert, FailCrawl, AbortCrawl, SetCrawl, CollectorCrash, miningVars
<1> QED
  BY <1>1, <1>2, <1>3, <1>4, <1>5, <1>6, <1>7 DEF Next

LEMMA ForwardGoesOn ==
    ASSUME MiningInvariant, MiningInvariant', Forward, InTurn, [Next]_vars
    PROVE  Forward' /\ miningContractData.challenge <= miningContractData'.challenge
<1>0. /\ contractEpoch \in Nat /\ miningContractData.challenge \in Nat
      /\ \A r \in CollectRuns : /\ collect[r].at \in 1..4 /\ CollectOK(collect[r])
                                /\ collect[r].contract.challenge \in Nat
                                /\ collect'[r].at \in 1..4
  <2>1. \A r \in CollectRuns : collect'[r].at \in 1..4
    BY ParametersAre DEF MiningInvariant, ShareInvariant, CollectorInvariant,
       CollectTypeOK, CollectState
  <2> QED
    BY <2>1, DataTypes DEF CollectorInvariant, CollectsOK
<1>1. contractEpoch' = contractEpoch \/ contractEpoch' = contractEpoch + 1
  BY EpochGoesOn
<1>2. CASE miningContractData' = miningContractData
  <2>1. ASSUME NEW r \in CollectRuns, collect'[r].at > 1
        PROVE  miningContractData.challenge <= collect'[r].contract.challenge
    BY <1>0, <2>1, CollectGoesOn DEF ReadsOn, Forward
  <2> QED
    BY <1>0, <1>1, <1>2, <2>1 DEF Forward
<1>3. CASE miningContractData' # miningContractData
  <2>1. PICK r \in CollectRuns : WriteMiningContractData(r)
    BY <1>3, DataIsWritten DEF WriteAllMiningContracts
  <2>2. /\ miningContractData' = collect[r].contract /\ collect[r].at = 4
        /\ \A q \in CollectRuns : /\ collect'[q].at = collect[q].at
                                  /\ collect'[q].contract = collect[q].contract
    <3>1. collect \in [CollectRuns -> CollectState]
      BY DataTypes DEF CollectorInvariant, CollectTypeOK
    <3> QED
      BY <1>0, <2>1, <3>1 DEF WriteMiningContractData, CollectOK, CollectState
  <2>3. \A q \in CollectRuns : collect[q].at > 1 => q = r
    BY <2>2 DEF InTurn
  <2>4. collect[r].contract.challenge <= contractEpoch
    BY <1>0, <2>2 DEF CollectOK
  <2>5. miningContractData.challenge <= collect[r].contract.challenge
    BY <2>2 DEF Forward
  <2>6. ASSUME NEW q \in CollectRuns, collect'[q].at > 1
        PROVE  miningContractData'.challenge <= collect'[q].contract.challenge
    <3>1. q = r /\ collect'[q].contract = miningContractData'
      BY <2>2, <2>3, <2>6
    <3> QED
      BY <1>0, <2>2, <3>1
  <2> QED
    BY <1>0, <1>1, <2>2, <2>4, <2>5, <2>6 DEF Forward
<1> QED
  BY <1>2, <1>3

(* A process counts for the challenge it has found in force, until it is at another share. *)
Found ==
    \A q \in Processors :
        proc'[q].challenge \in {0, proc[q].challenge, miningContractData.challenge}

LEMMA ChallengesFound ==
    ASSUME MiningInvariant, [Next]_vars
    PROVE  Found
<1>0. proc \in [Processors -> ProcessState] /\ ShareTypeOK
  BY DEF MiningInvariant, ShareInvariant, ShareTypeOK
<1>1. ASSUME NEW p \in Processors, NEW new, proc' = [proc EXCEPT ![p] = new],
             new.challenge \in {0, proc[p].challenge, miningContractData.challenge}
      PROVE  Found
  BY <1>0, <1>1 DEF Found
<1>2. ASSUME NEW p \in Processors, NEW pc, proc' = [proc EXCEPT ![p] = [proc[p] EXCEPT !.pc = pc]]
      PROVE  Found
  <2> DEFINE new == [proc[p] EXCEPT !.pc = pc]
  <2>1. new.challenge = proc[p].challenge
    BY <1>0 DEF ProcessState
  <2> HIDE DEF new
  <2> QED
    BY <1>1, <1>2, <2>1 DEF new
<1>3. ASSUME proc' = proc PROVE Found
  BY <1>3 DEF Found
<1>4. ASSUME NEW p \in Processors, ShareSide(ProcessStep(p)) PROVE Found
  <2>0. /\ proc[p] \in ProcessState /\ proc[p].batch \in SUBSET Entries
        /\ proc[p].mode \in {"drain", "read", "list"}
    BY AtHand DEF MiningInvariant, ShareInvariant, ProcessOK, ProcessState
  <2>1. CASE \/ Start(p) \/ StartWithoutRedis(p) \/ Reclaim(p) \/ ClaimStaleShares(p)
    <3>1. PICK new \in {Waiting("claim", "drain", {}), Waiting("list", "list", {}),
                        Waiting("drain", "drain", {})} : proc' = [proc EXCEPT ![p] = new]
      BY <2>1 DEF Start, StartWithoutRedis, Reclaim, ClaimStaleShares, Claim, SetProcess
    <3>2. new.challenge = 0
      BY WaitingTypes
    <3> QED
      BY <1>1, <3>1, <3>2
  <2>2. CASE ReadPendingShares(p)
    <3> DEFINE batch == FirstBatch(pending[p])
               new == IF pending[p] = {} THEN Waiting("read", "read", {})
                      ELSE Handle("drain", batch)
    <3>1. batch \in SUBSET Entries
      BY <1>0 DEF ShareTypeOK, FirstBatch
    <3>2. proc' = [proc EXCEPT ![p] = new]
      BY <2>2 DEF ReadPendingShares, SetProcess
    <3> HIDE DEF batch
    <3>3. new.challenge = 0
      BY <1>0, <3>1, WaitingTypes, HandleTypes
    <3> HIDE DEF new
    <3> QED
      BY <1>1, <3>2, <3>3
  <2>3. CASE ReadShares(p)
    <3> DEFINE batch == FirstBatch(Entries \ Delivered)
               new == Handle("read", batch)
    <3>1. batch \in SUBSET Entries
      BY DEF FirstBatch
    <3>2. proc' = [proc EXCEPT ![p] = new]
      BY <2>3 DEF ReadShares, SetProcess
    <3> HIDE DEF batch
    <3>3. new.challenge = 0
      BY <1>0, <3>1, HandleTypes
    <3> HIDE DEF new
    <3> QED
      BY <1>1, <3>2, <3>3
  <2>4. CASE TakeFromList(p)
    <3> DEFINE new == [proc[p] EXCEPT !.pc = "check", !.share = Head(queued_shares_list)]
    <3>1. proc' = [proc EXCEPT ![p] = new]
      BY <2>4 DEF TakeFromList
    <3>2. new.challenge = proc[p].challenge
      BY <2>0 DEF ProcessState
    <3> HIDE DEF new
    <3> QED
      BY <1>1, <3>1, <3>2
  <2>5. CASE AckShare(p)
    <3> DEFINE new == Handle(proc[p].mode, proc[p].batch)
    <3>1. proc' = [proc EXCEPT ![p] = new]
      BY <2>5 DEF AckShare, Ack, SetProcess
    <3>2. new.challenge = 0
      BY <1>0, <2>0, HandleTypes
    <3> HIDE DEF new
    <3> QED
      BY <1>1, <3>1, <3>2
  <2>6. CASE TooFast(p)
    BY <1>2, <2>6 DEF TooFast, Goto, SetProcess
  <2>7. CASE CountStep(p) /\ ~CheckShare(p)
    <3>1. CountMove(p) /\ proc[p].pc # "check"
      BY <2>7, CountMoves DEF CountStep, FindDigest, InPace, ReadTotal, WriteTotal,
         InsertPendingShare, FindRow, CreditMiner, WriteRow, QueueSolution
    <3> QED
      BY <3>1 DEF CountMove, Found
  <2>8. CASE CheckShare(p)
    <3> DEFINE good == EpochOf[proc[p].share] = miningContractData.blob
               found == [proc[p] EXCEPT !.pc = "find", !.challenge = miningContractData.challenge]
               lost == [proc[p] EXCEPT !.pc = "ack"]
               new == IF good THEN found ELSE lost
    <3>1. proc' = [proc EXCEPT ![p] = new]
      BY <2>8 DEF CheckShare, Accept, SetProcess
    <3>2. /\ found.challenge = miningContractData.challenge
          /\ lost.challenge = proc[p].challenge
      BY <2>0 DEF ProcessState
    <3> HIDE DEF found, lost, good
    <3>3. new.challenge \in {proc[p].challenge, miningContractData.challenge}
      BY <3>2
    <3> HIDE DEF new
    <3> QED
      BY <1>1, <3>1, <3>3
  <2> QED
    BY <1>4, <2>1, <2>2, <2>3, <2>4, <2>5, <2>6, <2>7, <2>8
    DEF ShareSide, ProcessStep, LoopStep, HandleStep, CountStep
<1>5. CASE Fault
  <2>1. ASSUME NEW p \in Processors, FailShare(p) \/ CrashProcess(p) PROVE Found
    <3>0. /\ proc[p].batch \in SUBSET Entries /\ proc[p].mode \in {"drain", "read", "list"}
      BY AtHand DEF MiningInvariant, ShareInvariant, ProcessOK, ProcessState
    <3>1. PICK new \in {Waiting("read", "read", {}), Handle(proc[p].mode, proc[p].batch),
                        Down} : proc' = [proc EXCEPT ![p] = new]
      BY <2>1 DEF FailShare, CrashProcess, SetProcess
    <3>2. new.challenge = 0
      BY <1>0, <3>0, HandleTypes, WaitingTypes DEF Down
    <3> QED
      BY <1>1, <3>1, <3>2
  <2>2. \/ \E p \in Processors : FailShare(p) \/ CrashProcess(p)
        \/ proc' = proc
    BY <1>5 DEF Fault, shareVars, RewardFault
  <2> QED
    BY <1>3, <2>1, <2>2
<1>6. CASE ~Fault /\ ~\E p \in Processors : ShareSide(ProcessStep(p))
  <2>1. proc' = proc
    BY <1>6 DEF Next, vars, MineBlock, CollectSide, ShareSide, WorkerStep, AddShare,
       AddShareToList, CleanPendingShares, RewardSide, shareVars
  <2> QED
    BY <1>3, <2>1
<1> QED
  BY <1>4, <1>5, <1>6

(* Who writes the totals. *)
LEMMA TotalsAreWritten ==
    ASSUME MiningInvariant, [Next]_vars
    PROVE  \/ totaldiff_challengenumber' = totaldiff_challengenumber
           \/ \E r \in CollectRuns : EnsureTotal(r)
           \/ \E p \in Processors : WriteTotal(p)
<1>1. CASE MineBlock \/ UNCHANGED vars
  BY <1>1 DEF MineBlock, NewEpoch, vars, miningVars
<1>2. CASE \E r \in CollectRuns : CollectSide(CollectStep(r))
  BY <1>2 DEF CollectSide, CollectStep, ReadParameter, CompareChallenge, Compare,
     WriteMiningContractData, WriteAllMiningContracts, PurgeQueuedShares, miningVars
<1>3. CASE \E p \in Processors : ShareSide(ProcessStep(p))
  BY <1>3 DEF ShareSide, ProcessStep, Start, StartWithoutRedis, Reclaim, LoopStep,
     ClaimStaleShares, Claim, ReadPendingShares, ReadShares, TakeFromList, HandleStep,
     CheckShare, Accept, FindDigest, InPace, TooFast, ReadTotal,
     InsertPendingShare, FindRow, CreditMiner, WriteRow, QueueSolution, AckShare, Ack,
     Goto, SetProcess, miningVars
<1>4. CASE ShareSide(WorkerStep) \/ ShareSide(CleanPendingShares)
  BY <1>4 DEF ShareSide, WorkerStep, AddShare, AddShareToList, CleanPendingShares, miningVars
<1>5. CASE \E r \in InsertRuns : RewardSide(ScanStep(r))
  BY <1>5 DEF RewardSide, ScanStep, LookForMint, InsertMint, SetInsert, miningVars
<1>6. CASE \E r \in CrawlRuns : RewardSide(CrawlStep(r))
  BY <1>6, CrawlTypes DEF RewardSide, RowsStayTyped
<1>7. CASE Fault
  BY <1>7 DEF Fault, FailCollect, FailShare, CrashProcess, SetProcess, RewardFault,
     FailInsert, SetInsert, FailCrawl, AbortCrawl, SetCrawl, CollectorCrash, miningVars
<1> QED
  BY <1>1, <1>2, <1>3, <1>4, <1>5, <1>6, <1>7 DEF Next

(* What the collector has recorded of a settled epoch and of those before it, *)
(* and what the processes have counted for them, stays as it is.              *)
LEMMA SettledStays ==
    ASSUME MiningInvariant, MiningInvariant', Forward, InTurn, [Next]_vars,
           NEW e \in Epochs, Settled(e)
    PROVE  /\ Settled(e)'
           /\ \A d \in 1..e :
                /\ allminingContracts'[d] = allminingContracts[d]
                /\ totaldiff_challengenumber'[d] = totaldiff_challengenumber[d]
<1>0. /\ e \in Nat /\ miningContractData.challenge \in Nat
      /\ miningContractData.challenge > e
      /\ 1..e \subseteq Epochs
      /\ \A r \in CollectRuns : collect[r].at = 4 =>
            /\ collect[r].contract \in Ordered
            /\ collect[r].contract.challenge \in Nat /\ collect[r].contract.epoch \in Nat
            /\ e < collect[r].contract.challenge
            /\ e < collect[r].contract.epoch
  <2>1. e \in Nat /\ 1..e \subseteq Epochs
    BY EpochAssumption DEF Epochs
  <2>2. ASSUME NEW r \in CollectRuns, collect[r].at = 4
        PROVE  /\ collect[r].contract \in Ordered
               /\ collect[r].contract.challenge \in Nat /\ collect[r].contract.epoch \in Nat
               /\ e < collect[r].contract.challenge
               /\ e < collect[r].contract.epoch
    <3>1. collect[r].contract \in Ordered
      BY <2>2, ReadWhole, DataTypes
    <3>2. miningContractData.challenge <= collect[r].contract.challenge
      BY <2>2 DEF Forward
    <3> QED
      BY <2>1, <3>1, <3>2, DataTypes, EpochAssumption DEF Settled, Ordered, Contract
  <2> QED
    BY <2>1, <2>2, DataTypes DEF Settled
<1>1. Settled(e)'
  <2>1. /\ miningContractData.challenge <= miningContractData'.challenge
        /\ miningContractData'.challenge \in Nat
    <3>1. miningContractData' \in Contract
      BY DEF MiningInvariant, ShareInvariant, CollectorInvariant, MiningTypeOK
    <3> QED
      BY <3>1, ForwardGoesOn, EpochAssumption DEF Contract
  <2>2. ASSUME NEW q \in Processors PROVE proc'[q].challenge \notin 1..e
    BY <1>0, ChallengesFound DEF Found, Settled
  <2> QED
    BY <1>0, <2>1, <2>2 DEF Settled
<1>2. ASSUME NEW d \in 1..e PROVE allminingContracts'[d] = allminingContracts[d]
  <2>1. ASSUME NEW r \in CollectRuns, WriteAllMiningContracts(r)
        PROVE  allminingContracts'[d] = allminingContracts[d]
    <3>1. collect[r].at = 4
      BY <2>1, DataTypes DEF WriteAllMiningContracts, CollectorInvariant, CollectsOK, CollectOK
    <3>2. collect[r].contract.epoch # d
      BY <1>0, <3>1
    <3> QED
      BY <1>0, <2>1, <3>2, DataTypes DEF WriteAllMiningContracts
  <2> QED
    BY <2>1, DataIsWritten DEF WriteMiningContractData
<1>3. ASSUME NEW d \in 1..e
      PROVE  totaldiff_challengenumber'[d] = totaldiff_challengenumber[d]
  <2>1. ASSUME NEW r \in CollectRuns, EnsureTotal(r)
        PROVE  totaldiff_challengenumber'[d] = totaldiff_challengenumber[d]
    <3>1. collect[r].at = 4
      BY <2>1, DataTypes DEF EnsureTotal, CollectorInvariant, CollectsOK, CollectOK
    <3>2. collect[r].contract.challenge # d
      BY <1>0, <3>1
    <3> QED
      BY <1>0, <2>1, <3>2, DataTypes DEF EnsureTotal
  <2>2. ASSUME NEW p \in Processors, WriteTotal(p)
        PROVE  totaldiff_challengenumber'[d] = totaldiff_challengenumber[d]
    <3>1. proc[p].challenge # d
      BY DEF Settled
    <3> QED
      BY <1>0, <2>2, <3>1, DataTypes DEF WriteTotal
  <2> QED
    BY <2>1, <2>2, TotalsAreWritten
<1> QED
  BY <1>1, <1>2, <1>3

----------------------------------------------------------------------------
(* What a crawl and a reward rely on. *)

\* No two rows are those of one miner for one challenge, and who is about to insert a
\* row for them has seen that there is none.
RowsUnique ==
    \A i, j \in Rows :
        /\ miner_challengediff[i].miner = miner_challengediff[j].miner
        /\ miner_challengediff[i].challenge = miner_challengediff[j].challenge
        => i = j

Inserting(state) == state.pc \in {"insert", "credit"} /\ state.row = 0

NoRowYet ==
    /\ \A p \in Processors :
        Inserting(proc[p]) => RowsOf(MinerOf[proc[p].share], proc[p].challenge) = {}
    /\ \A r \in CrawlRuns :
        crawl[r].pc = "zero" => RowsOf(crawl[r].miner, crawl[r].challenge) = {}

\* The mint is of a settled epoch, and c is the challenge its record gives.
Settling(i, c) ==
    /\ Settled(pool_mints[i].epoch)
    /\ allminingContracts[pool_mints[i].epoch] # NoContract
    /\ c = allminingContracts[pool_mints[i].epoch].challenge

\* Only a row of status 2 has been rewarded.
RewardedRow(m, c) == \E i \in RowsOf(m, c) : miner_challengediff[i].status = 2
Unrewarded(m, c) == \A k \in DOMAIN rewards : ~(rewards[k].miner = m /\ rewards[k].challenge = c)

CrawlBooks(state) ==
    /\ state.pc \in Opened => Settling(state.mint, state.challenge)
    /\ \A i \in state.rows : miner_challengediff[i].challenge = state.challenge
    /\ state.pc = "award" =>
        /\ miner_challengediff[state.row].status = 2
        /\ Unrewarded(miner_challengediff[state.row].miner, state.challenge)

CrawlsBook == \A r \in CrawlRuns : CrawlBooks(crawl[r])

RewardsBook ==
    /\ \A k \in DOMAIN rewards :
        /\ rewards[k].mint \in Mints
        /\ Settling(rewards[k].mint, rewards[k].challenge)
        /\ RewardedRow(rewards[k].miner, rewards[k].challenge)
    /\ \A j, k \in DOMAIN rewards :
        rewards[j].miner = rewards[k].miner /\ rewards[j].challenge = rewards[k].challenge
            => j = k

BooksInvariant ==
    /\ Forward
    /\ RowsUnique
    /\ NoRowYet
    /\ CrawlsBook
    /\ RewardsBook

----------------------------------------------------------------------------
(* What the steps are to the rows and the rewards. *)

\* The mints keep their epochs.
MintsKeep ==
    /\ Mints \subseteq Mints'
    /\ \A i \in Mints : pool_mints'[i].epoch = pool_mints[i].epoch

\* The rows keep miner and challenge, and what is rewarded stays rewarded.
PlacesKeep ==
    /\ Rows \subseteq Rows'
    /\ \A i \in Rows :
        /\ miner_challengediff'[i].miner = miner_challengediff[i].miner
        /\ miner_challengediff'[i].challenge = miner_challengediff[i].challenge
        /\ miner_challengediff[i].status = 2 => miner_challengediff'[i].status = 2

\* A miner gets the first row for a challenge.
AddsRow(k, m, c) ==
    /\ k \notin Rows /\ Rows' = Rows \cup {k}
    /\ RowsOf(m, c) = {}
    /\ miner_challengediff'[k].miner = m /\ miner_challengediff'[k].challenge = c

LEMMA NoNewRow ==
    ASSUME PlacesKeep, Rows' = Rows, NEW m, NEW c
    PROVE  /\ RowsUnique => RowsUnique'
           /\ RowsOf(m, c)' = RowsOf(m, c)
<1>1. \A i \in Rows :
        /\ miner_challengediff'[i].miner = miner_challengediff[i].miner
        /\ miner_challengediff'[i].challenge = miner_challengediff[i].challenge
  BY DEF PlacesKeep
<1>2. RowsUnique => RowsUnique'
  BY <1>1 DEF RowsUnique
<1>3. RowsOf(m, c)' = RowsOf(m, c)
  BY <1>1 DEF RowsOf
<1> QED
  BY <1>2, <1>3

LEMMA OneNewRow ==
    ASSUME PlacesKeep, NEW k, NEW m, NEW c, AddsRow(k, m, c)
    PROVE  /\ RowsUnique => RowsUnique'
           /\ \A n, d : (n # m \/ d # c) => RowsOf(n, d)' = RowsOf(n, d)
<1>1. \A i \in Rows :
        /\ miner_challengediff'[i].miner = miner_challengediff[i].miner
        /\ miner_challengediff'[i].challenge = miner_challengediff[i].challenge
  BY DEF PlacesKeep
<1>2. \A i \in Rows : ~(miner_challengediff[i].miner = m /\ miner_challengediff[i].challenge = c)
  BY DEF AddsRow, RowsOf
<1>3. RowsUnique => RowsUnique'
  BY <1>1, <1>2 DEF RowsUnique, AddsRow
<1>4. ASSUME NEW n, NEW d, n # m \/ d # c PROVE RowsOf(n, d)' = RowsOf(n, d)
  BY <1>1, <1>4 DEF RowsOf, AddsRow
<1> QED
  BY <1>3, <1>4

(* The mints are appended to, and get a status. *)
LEMMA StatusKeeps ==
    ASSUME MiningInvariant, NEW i, NEW status \in {2, 4},
           pool_mints' = [pool_mints EXCEPT ![i].poolstatus = status]
    PROVE  MintsKeep
<1> DEFINE mint == [pool_mints[i] EXCEPT !.poolstatus = status]
<1>1. pool_mints \in Seq(PoolMint)
  BY DEF MiningInvariant, RewardInvariant, RewardTypeOK
<1>2. i \in DOMAIN pool_mints => mint \in PoolMint /\ mint.epoch = pool_mints[i].epoch
  <2>1. i \in DOMAIN pool_mints => pool_mints[i] \in PoolMint
    BY <1>1
  <2> QED
    BY <2>1 DEF PoolMint
<1>3. pool_mints' = [pool_mints EXCEPT ![i] = mint]
  OBVIOUS
<1> HIDE DEF mint
<1> QED
  BY <1>1, <1>2, <1>3, SeqExcept DEF MintsKeep, Mints

LEMMA ScanKeeps ==
    ASSUME MiningInvariant, NEW r \in InsertRuns, ScanStep(r) \/ FailInsert(r)
    PROVE  MintsKeep
<1>0. pool_mints \in Seq(PoolMint)
  BY DEF MiningInvariant, RewardInvariant, RewardTypeOK
<1>1. CASE InsertMint(r)
  <2> DEFINE mint == [epoch |-> inserting[r], poolstatus |-> 1]
  <2>1. mint \in PoolMint
    BY <1>1, EpochAssumption DEF InsertMint, MiningInvariant, RewardInvariant,
       RewardTypeOK, PoolMint, Epochs
  <2>2. pool_mints' = Append(pool_mints, mint)
    BY <1>1 DEF InsertMint
  <2> HIDE DEF mint
  <2> QED
    BY <1>0, <2>1, <2>2, SeqAppend DEF MintsKeep, Mints
<1>2. CASE ~InsertMint(r)
  BY <1>2 DEF ScanStep, LookForMint, FailInsert, MintsKeep, Mints
<1> QED
  BY <1>1, <1>2

(* The books stay right while the rows, the mints and the rewards keep what they have. *)
LEMMA MintEpochs ==
    ASSUME MiningInvariant
    PROVE  /\ pool_mints \in Seq(PoolMint) /\ rewards \in Seq(Reward) /\ Mints \subseteq Nat
           /\ \A i \in Mints : pool_mints[i].epoch \in Epochs
<1>1. /\ pool_mints \in Seq(PoolMint) /\ rewards \in Seq(Reward)
  BY DEF MiningInvariant, RewardInvariant, RewardTypeOK
<1>2. \A i \in Mints : pool_mints[i] \in PoolMint /\ i \in Nat
  BY <1>1 DEF Mints
<1> QED
  BY <1>1, <1>2 DEF PoolMint

LEMMA SettlingStays ==
    ASSUME MiningInvariant, MiningInvariant', Forward, InTurn, [Next]_vars, MintsKeep,
           NEW i \in Mints, NEW c, Settling(i, c)
    PROVE  Settling(i, c)'
<1>1. PICK e \in Epochs : e = pool_mints[i].epoch
  BY MintEpochs
<1>2. Settled(e) /\ allminingContracts[e] # NoContract /\ c = allminingContracts[e].challenge
  BY <1>1 DEF Settling
<1>3. Settled(e)' /\ allminingContracts'[e] = allminingContracts[e]
  <2>1. e \in 1..e
    BY EpochAssumption DEF Epochs
  <2> QED
    BY <1>2, <2>1, SettledStays
<1>4. pool_mints'[i].epoch = e
  BY <1>1 DEF MintsKeep
<1> QED
  BY <1>2, <1>3, <1>4 DEF Settling

LEMMA RewardedStays ==
    ASSUME PlacesKeep, NEW m, NEW c, RewardedRow(m, c)
    PROVE  RewardedRow(m, c)'
BY DEF PlacesKeep, RewardedRow, RowsOf

LEMMA CrawlBooksStay ==
    ASSUME MiningInvariant, MiningInvariant', Forward, InTurn, [Next]_vars, MintsKeep,
           PlacesKeep, rewards' = rewards,
           NEW state, CrawlOK(state), CrawlBooks(state)
    PROVE  CrawlBooks(state)'
<1>1. state.pc \in Opened => Settling(state.mint, state.challenge)'
  <2> SUFFICES ASSUME state.pc \in Opened PROVE Settling(state.mint, state.challenge)'
    OBVIOUS
  <2>1. state.mint \in Mints /\ Settling(state.mint, state.challenge)
    BY DEF CrawlOK, CrawlBooks
  <2> QED
    BY <2>1, SettlingStays
<1>2. \A i \in state.rows : miner_challengediff'[i].challenge = state.challenge
  BY DEF PlacesKeep, CrawlBooks, CrawlOK
<1>3. state.pc = "award" =>
        /\ miner_challengediff'[state.row].status = 2
        /\ Unrewarded(miner_challengediff[state.row].miner, state.challenge)'
  <2> SUFFICES ASSUME state.pc = "award"
               PROVE  /\ miner_challengediff'[state.row].status = 2
                      /\ Unrewarded(miner_challengediff[state.row].miner, state.challenge)'
    OBVIOUS
  <2>1. state.row \in Rows
    BY DEF CrawlOK
  <2>2. /\ miner_challengediff'[state.row].miner = miner_challengediff[state.row].miner
        /\ miner_challengediff'[state.row].status = 2
    BY <2>1 DEF PlacesKeep, CrawlBooks
  <2> QED
    BY <2>2 DEF CrawlBooks, Unrewarded
<1> QED
  BY <1>1, <1>2, <1>3 DEF CrawlBooks

LEMMA RewardsBookStays ==
    ASSUME MiningInvariant, MiningInvariant', Forward, InTurn, [Next]_vars, MintsKeep,
           PlacesKeep, rewards' = rewards, RewardsBook
    PROVE  RewardsBook'
<1>1. ASSUME NEW k \in DOMAIN rewards'
      PROVE  /\ rewards'[k].mint \in Mints'
             /\ Settling(rewards[k].mint, rewards[k].challenge)'
             /\ RewardedRow(rewards[k].miner, rewards[k].challenge)'
  <2>1. PICK i, c, m : i = rewards[k].mint /\ c = rewards[k].challenge /\ m = rewards[k].miner
    OBVIOUS
  <2>2. i \in Mints /\ Settling(i, c) /\ RewardedRow(m, c)
    BY <1>1, <2>1 DEF RewardsBook
  <2>3. i \in Mints' /\ Settling(i, c)' /\ RewardedRow(m, c)'
    BY <2>2, SettlingStays, RewardedStays DEF MintsKeep
  <2>4. i = rewards'[k].mint /\ c = rewards'[k].challenge /\ m = rewards'[k].miner
    BY <2>1
  <2> QED
    BY <2>3, <2>4
<1> QED
  BY <1>1 DEF RewardsBook

(* The other crawls are idle while one is at work. *)
LEMMA OneCrawlBooks ==
    ASSUME MiningInvariant, MiningInvariant', NEW r \in CrawlRuns, NEW new,
           crawl[r].pc # "idle" \/ ~rewardCrawlRunning,
           crawl' = [crawl EXCEPT ![r] = new], CrawlBooks(new)'
    PROVE  CrawlsBook' /\ crawl'[r] = new
           /\ \A q \in CrawlRuns : q # r => crawl'[q] = crawl[q] /\ crawl[q].pc = "idle"
<1>1. /\ crawl \in [CrawlRuns -> CrawlState]
      /\ \A q \in CrawlRuns : q # r => crawl[q].pc = "idle"
  BY DEF MiningInvariant, RewardInvariant, RewardTypeOK, OneCrawl
<1>2. crawl'[r] = new /\ \A q \in CrawlRuns : q # r => crawl'[q] = crawl[q]
  BY <1>1
<1>3. ASSUME NEW q \in CrawlRuns PROVE CrawlBooks(crawl[q])'
  <2>1. CASE q = r
    BY <1>2, <2>1 DEF CrawlBooks
  <2>2. CASE q # r
    <3>1. crawl'[q].pc = "idle"
      BY <1>1, <1>2, <2>2
    <3>2. crawl'[q].rows = {}
      BY <3>1 DEF MiningInvariant, RewardInvariant, CrawlsOK, CrawlOK, AtRows
    <3> QED
      BY <3>1, <3>2 DEF CrawlBooks, Opened
  <2> QED
    BY <2>1, <2>2
<1> QED
  BY <1>1, <1>2, <1>3 DEF CrawlsBook

----------------------------------------------------------------------------
(* The steps of the others, and the faults. *)

\* A crawl stays as it is or is over, and so does the work of a process.
Rest ==
    /\ miner_challengediff' = miner_challengediff
    /\ rewards' = rewards
    /\ MintsKeep
    /\ \A r \in CrawlRuns : crawl'[r] = crawl[r] \/ crawl'[r] = IdleCrawl
    /\ ProcessesRest

LEMMA RestBooks ==
    ASSUME MiningInvariant, MiningInvariant', BooksInvariant, InTurn, [Next]_vars, Rest
    PROVE  BooksInvariant'
<1> USE DEF BooksInvariant
<1>1. PlacesKeep /\ Rows' = Rows
  BY DEF Rest, PlacesKeep, Rows
<1>2. Forward'
  BY ForwardGoesOn
<1>3. CrawlsBook'
  <2>1. ASSUME NEW r \in CrawlRuns PROVE CrawlBooks(crawl[r])'
    <3>1. CASE crawl'[r] = crawl[r]
      <4>1. PICK state : state = crawl[r]
        OBVIOUS
      <4>2. CrawlOK(state) /\ CrawlBooks(state)
        BY <4>1, CrawlAtHand DEF MiningInvariant, CrawlsBook
      <4>3. CrawlBooks(state)'
        BY <1>1, <4>2, CrawlBooksStay DEF Rest
      <4> QED
        BY <3>1, <4>1, <4>3 DEF CrawlBooks
    <3>2. CASE crawl'[r] = IdleCrawl
      BY <3>2, IdleCrawlTypes DEF CrawlBooks, Opened
    <3> QED
      BY <3>1, <3>2 DEF Rest
  <2> QED
    BY <2>1 DEF CrawlsBook
<1>4. RewardsBook'
  BY <1>1, RewardsBookStays DEF Rest
<1>5. NoRowYet'
  <2>0. \A m, c : RowsOf(m, c)' = RowsOf(m, c)
    BY <1>1, NoNewRow
  <2>1. ASSUME NEW q \in Processors, Inserting(proc'[q])
        PROVE  RowsOf(MinerOf[proc[q].share], proc[q].challenge)' = {}
    <3>1. proc'[q] = proc[q]
      BY <2>1 DEF Rest, ProcessesRest, Inserting, AtWork, AtShare
    <3>2. PICK m, c : m = MinerOf[proc[q].share] /\ c = proc[q].challenge
      OBVIOUS
    <3>3. RowsOf(m, c)' = {}
      BY <2>0, <2>1, <3>1, <3>2 DEF NoRowYet
    <3> QED
      BY <3>1, <3>2, <3>3
  <2>2. ASSUME NEW r \in CrawlRuns, crawl'[r].pc = "zero"
        PROVE  RowsOf(crawl[r].miner, crawl[r].challenge)' = {}
    <3>1. crawl'[r] = crawl[r]
      BY <2>2, IdleCrawlTypes DEF Rest
    <3>2. PICK m, c : m = crawl[r].miner /\ c = crawl[r].challenge
      OBVIOUS
    <3>3. RowsOf(m, c)' = {}
      BY <2>0, <2>2, <3>1, <3>2 DEF NoRowYet
    <3> QED
      BY <3>1, <3>2, <3>3
  <2> QED
    BY <2>1, <2>2 DEF NoRowYet, Inserting
<1> QED
  BY <1>1, <1>2, <1>3, <1>4, <1>5, NoNewRow

(* A crawl inserts a row only for a challenge no process is counting for. *)
LEMMA ChallengeIsOld ==
    ASSUME MiningInvariant, NEW i \in Mints, NEW c, Settling(i, c)
    PROVE  /\ c \in Epochs
           /\ \A p \in Processors : proc[p].challenge # c
<1>1. PICK e \in Epochs : e = pool_mints[i].epoch
  BY MintEpochs
<1>2. Settled(e) /\ allminingContracts[e] # NoContract /\ c = allminingContracts[e].challenge
  BY <1>1 DEF Settling
<1>3. allminingContracts[e] \in Ordered /\ allminingContracts[e].epoch = e
  BY <1>2, DataTypes DEF CollectorInvariant, RecordsOK
<1>4. c \in 1..e /\ c \in Epochs
  BY <1>2, <1>3, ContractTypes, EpochAssumption DEF Ordered, Epochs
<1> QED
  BY <1>2, <1>4 DEF Settled

LEMMA CountBooks ==
    ASSUME MiningInvariant, MiningInvariant', SumsInvariant, BooksInvariant, InTurn,
           [Next]_vars, NEW p \in Processors, CountStep(p), UNCHANGED rewardVars
    PROVE  BooksInvariant'
<1> USE DEF BooksInvariant
<1>0. /\ MiningTypeOK /\ proc[p] \in ProcessState /\ proc \in [Processors -> ProcessState]
      /\ crawl' = crawl /\ rewards' = rewards /\ pool_mints' = pool_mints
  BY DataTypes, AtHand DEF MiningInvariant, ShareInvariant, ShareTypeOK, rewardVars,
     mintVars, crawlVars
<1>1. CountMove(p) /\ ProcessStep(p)
  BY CountMoves DEF CountStep, ProcessStep, HandleStep
<1>2. PlacesKeep
  BY <1>1, ProcessRows DEF MiningInvariant, RowsGrow, PlacesKeep
<1>3. MintsKeep
  BY <1>0 DEF MintsKeep, Mints
<1>4. Forward'
  BY ForwardGoesOn
<1>5. CrawlsBook'
  <2>1. ASSUME NEW r \in CrawlRuns PROVE CrawlBooks(crawl[r])'
    <3>1. PICK state : state = crawl[r]
      OBVIOUS
    <3>2. CrawlOK(state) /\ CrawlBooks(state)
      BY <3>1, CrawlAtHand DEF MiningInvariant, CrawlsBook
    <3>3. CrawlBooks(state)'
      BY <1>0, <1>2, <1>3, <3>2, CrawlBooksStay
    <3> QED
      BY <1>0, <3>1, <3>3 DEF CrawlBooks
  <2> QED
    BY <2>1 DEF CrawlsBook
<1>6. RewardsBook'
  BY <1>0, <1>2, <1>3, RewardsBookStays
<1>7. CASE ~CreditMiner(p)
  <2>1. miner_challengediff' = miner_challengediff /\ Rows' = Rows
    BY <1>1, <1>7 DEF CountMove, Rows
  <2>2. RowsUnique' /\ \A m, c : RowsOf(m, c)' = RowsOf(m, c)
    BY <1>2, <2>1, NoNewRow
  <2>3. ASSUME NEW q \in Processors, Inserting(proc'[q])
        PROVE  RowsOf(MinerOf[proc[q].share], proc[q].challenge)' = {}
    <3>1. PICK m, c : m = MinerOf[proc'[q].share] /\ c = proc'[q].challenge
      OBVIOUS
    <3>2. RowsOf(m, c) = {}
      <4>1. CASE q # p
        BY <1>1, <2>3, <3>1, <4>1 DEF CountMove, NoRowYet
      <4>2. CASE q = p /\ InsertPendingShare(p)
        <5>1. proc'[p] = [proc[p] EXCEPT !.pc = IF proc[p].pc = "both" THEN "row" ELSE "credit"]
          BY <1>0, <4>2 DEF InsertPendingShare, Goto, SetProcess
        <5>2. /\ proc'[p].row = proc[p].row /\ proc'[p].share = proc[p].share
              /\ proc'[p].challenge = proc[p].challenge
              /\ proc[p].pc = "both" => proc'[p].pc = "row"
              /\ proc[p].pc \in {"both", "insert"}
          BY <1>0, <4>2, <5>1 DEF ProcessState, InsertPendingShare
        <5> QED
          BY <2>3, <3>1, <4>2, <5>2 DEF NoRowYet, Inserting
      <4>3. CASE q = p /\ FindRow(p)
        <5> DEFINE rows == RowsOf(MinerOf[proc[p].share], proc[p].challenge)
                   row == IF rows = {} THEN 0 ELSE FirstOf(rows)
                   pc == IF proc[p].pc = "both" THEN "insert" ELSE "credit"
                   mine == IF rows = {} THEN NoShares
                           ELSE miner_challengediff[FirstOf(rows)].totaldiff
                   new == [proc[p] EXCEPT !.pc = pc, !.row = row, !.mine = mine]
        <5>1. proc'[p] = new
          BY <1>0, <4>3 DEF FindRow, SetProcess
        <5>2. row = 0 => rows = {}
          <6>1. rows # {} => FirstOf(rows) # 0
            <7>1. rows # {} => FirstOf(rows) \in Rows
              BY <1>0, RowsOfTypes
            <7> QED
              BY <1>0, <7>1 DEF MiningTypeOK, Rows
          <6> QED
            BY <6>1
        <5> HIDE DEF row, pc, mine
        <5>3. new.row = row /\ new.share = proc[p].share /\ new.challenge = proc[p].challenge
          BY <1>0 DEF ProcessState
        <5> HIDE DEF new
        <5> QED
          BY <2>3, <3>1, <4>3, <5>1, <5>2, <5>3 DEF Inserting
      <4>4. CASE q = p /\ ~InsertPendingShare(p) /\ ~FindRow(p)
        <5>1. proc'[p].pc \notin {"insert", "credit"}
          <6>1. proc[p].pc \in {"check", "find", "pace", "total", "write", "queue"}
            BY <1>7, <4>4 DEF CountStep, CheckShare, Accept, FindDigest, InPace, ReadTotal,
               WriteTotal, QueueSolution
          <6> QED
            BY <1>1, <6>1 DEF CountMove
        <5> QED
          BY <2>3, <4>4, <5>1 DEF Inserting
      <4> QED
        BY <4>1, <4>2, <4>3, <4>4
    <3>3. RowsOf(m, c)' = {}
      BY <2>2, <3>2
    <3> QED
      BY <3>1, <3>3
  <2>4. ASSUME NEW r \in CrawlRuns, crawl'[r].pc = "zero"
        PROVE  RowsOf(crawl[r].miner, crawl[r].challenge)' = {}
    <3>1. PICK m, c : m = crawl[r].miner /\ c = crawl[r].challenge
      OBVIOUS
    <3>2. RowsOf(m, c)' = {}
      BY <1>0, <2>2, <2>4, <3>1 DEF NoRowYet
    <3> QED
      BY <1>0, <3>1, <3>2
  <2>5. NoRowYet'
    BY <2>3, <2>4 DEF NoRowYet, Inserting
  <2> QED
    BY <1>4, <1>5, <1>6, <2>2, <2>5
<1>8. CASE CreditMiner(p)
  <2>0. ProcessSums(proc[p]) /\ proc[p].pc = "credit"
    BY <1>8 DEF SumsInvariant, ProcessesSum, CreditMiner, WriteRow
  <2>1. PICK k \in Nat, s \in Shares, c \in Epochs, mine \in Tally :
            /\ s = proc[p].share /\ c = proc[p].challenge /\ mine = proc[p].mine
            /\ Credited(k, s, c, mine)
            /\ k \notin Rows => RowsOf(MinerOf[s], c) = {} \/ proc[p].row = 0
    BY <1>8, <2>0, CreditWrites
  <2>2. PICK m : m = MinerOf[s]
    OBVIOUS
  <2>3. k \notin Rows => RowsOf(m, c) = {}
    BY <2>0, <2>1, <2>2 DEF NoRowYet, Inserting
  <2>4. /\ RowsUnique'
        /\ \A n, d : n # m \/ d # c => RowsOf(n, d)' = RowsOf(n, d)
    <3>1. CASE k \in Rows
      <4>1. Rows' = Rows
        BY <2>1, <3>1 DEF Credited
      <4> QED
        BY <1>2, <4>1, NoNewRow
    <3>2. CASE k \notin Rows
      <4>1. AddsRow(k, m, c)
        BY <2>1, <2>2, <2>3, <3>2 DEF AddsRow, Credited
      <4> QED
        BY <1>2, <4>1, OneNewRow
    <3> QED
      BY <3>1, <3>2
  <2>5. ASSUME NEW q \in Processors, Inserting(proc'[q])
        PROVE  FALSE
    <3>1. proc[p].pc # "down" /\ proc'[p].pc \in {"queue", "ack"}
      BY <1>1, <2>0 DEF CountMove
    <3>2. q # p /\ proc'[q] = proc[q]
      BY <1>1, <2>5, <3>1 DEF CountMove, Inserting
    <3> QED
      BY <2>5, <3>1, <3>2 DEF SumsInvariant, Single, Inserting
  <2>6. ASSUME NEW r \in CrawlRuns, crawl'[r].pc = "zero"
        PROVE  RowsOf(crawl[r].miner, crawl[r].challenge)' = {}
    <3>1. PICK n, d : n = crawl[r].miner /\ d = crawl[r].challenge
      OBVIOUS
    <3>2. RowsOf(n, d) = {}
      BY <1>0, <2>6, <3>1 DEF NoRowYet
    <3>3. crawl[r].mint \in Mints /\ Settling(crawl[r].mint, d)
      BY <1>0, <2>6, <3>1, CrawlAtHand
      DEF CrawlsBook, CrawlBooks, CrawlOK, Opened, MiningInvariant
    <3>4. d # c
      BY <2>1, <3>3, ChallengeIsOld
    <3>5. RowsOf(n, d)' = {}
      BY <2>4, <3>2, <3>4
    <3> QED
      BY <1>0, <3>1, <3>5
  <2>7. NoRowYet'
    BY <2>5, <2>6 DEF NoRowYet, Inserting
  <2> QED
    BY <1>4, <1>5, <1>6, <2>4, <2>7
<1> QED
  BY <1>7, <1>8

----------------------------------------------------------------------------
(* The steps of a crawl. *)

\* The crawl is done with the mint, or stays with it and its challenge.
StaysAt(old, new) ==
    \/ new.pc \notin Opened /\ new.rows = {}
    \/ /\ old.pc \in Opened /\ new.pc # "award"
       /\ new.mint = old.mint /\ new.challenge = old.challenge
       /\ \A i \in new.rows : i \in old.rows \/ miner_challengediff[i].challenge = old.challenge

\* A step of a crawl that inserts nothing.
CrawlMoved(r, new) ==
    /\ crawl[r].pc # "idle" \/ ~rewardCrawlRunning
    /\ crawl' = [crawl EXCEPT ![r] = new]
    /\ Mints' = Mints /\ MintsKeep
    /\ Rows' = Rows /\ PlacesKeep
    /\ new.pc = "zero" => RowsOf(new.miner, new.challenge) = {}

CrawlKeeps(r, new) ==
    /\ CrawlMoved(r, new)
    /\ rewards' = rewards
    /\ StaysAt(crawl[r], new)

LEMMA NothingWritten ==
    ASSUME MiningInvariant, UNCHANGED <<pool_mints, miner_challengediff>>
    PROVE  Mints' = Mints /\ MintsKeep /\ Rows' = Rows /\ PlacesKeep
BY DEF MintsKeep, PlacesKeep, Mints, Rows

\* A crawl only reads, and nothing of what it has read matters to the books.
LEMMA CrawlLooks ==
    ASSUME MiningInvariant, NEW r \in CrawlRuns, NEW pc \in Opened \ {"award"},
           Reads(r, pc), NEW new, SetCrawl(r, new),
           new.pc \in Opened \ {"award", "zero"},
           new.mint = crawl[r].mint, new.challenge = crawl[r].challenge,
           new.rows = crawl[r].rows
    PROVE  CrawlKeeps(r, new)
<1>1. /\ crawl[r].pc = pc /\ crawl' = [crawl EXCEPT ![r] = new]
      /\ UNCHANGED <<pool_mints, miner_challengediff, rewards>>
  BY DEF Reads, SetCrawl
<1> QED
  BY <1>1, NothingWritten DEF CrawlKeeps, CrawlMoved, StaysAt, Opened

LEMMA MintStepKeeps ==
    ASSUME MiningInvariant, NEW r \in CrawlRuns, MintStep(r), ~InsertZeroRow(r)
    PROVE  \E new : CrawlKeeps(r, new)
<1>0. crawl[r] \in CrawlState
  BY CrawlAtHand DEF MiningInvariant
<1>1. CASE FindWindow(r)
  <2> DEFINE e == pool_mints[crawl[r].mint].epoch
             records == {allminingContracts[d] :
                        d \in {f \in Epochs : f <= e /\ f > e - PPLNSDEPTH}} \ {NoContract}
             new == [crawl[r] EXCEPT !.pc = "totals", !.records = records]
  <2>1. Reads(r, "window") /\ SetCrawl(r, new)
    BY <1>1 DEF FindWindow
  <2> HIDE DEF records
  <2>2. /\ new.pc = "totals" /\ new.mint = crawl[r].mint
        /\ new.challenge = crawl[r].challenge /\ new.rows = crawl[r].rows
    BY <1>0 DEF CrawlState
  <2> HIDE DEF new
  <2> QED
    BY <2>1, <2>2, CrawlLooks DEF Opened
<1>2. CASE ReadTotalDifficulty(r)
  <2>1. PICK record, total :
            LET rest == [crawl[r] EXCEPT !.records = crawl[r].records \ {record}] IN
            /\ Reads(r, "totals")
            /\ \/ SetCrawl(r, rest)
               \/ SetCrawl(r, [rest EXCEPT !.total = total,
                            !.challenges = Append(rest.challenges, record.challenge)])
    BY <1>2 DEF ReadTotalDifficulty, AddTotal
  <2> DEFINE rest == [crawl[r] EXCEPT !.records = crawl[r].records \ {record}]
             more == [rest EXCEPT !.total = total,
                            !.challenges = Append(rest.challenges, record.challenge)]
  <2>2. /\ rest.pc = crawl[r].pc /\ rest.mint = crawl[r].mint
        /\ rest.challenge = crawl[r].challenge /\ rest.rows = crawl[r].rows
        /\ more.pc = crawl[r].pc /\ more.mint = crawl[r].mint
        /\ more.challenge = crawl[r].challenge /\ more.rows = crawl[r].rows
    BY <1>0 DEF CrawlState
  <2>3. crawl[r].pc = "totals"
    BY <2>1 DEF Reads
  <2> HIDE DEF rest, more
  <2>4. Reads(r, "totals") /\ (SetCrawl(r, rest) \/ SetCrawl(r, more))
    BY <2>1 DEF rest, more
  <2> QED
    BY <2>2, <2>3, <2>4, CrawlLooks DEF Opened
<1>3. CASE FindMiners(r)
  <2>1. PICK miners : /\ Reads(r, "totals")
                      /\ SetCrawl(r, [crawl[r] EXCEPT !.pc = "fill", !.miners = miners])
    BY <1>3 DEF FindMiners, FindMinersOf
  <2> DEFINE new == [crawl[r] EXCEPT !.pc = "fill", !.miners = miners]
  <2>2. /\ new.pc = "fill" /\ new.mint = crawl[r].mint
        /\ new.challenge = crawl[r].challenge /\ new.rows = crawl[r].rows
    BY <1>0 DEF CrawlState
  <2> HIDE DEF new
  <2>3. SetCrawl(r, new)
    BY <2>1 DEF new
  <2> QED
    BY <2>1, <2>2, <2>3, CrawlLooks DEF Opened
<1>4. ASSUME NEW m \in Miners, FillRow(r, m) PROVE \E new : CrawlKeeps(r, new)
  <2> DEFINE filled == RowsOf(m, crawl[r].challenge) # {}
             skip == [crawl[r] EXCEPT !.miners = crawl[r].miners \ {m}]
             zero == [crawl[r] EXCEPT !.miners = crawl[r].miners \ {m}, !.pc = "zero",
                                      !.miner = m]
  <2>1. /\ Reads(r, "fill")
        /\ filled => SetCrawl(r, skip)
        /\ ~filled => SetCrawl(r, zero)
    BY <1>4 DEF FillRow
  <2>2. /\ skip.pc = crawl[r].pc /\ skip.mint = crawl[r].mint
        /\ skip.challenge = crawl[r].challenge /\ skip.rows = crawl[r].rows
        /\ zero.pc = "zero" /\ zero.mint = crawl[r].mint /\ zero.miner = m
        /\ zero.challenge = crawl[r].challenge /\ zero.rows = crawl[r].rows
    BY <1>0 DEF CrawlState
  <2>3. /\ crawl[r].pc = "fill"
        /\ UNCHANGED <<pool_mints, miner_challengediff, rewards>>
    BY <2>1 DEF Reads
  <2> HIDE DEF skip, zero
  <2>4. CASE filled
    BY <2>1, <2>2, <2>3, <2>4, CrawlLooks DEF Opened
  <2>5. CASE ~filled
    <3>1. crawl' = [crawl EXCEPT ![r] = zero]
      BY <2>1, <2>5 DEF SetCrawl
    <3>2. CrawlKeeps(r, zero)
      BY <2>2, <2>3, <2>5, <3>1, NothingWritten DEF CrawlKeeps, CrawlMoved, StaysAt, Opened
    <3> QED
      BY <3>2
  <2> QED
    BY <2>4, <2>5
<1>5. CASE ListRows(r)
  <2> DEFINE rows == {i \in Rows : /\ miner_challengediff[i].challenge = crawl[r].challenge
                                   /\ miner_challengediff[i].status = 1}
             new == [crawl[r] EXCEPT !.pc = "rows", !.rows = rows]
  <2>1. /\ crawl[r].pc = "fill" /\ crawl' = [crawl EXCEPT ![r] = new]
        /\ UNCHANGED <<pool_mints, miner_challengediff, rewards>>
    BY <1>5 DEF ListRows, Reads, SetCrawl
  <2>2. \A i \in rows : miner_challengediff[i].challenge = crawl[r].challenge
    OBVIOUS
  <2> HIDE DEF rows
  <2>3. /\ new.pc = "rows" /\ new.mint = crawl[r].mint
        /\ new.challenge = crawl[r].challenge /\ new.rows = rows
    BY <1>0 DEF CrawlState
  <2> HIDE DEF new
  <2>4. CrawlKeeps(r, new)
    BY <2>1, <2>2, <2>3, NothingWritten DEF CrawlKeeps, CrawlMoved, StaysAt, Opened
  <2> QED
    BY <2>4
<1>6. CASE FinishMint(r)
  <2> DEFINE new == [IdleCrawl EXCEPT !.pc = "mint",
                                      !.mints = crawl[r].mints \ {crawl[r].mint}]
  <2>1. /\ crawl[r].pc = "rows" /\ crawl' = [crawl EXCEPT ![r] = new]
        /\ UNCHANGED <<miner_challengediff, rewards>>
        /\ pool_mints' = [pool_mints EXCEPT ![crawl[r].mint].poolstatus = 2]
    BY <1>6 DEF FinishMint, SetMint, SetCrawl
  <2>2. new.pc = "mint" /\ new.rows = {}
    BY DEF IdleCrawl
  <2> HIDE DEF new
  <2>3. MintsKeep
    <3>1. 2 \in {2, 4}
      OBVIOUS
    <3>2. PICK i : i = crawl[r].mint
      OBVIOUS
    <3> QED
      BY <2>1, <3>1, <3>2, StatusKeeps
  <2>4. Mints' = Mints /\ Rows' = Rows /\ PlacesKeep
    BY <2>1 DEF PlacesKeep, Rows, Mints
  <2>5. CrawlKeeps(r, new)
    BY <2>1, <2>2, <2>3, <2>4 DEF CrawlKeeps, CrawlMoved, StaysAt, Opened
  <2> QED
    BY <2>5
<1> QED
  BY <1>1, <1>2, <1>3, <1>4, <1>5, <1>6 DEF MintStep

\* A call starts, gives up a mint without a record, or is over.
LEMMA TurnKeeps ==
    ASSUME MiningInvariant, NEW r \in CrawlRuns,
           StartCrawl(r) \/ FinishCrawl(r) \/ \E i \in Mints : NoContractFound(r, i)
    PROVE  \E new : CrawlKeeps(r, new)
<1>1. CASE StartCrawl(r) \/ FinishCrawl(r)
  <2> DEFINE open == {i \in Mints : pool_mints[i].poolstatus = 1}
             begin == [IdleCrawl EXCEPT !.pc = "mint", !.mints = open]
  <2>0. /\ begin.pc = "mint" /\ begin.rows = {}
        /\ IdleCrawl.pc = "idle" /\ IdleCrawl.rows = {}
    BY DEF IdleCrawl
  <2>1. PICK new \in {IdleCrawl, begin} :
            /\ crawl' = [crawl EXCEPT ![r] = new]
            /\ UNCHANGED <<pool_mints, rewards, miner_challengediff>>
            /\ crawl[r].pc # "idle" \/ ~rewardCrawlRunning
    BY <1>1 DEF StartCrawl, BeginCrawl, FinishCrawl, SetCrawl
  <2> HIDE DEF begin
  <2>2. new.pc \in {"idle", "mint"} /\ new.rows = {}
    BY <2>0, <2>1
  <2>3. CrawlKeeps(r, new)
    BY <2>1, <2>2, NothingWritten DEF CrawlKeeps, CrawlMoved, StaysAt, Opened
  <2> QED
    BY <2>3
<1>2. ASSUME NEW i \in Mints, NoContractFound(r, i) PROVE \E new : CrawlKeeps(r, new)
  <2> DEFINE new == [IdleCrawl EXCEPT !.pc = "mint", !.mints = crawl[r].mints \ {i}]
  <2>1. /\ crawl[r].pc = "mint" /\ crawl' = [crawl EXCEPT ![r] = new]
        /\ UNCHANGED <<miner_challengediff, rewards>>
        /\ pool_mints' = [pool_mints EXCEPT ![i].poolstatus = 4]
    BY <1>2 DEF NoContractFound, SetMint, SetCrawl
  <2>2. new.pc = "mint" /\ new.rows = {}
    BY DEF IdleCrawl
  <2> HIDE DEF new
  <2>3. 4 \in {2, 4}
    OBVIOUS
  <2>4. MintsKeep
    BY <2>1, <2>3, StatusKeeps
  <2>5. Mints' = Mints /\ Rows' = Rows /\ PlacesKeep
    BY <2>1 DEF PlacesKeep, Rows, Mints
  <2>6. CrawlKeeps(r, new)
    BY <2>1, <2>2, <2>4, <2>5 DEF CrawlKeeps, CrawlMoved, StaysAt, Opened
  <2> QED
    BY <2>6
<1> QED
  BY <1>1, <1>2

(* A row of the list gets a status, and the crawl goes on to the next. *)
LEMMA SetRowKeeps ==
    ASSUME MiningInvariant, NEW r \in CrawlRuns, crawl[r].pc = "sum",
           NEW status \in {3, 5}, SetRow(r, crawl[r].row, status)
    PROVE  \E new : CrawlKeeps(r, new)
<1>1. PICK old, i : old = crawl[r] /\ i = crawl[r].row
  OBVIOUS
<1>2. CrawlOK(old) /\ old \in CrawlState /\ RowsOpen(old) /\ old.pc = "sum" /\ i = old.row
  BY <1>1, CrawlAtHand DEF MiningInvariant
<1>3. i \in old.rows /\ i \in Rows /\ miner_challengediff[i].status = 1
  BY <1>2 DEF CrawlOK, RowsOpen
<1> DEFINE rows == old.rows \ {i}
           new == [old EXCEPT !.pc = "rows", !.rows = rows, !.row = 0, !.read = 0,
                              !.mine = NoShares]
<1>4. /\ crawl' = [crawl EXCEPT ![r] = new]
      /\ StatusWritten(i, status) /\ status \in 1..5
      /\ UNCHANGED <<pool_mints, rewards>>
  BY <1>1 DEF SetRow, SetCrawl, StatusWritten
<1>5. /\ new.pc = "rows" /\ new.mint = old.mint /\ new.challenge = old.challenge
      /\ new.rows = rows
  BY <1>2 DEF CrawlState
<1> HIDE DEF new
<1>6. /\ Rows' = Rows
      /\ \A j \in Rows :
            /\ miner_challengediff'[j].miner = miner_challengediff[j].miner
            /\ miner_challengediff'[j].challenge = miner_challengediff[j].challenge
            /\ miner_challengediff'[j].status =
                        IF j = i THEN status ELSE miner_challengediff[j].status
  BY <1>4, StatusIsWritten, DataTypes
<1>7. PlacesKeep
  BY <1>3, <1>6 DEF PlacesKeep
<1>8. Mints' = Mints /\ MintsKeep
  BY <1>4 DEF MintsKeep, Mints
<1>9. CrawlKeeps(r, new)
  BY <1>1, <1>2, <1>4, <1>5, <1>6, <1>7, <1>8 DEF CrawlKeeps, CrawlMoved, StaysAt, Opened
<1> QED
  BY <1>9

LEMMA RowStepKeeps ==
    ASSUME MiningInvariant, NEW r \in CrawlRuns, RowStep(r),
           ~MarkRewarded(r), ~AwardTokensForShares(r)
    PROVE  \E new : CrawlKeeps(r, new)
<1>0. crawl[r] \in CrawlState
  BY CrawlAtHand DEF MiningInvariant
<1>1. ASSUME NEW i \in Rows, RecheckRow(r, i) PROVE \E new : CrawlKeeps(r, new)
  <2> DEFINE new == [crawl[r] EXCEPT !.pc = "sum", !.row = i]
  <2>1. crawl' = [crawl EXCEPT ![r] = new] /\ miner_challengediff' = miner_challengediff
    BY <1>1, RecheckTypes, DataTypes DEF MiningInvariant
  <2>2. crawl[r].pc = "rows" /\ UNCHANGED <<pool_mints, rewards>>
    BY <1>1 DEF RecheckRow, Reads, SetRow
  <2>3. /\ new.pc = "sum" /\ new.mint = crawl[r].mint
        /\ new.challenge = crawl[r].challenge /\ new.rows = crawl[r].rows
    BY <1>0 DEF CrawlState
  <2> HIDE DEF new
  <2>4. CrawlKeeps(r, new)
    BY <2>1, <2>2, <2>3, NothingWritten DEF CrawlKeeps, CrawlMoved, StaysAt, Opened
  <2> QED
    BY <2>4
<1>2. CASE SumRow(r)
  <2>1. PICK k, mine : /\ Reads(r, "sum")
                       /\ SetCrawl(r, [crawl[r] EXCEPT !.read = k, !.mine = mine])
    BY <1>2 DEF SumRow
  <2> DEFINE new == [crawl[r] EXCEPT !.read = k, !.mine = mine]
  <2>2. crawl[r].pc = "sum"
    BY <2>1 DEF Reads
  <2>3. /\ new.pc = "sum" /\ new.mint = crawl[r].mint
        /\ new.challenge = crawl[r].challenge /\ new.rows = crawl[r].rows
    BY <1>0, <2>2 DEF CrawlState
  <2> HIDE DEF new
  <2>4. SetCrawl(r, new)
    BY <2>1 DEF new
  <2> QED
    BY <2>1, <2>3, <2>4, CrawlLooks DEF Opened
<1>3. CASE NothingToShare(r)
  <2>1. crawl[r].pc = "sum" /\ SetRow(r, crawl[r].row, 3) /\ 3 \in {3, 5}
    BY <1>3 DEF NothingToShare, Summed
  <2> QED
    BY <2>1, SetRowKeeps
<1>4. CASE PoolTooPoor(r)
  <2>1. crawl[r].pc = "sum" /\ SetRow(r, crawl[r].row, 5) /\ 5 \in {3, 5}
    BY <1>4 DEF PoolTooPoor, Summed
  <2> QED
    BY <2>1, SetRowKeeps
<1> QED
  BY <1>1, <1>2, <1>3, <1>4 DEF RowStep

LEMMA CrawlMovedBooks ==
    ASSUME MiningInvariant, MiningInvariant', BooksInvariant, InTurn, [Next]_vars,
           NEW r \in CrawlRuns, NEW new, CrawlMoved(r, new), proc' = proc,
           CrawlBooks(new)', RewardsBook'
    PROVE  BooksInvariant'
<1> USE DEF BooksInvariant
<1>1. Forward'
  BY ForwardGoesOn
<1>2. /\ CrawlsBook' /\ crawl'[r] = new
      /\ \A q \in CrawlRuns : q # r => crawl'[q] = crawl[q] /\ crawl[q].pc = "idle"
  BY OneCrawlBooks DEF CrawlMoved
<1>3. RowsUnique' /\ \A m, c : RowsOf(m, c)' = RowsOf(m, c)
  BY NoNewRow DEF CrawlMoved
<1>4. ASSUME NEW q \in Processors, Inserting(proc'[q])
      PROVE  RowsOf(MinerOf[proc[q].share], proc[q].challenge)' = {}
  <2>1. PICK m, c : m = MinerOf[proc[q].share] /\ c = proc[q].challenge
    OBVIOUS
  <2>2. RowsOf(m, c)' = {}
    BY <1>3, <1>4, <2>1 DEF NoRowYet
  <2> QED
    BY <2>1, <2>2
<1>5. ASSUME NEW q \in CrawlRuns, crawl'[q].pc = "zero"
      PROVE  RowsOf(crawl[q].miner, crawl[q].challenge)' = {}
  <2>1. q = r
    BY <1>2, <1>5
  <2>2. PICK m, c : m = new.miner /\ c = new.challenge
    OBVIOUS
  <2>3. RowsOf(m, c)' = {}
    BY <1>2, <1>3, <1>5, <2>1, <2>2 DEF CrawlMoved
  <2> QED
    BY <1>2, <2>1, <2>2, <2>3
<1>6. NoRowYet'
  BY <1>4, <1>5 DEF NoRowYet, Inserting
<1> QED
  BY <1>1, <1>2, <1>3, <1>6

\* The state of the crawl, as the mints and the rows of before have it.
LEMMA MovedIsOK ==
    ASSUME MiningInvariant, MiningInvariant', NEW r \in CrawlRuns, NEW new, CrawlMoved(r, new)
    PROVE  CrawlOK(new)
<1>1. crawl'[r] = new
  BY DEF CrawlMoved, MiningInvariant, RewardInvariant, RewardTypeOK
<1>2. CrawlOK(crawl[r])'
  BY DEF MiningInvariant, RewardInvariant, CrawlsOK
<1> QED
  BY <1>1, <1>2 DEF CrawlOK, CrawlMoved

LEMMA CrawlKeepsBooks ==
    ASSUME MiningInvariant, MiningInvariant', BooksInvariant, InTurn, [Next]_vars,
           NEW r \in CrawlRuns, NEW new, CrawlMoved(r, new), rewards' = rewards,
           proc' = proc, CrawlBooks(new)
    PROVE  BooksInvariant'
<1>1. CrawlOK(new)
  BY MovedIsOK
<1>2. CrawlBooks(new)'
  BY <1>1, CrawlBooksStay DEF CrawlMoved, BooksInvariant
<1>3. RewardsBook'
  BY RewardsBookStays DEF CrawlMoved, BooksInvariant
<1> QED
  BY <1>2, <1>3, CrawlMovedBooks

\* The mint is opened: nobody records or counts for its epoch any more.
LEMMA OpenBooks ==
    ASSUME MiningInvariant, MiningInvariant', BooksInvariant, InTurn, [Next]_vars,
           ~LateShares, NEW r \in CrawlRuns, NEW i \in Mints,
           Settled(pool_mints[i].epoch), FindContract(r, i), proc' = proc
    PROVE  BooksInvariant'
<1>1. PICK old, c : /\ old = crawl[r] /\ c = Record(r, i).challenge
                    /\ old \in CrawlState /\ CrawlOK(old)
  BY CrawlAtHand DEF MiningInvariant
<1>2. Settling(i, c)
  BY <1>1 DEF FindContract, Record, Settling
<1>3. PICK new : new = [old EXCEPT !.pc = "window", !.mint = i, !.challenge = c]
  OBVIOUS
<1>4. /\ old.pc = "mint" /\ crawl' = [crawl EXCEPT ![r] = new]
      /\ UNCHANGED <<pool_mints, miner_challengediff, rewards>>
  BY <1>1, <1>3 DEF FindContract, Reads, SetCrawl
<1>5. /\ new.pc = "window" /\ new.mint = i /\ new.challenge = c /\ new.rows = {}
  BY <1>1, <1>3, <1>4 DEF CrawlState, CrawlOK, AtRows
<1>6. CrawlMoved(r, new)
  BY <1>1, <1>4, <1>5, NothingWritten DEF CrawlMoved
<1>7. CrawlBooks(new)
  BY <1>2, <1>5 DEF CrawlBooks
<1> QED
  BY <1>4, <1>6, <1>7, CrawlKeepsBooks

\* The row is closed: it was open, and no other row is the miner's for this challenge.
LEMMA MarkBooks ==
    ASSUME MiningInvariant, MiningInvariant', BooksInvariant, InTurn, [Next]_vars,
           NEW r \in CrawlRuns, MarkRewarded(r), proc' = proc
    PROVE  BooksInvariant'
<1> USE DEF BooksInvariant
<1>1. PICK old, i : /\ old = crawl[r] /\ i = old.row
                    /\ old \in CrawlState /\ CrawlOK(old) /\ RowsOpen(old) /\ CrawlBooks(old)
  BY CrawlAtHand DEF MiningInvariant, CrawlsBook
<1>2. PICK new : new = [old EXCEPT !.pc = "award"]
  OBVIOUS
<1>3. /\ old.pc = "sum" /\ crawl' = [crawl EXCEPT ![r] = new]
      /\ StatusWritten(i, 2) /\ 2 \in 1..5
      /\ UNCHANGED <<pool_mints, rewards>>
  BY <1>1, <1>2 DEF MarkRewarded, Summed, SetCrawl, StatusWritten
<1>4. /\ new.pc = "award" /\ new.mint = old.mint /\ new.challenge = old.challenge
      /\ new.rows = old.rows /\ new.row = i
  BY <1>1, <1>2 DEF CrawlState
<1>5. /\ Rows' = Rows
      /\ \A j \in Rows :
            /\ miner_challengediff'[j].miner = miner_challengediff[j].miner
            /\ miner_challengediff'[j].challenge = miner_challengediff[j].challenge
            /\ miner_challengediff'[j].status =
                        IF j = i THEN 2 ELSE miner_challengediff[j].status
  BY <1>3, StatusIsWritten, DataTypes
<1>6. PlacesKeep /\ Mints' = Mints /\ MintsKeep
  BY <1>3, <1>5 DEF PlacesKeep, MintsKeep, Mints
<1>7. CrawlMoved(r, new)
  BY <1>1, <1>3, <1>4, <1>5, <1>6 DEF CrawlMoved
<1>8. PICK m, c : m = miner_challengediff[i].miner /\ c = old.challenge
  OBVIOUS
<1>9. /\ i \in Rows /\ i \in old.rows /\ miner_challengediff[i].status = 1
      /\ miner_challengediff[i].challenge = c
  BY <1>1, <1>3, <1>8 DEF CrawlOK, RowsOpen, CrawlBooks
<1>10. Unrewarded(m, c)
  <2>1. ~RewardedRow(m, c)
    BY <1>8, <1>9 DEF RewardedRow, RowsOf, RowsUnique
  <2> QED
    BY <2>1 DEF Unrewarded, RewardsBook
<1>11. CrawlBooks(new)'
  <2>1. old.mint \in Mints /\ Settling(old.mint, c)
    BY <1>1, <1>3, <1>8 DEF CrawlOK, CrawlBooks, Opened
  <2>2. Settling(old.mint, c)'
    BY <1>6, <2>1, SettlingStays
  <2>3. Unrewarded(m, c)'
    BY <1>3, <1>10 DEF Unrewarded
  <2>4. miner_challengediff'[i].miner = m /\ miner_challengediff'[i].status = 2
    BY <1>5, <1>8, <1>9
  <2>5. \A j \in new.rows : miner_challengediff'[j].challenge = new.challenge
    BY <1>1, <1>4, <1>5 DEF CrawlOK, CrawlBooks
  <2>6. /\ new.pc = "award" /\ new.mint = old.mint /\ new.challenge = c /\ new.row = i
    BY <1>4, <1>8
  <2> QED
    BY <2>2, <2>3, <2>4, <2>5, <2>6 DEF CrawlBooks
<1>12. RewardsBook'
  BY <1>3, <1>6, RewardsBookStays
<1> QED
  BY <1>7, <1>11, <1>12, CrawlMovedBooks

\* The tokens are awarded for a row that was closed, and none were before.
LEMMA AwardBooks ==
    ASSUME MiningInvariant, MiningInvariant', BooksInvariant, InTurn, [Next]_vars,
           NEW r \in CrawlRuns, AwardTokensForShares(r), proc' = proc
    PROVE  BooksInvariant'
<1> USE DEF BooksInvariant
<1>1. PICK old, i : /\ old = crawl[r] /\ i = old.row
                    /\ old \in CrawlState /\ CrawlOK(old) /\ RowsOpen(old) /\ CrawlBooks(old)
  BY CrawlAtHand DEF MiningInvariant, CrawlsBook
<1>2. PICK new : new = [old EXCEPT !.pc = "rows", !.rows = old.rows \ {i}, !.row = 0,
                                   !.read = 0, !.mine = NoShares]
  OBVIOUS
<1>3. PICK m, c : m = miner_challengediff[i].miner /\ c = old.challenge
  OBVIOUS
<1>4. PICK reward : reward = [mint |-> old.mint, miner |-> m, challenge |-> c,
                              shares |-> old.mine, poolshares |-> old.total]
  OBVIOUS
<1>5. /\ old.pc = "award" /\ crawl' = [crawl EXCEPT ![r] = new]
      /\ rewards' = rewards \/ rewards' = Append(rewards, reward)
      /\ UNCHANGED <<pool_mints, miner_challengediff>>
  BY <1>1, <1>2, <1>3, <1>4 DEF AwardTokensForShares, SetCrawl
<1>6. /\ new.pc = "rows" /\ new.mint = old.mint /\ new.challenge = c
      /\ new.rows \subseteq old.rows
  BY <1>1, <1>2, <1>3 DEF CrawlState
<1>7. CrawlMoved(r, new)
  BY <1>1, <1>5, <1>6, NothingWritten DEF CrawlMoved
<1>8. CrawlBooks(new)
  BY <1>1, <1>3, <1>5, <1>6 DEF CrawlBooks, Opened
<1>9. CASE rewards' = rewards
  BY <1>5, <1>7, <1>8, <1>9, CrawlKeepsBooks
<1>10. CASE rewards' = Append(rewards, reward)
  <2> DEFINE k == Len(rewards) + 1
  <2>1. /\ DOMAIN rewards' = DOMAIN rewards \cup {k} /\ k \notin DOMAIN rewards
        /\ rewards'[k] = reward
        /\ \A j \in DOMAIN rewards : rewards'[j] = rewards[j]
    BY <1>10, MintEpochs
  <2> HIDE DEF k
  <2>2. /\ reward.mint = old.mint /\ reward.miner = m /\ reward.challenge = c
    BY <1>4
  <2>3. /\ old.mint \in Mints /\ Settling(old.mint, c) /\ i \in Rows
        /\ miner_challengediff[i].status = 2 /\ miner_challengediff[i].challenge = c
        /\ Unrewarded(m, c)
    BY <1>1, <1>3, <1>5 DEF CrawlOK, CrawlBooks, Opened
  <2>4. Settling(old.mint, c)' /\ old.mint \in Mints'
    BY <1>7, <2>3, SettlingStays DEF CrawlMoved
  <2>5. RewardedRow(m, c)'
    BY <1>3, <1>5, <2>3 DEF RewardedRow, RowsOf, Rows
  <2>6. ASSUME NEW j \in DOMAIN rewards
        PROVE  /\ rewards[j].mint \in Mints'
               /\ Settling(rewards[j].mint, rewards[j].challenge)'
               /\ RewardedRow(rewards[j].miner, rewards[j].challenge)'
    <3>1. PICK h, d, n : h = rewards[j].mint /\ d = rewards[j].challenge /\ n = rewards[j].miner
      OBVIOUS
    <3>2. h \in Mints /\ Settling(h, d) /\ RewardedRow(n, d)
      BY <2>6, <3>1 DEF RewardsBook
    <3>3. h \in Mints' /\ Settling(h, d)' /\ RewardedRow(n, d)'
      BY <1>7, <3>2, SettlingStays, RewardedStays DEF CrawlMoved
    <3>4. h = rewards'[j].mint /\ d = rewards'[j].challenge /\ n = rewards'[j].miner
      BY <2>1, <3>1
    <3> QED
      BY <2>1, <3>1, <3>3, <3>4
  <2>7. ASSUME NEW j \in DOMAIN rewards'
        PROVE  /\ rewards'[j].mint \in Mints'
               /\ Settling(rewards[j].mint, rewards[j].challenge)'
               /\ RewardedRow(rewards[j].miner, rewards[j].challenge)'
    <3>1. CASE j = k
      BY <2>1, <2>2, <2>4, <2>5, <3>1 DEF Settling, RewardedRow
    <3>2. CASE j # k
      BY <2>1, <2>6, <2>7, <3>2
    <3> QED
      BY <3>1, <3>2
  <2>8. ASSUME NEW j \in DOMAIN rewards', NEW h \in DOMAIN rewards',
               rewards'[j].miner = rewards'[h].miner,
               rewards'[j].challenge = rewards'[h].challenge
        PROVE  j = h
    BY <2>1, <2>2, <2>3, <2>8 DEF RewardsBook, Unrewarded
  <2>9. RewardsBook'
    BY <2>7, <2>8 DEF RewardsBook
  <2>10. CrawlBooks(new)'
    <3>1. Settling(new.mint, new.challenge)'
      BY <1>6, <2>4 DEF Settling
    <3> QED
      BY <1>5, <1>6, <1>8, <3>1 DEF CrawlBooks
  <2> QED
    BY <1>7, <2>9, <2>10, CrawlMovedBooks
<1> QED
  BY <1>5, <1>9, <1>10

\* The miner gets a row for a challenge it has no share of: no process is about to do so.
LEMMA ZeroBooks ==
    ASSUME MiningInvariant, MiningInvariant', BooksInvariant, InTurn, [Next]_vars,
           NEW r \in CrawlRuns, InsertZeroRow(r), proc' = proc
    PROVE  BooksInvariant'
<1> USE DEF BooksInvariant
<1>1. PICK old, m, c : /\ old = crawl[r] /\ m = old.miner /\ c = old.challenge
                       /\ old \in CrawlState /\ CrawlOK(old) /\ CrawlBooks(old)
  BY CrawlAtHand DEF MiningInvariant, CrawlsBook
<1>2. PICK new, row : /\ new = [old EXCEPT !.pc = "fill", !.miner = None]
                      /\ row = NewRow(m, c, NoShares)
  OBVIOUS
<1>3. /\ old.pc = "zero" /\ crawl' = [crawl EXCEPT ![r] = new]
      /\ miner_challengediff' = Append(miner_challengediff, row)
      /\ UNCHANGED <<pool_mints, rewards>>
  BY <1>1, <1>2 DEF InsertZeroRow, SetCrawl
<1>4. m \in Miners /\ c \in Epochs /\ RowsOf(m, c) = {}
  BY <1>1, <1>3 DEF CrawlOK, Opened, NoRowYet
<1>5. row \in ChallengeDiff /\ row.status = 1 /\ row.miner = m /\ row.challenge = c
  BY <1>2, <1>4, RowTypes, TallyTypes
<1> DEFINE k == Len(miner_challengediff) + 1
<1>6. /\ RowsGrow /\ Rows' = Rows \cup {k} /\ k \notin Rows
      /\ miner_challengediff'[k] = row
  BY <1>3, <1>5, RowIsAppended, DataTypes
<1> HIDE DEF k
<1>7. AddsRow(k, m, c) /\ PlacesKeep
  BY <1>4, <1>5, <1>6 DEF AddsRow, RowsGrow, PlacesKeep
<1>8. Mints' = Mints /\ MintsKeep
  BY <1>3 DEF Mints, MintsKeep
<1>9. /\ new.pc = "fill" /\ new.mint = old.mint /\ new.challenge = c /\ new.rows = old.rows
  BY <1>1, <1>2 DEF CrawlState
<1>10. CrawlOK(new) /\ CrawlBooks(new)
  <2>1. crawl'[r] = new
    BY <1>3 DEF MiningInvariant, RewardInvariant, RewardTypeOK
  <2>2. CrawlOK(crawl[r])'
    BY DEF MiningInvariant, RewardInvariant, CrawlsOK
  <2>3. CrawlOK(new)
    BY <1>1, <1>8, <1>9, <2>1, <2>2 DEF CrawlOK
  <2> QED
    BY <1>1, <1>3, <1>9, <2>3 DEF CrawlBooks, Opened
<1>11. CrawlBooks(new)'
  BY <1>3, <1>7, <1>8, <1>10, CrawlBooksStay
<1>12. RewardsBook'
  BY <1>3, <1>7, <1>8, RewardsBookStays
<1>13. /\ CrawlsBook' /\ crawl'[r] = new
       /\ \A q \in CrawlRuns : q # r => crawl'[q] = crawl[q] /\ crawl[q].pc = "idle"
  BY <1>1, <1>3, <1>11, OneCrawlBooks
<1>14. RowsUnique' /\ \A n, d : n # m \/ d # c => RowsOf(n, d)' = RowsOf(n, d)
  BY <1>7, OneNewRow
<1>15. \A p \in Processors : proc[p].challenge # c
  BY <1>1, <1>3, ChallengeIsOld DEF CrawlBooks, CrawlOK, Opened
<1>16. NoRowYet'
  <2>1. ASSUME NEW q \in Processors, Inserting(proc'[q])
        PROVE  RowsOf(MinerOf[proc[q].share], proc[q].challenge)' = {}
    <3>1. PICK n, d : n = MinerOf[proc[q].share] /\ d = proc[q].challenge
      OBVIOUS
    <3>2. RowsOf(n, d)' = {}
      BY <1>14, <1>15, <2>1, <3>1 DEF NoRowYet
    <3> QED
      BY <3>1, <3>2
  <2>2. \A q \in CrawlRuns : crawl'[q].pc # "zero"
    BY <1>9, <1>13
  <2> QED
    BY <2>1, <2>2 DEF NoRowYet, Inserting
<1> QED
  BY <1>12, <1>13, <1>14, <1>16, ForwardGoesOn

LEMMA CrawlStepBooks ==
    ASSUME MiningInvariant, MiningInvariant', BooksInvariant, InTurn, [Next]_vars,
           ~LateShares, NEW r \in CrawlRuns, RewardSide(CrawlStep(r))
    PROVE  BooksInvariant'
<1>0. proc' = proc /\ CrawlStep(r)
  BY DEF RewardSide, shareVars
<1>1. ASSUME NEW new, CrawlKeeps(r, new) PROVE BooksInvariant'
  <2>1. PICK old : old = crawl[r] /\ CrawlBooks(old) /\ StaysAt(old, new)
    BY <1>1 DEF CrawlKeeps, BooksInvariant, CrawlsBook
  <2>2. CrawlBooks(new)
    BY <2>1 DEF CrawlBooks, StaysAt, Opened
  <2> QED
    BY <1>0, <1>1, <2>2, CrawlKeepsBooks DEF CrawlKeeps
<1>2. CASE StartCrawl(r) \/ FinishCrawl(r) \/ \E i \in Mints : NoContractFound(r, i)
  BY <1>1, <1>2, TurnKeeps
<1>3. ASSUME NEW i \in Mints, OpenMint(r, i), FindContract(r, i) PROVE BooksInvariant'
  BY <1>0, <1>3, OpenBooks DEF OpenMint
<1>4. CASE MintStep(r)
  BY <1>0, <1>1, <1>4, MintStepKeeps, ZeroBooks
<1>5. CASE RowStep(r)
  BY <1>0, <1>1, <1>5, RowStepKeeps, MarkBooks, AwardBooks
<1> QED
  BY <1>0, <1>2, <1>3, <1>4, <1>5 DEF CrawlStep, OpenMint

(* Every step is one of a crawl, one that counts a share, or neither writes a row nor *)
(* rewards one.                                                                       *)
LEMMA RewardShapes ==
    ASSUME MiningInvariant, [Next]_vars
    PROVE  \/ Rest
           \/ \E r \in CrawlRuns : RewardSide(CrawlStep(r))
           \/ \E p \in Processors : CountStep(p) /\ UNCHANGED rewardVars
<1>1. ASSUME miner_challengediff' = miner_challengediff, UNCHANGED rewardVars,
             ProcessesRest
      PROVE  Rest
  BY <1>1 DEF Rest, MintsKeep, Mints, rewardVars, mintVars, crawlVars
<1>2. CASE UNCHANGED <<shareVars, rewardVars, miner_challengediff>>
  BY <1>1, <1>2 DEF ProcessesRest, shareVars
<1>3. CASE MineBlock \/ UNCHANGED vars
  BY <1>2, <1>3 DEF MineBlock, NewEpoch, vars, miningVars
<1>4. CASE \E r \in CollectRuns : CollectSide(CollectStep(r))
  BY <1>2, <1>4 DEF CollectSide, CollectStep, ReadParameter, CompareChallenge, Compare,
     WriteMiningContractData, WriteAllMiningContracts, EnsureTotal, PurgeQueuedShares,
     miningVars
<1>5. ASSUME NEW p \in Processors, ShareSide(ProcessStep(p)), ~CountStep(p) PROVE Rest
  <2>1. ProcessesRest
    BY <1>5, ProcessQuiet DEF Quiet
  <2>2. miner_challengediff' = miner_challengediff /\ UNCHANGED rewardVars
    BY <1>5 DEF ShareSide, ProcessStep, LoopStep, HandleStep, CountStep, Start,
       StartWithoutRedis, Reclaim, ClaimStaleShares, Claim, ReadPendingShares, ReadShares,
       TakeFromList, TooFast, AckShare, Ack, Goto, SetProcess, miningVars
  <2> QED
    BY <1>1, <2>1, <2>2
<1>6. CASE ShareSide(WorkerStep) \/ ShareSide(CleanPendingShares)
  <2>1. proc' = proc /\ miner_challengediff' = miner_challengediff /\ UNCHANGED rewardVars
    BY <1>6 DEF ShareSide, WorkerStep, AddShare, AddShareToList, CleanPendingShares, miningVars
  <2> QED
    BY <1>1, <2>1 DEF ProcessesRest
<1>7. ASSUME NEW r \in InsertRuns, RewardSide(ScanStep(r)) PROVE Rest
  <2>1. MintsKeep
    BY <1>7, ScanKeeps DEF RewardSide
  <2>2. /\ UNCHANGED <<rewards, crawl, miner_challengediff, proc>>
    BY <1>7 DEF RewardSide, ScanStep, LookForMint, InsertMint, SetInsert, crawlVars,
       miningVars, shareVars
  <2> QED
    BY <2>1, <2>2 DEF Rest, ProcessesRest
<1>8. CASE Fault
  <2>1. ProcessesRest
    BY <1>8, FaultQuiet DEF Quiet
  <2>2. CASE UNCHANGED <<rewardVars, miner_challengediff>>
    BY <1>1, <2>1, <2>2
  <2>3. ASSUME NEW r \in InsertRuns, FailInsert(r) PROVE Rest
    <3>1. UNCHANGED <<rewards, crawl, miner_challengediff>> /\ MintsKeep
      BY <2>3, ScanKeeps DEF FailInsert, SetInsert, crawlVars, miningVars
    <3> QED
      BY <2>1, <3>1 DEF Rest
  <2>4. ASSUME NEW r \in CrawlRuns, FailCrawl(r) PROVE Rest
    <3>1. /\ UNCHANGED <<pool_mints, rewards, miner_challengediff>>
          /\ crawl' = [crawl EXCEPT ![r] = IdleCrawl]
      BY <2>4 DEF FailCrawl, AbortCrawl, SetCrawl
    <3>2. crawl \in [CrawlRuns -> CrawlState]
      BY DEF MiningInvariant, RewardInvariant, RewardTypeOK
    <3>3. \A q \in CrawlRuns : crawl'[q] = crawl[q] \/ crawl'[q] = IdleCrawl
      BY <3>1, <3>2
    <3> QED
      BY <2>1, <3>1, <3>3 DEF Rest, MintsKeep, Mints
  <2>5. CASE CollectorCrash
    BY <2>1, <2>5 DEF Rest, CollectorCrash, RewardCrash, mintVars, miningVars, MintsKeep, Mints
  <2>6. CASE \E p \in Processors : (FailShare(p) \/ CrashProcess(p)) /\ UNCHANGED rewardVars
    BY <2>2, <2>6 DEF FailShare, CrashProcess, SetProcess, miningVars
  <2>7. CASE \E r \in CollectRuns : FailCollect(r) /\ UNCHANGED <<shareVars, rewardVars>>
    BY <2>2, <2>7 DEF FailCollect, miningVars
  <2> QED
    BY <1>8, <2>3, <2>4, <2>5, <2>6, <2>7 DEF Fault, RewardFault
<1> QED
  BY <1>3, <1>4, <1>5, <1>6, <1>7, <1>8 DEF Next, ShareSide

LEMMA BooksStart == Init => BooksInvariant
<1> SUFFICES ASSUME Init PROVE BooksInvariant
  OBVIOUS
<1> USE DEF Init, MiningInit, CollectInit, ShareInit, RewardInit
<1>1. Forward
  BY ContractTypes, EpochAssumption DEF Forward
<1>2. RowsUnique /\ NoRowYet
  BY DEF RowsUnique, NoRowYet, Inserting, Rows, Down, Waiting, IdleCrawl
<1>3. CrawlsBook /\ RewardsBook
  BY IdleCrawlTypes DEF CrawlsBook, CrawlBooks, Opened, RewardsBook
<1> QED
  BY <1>1, <1>2, <1>3 DEF BooksInvariant

LEMMA BooksGoOn ==
    ASSUME ~LateShares, MiningInvariant, MiningInvariant', SumsInvariant, BooksInvariant,
           InTurn, [Next]_vars
    PROVE  BooksInvariant'
BY RewardShapes, RestBooks, CountBooks, CrawlStepBooks

LEMMA BooksHold ==
    ASSUME Together = 1, ~LateShares
    PROVE  Spec /\ []InTurn => [](MiningInvariant /\ SumsInvariant /\ BooksInvariant)
<1>1. /\ MiningInvariant /\ SumsInvariant /\ BooksInvariant /\ InTurn /\ [Next]_vars
            => (MiningInvariant /\ SumsInvariant /\ BooksInvariant)'
  BY MiningGoesOn, SumsGoOn, BooksGoOn
<1> QED
  BY <1>1, MiningStarts, SumsStart, BooksStart, PTL DEF Spec

(***************************************************************************)
(* As long as one share processor runs, the calls of the collector take    *)
(* turns and a mint is shared out when its epoch is settled, no miner gets *)
(* the tokens of a block twice: neither for two records of the mint that   *)
(* overlapping scans have inserted, nor when a crawl fails half way and is *)
(* run again, nor when it is cut off between the close of a row and the    *)
(* award.                                                                  *)
(***************************************************************************)
THEOREM NobodyRewardedTwice ==
    ASSUME Together = 1, ~LateShares
    PROVE  Spec /\ []InTurn => []RewardedOnce
<1>1. BooksInvariant => RewardedOnce
  <2> SUFFICES ASSUME BooksInvariant, NEW j \in DOMAIN rewards, NEW k \in DOMAIN rewards,
                      rewards[j].miner = rewards[k].miner,
                      pool_mints[rewards[j].mint].epoch = pool_mints[rewards[k].mint].epoch
               PROVE  j = k
    BY DEF RewardedOnce
  <2>1. rewards[j].challenge = rewards[k].challenge
    BY DEF BooksInvariant, RewardsBook, Settling
  <2> QED
    BY <2>1 DEF BooksInvariant, RewardsBook
<1> QED
  BY <1>1, BooksHold, PTL

----------------------------------------------------------------------------
(* What a reward is divided by. *)

AtSums == {"fill", "zero", "rows", "sum", "award"}

\* One more epoch of the window: its total is added, if it has one.
Adds(e, sum, d) ==
    LET total == totaldiff_challengenumber[allminingContracts[d].challenge]
    IN  IF d > e - PPLNSDEPTH /\ allminingContracts[d] # NoContract /\ total # None
        THEN SumTally(sum, total) ELSE sum

\* t is the sum over the epochs up to u of the window of e.
WindowSum(e, u, t) ==
    \E f \in [Nat -> Tally] :
        /\ f[0] = NoShares
        /\ \A d \in 1..u : f[d] = Adds(e, f[d - 1], d)
        /\ f[u] = t

\* The records of the window of e that come after epoch u.
LeftRecords(e, u) ==
    {allminingContracts[d] :
        d \in {f \in Epochs : f <= e /\ f > e - PPLNSDEPTH /\ f > u}} \ {NoContract}

\* g has the sums of the totals of these challenges, none of them newer than e.
ChallengeSums(g, challenges, e) ==
    /\ g[0] = NoShares
    /\ \A k \in 1..Len(challenges) :
        /\ challenges[k] \in 1..e
        /\ totaldiff_challengenumber[challenges[k]] # None
        /\ g[k] = SumTally(g[k - 1], totaldiff_challengenumber[challenges[k]])

\* The pool's total is the sum of the window of e, and what is summed up for the miner of
\* the row is the miner's own, and no more than the pool has of the challenges read so far.
SumsFor(state, e) ==
    /\ state.pc = "totals" =>
        \E u \in 0..e : state.records = LeftRecords(e, u) /\ WindowSum(e, u, state.total)
    /\ state.pc \in AtSums => WindowSum(e, e, state.total)
    /\ state.pc \in AtSums \cup {"totals"} =>
        \E g \in [Nat -> Tally] :
            /\ ChallengeSums(g, state.challenges, e)
            /\ g[Len(state.challenges)] = state.total
            /\ \A s \in Shares : state.mine[s] <= g[state.read][s]
    /\ state.pc \in {"sum", "award"} => Own(state.mine, miner_challengediff[state.row].miner)
    /\ state.pc = "award" => state.read = Len(state.challenges)
    /\ state.pc \notin {"sum", "award"} => state.read = 0 /\ state.mine = NoShares
    /\ state.pc \notin AtSums \cup {"totals"} =>
        state.total = NoShares /\ state.challenges = <<>>

CrawlsSum == \A r \in CrawlRuns : SumsFor(crawl[r], pool_mints[crawl[r].mint].epoch)

RewardSums(reward, e) ==
    /\ WindowSum(e, e, reward.poolshares)
    /\ \A s \in Shares : reward.shares[s] <= reward.poolshares[s]
    /\ Own(reward.shares, reward.miner)

RewardsSum == \A k \in DOMAIN rewards : RewardSums(rewards[k], pool_mints[rewards[k].mint].epoch)

(* The sum of a window is one, whoever adds it up: the two sums do not part anywhere. *)
LEMMA WindowHasOneSum ==
    ASSUME NEW e \in Epochs, NEW t, NEW v, WindowSum(e, e, t), WindowSum(e, e, v)
    PROVE  t = v
<1>0. e \in Nat
  BY EpochAssumption DEF Epochs
<1>1. PICK f \in [Nat -> Tally] : /\ f[0] = NoShares /\ f[e] = t
                                  /\ \A d \in 1..e : f[d] = Adds(e, f[d - 1], d)
  BY DEF WindowSum
<1>2. PICK h \in [Nat -> Tally] : /\ h[0] = NoShares /\ h[e] = v
                                  /\ \A d \in 1..e : h[d] = Adds(e, h[d - 1], d)
  BY DEF WindowSum
<1> DEFINE parted == {d \in 0..e : f[d] # h[d]}
<1>3. ASSUME parted # {} PROVE FALSE
  <2>1. PICK d \in parted : \A b \in parted : d <= b
    <3>1. parted \in SUBSET Nat
      BY <1>0
    <3> HIDE DEF parted
    <3> QED
      BY <1>3, <3>1, MinExists
  <2>2. d \in 1..e /\ d - 1 \in 0..e /\ d - 1 \notin parted
    BY <1>0, <1>1, <1>2, <2>1
  <2>3. f[d - 1] = h[d - 1]
    BY <2>2
  <2>4. f[d] = Adds(e, f[d - 1], d) /\ h[d] = Adds(e, h[d - 1], d)
    BY <1>1, <1>2, <2>2
  <2> QED
    BY <2>1, <2>3, <2>4
<1> QED
  BY <1>0, <1>1, <1>2, <1>3

(* What is added for a settled epoch stays as it is. *)
LEMMA AddsStays ==
    ASSUME MiningInvariant, MiningInvariant', Forward, InTurn, [Next]_vars,
           NEW e \in Epochs, Settled(e), NEW d \in 1..e, NEW sum
    PROVE  /\ Adds(e, sum, d)' = Adds(e, sum, d)
           /\ allminingContracts'[d] = allminingContracts[d]
<1>1. allminingContracts'[d] = allminingContracts[d]
  BY SettledStays
<1>2. PICK c : c = allminingContracts[d].challenge
  OBVIOUS
<1>3. allminingContracts[d] # NoContract => c \in 1..e
  <2> SUFFICES ASSUME allminingContracts[d] # NoContract PROVE c \in 1..e
    OBVIOUS
  <2>1. d \in Epochs
    BY EpochAssumption DEF Epochs
  <2>2. allminingContracts[d] \in Ordered /\ allminingContracts[d].epoch = d
    BY <2>1, DataTypes DEF CollectorInvariant, RecordsOK
  <2> QED
    BY <1>2, <2>1, <2>2, ContractTypes, EpochAssumption DEF Ordered, Epochs
<1>4. allminingContracts[d] # NoContract =>
        totaldiff_challengenumber'[c] = totaldiff_challengenumber[c]
  BY <1>3, SettledStays
<1> QED
  BY <1>1, <1>2, <1>4 DEF Adds

LEMMA WindowSumStays ==
    ASSUME MiningInvariant, MiningInvariant', Forward, InTurn, [Next]_vars,
           NEW e \in Epochs, Settled(e), NEW u \in 0..e, NEW t, WindowSum(e, u, t)
    PROVE  WindowSum(e, u, t)'
<1>1. PICK f \in [Nat -> Tally] : /\ f[0] = NoShares /\ f[u] = t
                                  /\ \A d \in 1..u : f[d] = Adds(e, f[d - 1], d)
  BY DEF WindowSum
<1>2. ASSUME NEW d \in 1..u PROVE f[d] = Adds(e, f[d - 1], d)'
  <2>1. d \in 1..e
    BY EpochAssumption DEF Epochs
  <2>2. PICK sum : sum = f[d - 1]
    OBVIOUS
  <2>3. Adds(e, sum, d)' = Adds(e, sum, d)
    BY <2>1, AddsStays
  <2> QED
    BY <1>1, <2>2, <2>3
<1> QED
  BY <1>1, <1>2 DEF WindowSum

LEMMA LeftRecordsStay ==
    ASSUME MiningInvariant, MiningInvariant', Forward, InTurn, [Next]_vars,
           NEW e \in Epochs, Settled(e), NEW u
    PROVE  LeftRecords(e, u)' = LeftRecords(e, u)
<1>1. \A d \in Epochs : d <= e => allminingContracts'[d] = allminingContracts[d]
  BY SettledStays, EpochAssumption DEF Epochs
<1> QED
  BY <1>1 DEF LeftRecords

LEMMA ChallengeSumsStay ==
    ASSUME MiningInvariant, MiningInvariant', Forward, InTurn, [Next]_vars,
           NEW e \in Epochs, Settled(e), NEW g, NEW challenges, ChallengeSums(g, challenges, e)
    PROVE  ChallengeSums(g, challenges, e)'
<1>1. \A c \in 1..e : totaldiff_challengenumber'[c] = totaldiff_challengenumber[c]
  BY SettledStays
<1>2. ASSUME NEW k \in 1..Len(challenges)
      PROVE  /\ challenges[k] \in 1..e
             /\ totaldiff_challengenumber'[challenges[k]] # None
             /\ g[k] = SumTally(g[k - 1], totaldiff_challengenumber'[challenges[k]])
  BY <1>1, <1>2 DEF ChallengeSums
<1> QED
  BY <1>2 DEF ChallengeSums

LEMMA SumsForStay ==
    ASSUME MiningInvariant, MiningInvariant', Forward, InTurn, [Next]_vars, PlacesKeep,
           NEW e, NEW state, SumsFor(state, e),
           state.pc \in Opened => e \in Epochs /\ Settled(e),
           state.pc \in {"sum", "award"} => state.row \in Rows
    PROVE  SumsFor(state, e)'
<1>1. ASSUME state.pc = "totals"
      PROVE  (\E u \in 0..e : state.records = LeftRecords(e, u) /\ WindowSum(e, u, state.total))'
  <2>1. e \in Epochs /\ Settled(e)
    BY <1>1 DEF Opened
  <2>2. PICK u \in 0..e, t \in {state.total} :
            state.records = LeftRecords(e, u) /\ WindowSum(e, u, t)
    BY <1>1 DEF SumsFor
  <2>3. WindowSum(e, u, t)' /\ LeftRecords(e, u)' = state.records
    BY <2>1, <2>2, WindowSumStays, LeftRecordsStay
  <2> QED
    BY <2>2, <2>3
<1>2. ASSUME state.pc \in AtSums PROVE WindowSum(e, e, state.total)'
  <2>1. e \in Epochs /\ Settled(e) /\ e \in 0..e
    BY <1>2, EpochAssumption DEF Opened, AtSums, Epochs
  <2>2. PICK t : t = state.total /\ WindowSum(e, e, t)
    BY <1>2 DEF SumsFor
  <2>3. WindowSum(e, e, t)'
    BY <2>1, <2>2, WindowSumStays
  <2> QED
    BY <2>2, <2>3
<1>3. ASSUME state.pc \in AtSums \cup {"totals"}
      PROVE  (\E g \in [Nat -> Tally] :
                /\ ChallengeSums(g, state.challenges, e)
                /\ g[Len(state.challenges)] = state.total
                /\ \A s \in Shares : state.mine[s] <= g[state.read][s])'
  <2>1. e \in Epochs /\ Settled(e)
    BY <1>3 DEF Opened, AtSums
  <2>2. PICK g \in [Nat -> Tally], challenges \in {state.challenges} :
                /\ ChallengeSums(g, challenges, e)
                /\ g[Len(state.challenges)] = state.total
                /\ \A s \in Shares : state.mine[s] <= g[state.read][s]
    BY <1>3 DEF SumsFor
  <2>3. ChallengeSums(g, challenges, e)'
    BY <2>1, <2>2, ChallengeSumsStay
  <2> QED
    BY <2>2, <2>3
<1>4. state.pc \in {"sum", "award"} => Own(state.mine, miner_challengediff'[state.row].miner)
  BY DEF SumsFor, PlacesKeep
<1> QED
  BY <1>1, <1>2, <1>3, <1>4 DEF SumsFor, Own

\* The crawl is through with the window, or goes on with what it has summed up.
LEMMA SameSums ==
    ASSUME NEW e, NEW old, NEW new, SumsFor(old, e), old.pc \in AtSums,
           new.pc \in {"fill", "zero", "rows"},
           new.total = old.total, new.challenges = old.challenges,
           new.read = 0, new.mine = NoShares
    PROVE  SumsFor(new, e)
<1>1. PICK g \in [Nat -> Tally] : /\ ChallengeSums(g, old.challenges, e)
                                  /\ g[Len(old.challenges)] = old.total
  BY DEF SumsFor
<1>2. \A s \in Shares : NoShares[s] <= g[0][s]
  BY <1>1, TallyTypes DEF ChallengeSums
<1>3. WindowSum(e, e, new.total)
  BY DEF SumsFor
<1>4. \E h \in [Nat -> Tally] : /\ ChallengeSums(h, new.challenges, e)
                                /\ h[Len(new.challenges)] = new.total
                                /\ \A s \in Shares : new.mine[s] <= h[new.read][s]
  BY <1>1, <1>2
<1> QED
  BY <1>3, <1>4 DEF SumsFor, AtSums

LEMMA NoSums ==
    ASSUME NEW e, NEW new, new.pc \in {"idle", "mint", "window"}, new.total = NoShares,
           new.challenges = <<>>, new.read = 0, new.mine = NoShares
    PROVE  SumsFor(new, e)
BY DEF SumsFor, AtSums

\* The crawl has its sums, of the mint it was at before.
SumsMoved(r, new) ==
    /\ crawl' = [crawl EXCEPT ![r] = new]
    /\ SumsFor(new, pool_mints[new.mint].epoch)
    /\ new.pc \in AtSums \cup {"totals"} => crawl[r].pc \in Opened /\ new.mint = crawl[r].mint
    /\ new.pc \in {"sum", "award"} => new.row \in Rows

LEMMA TurnSums ==
    ASSUME MiningInvariant, CrawlsSum, NEW r \in CrawlRuns,
           \/ StartCrawl(r) \/ FinishCrawl(r) \/ FinishMint(r)
           \/ \E i \in Mints : NoContractFound(r, i) \/ FindContract(r, i)
    PROVE  \E new : SumsMoved(r, new)
<1>1. ASSUME NEW pc \in {"idle", "mint"}, NEW mints,
             crawl' = [crawl EXCEPT ![r] = [IdleCrawl EXCEPT !.pc = pc, !.mints = mints]]
      PROVE  \E new : SumsMoved(r, new)
  <2>1. PICK new : new = [IdleCrawl EXCEPT !.pc = pc, !.mints = mints]
    OBVIOUS
  <2>2. /\ new.pc = pc /\ new.total = NoShares /\ new.challenges = <<>> /\ new.read = 0
        /\ new.mine = NoShares
    BY <2>1 DEF IdleCrawl
  <2>3. SumsFor(new, pool_mints[new.mint].epoch)
    BY <2>2, NoSums
  <2> QED
    BY <1>1, <2>1, <2>2, <2>3 DEF SumsMoved, AtSums
<1>2. CASE StartCrawl(r) \/ FinishMint(r) \/ \E i \in Mints : NoContractFound(r, i)
  <2>1. PICK mints : crawl' = [crawl EXCEPT ![r] =
                                [IdleCrawl EXCEPT !.pc = "mint", !.mints = mints]]
    BY <1>2 DEF StartCrawl, BeginCrawl, FinishMint, NoContractFound, SetMint, SetCrawl
  <2> QED
    BY <1>1, <2>1
<1>3. CASE FinishCrawl(r)
  <2>1. crawl' = [crawl EXCEPT ![r] = IdleCrawl]
    BY <1>3 DEF FinishCrawl, SetCrawl
  <2>2. /\ IdleCrawl.pc = "idle" /\ IdleCrawl.total = NoShares
        /\ IdleCrawl.challenges = <<>> /\ IdleCrawl.read = 0 /\ IdleCrawl.mine = NoShares
    BY DEF IdleCrawl
  <2>3. SumsFor(IdleCrawl, pool_mints[IdleCrawl.mint].epoch)
    BY <2>2, NoSums
  <2> QED
    BY <2>1, <2>2, <2>3 DEF SumsMoved, AtSums
<1>4. ASSUME NEW i \in Mints, FindContract(r, i) PROVE \E new : SumsMoved(r, new)
  <2>1. PICK old, c : /\ old = crawl[r] /\ c = Record(r, i).challenge
                      /\ old \in CrawlState /\ SumsFor(old, pool_mints[old.mint].epoch)
    BY CrawlAtHand DEF MiningInvariant, CrawlsSum
  <2>2. PICK new : new = [old EXCEPT !.pc = "window", !.mint = i, !.challenge = c]
    OBVIOUS
  <2>3. crawl' = [crawl EXCEPT ![r] = new] /\ old.pc = "mint"
    BY <1>4, <2>1, <2>2 DEF FindContract, Reads, SetCrawl
  <2>4. /\ new.pc = "window" /\ new.total = old.total /\ new.challenges = old.challenges
        /\ new.read = old.read /\ new.mine = old.mine
    BY <2>1, <2>2 DEF CrawlState
  <2>5. SumsFor(new, pool_mints[new.mint].epoch)
    BY <2>1, <2>3, <2>4, NoSums DEF SumsFor, AtSums
  <2> QED
    BY <2>3, <2>4, <2>5 DEF SumsMoved, AtSums
<1> QED
  BY <1>2, <1>3, <1>4

\* What the crawl at hand has, with the epoch of its mint.
LEMMA SumsAtHand ==
    ASSUME MiningInvariant, CrawlsSum, NEW r \in CrawlRuns, crawl[r].pc \in Opened
    PROVE  \E old, e : /\ old = crawl[r] /\ old \in CrawlState /\ CrawlOK(old)
                       /\ e = pool_mints[old.mint].epoch /\ e \in Epochs
                       /\ SumsFor(old, e)
<1>1. CrawlOK(crawl[r]) /\ crawl[r] \in CrawlState
  BY CrawlAtHand DEF MiningInvariant
<1>2. pool_mints[crawl[r].mint].epoch \in Epochs
  BY <1>1, MintEpochs DEF CrawlOK
<1> QED
  BY <1>1, <1>2 DEF CrawlsSum

\* The list of the window is made, and nothing is summed up yet.
LEMMA FindWindowSums ==
    ASSUME MiningInvariant, CrawlsSum, NEW r \in CrawlRuns, FindWindow(r)
    PROVE  \E new : SumsMoved(r, new)
<1>0. crawl[r].pc = "window"
  BY DEF FindWindow, Reads
<1>1. PICK old, e : /\ old = crawl[r] /\ old \in CrawlState /\ CrawlOK(old)
                    /\ e = pool_mints[old.mint].epoch /\ e \in Epochs /\ SumsFor(old, e)
  BY <1>0, SumsAtHand DEF Opened
<1>2. PICK new : new = [old EXCEPT !.pc = "totals", !.records = LeftRecords(e, 0)]
  OBVIOUS
<1>3. crawl' = [crawl EXCEPT ![r] = new]
  <2>1. LeftRecords(e, 0) = {allminingContracts[d] :
                    d \in {f \in Epochs : f <= e /\ f > e - PPLNSDEPTH}} \ {NoContract}
    BY DEF LeftRecords, Epochs
  <2> QED
    BY <1>1, <1>2, <2>1 DEF FindWindow, SetCrawl
<1>4. /\ new.pc = "totals" /\ new.mint = old.mint /\ new.records = LeftRecords(e, 0)
      /\ new.total = old.total /\ new.challenges = old.challenges /\ new.read = old.read
      /\ new.mine = old.mine
  BY <1>1, <1>2 DEF CrawlState
<1>5. /\ new.total = NoShares /\ new.challenges = <<>> /\ new.read = 0 /\ new.mine = NoShares
  BY <1>0, <1>1, <1>4 DEF SumsFor, AtSums
<1> DEFINE f == [n \in Nat |-> NoShares]
<1>6. f \in [Nat -> Tally] /\ f[0] = NoShares
  BY TallyTypes
<1> HIDE DEF f
<1>7. 0 \in 0..e /\ WindowSum(e, 0, new.total)
  <2>1. 0 \in 0..e /\ 1..0 = {}
    BY <1>1, EpochAssumption DEF Epochs
  <2> QED
    BY <1>5, <1>6, <2>1 DEF WindowSum
<1>8. /\ ChallengeSums(f, new.challenges, e) /\ f[Len(new.challenges)] = new.total
      /\ \A s \in Shares : new.mine[s] <= f[new.read][s]
  BY <1>5, <1>6, TallyTypes DEF ChallengeSums
<1>9. SumsFor(new, e)
  BY <1>4, <1>5, <1>6, <1>7, <1>8 DEF SumsFor, AtSums
<1> QED
  BY <1>0, <1>1, <1>3, <1>4, <1>9 DEF SumsMoved, AtSums, Opened

\* The sum goes on to the next epoch of the window that has a record.
LEMMA WindowGoesOn ==
    ASSUME NEW e \in Epochs, NEW u \in 0..e, NEW d \in 1..e, u < d,
           NEW t \in Tally, WindowSum(e, u, t),
           \A b \in u + 1..d - 1 : \A sum : Adds(e, sum, b) = sum,
           NEW v \in Tally, v = Adds(e, t, d)
    PROVE  WindowSum(e, d, v)
<1>0. e \in Nat /\ u \in Nat /\ d \in Nat
  BY EpochAssumption DEF Epochs
<1>1. PICK f \in [Nat -> Tally] : /\ f[0] = NoShares /\ f[u] = t
                                  /\ \A b \in 1..u : f[b] = Adds(e, f[b - 1], b)
  BY DEF WindowSum
<1> DEFINE h == [n \in Nat |-> IF n <= u THEN f[n] ELSE IF n < d THEN t ELSE v]
<1>2. /\ h \in [Nat -> Tally] /\ h[0] = NoShares /\ h[d] = v
      /\ \A n \in 0..u : h[n] = f[n]
      /\ \A n \in u..d - 1 : h[n] = t
  BY <1>0, <1>1
<1> HIDE DEF h
<1>3. ASSUME NEW b \in 1..d PROVE h[b] = Adds(e, h[b - 1], b)
  <2>1. CASE b <= u
    <3>1. b \in 1..u /\ b \in 0..u /\ b - 1 \in 0..u
      BY <1>0, <2>1
    <3> QED
      BY <1>1, <1>2, <3>1
  <2>2. CASE b > u /\ b < d
    <3>1. b \in u..d - 1 /\ b - 1 \in u..d - 1 /\ b \in u + 1..d - 1
      BY <1>0, <2>2
    <3> QED
      BY <1>2, <3>1
  <2>3. CASE b = d
    <3>1. b - 1 \in u..d - 1
      BY <1>0, <2>3
    <3> QED
      BY <1>2, <2>3, <3>1
  <2> QED
    BY <1>0, <2>1, <2>2, <2>3
<1> QED
  BY <1>2, <1>3 DEF WindowSum

FirstRecord(records) == CHOOSE f \in records : \A g \in records : f.epoch <= g.epoch

\* The first of the records that are left: before it there is none, and the rest come after.
LEMMA NextRecord ==
    ASSUME MiningInvariant, NEW e \in Epochs, NEW u \in 0..e, LeftRecords(e, u) # {},
           NEW record, record = FirstRecord(LeftRecords(e, u))
    PROVE  \E d \in 1..e :
            /\ u < d /\ d > e - PPLNSDEPTH
            /\ record = allminingContracts[d] /\ record # NoContract
            /\ record.challenge \in 1..e
            /\ \A b \in u + 1..d - 1 : \A sum : Adds(e, sum, b) = sum
            /\ LeftRecords(e, u) \ {record} = LeftRecords(e, d)
<1> DEFINE left == LeftRecords(e, u)
<1>0. e \in Nat /\ u \in Nat /\ PPLNSDEPTH \in Nat
  BY EpochAssumption, RewardAssumption DEF Epochs
<1>1. \A d \in Epochs : allminingContracts[d] # NoContract =>
        /\ allminingContracts[d].epoch = d
        /\ allminingContracts[d].challenge \in 1..d
  <2>1. ASSUME NEW d \in Epochs, allminingContracts[d] # NoContract
        PROVE  allminingContracts[d].epoch = d /\ allminingContracts[d].challenge \in 1..d
    <3>1. allminingContracts[d] \in Ordered /\ allminingContracts[d].epoch = d
      BY <2>1, DataTypes DEF CollectorInvariant, RecordsOK
    <3> QED
      BY <3>1, ContractTypes, EpochAssumption DEF Ordered, Epochs
  <2> QED
    BY <2>1
<1>2. \A c : c \in left <=>
        \E d \in Epochs : /\ d <= e /\ d > e - PPLNSDEPTH /\ d > u
                          /\ c = allminingContracts[d] /\ c # NoContract
  BY DEF LeftRecords
<1>3. \A c \in left : c.epoch \in Nat
  BY <1>1, <1>2 DEF Epochs
<1>4. record \in left /\ \A c \in left : record.epoch <= c.epoch
  <2> DEFINE epochs == {c.epoch : c \in left}
  <2>1. epochs \in SUBSET Nat /\ epochs # {}
    BY <1>3
  <2> HIDE DEF epochs
  <2>2. \E n \in epochs : \A k \in epochs : n <= k
    BY <2>1, MinExists
  <2>3. \E c \in left : \A g \in left : c.epoch <= g.epoch
    BY <2>2 DEF epochs
  <2> QED
    BY <2>3 DEF FirstRecord
<1> HIDE DEF left
<1>5. PICK d \in Epochs : /\ d <= e /\ d > e - PPLNSDEPTH /\ d > u
                          /\ record = allminingContracts[d] /\ record # NoContract
  BY <1>2, <1>4
<1>6. d \in 1..e /\ record.epoch = d /\ record.challenge \in 1..e
  <2>1. d \in Nat /\ d >= 1
    BY EpochAssumption DEF Epochs
  <2>2. record.epoch = d /\ record.challenge \in 1..d
    BY <1>1, <1>5
  <2> QED
    BY <1>0, <1>5, <2>1, <2>2
<1>7. ASSUME NEW b \in u + 1..d - 1, NEW sum PROVE Adds(e, sum, b) = sum
  <2>1. b \in Epochs /\ b < d /\ b > u /\ b <= e
    BY <1>0, <1>5, EpochAssumption DEF Epochs
  <2>2. CASE b > e - PPLNSDEPTH /\ allminingContracts[b] # NoContract
    <3>1. allminingContracts[b] \in left /\ allminingContracts[b].epoch = b
      BY <1>1, <1>2, <2>1, <2>2
    <3> QED
      BY <1>0, <1>4, <1>6, <2>1, <3>1
  <2>3. CASE ~(b > e - PPLNSDEPTH /\ allminingContracts[b] # NoContract)
    BY <2>3 DEF Adds
  <2> QED
    BY <2>2, <2>3
<1>8. left \ {record} = LeftRecords(e, d)
  <2>1. ASSUME NEW c \in left, c # record PROVE c \in LeftRecords(e, d)
    <3>1. PICK b \in Epochs : /\ b <= e /\ b > e - PPLNSDEPTH /\ b > u
                              /\ c = allminingContracts[b] /\ c # NoContract
      BY <1>2, <2>1
    <3>2. b = c.epoch /\ d <= b /\ b # d
      BY <1>1, <1>4, <1>5, <1>6, <2>1, <3>1
    <3>3. b > d
      BY <1>5, <3>2 DEF Epochs
    <3> QED
      BY <3>1, <3>3 DEF LeftRecords
  <2>2. ASSUME NEW c \in LeftRecords(e, d) PROVE c \in left \ {record}
    <3>1. PICK b \in Epochs : /\ b <= e /\ b > e - PPLNSDEPTH /\ b > d
                              /\ c = allminingContracts[b] /\ c # NoContract
      BY DEF LeftRecords
    <3>2. c.epoch = b /\ b # d /\ b > u
      BY <1>0, <1>1, <1>5, <3>1 DEF Epochs
    <3> QED
      BY <1>2, <1>6, <3>1, <3>2
  <2> QED
    BY <2>1, <2>2
<1> QED
  BY <1>5, <1>6, <1>7, <1>8 DEF left

\* The total of the next challenge is added, if there is one.
LEMMA ReadTotalSums ==
    ASSUME MiningInvariant, CrawlsSum, NEW r \in CrawlRuns, ReadTotalDifficulty(r)
    PROVE  \E new : SumsMoved(r, new)
<1>0. crawl[r].pc = "totals" /\ crawl[r].records # {}
  BY DEF ReadTotalDifficulty, AddTotal, Reads
<1>1. PICK old, e : /\ old = crawl[r] /\ old \in CrawlState /\ CrawlOK(old)
                    /\ e = pool_mints[old.mint].epoch /\ e \in Epochs /\ SumsFor(old, e)
  BY <1>0, SumsAtHand DEF Opened
<1>2. /\ old.pc = "totals" /\ old.total \in Tally /\ old.challenges \in Seq(Epochs)
      /\ old.read = 0 /\ old.mine = NoShares
  BY <1>0, <1>1 DEF SumsFor, CrawlState
<1>3. PICK u \in 0..e : old.records = LeftRecords(e, u) /\ WindowSum(e, u, old.total)
  BY <1>1, <1>2 DEF SumsFor
<1>4. PICK g \in [Nat -> Tally] : /\ ChallengeSums(g, old.challenges, e)
                                  /\ g[Len(old.challenges)] = old.total
  BY <1>1, <1>2 DEF SumsFor
<1>5. PICK record : record = FirstRecord(LeftRecords(e, u))
  OBVIOUS
<1>6. PICK d \in 1..e :
            /\ u < d /\ d > e - PPLNSDEPTH
            /\ record = allminingContracts[d] /\ record # NoContract
            /\ record.challenge \in 1..e
            /\ \A b \in u + 1..d - 1 : \A sum : Adds(e, sum, b) = sum
            /\ LeftRecords(e, u) \ {record} = LeftRecords(e, d)
  <2>1. LeftRecords(e, u) # {} /\ e \in Epochs
    BY <1>0, <1>1, <1>3
  <2> QED
    BY <2>1, <1>5, NextRecord
<1>7. PICK total : total = totaldiff_challengenumber[record.challenge]
  OBVIOUS
<1>8. PICK v : v = IF total = None THEN old.total ELSE SumTally(old.total, total)
  OBVIOUS
<1>9. v \in Tally /\ v = Adds(e, old.total, d) /\ d \in 0..e
  <2>1. record.challenge \in Epochs
    BY <1>1, <1>6, EpochAssumption DEF Epochs
  <2>2. total \in Tally \cup {None}
    BY <1>7, <2>1, DataTypes
  <2>3. v \in Tally
    BY <1>2, <1>8, <2>2, TallyTypes
  <2>4. v = Adds(e, old.total, d)
    BY <1>6, <1>7, <1>8 DEF Adds
  <2> QED
    BY <2>3, <2>4
<1>10. WindowSum(e, d, v)
  BY <1>1, <1>2, <1>3, <1>6, <1>9, WindowGoesOn
<1>11. PICK rest : rest = [old EXCEPT !.records = LeftRecords(e, d)]
  OBVIOUS
<1>12. /\ rest.pc = "totals" /\ rest.mint = old.mint /\ rest.records = LeftRecords(e, d)
       /\ rest.total = old.total /\ rest.challenges = old.challenges
       /\ rest.read = 0 /\ rest.mine = NoShares
       /\ rest \in CrawlState
  <2>1. LeftRecords(e, d) \in SUBSET Contract
    BY DataTypes DEF LeftRecords
  <2> QED
    BY <1>1, <1>2, <1>11, <2>1 DEF CrawlState
<1>13. SetCrawl(r, IF total = None THEN rest
                   ELSE [rest EXCEPT !.total = SumTally(old.total, total),
                                     !.challenges = Append(rest.challenges, record.challenge)])
  <2>1. /\ record = FirstRecord(old.records)
        /\ rest = [old EXCEPT !.records = old.records \ {record}]
    BY <1>3, <1>5, <1>6, <1>11
  <2>2. record = FirstRecord(crawl[r].records)
    BY <1>1, <2>1
  <2>3. rest = [crawl[r] EXCEPT !.records = crawl[r].records \ {record}]
    BY <1>1, <2>1
  <2> QED
    BY <1>1, <1>7, <2>2, <2>3 DEF ReadTotalDifficulty, AddTotal, FirstRecord
<1>14. CASE total = None
  <2>1. crawl' = [crawl EXCEPT ![r] = rest] /\ v = old.total
    BY <1>8, <1>13, <1>14 DEF SetCrawl
  <2>2. \A s \in Shares : rest.mine[s] <= g[rest.read][s]
    BY <1>4, <1>12, TallyTypes DEF ChallengeSums
  <2>3. SumsFor(rest, e)
    BY <1>4, <1>9, <1>10, <1>12, <2>1, <2>2 DEF SumsFor, AtSums
  <2> QED
    BY <1>0, <1>1, <1>12, <2>1, <2>3 DEF SumsMoved, Opened
<1>15. CASE total # None
  <2>1. PICK new : new = [rest EXCEPT !.total = SumTally(old.total, total),
                                !.challenges = Append(rest.challenges, record.challenge)]
    OBVIOUS
  <2>2. crawl' = [crawl EXCEPT ![r] = new] /\ v = SumTally(old.total, total)
    BY <1>8, <1>13, <1>15, <2>1 DEF SetCrawl
  <2>3. /\ new.pc = "totals" /\ new.mint = old.mint /\ new.records = LeftRecords(e, d)
        /\ new.total = v /\ new.challenges = Append(old.challenges, record.challenge)
        /\ new.read = 0 /\ new.mine = NoShares
    BY <1>12, <2>1, <2>2 DEF CrawlState
  <2> DEFINE n == Len(old.challenges)
             h == [g EXCEPT ![n + 1] = v]
  <2>4. /\ n \in Nat /\ Len(new.challenges) = n + 1 /\ new.challenges[n + 1] = record.challenge
        /\ \A k \in 1..n : new.challenges[k] = old.challenges[k]
    BY <1>1, <1>2, <1>6, <2>3, EpochAssumption DEF Epochs
  <2>5. /\ h \in [Nat -> Tally] /\ h[n + 1] = v /\ \A k \in 0..n : h[k] = g[k]
    BY <1>4, <1>9, <2>4
  <2> HIDE DEF n, h
  <2>6. ChallengeSums(h, new.challenges, e)
    <3>1. h[0] = NoShares
      BY <1>4, <2>4, <2>5 DEF ChallengeSums
    <3>2. ASSUME NEW k \in 1..n + 1
          PROVE  /\ new.challenges[k] \in 1..e
                 /\ totaldiff_challengenumber[new.challenges[k]] # None
                 /\ h[k] = SumTally(h[k - 1], totaldiff_challengenumber[new.challenges[k]])
      <4>1. CASE k = n + 1
        <5>1. h[k - 1] = old.total
          BY <1>4, <2>4, <2>5, <4>1 DEF n
        <5>2. new.challenges[k] = record.challenge /\ h[k] = v
          BY <2>4, <2>5, <4>1
        <5> QED
          BY <1>6, <1>7, <1>15, <2>2, <5>1, <5>2
      <4>2. CASE k # n + 1
        <5>1. k \in 1..n /\ k \in 0..n /\ k - 1 \in 0..n
          BY <2>4, <4>2
        <5> QED
          BY <1>4, <2>4, <2>5, <5>1 DEF ChallengeSums, n
      <4> QED
        BY <4>1, <4>2
    <3> QED
      BY <2>4, <3>1, <3>2 DEF ChallengeSums
  <2>7. \A s \in Shares : new.mine[s] <= h[new.read][s]
    BY <2>3, <2>6, TallyTypes DEF ChallengeSums
  <2>8. h[Len(new.challenges)] = new.total
    BY <2>3, <2>4, <2>5
  <2>9. SumsFor(new, e)
    BY <1>9, <1>10, <2>3, <2>5, <2>6, <2>7, <2>8 DEF SumsFor, AtSums
  <2> QED
    BY <1>0, <1>1, <2>2, <2>3, <2>9 DEF SumsMoved, Opened
<1> QED
  BY <1>14, <1>15

\* Nothing is left of the window: the sum is that of all of it.
LEMMA WindowEnds ==
    ASSUME NEW e \in Epochs, NEW u \in 0..e, NEW t \in Tally, WindowSum(e, u, t),
           LeftRecords(e, u) = {}
    PROVE  WindowSum(e, e, t)
<1>0. e \in Nat /\ e \in 1..e /\ PPLNSDEPTH \in Nat
  BY EpochAssumption, RewardAssumption DEF Epochs
<1>1. ASSUME NEW b \in u + 1..e, NEW sum PROVE Adds(e, sum, b) = sum
  <2>1. b \in Epochs /\ b <= e /\ b > u
    BY <1>0, EpochAssumption DEF Epochs
  <2>2. b > e - PPLNSDEPTH => allminingContracts[b] = NoContract
    BY <2>1 DEF LeftRecords
  <2> QED
    BY <2>2 DEF Adds
<1>2. CASE u < e
  <2>1. e \in u + 1..e /\ \A b \in u + 1..e - 1 : b \in u + 1..e
    BY <1>0, <1>2
  <2>2. t = Adds(e, t, e) /\ \A b \in u + 1..e - 1 : \A sum : Adds(e, sum, b) = sum
    BY <1>1, <2>1
  <2> QED
    BY <1>0, <1>2, <2>2, WindowGoesOn
<1>3. CASE ~(u < e)
  <2>1. u = e
    BY <1>0, <1>3
  <2> QED
    BY <2>1
<1> QED
  BY <1>2, <1>3

LEMMA FindMinersSums ==
    ASSUME MiningInvariant, CrawlsSum, NEW r \in CrawlRuns, FindMiners(r)
    PROVE  \E new : SumsMoved(r, new)
<1>0. crawl[r].pc = "totals" /\ crawl[r].records = {}
  BY DEF FindMiners, FindMinersOf, Reads
<1>1. PICK old, e : /\ old = crawl[r] /\ old \in CrawlState /\ CrawlOK(old)
                    /\ e = pool_mints[old.mint].epoch /\ e \in Epochs /\ SumsFor(old, e)
  BY <1>0, SumsAtHand DEF Opened
<1>2. old.pc = "totals" /\ old.total \in Tally /\ old.read = 0 /\ old.mine = NoShares
  BY <1>0, <1>1 DEF SumsFor, CrawlState
<1>3. PICK miners : crawl' = [crawl EXCEPT ![r] = [old EXCEPT !.pc = "fill", !.miners = miners]]
  BY <1>1 DEF FindMiners, FindMinersOf, SetCrawl
<1>4. PICK new : new = [old EXCEPT !.pc = "fill", !.miners = miners]
  OBVIOUS
<1>5. /\ new.pc = "fill" /\ new.mint = old.mint /\ new.total = old.total
      /\ new.challenges = old.challenges /\ new.read = 0 /\ new.mine = NoShares
  BY <1>1, <1>2, <1>4 DEF CrawlState
<1>6. PICK u \in 0..e : LeftRecords(e, u) = {} /\ WindowSum(e, u, old.total)
  BY <1>0, <1>1, <1>2 DEF SumsFor
<1>7. WindowSum(e, e, new.total)
  BY <1>1, <1>2, <1>5, <1>6, WindowEnds
<1>8. SumsFor(new, e)
  BY <1>1, <1>2, <1>5, <1>7 DEF SumsFor, AtSums
<1> QED
  BY <1>0, <1>1, <1>3, <1>4, <1>5, <1>8 DEF SumsMoved, AtSums, Opened

\* What has been summed up for the pool is kept, and the next row begins with nothing.
LEMMA SumsKept ==
    ASSUME MiningInvariant, CrawlsSum, NEW r \in CrawlRuns, crawl[r].pc \in AtSums,
           NEW new, crawl' = [crawl EXCEPT ![r] = new],
           new.pc \in {"fill", "zero", "rows"}, new.mint = crawl[r].mint,
           new.total = crawl[r].total, new.challenges = crawl[r].challenges,
           new.read = 0, new.mine = NoShares
    PROVE  SumsMoved(r, new)
<1>1. PICK old, e : /\ old = crawl[r] /\ e = pool_mints[old.mint].epoch /\ SumsFor(old, e)
  BY DEF CrawlsSum
<1>2. SumsFor(new, e)
  BY <1>1, SameSums
<1> QED
  BY <1>1, <1>2 DEF SumsMoved, AtSums, Opened

LEMMA FillSums ==
    ASSUME MiningInvariant, CrawlsSum, NEW r \in CrawlRuns,
           (\E m \in Miners : FillRow(r, m)) \/ InsertZeroRow(r) \/ ListRows(r)
    PROVE  \E new : SumsMoved(r, new)
<1>0. crawl[r].pc \in {"fill", "zero"}
  BY DEF FillRow, InsertZeroRow, ListRows, Reads
<1>1. PICK old : old = crawl[r] /\ old \in CrawlState /\ old.read = 0 /\ old.mine = NoShares
  BY <1>0, CrawlAtHand DEF MiningInvariant, CrawlsSum, SumsFor
<1>2. ASSUME NEW new, crawl' = [crawl EXCEPT ![r] = new],
             NEW pc \in {"fill", "zero", "rows"}, NEW miners, NEW miner, NEW rows,
             \/ new = [old EXCEPT !.miners = miners] /\ pc = old.pc
             \/ new = [old EXCEPT !.pc = pc, !.miner = miner]
             \/ new = [old EXCEPT !.pc = pc, !.rows = rows]
      PROVE  SumsMoved(r, new)
  <2>1. /\ new.pc = pc /\ new.mint = old.mint
        /\ new.total = old.total /\ new.challenges = old.challenges
        /\ new.read = old.read /\ new.mine = old.mine
    BY <1>1, <1>2 DEF CrawlState
  <2> QED
    BY <1>0, <1>1, <1>2, <2>1, SumsKept DEF AtSums
<1>3. ASSUME NEW m \in Miners, FillRow(r, m) PROVE \E new : SumsMoved(r, new)
  <2>1. PICK miners : miners = old.miners \ {m}
    OBVIOUS
  <2>2. PICK skip, zero : /\ skip = [old EXCEPT !.miners = miners]
                          /\ zero = [old EXCEPT !.miners = miners, !.pc = "zero", !.miner = m]
    OBVIOUS
  <2>3. /\ old.pc = "fill"
        /\ crawl' = [crawl EXCEPT ![r] = skip] \/ crawl' = [crawl EXCEPT ![r] = zero]
    BY <1>1, <1>3, <2>1, <2>2 DEF FillRow, Reads, SetCrawl
  <2>4. "fill" \in {"fill", "zero", "rows"} /\ "zero" \in {"fill", "zero", "rows"}
    OBVIOUS
  <2>5. CASE crawl' = [crawl EXCEPT ![r] = skip]
    <3>1. SumsMoved(r, skip)
      BY <1>2, <2>2, <2>3, <2>4, <2>5
    <3> QED
      BY <3>1
  <2>6. CASE crawl' = [crawl EXCEPT ![r] = zero]
    <3>1. /\ zero.pc = "zero" /\ zero.mint = old.mint
          /\ zero.total = old.total /\ zero.challenges = old.challenges
          /\ zero.read = old.read /\ zero.mine = old.mine
      BY <1>1, <2>2 DEF CrawlState
    <3> QED
      BY <1>0, <1>1, <2>4, <2>6, <3>1, SumsKept DEF AtSums
  <2> QED
    BY <2>3, <2>5, <2>6
<1>4. CASE InsertZeroRow(r)
  <2>1. PICK new : new = [old EXCEPT !.pc = "fill", !.miner = None]
    OBVIOUS
  <2>2. crawl' = [crawl EXCEPT ![r] = new] /\ "fill" \in {"fill", "zero", "rows"}
    BY <1>1, <1>4, <2>1 DEF InsertZeroRow, SetCrawl
  <2> QED
    BY <1>2, <2>1, <2>2
<1>5. CASE ListRows(r)
  <2>1. PICK rows : crawl' = [crawl EXCEPT ![r] = [old EXCEPT !.pc = "rows", !.rows = rows]]
    BY <1>1, <1>5 DEF ListRows, SetCrawl
  <2>2. PICK new : new = [old EXCEPT !.pc = "rows", !.rows = rows]
    OBVIOUS
  <2>3. crawl' = [crawl EXCEPT ![r] = new] /\ "rows" \in {"fill", "zero", "rows"}
    BY <2>1, <2>2
  <2> QED
    BY <1>2, <2>2, <2>3
<1> QED
  BY <1>3, <1>4, <1>5

\* The row is done with, and the crawl goes on to the next.
LEMMA NextRowSums ==
    ASSUME MiningInvariant, CrawlsSum, NEW r \in CrawlRuns,
           NothingToShare(r) \/ PoolTooPoor(r) \/ AwardTokensForShares(r)
    PROVE  \E new : SumsMoved(r, new)
<1>0. crawl[r].pc \in {"sum", "award"}
  BY DEF NothingToShare, PoolTooPoor, AwardTokensForShares, Summed
<1>1. PICK old, i : old = crawl[r] /\ i = old.row /\ old \in CrawlState
  BY CrawlAtHand DEF MiningInvariant
<1>2. PICK new : new = [old EXCEPT !.pc = "rows", !.rows = old.rows \ {i}, !.row = 0,
                                   !.read = 0, !.mine = NoShares]
  OBVIOUS
<1>3. crawl' = [crawl EXCEPT ![r] = new]
  BY <1>1, <1>2 DEF NothingToShare, PoolTooPoor, AwardTokensForShares, SetRow, SetCrawl
<1>4. /\ new.pc = "rows" /\ new.mint = old.mint /\ new.total = old.total
      /\ new.challenges = old.challenges /\ new.read = 0 /\ new.mine = NoShares
  BY <1>1, <1>2 DEF CrawlState
<1> QED
  BY <1>0, <1>1, <1>3, <1>4, SumsKept DEF AtSums

LEMMA RecheckSums ==
    ASSUME MiningInvariant, CrawlsSum, NEW r \in CrawlRuns, NEW i \in Rows, RecheckRow(r, i)
    PROVE  \E new : SumsMoved(r, new)
<1>0. crawl[r].pc = "rows"
  BY DEF RecheckRow
<1>1. PICK old, e : /\ old = crawl[r] /\ old \in CrawlState /\ CrawlOK(old)
                    /\ e = pool_mints[old.mint].epoch /\ e \in Epochs /\ SumsFor(old, e)
  BY <1>0, SumsAtHand DEF Opened
<1>2. PICK new : new = [old EXCEPT !.pc = "sum", !.row = i]
  OBVIOUS
<1>3. crawl' = [crawl EXCEPT ![r] = new]
  BY <1>1, <1>2, RecheckTypes, DataTypes DEF MiningInvariant
<1>4. /\ new.pc = "sum" /\ new.mint = old.mint /\ new.total = old.total /\ new.row = i
      /\ new.challenges = old.challenges /\ new.read = old.read /\ new.mine = old.mine
  BY <1>1, <1>2 DEF CrawlState
<1>5. old.pc = "rows" /\ old.read = 0 /\ old.mine = NoShares
  BY <1>0, <1>1 DEF SumsFor
<1>6. Own(new.mine, miner_challengediff[new.row].miner)
  BY <1>4, <1>5, TallyTypes DEF Own
<1>7. SumsFor(new, e)
  BY <1>1, <1>4, <1>5, <1>6 DEF SumsFor, AtSums
<1> QED
  BY <1>0, <1>1, <1>3, <1>4, <1>7 DEF SumsMoved, AtSums, Opened

(* The miner's row of the next challenge is added: it has only shares that the total of *)
(* the challenge has, and only the miner's own.                                         *)
LEMMA SumRowSums ==
    ASSUME MiningInvariant, SumsInvariant, CrawlsSum, NEW r \in CrawlRuns, SumRow(r)
    PROVE  \E new : SumsMoved(r, new)
<1>0. crawl[r].pc = "sum"
  BY DEF SumRow, Reads
<1>1. PICK old, e : /\ old = crawl[r] /\ old \in CrawlState /\ CrawlOK(old)
                    /\ e = pool_mints[old.mint].epoch /\ e \in Epochs /\ SumsFor(old, e)
  BY <1>0, SumsAtHand DEF Opened
<1>2. /\ old.pc = "sum" /\ old.mine \in Tally /\ old.read \in Nat
      /\ old.challenges \in Seq(Epochs) /\ old.row \in Rows
      /\ Own(old.mine, miner_challengediff[old.row].miner)
  BY <1>0, <1>1 DEF SumsFor, CrawlState, CrawlOK
<1>3. PICK g \in [Nat -> Tally] : /\ ChallengeSums(g, old.challenges, e)
                                  /\ g[Len(old.challenges)] = old.total
                                  /\ \A s \in Shares : old.mine[s] <= g[old.read][s]
  BY <1>1, <1>2 DEF SumsFor, AtSums
<1>4. PICK k, m, c, rows : /\ k = old.read + 1 /\ c = old.challenges[k]
                           /\ m = miner_challengediff[old.row].miner /\ rows = RowsOf(m, c)
  OBVIOUS
<1>5. PICK mine : mine = IF rows = {} THEN old.mine
                         ELSE SumTally(old.mine, miner_challengediff[FirstOf(rows)].totaldiff)
  OBVIOUS
<1>6. PICK new : new = [old EXCEPT !.read = k, !.mine = mine]
  OBVIOUS
<1>7. crawl' = [crawl EXCEPT ![r] = new] /\ k <= Len(old.challenges)
  BY <1>1, <1>4, <1>5, <1>6 DEF SumRow, SetCrawl
<1>8. /\ new.pc = "sum" /\ new.mint = old.mint /\ new.total = old.total /\ new.row = old.row
      /\ new.challenges = old.challenges /\ new.read = k /\ new.mine = mine
  BY <1>1, <1>2, <1>6 DEF CrawlState
<1>9. /\ k \in 1..Len(old.challenges) /\ k \in Nat /\ k - 1 = old.read
      /\ c \in Epochs /\ totaldiff_challengenumber[c] \in Tally
      /\ g[k] = SumTally(g[k - 1], totaldiff_challengenumber[c])
  <2>1. k \in 1..Len(old.challenges) /\ k - 1 = old.read /\ k \in Nat
    BY <1>2, <1>4, <1>7
  <2>2. c \in Epochs
    BY <1>2, <1>4, <2>1
  <2>3. /\ totaldiff_challengenumber[c] # None
        /\ g[k] = SumTally(g[k - 1], totaldiff_challengenumber[c])
    BY <1>3, <1>4, <2>1 DEF ChallengeSums
  <2> QED
    BY <2>1, <2>2, <2>3, DataTypes
<1>10. CASE rows = {}
  <2>1. mine = old.mine
    BY <1>5, <1>10
  <2>2. ASSUME NEW s \in Shares PROVE mine[s] <= g[k][s]
    <3>1. g[old.read] \in Tally /\ g[k][s] = g[old.read][s] + totaldiff_challengenumber[c][s]
      BY <1>2, <1>3, <1>9, TallyTypes
    <3>2. /\ g[old.read][s] \in Nat /\ totaldiff_challengenumber[c][s] \in Nat
          /\ mine[s] \in Nat /\ mine[s] <= g[old.read][s]
      BY <1>2, <1>3, <1>9, <2>1, <3>1 DEF Tally
    <3> QED
      BY <3>1, <3>2
  <2>3. SumsFor(new, e)
    BY <1>1, <1>2, <1>3, <1>8, <2>1, <2>2 DEF SumsFor, AtSums
  <2> QED
    BY <1>0, <1>1, <1>2, <1>7, <1>8, <2>3 DEF SumsMoved, AtSums, Opened
<1>11. CASE rows # {}
  <2>1. PICK i : i = FirstOf(rows)
    OBVIOUS
  <2>2. /\ i \in Rows /\ miner_challengediff[i].miner = m
        /\ miner_challengediff[i].challenge = c /\ miner_challengediff[i].totaldiff \in Tally
    BY <1>4, <1>11, <2>1, RowsOfTypes, DataTypes
  <2>3. PICK tally : tally = miner_challengediff[i].totaldiff
    OBVIOUS
  <2>4. mine = SumTally(old.mine, tally) /\ tally \in Tally /\ mine \in Tally
    BY <1>2, <1>5, <1>11, <2>1, <2>2, <2>3, TallyTypes
  <2>5. Covered(tally, c) /\ Own(tally, m)
    BY <2>2, <2>3 DEF SumsInvariant, RowsCovered, RowsOwn
  <2>6. ASSUME NEW s \in Shares PROVE mine[s] <= g[k][s]
    <3>1. /\ g[k][s] = g[old.read][s] + totaldiff_challengenumber[c][s]
          /\ mine[s] = old.mine[s] + tally[s]
      BY <1>2, <1>3, <1>9, <2>4, TallyTypes
    <3>2. /\ g[old.read][s] \in Nat /\ totaldiff_challengenumber[c][s] \in Nat
          /\ tally[s] \in Nat /\ old.mine[s] \in Nat /\ old.mine[s] <= g[old.read][s]
      BY <1>2, <1>3, <1>9, <2>4 DEF Tally
    <3>3. tally[s] > 0 => tally[s] <= totaldiff_challengenumber[c][s]
      BY <2>5 DEF Covered
    <3> QED
      BY <3>1, <3>2, <3>3
  <2>7. Own(mine, m)
    <3> SUFFICES ASSUME NEW s \in Shares, mine[s] > 0 PROVE MinerOf[s] = m
      BY DEF Own
    <3>1. mine[s] = old.mine[s] + tally[s]
      BY <1>2, <2>4, TallyTypes
    <3>2. old.mine[s] \in Nat /\ tally[s] \in Nat
      BY <1>2, <2>4 DEF Tally
    <3>3. old.mine[s] > 0 \/ tally[s] > 0
      BY <3>1, <3>2
    <3> QED
      BY <1>2, <1>4, <2>5, <3>3 DEF Own
  <2>8. SumsFor(new, e)
    BY <1>1, <1>2, <1>3, <1>4, <1>8, <2>6, <2>7 DEF SumsFor, AtSums
  <2> QED
    BY <1>0, <1>1, <1>2, <1>7, <1>8, <2>8 DEF SumsMoved, AtSums, Opened
<1> QED
  BY <1>10, <1>11

LEMMA MarkSums ==
    ASSUME MiningInvariant, CrawlsSum, NEW r \in CrawlRuns, MarkRewarded(r)
    PROVE  \E new : SumsMoved(r, new)
<1>0. crawl[r].pc = "sum" /\ crawl[r].read = Len(crawl[r].challenges)
  BY DEF MarkRewarded, Summed
<1>1. PICK old, e : /\ old = crawl[r] /\ old \in CrawlState /\ CrawlOK(old)
                    /\ e = pool_mints[old.mint].epoch /\ e \in Epochs /\ SumsFor(old, e)
  BY <1>0, SumsAtHand DEF Opened
<1>2. PICK new : new = [old EXCEPT !.pc = "award"]
  OBVIOUS
<1>3. crawl' = [crawl EXCEPT ![r] = new]
  BY <1>1, <1>2 DEF MarkRewarded, SetCrawl
<1>4. /\ new.pc = "award" /\ new.mint = old.mint /\ new.total = old.total
      /\ new.row = old.row /\ new.challenges = old.challenges
      /\ new.read = old.read /\ new.mine = old.mine
  BY <1>1, <1>2 DEF CrawlState
<1>5. SumsFor(new, e) /\ old.row \in Rows
  BY <1>0, <1>1, <1>4 DEF SumsFor, AtSums, CrawlOK
<1> QED
  BY <1>0, <1>1, <1>3, <1>4, <1>5 DEF SumsMoved, AtSums, Opened

----------------------------------------------------------------------------
(* The sums stay, whatever the others do. *)

LEMMA AllKeep ==
    ASSUME MiningInvariant, BooksInvariant, [Next]_vars
    PROVE  MintsKeep /\ PlacesKeep
<1>1. ASSUME NEW r \in CrawlRuns, CrawlStep(r) PROVE MintsKeep /\ PlacesKeep
  <2>1. ASSUME NEW new, CrawlKeeps(r, new) PROVE MintsKeep /\ PlacesKeep
    BY <2>1 DEF CrawlKeeps, CrawlMoved
  <2>2. ASSUME UNCHANGED <<pool_mints, miner_challengediff>> PROVE MintsKeep /\ PlacesKeep
    BY <2>2, NothingWritten
  <2>3. ASSUME NEW i \in Mints, OpenMint(r, i) PROVE MintsKeep /\ PlacesKeep
    BY <2>1, <2>2, <2>3, TurnKeeps DEF OpenMint, FindContract, Reads
  <2>4. CASE InsertZeroRow(r)
    <3>1. PICK old, m, c : /\ old = crawl[r] /\ m = old.miner /\ c = old.challenge
                           /\ CrawlOK(old)
      BY CrawlAtHand DEF MiningInvariant
    <3>2. PICK row : row = NewRow(m, c, NoShares)
      OBVIOUS
    <3>3. /\ old.pc = "zero" /\ pool_mints' = pool_mints
          /\ miner_challengediff' = Append(miner_challengediff, row)
      BY <2>4, <3>1, <3>2 DEF InsertZeroRow
    <3>4. row \in ChallengeDiff /\ row.status = 1
      BY <3>1, <3>2, <3>3, RowTypes, TallyTypes DEF CrawlOK, Opened
    <3>5. RowsGrow
      BY <3>3, <3>4, RowIsAppended, DataTypes
    <3> QED
      BY <3>3, <3>5 DEF RowsGrow, PlacesKeep, MintsKeep, Mints
  <2>5. CASE MarkRewarded(r)
    <3>1. PICK i : i = crawl[r].row
      OBVIOUS
    <3>2. StatusWritten(i, 2) /\ 2 \in 1..5 /\ pool_mints' = pool_mints
      BY <2>5, <3>1 DEF MarkRewarded, StatusWritten
    <3> QED
      BY <3>2, StatusIsWritten, DataTypes DEF PlacesKeep, MintsKeep, Mints
  <2>6. CASE AwardTokensForShares(r)
    BY <2>2, <2>6 DEF AwardTokensForShares
  <2> QED
    BY <1>1, <2>1, <2>3, <2>4, <2>5, <2>6, TurnKeeps, MintStepKeeps, RowStepKeeps
       DEF CrawlStep
<1>2. ASSUME NEW p \in Processors, CountStep(p), UNCHANGED rewardVars
      PROVE  MintsKeep /\ PlacesKeep
  <2>1. ProcessStep(p)
    BY <1>2 DEF CountStep, ProcessStep, HandleStep
  <2>2. PlacesKeep
    BY <2>1, ProcessRows DEF MiningInvariant, RowsGrow, PlacesKeep
  <2> QED
    BY <1>2, <2>2 DEF rewardVars, mintVars, MintsKeep, Mints
<1>3. CASE Rest
  BY <1>3 DEF Rest, PlacesKeep, Rows
<1> QED
  BY <1>1, <1>2, <1>3, RewardShapes DEF RewardSide

LEMMA StateSums ==
    ASSUME MiningInvariant, MiningInvariant', BooksInvariant, InTurn, [Next]_vars,
           NEW state, SumsFor(state, pool_mints[state.mint].epoch),
           state.pc \in AtSums \cup {"totals"} =>
                state.mint \in Mints /\ Settled(pool_mints[state.mint].epoch),
           state.pc \in {"sum", "award"} => state.row \in Rows
    PROVE  SumsFor(state, pool_mints[state.mint].epoch)'
<1>0. MintsKeep /\ PlacesKeep /\ Forward
  BY AllKeep DEF BooksInvariant
<1>1. CASE state.pc \in AtSums \cup {"totals"}
  <2>1. PICK e : e = pool_mints[state.mint].epoch
    OBVIOUS
  <2>2. e \in Epochs /\ Settled(e) /\ SumsFor(state, e) /\ pool_mints'[state.mint].epoch = e
    BY <1>0, <1>1, <2>1, MintEpochs DEF MintsKeep
  <2>3. SumsFor(state, e)'
    BY <1>0, <2>2, SumsForStay
  <2> QED
    BY <2>2, <2>3 DEF SumsFor
<1>2. CASE state.pc \notin AtSums \cup {"totals"}
  BY <1>2 DEF SumsFor, AtSums
<1> QED
  BY <1>1, <1>2

LEMMA UnmovedSums ==
    ASSUME MiningInvariant, MiningInvariant', BooksInvariant, InTurn, [Next]_vars, CrawlsSum,
           NEW r \in CrawlRuns, crawl'[r] = crawl[r]
    PROVE  SumsFor(crawl[r], pool_mints[crawl[r].mint].epoch)'
<1>1. PICK state : /\ state = crawl[r] /\ CrawlOK(state) /\ CrawlBooks(state)
                   /\ SumsFor(state, pool_mints[state.mint].epoch)
  BY CrawlAtHand DEF MiningInvariant, BooksInvariant, CrawlsBook, CrawlsSum
<1>2. SumsFor(state, pool_mints[state.mint].epoch)'
  <2>1. state.pc \in AtSums \cup {"totals"} =>
                state.mint \in Mints /\ Settled(pool_mints[state.mint].epoch)
    BY <1>1 DEF CrawlOK, CrawlBooks, Settling, AtSums, Opened
  <2>2. state.pc \in {"sum", "award"} => state.row \in Rows
    BY <1>1 DEF CrawlOK
  <2> QED
    BY <1>1, <2>1, <2>2, StateSums
<1>3. state = crawl'[r]
  BY <1>1
<1> QED
  BY <1>2, <1>3 DEF SumsFor

LEMMA MovedSums ==
    ASSUME MiningInvariant, MiningInvariant', BooksInvariant, InTurn, [Next]_vars, CrawlsSum,
           NEW r \in CrawlRuns, NEW new, SumsMoved(r, new)
    PROVE  CrawlsSum'
<1>0. crawl \in [CrawlRuns -> CrawlState]
  BY DEF MiningInvariant, RewardInvariant, RewardTypeOK
<1>1. crawl'[r] = new /\ \A q \in CrawlRuns : q # r => crawl'[q] = crawl[q]
  BY <1>0 DEF SumsMoved
<1>2. SumsFor(new, pool_mints[new.mint].epoch)'
  <2>1. PICK old : old = crawl[r] /\ CrawlOK(old) /\ CrawlBooks(old)
    BY CrawlAtHand DEF MiningInvariant, BooksInvariant, CrawlsBook
  <2>2. new.pc \in AtSums \cup {"totals"} =>
                new.mint \in Mints /\ Settled(pool_mints[new.mint].epoch)
    BY <2>1 DEF SumsMoved, CrawlOK, CrawlBooks, Settling
  <2> QED
    BY <2>2, StateSums DEF SumsMoved
<1>3. SumsFor(crawl[r], pool_mints[crawl[r].mint].epoch)'
  BY <1>1, <1>2 DEF SumsFor
<1>4. ASSUME NEW q \in CrawlRuns PROVE SumsFor(crawl[q], pool_mints[crawl[q].mint].epoch)'
  BY <1>1, <1>3, UnmovedSums
<1> QED
  BY <1>4 DEF CrawlsSum

LEMMA CrawlsSumGoesOn ==
    ASSUME MiningInvariant, MiningInvariant', SumsInvariant, BooksInvariant, InTurn,
           [Next]_vars, CrawlsSum
    PROVE  CrawlsSum'
<1>1. ASSUME NEW r \in CrawlRuns, CrawlStep(r) PROVE CrawlsSum'
  <2>1. CASE StartCrawl(r) \/ FinishCrawl(r) \/ \E i \in Mints : OpenMint(r, i)
    BY <2>1, TurnSums, MovedSums DEF OpenMint
  <2>2. CASE MintStep(r)
    BY <2>2, FindWindowSums, ReadTotalSums, FindMinersSums, FillSums, TurnSums, MovedSums
       DEF MintStep
  <2>3. CASE RowStep(r)
    BY <2>3, RecheckSums, SumRowSums, NextRowSums, MarkSums, MovedSums DEF RowStep
  <2> QED
    BY <1>1, <2>1, <2>2, <2>3 DEF CrawlStep
<1>2. ASSUME \A r \in CrawlRuns : crawl'[r] = crawl[r] \/ crawl'[r] = IdleCrawl
      PROVE  CrawlsSum'
  <2>1. /\ IdleCrawl.pc = "idle" /\ IdleCrawl.total = NoShares
        /\ IdleCrawl.challenges = <<>> /\ IdleCrawl.read = 0 /\ IdleCrawl.mine = NoShares
    BY DEF IdleCrawl
  <2>2. ASSUME NEW r \in CrawlRuns, crawl'[r] = IdleCrawl
        PROVE  SumsFor(crawl[r], pool_mints[crawl[r].mint].epoch)'
    BY <2>1, <2>2 DEF SumsFor, AtSums
  <2> QED
    BY <1>2, <2>2, UnmovedSums DEF CrawlsSum
<1> QED
  BY <1>1, <1>2, RewardShapes DEF Rest, RewardSide, rewardVars, crawlVars

LEMMA RewardSumsStay ==
    ASSUME MiningInvariant, MiningInvariant', BooksInvariant, InTurn, [Next]_vars,
           NEW reward, reward.mint \in Mints, Settled(pool_mints[reward.mint].epoch),
           RewardSums(reward, pool_mints[reward.mint].epoch)
    PROVE  RewardSums(reward, pool_mints[reward.mint].epoch)'
<1>1. PICK e, t : e = pool_mints[reward.mint].epoch /\ t = reward.poolshares
  OBVIOUS
<1>2. e \in Epochs /\ e \in 0..e /\ pool_mints'[reward.mint].epoch = e /\ Forward
  BY <1>1, MintEpochs, AllKeep, EpochAssumption DEF MintsKeep, Epochs, BooksInvariant
<1>3. WindowSum(e, e, t)'
  BY <1>1, <1>2, WindowSumStays DEF RewardSums
<1> QED
  BY <1>1, <1>2, <1>3 DEF RewardSums, Own

LEMMA OldRewardSums ==
    ASSUME MiningInvariant, MiningInvariant', BooksInvariant, InTurn, [Next]_vars, RewardsSum,
           NEW k \in DOMAIN rewards, NEW one, one = rewards[k]
    PROVE  RewardSums(one, pool_mints[one.mint].epoch)'
BY RewardSumsStay DEF RewardsSum, BooksInvariant, RewardsBook, Settling

\* What a miner is given is what was summed up for it, in all of the pool's total.
LEMMA AwardSums ==
    ASSUME MiningInvariant, MiningInvariant', BooksInvariant, InTurn, [Next]_vars, CrawlsSum,
           RewardsSum, NEW r \in CrawlRuns, AwardTokensForShares(r)
    PROVE  RewardsSum'
<1>0. crawl[r].pc = "award"
  BY DEF AwardTokensForShares
<1>1. PICK old, e : /\ old = crawl[r] /\ old \in CrawlState /\ CrawlOK(old)
                    /\ e = pool_mints[old.mint].epoch /\ e \in Epochs /\ SumsFor(old, e)
  BY <1>0, SumsAtHand DEF Opened
<1>2. PICK reward : reward = [mint |-> old.mint, miner |-> miner_challengediff[old.row].miner,
                              challenge |-> old.challenge, shares |-> old.mine,
                              poolshares |-> old.total]
  OBVIOUS
<1>3. rewards' = rewards \/ rewards' = Append(rewards, reward)
  BY <1>1, <1>2 DEF AwardTokensForShares
<1>4. PICK g \in [Nat -> Tally] : /\ g[Len(old.challenges)] = old.total
                                  /\ \A s \in Shares : old.mine[s] <= g[old.read][s]
  BY <1>0, <1>1 DEF SumsFor, AtSums
<1>5. /\ old.read = Len(old.challenges) /\ WindowSum(e, e, old.total)
      /\ Own(old.mine, miner_challengediff[old.row].miner)
  BY <1>0, <1>1 DEF SumsFor, AtSums
<1>6. RewardSums(reward, e) /\ reward.mint = old.mint
  BY <1>2, <1>4, <1>5 DEF RewardSums
<1>7. reward.mint \in Mints /\ Settled(pool_mints[reward.mint].epoch)
  BY <1>0, <1>1, <1>6 DEF CrawlOK, Opened, BooksInvariant, CrawlsBook, CrawlBooks, Settling
<1>8. RewardSums(reward, pool_mints[reward.mint].epoch)'
  BY <1>1, <1>6, <1>7, RewardSumsStay
<1>9. ASSUME NEW k \in DOMAIN rewards'
      PROVE  RewardSums(rewards[k], pool_mints[rewards[k].mint].epoch)'
  <2>1. PICK one : one = rewards'[k]
    OBVIOUS
  <2>2. one = reward \/ \E j \in DOMAIN rewards : one = rewards[j]
    BY <1>3, <2>1, MintEpochs
  <2>3. RewardSums(one, pool_mints[one.mint].epoch)'
    BY <1>8, <2>2, OldRewardSums
  <2> QED
    BY <2>1, <2>3 DEF RewardSums
<1> QED
  BY <1>9 DEF RewardsSum

LEMMA OthersRewardNobody ==
    ASSUME MiningInvariant, NEW r \in CrawlRuns, CrawlStep(r), ~AwardTokensForShares(r)
    PROVE  rewards' = rewards
BY MintStepKeeps, TurnKeeps, RowStepKeeps DEF CrawlStep, OpenMint, FindContract,
   Reads, InsertZeroRow, MarkRewarded, CrawlKeeps

LEMMA RewardsSumGoesOn ==
    ASSUME MiningInvariant, MiningInvariant', BooksInvariant, InTurn, [Next]_vars, CrawlsSum,
           RewardsSum
    PROVE  RewardsSum'
<1>1. ASSUME rewards' = rewards PROVE RewardsSum'
  <2>1. ASSUME NEW k \in DOMAIN rewards'
        PROVE  RewardSums(rewards[k], pool_mints[rewards[k].mint].epoch)'
    <3>1. PICK one : one = rewards'[k]
      OBVIOUS
    <3>2. RewardSums(one, pool_mints[one.mint].epoch)'
      BY <1>1, <3>1, OldRewardSums
    <3> QED
      BY <3>1, <3>2 DEF RewardSums
  <2> QED
    BY <2>1 DEF RewardsSum
<1> QED
  BY <1>1, AwardSums, OthersRewardNobody, RewardShapes
  DEF Rest, RewardSide, rewardVars, mintVars

LEMMA SumsOfRewardsStart == Init => CrawlsSum /\ RewardsSum
<1> SUFFICES ASSUME Init PROVE CrawlsSum /\ RewardsSum
  OBVIOUS
<1>1. /\ IdleCrawl.pc = "idle" /\ IdleCrawl.total = NoShares
      /\ IdleCrawl.challenges = <<>> /\ IdleCrawl.read = 0 /\ IdleCrawl.mine = NoShares
  BY DEF IdleCrawl
<1>2. CrawlsSum
  BY <1>1, NoSums DEF Init, RewardInit, CrawlsSum
<1>3. RewardsSum
  BY DEF Init, RewardInit, RewardsSum
<1> QED
  BY <1>2, <1>3

(***************************************************************************)
(* Under the same conditions the parts of a block add up to no more than   *)
(* the block, however many crawls it took to give them out: all its miners *)
(* are paid by one total, that of the window as it was when the epoch was  *)
(* settled, and each for shares of its own that are in the total.          *)
(***************************************************************************)
THEOREM PartsAddUpToOne ==
    ASSUME Together = 1, ~LateShares
    PROVE  Spec /\ []InTurn => []WithinReward
<1> DEFINE Books == MiningInvariant /\ SumsInvariant /\ BooksInvariant
<1>1. Books /\ Books' /\ InTurn /\ [Next]_vars /\ CrawlsSum /\ RewardsSum
            => (CrawlsSum /\ RewardsSum)'
  BY CrawlsSumGoesOn, RewardsSumGoesOn
<1>2. MiningInvariant /\ BooksInvariant /\ RewardsSum => WithinReward
  <2> SUFFICES ASSUME MiningInvariant, BooksInvariant, RewardsSum PROVE WithinReward
    OBVIOUS
  <2>1. FactorWithinOne
    BY DEF FactorWithinOne, RewardsSum, RewardSums
  <2>2. \A k \in DOMAIN rewards, s \in Shares :
            rewards[k].shares[s] > 0 => MinerOf[s] = rewards[k].miner
    BY DEF RewardsSum, RewardSums, Own
  <2>3. ASSUME NEW j \in DOMAIN rewards, NEW k \in DOMAIN rewards,
               pool_mints[rewards[j].mint].epoch = pool_mints[rewards[k].mint].epoch
        PROVE  rewards[j].poolshares = rewards[k].poolshares
    <3>1. PICK e : e = pool_mints[rewards[j].mint].epoch
      OBVIOUS
    <3>2. e \in Epochs
      BY <3>1, MintEpochs DEF BooksInvariant, RewardsBook
    <3>3. WindowSum(e, e, rewards[j].poolshares) /\ WindowSum(e, e, rewards[k].poolshares)
      BY <2>3, <3>1 DEF RewardsSum, RewardSums
    <3> QED
      BY <3>2, <3>3, WindowHasOneSum
  <2> QED
    BY <2>1, <2>2, <2>3 DEF WithinReward
<1> QED
  BY <1>1, <1>2, BooksHold, SumsOfRewardsStart, PTL DEF Spec

----------------------------------------------------------------------------
(* Who is in the window of a block is found when its mint is shared out. *)

(***************************************************************************)
(* The epoch does not pass between the requests of a call, which nothing   *)
(* makes sure of: the shares of a challenge that was recorded under the    *)
(* epoch after it are in no window once the epoch has a record of its own. *)
(***************************************************************************)
Whole ==
    \A r \in CollectRuns :
        collect[r].at > Len(Parameters) =>
            collect[r].contract.epoch = collect[r].contract.challenge

\* A record is that of its challenge, and no total is without one.
RecordsWhole ==
    \A d \in Epochs :
        allminingContracts[d] # NoContract => allminingContracts[d].challenge = d

TotalsRecorded ==
    /\ \A c \in Epochs :
        totaldiff_challengenumber[c] # None => allminingContracts[c] # NoContract
    /\ \A r \in CollectRuns :
        collect[r].pc = "total" =>
            allminingContracts[collect[r].contract.challenge] # NoContract

\* A call that has come to the total has just written the record, or was there before.
LEMMA TotalComesNext ==
    ASSUME MiningInvariant, [Next]_vars, NEW r \in CollectRuns, collect'[r].pc = "total"
    PROVE  \/ collect'[r] = collect[r]
           \/ WriteAllMiningContracts(r) /\ collect'[r].contract = collect[r].contract
<1>0. /\ collect \in [CollectRuns -> CollectState] /\ IdleCollect.pc = "read"
      /\ \A q \in CollectRuns : collect[q] \in CollectState
  BY DataTypes, ContractTypes DEF CollectorInvariant, CollectTypeOK
<1>1. ASSUME NEW q \in CollectRuns, CollectStep(q), collect'[r] # collect[r]
      PROVE  WriteAllMiningContracts(r) /\ collect'[r].contract = collect[r].contract
  <2>1. q = r
    BY <1>1, CollectReadsOn
  <2>2. CASE WriteAllMiningContracts(r)
    BY <1>0, <2>2 DEF WriteAllMiningContracts, CollectState
  <2>3. CASE ReadParameter(r)
    <3>1. collect'[r].pc = "read"
      BY <1>0, <2>3 DEF ReadParameter, CollectState
    <3> QED
      BY <3>1
  <2>4. CASE CompareChallenge(r)
    <3> DEFINE going == [collect[r] EXCEPT !.pc = "data",
                                           !.existing = miningContractData.challenge]
    <3>1. going.pc = "data"
      BY <1>0 DEF CollectState
    <3>2. collect'[r] \in {IdleCollect, going}
      BY <1>0, <2>4 DEF CompareChallenge, Compare
    <3> HIDE DEF going
    <3> QED
      BY <1>0, <3>1, <3>2
  <2>5. CASE WriteMiningContractData(r) \/ EnsureTotal(r) \/ PurgeQueuedShares(r)
    <3>1. collect'[r].pc \in {"record", "purge", "read"}
      BY <1>0, <2>5 DEF WriteMiningContractData, EnsureTotal, PurgeQueuedShares, CollectState
    <3> QED
      BY <3>1
  <2> QED
    BY <1>1, <2>1, <2>2, <2>3, <2>4, <2>5 DEF CollectStep
<1>2. CASE \E q \in CollectRuns : CollectSide(CollectStep(q))
  BY <1>1, <1>2 DEF CollectSide
<1>3. CASE Fault
  <2>1. \/ collect' = collect
        \/ \E q \in CollectRuns : collect' = [collect EXCEPT ![q] = IdleCollect]
        \/ collect' = [q \in CollectRuns |-> IdleCollect]
    BY <1>3 DEF Fault, FailCollect, FailShare, CrashProcess, SetProcess, CollectorCrash,
       collectVars
  <2> QED
    BY <1>0, <2>1
<1>4. CASE ~(\E q \in CollectRuns : CollectSide(CollectStep(q))) /\ ~Fault
  <2>1. collect' = collect
    BY <1>4 DEF Next, vars, MineBlock, ShareSide, ProcessStep, Start, StartWithoutRedis,
       Reclaim, LoopStep, ClaimStaleShares, Claim, ReadPendingShares, ReadShares,
       TakeFromList, HandleStep, CheckShare, Accept, FindDigest, InPace, TooFast, ReadTotal,
       WriteTotal, InsertPendingShare, FindRow, CreditMiner, WriteRow, QueueSolution,
       AckShare, Ack, Goto, SetProcess, WorkerStep, AddShare, AddShareToList,
       CleanPendingShares, RewardSide, collectVars
  <2> QED
    BY <2>1
<1> QED
  BY <1>2, <1>3, <1>4

LEMMA RecordsGoOn ==
    ASSUME MiningInvariant, MiningInvariant', SumsInvariant, Whole, RecordsWhole,
           TotalsRecorded, [Next]_vars
    PROVE  RecordsWhole' /\ TotalsRecorded'
<1>0. /\ allminingContracts \in [Epochs -> Contract]
      /\ totaldiff_challengenumber \in [Epochs -> Tally \cup {None}]
      /\ \A r \in CollectRuns : CollectOK(collect[r])
  BY DataTypes DEF CollectorInvariant, CollectsOK
<1>1. ASSUME NEW r \in CollectRuns, collect[r].pc # "read"
      PROVE  /\ collect[r].contract \in Ordered
             /\ collect[r].contract.challenge \in Epochs
             /\ collect[r].contract.epoch = collect[r].contract.challenge
             /\ collect[r].contract # NoContract
  <2>1. collect[r].at > 3 /\ collect[r].at > Len(Parameters)
    BY <1>0, <1>1, ParametersAre DEF CollectOK
  <2> QED
    BY <2>1, DataTypes, ReadWhole, ContractTypes DEF Whole
<1>2. ASSUME NEW d \in Epochs
      PROVE  \/ allminingContracts'[d] = allminingContracts[d]
             \/ allminingContracts'[d] # NoContract /\ allminingContracts'[d].challenge = d
  BY <1>0, <1>1, DataIsWritten DEF WriteMiningContractData, WriteAllMiningContracts
<1>3. RecordsWhole'
  BY <1>2 DEF RecordsWhole
<1>4. ASSUME NEW r \in CollectRuns, collect'[r].pc = "total"
      PROVE  allminingContracts'[collect'[r].contract.challenge] # NoContract
  <2>1. CASE collect'[r] = collect[r]
    <3>1. /\ collect[r].contract.challenge \in Epochs
          /\ allminingContracts[collect[r].contract.challenge] # NoContract
      BY <1>1, <1>4, <2>1 DEF TotalsRecorded
    <3> QED
      BY <1>2, <2>1, <3>1
  <2>2. CASE WriteAllMiningContracts(r) /\ collect'[r].contract = collect[r].contract
    <3>1. collect[r].pc # "read"
      BY <2>2 DEF WriteAllMiningContracts
    <3> QED
      BY <1>0, <1>1, <2>2, <3>1 DEF WriteAllMiningContracts
  <2> QED
    BY <1>4, <2>1, <2>2, TotalComesNext
<1>5. ASSUME NEW c \in Epochs, totaldiff_challengenumber'[c] # None
      PROVE  allminingContracts[c] # NoContract
  <2>1. CASE totaldiff_challengenumber'[c] = totaldiff_challengenumber[c]
    BY <1>5, <2>1 DEF TotalsRecorded
  <2>2. ASSUME NEW r \in CollectRuns, EnsureTotal(r),
               totaldiff_challengenumber'[c] # totaldiff_challengenumber[c]
        PROVE  allminingContracts[c] # NoContract
    <3>1. collect[r].pc = "total" /\ c = collect[r].contract.challenge
      BY <1>0, <2>2 DEF EnsureTotal
    <3> QED
      BY <3>1 DEF TotalsRecorded
  <2>3. ASSUME NEW p \in Processors, WriteTotal(p),
               totaldiff_challengenumber'[c] # totaldiff_challengenumber[c]
        PROVE  allminingContracts[c] # NoContract
    <3>1. proc[p].pc = "write" /\ c = proc[p].challenge
      BY <1>0, <2>3 DEF WriteTotal
    <3>2. totaldiff_challengenumber[c] = proc[p].total /\ proc[p].total \in Tally
      BY <3>1, AtHand DEF SumsInvariant, ProcessesSum, ProcessSums, MiningInvariant
    <3> QED
      BY <3>2, TallyTypes DEF TotalsRecorded
  <2> QED
    BY <2>1, <2>2, <2>3, TotalsAreWritten
<1>6. TotalsRecorded'
  BY <1>2, <1>4, <1>5 DEF TotalsRecorded
<1> QED
  BY <1>3, <1>6

(* The rows of a settled epoch keep their shares, and no row is added that has one. *)
LEMMA SettledRowsStay ==
    ASSUME MiningInvariant, SumsInvariant, [Next]_vars, NEW e \in Epochs, Settled(e)
    PROVE  /\ \A i \in Rows : miner_challengediff[i].challenge \in 1..e =>
                miner_challengediff'[i].totaldiff = miner_challengediff[i].totaldiff
           /\ \A i \in Rows' \ Rows : miner_challengediff'[i].challenge \in 1..e =>
                miner_challengediff'[i].totaldiff = NoShares
<1>1. CASE miner_challengediff' = miner_challengediff
  BY <1>1 DEF Rows
<1>2. CASE Quiet
  BY <1>2 DEF Quiet, TalliesKeep
<1>3. CASE Forgets
  BY <1>1, <1>3 DEF Forgets, CleanPendingShares, miningVars
<1>4. ASSUME NEW p \in Processors, CreditMiner(p)
      PROVE  /\ \A i \in Rows : miner_challengediff[i].challenge \in 1..e =>
                    miner_challengediff'[i].totaldiff = miner_challengediff[i].totaldiff
             /\ \A i \in Rows' \ Rows : miner_challengediff'[i].challenge \notin 1..e
  <2>1. ProcessSums(proc[p])
    BY DEF SumsInvariant, ProcessesSum
  <2>2. PICK k \in Nat, s \in Shares, c \in Epochs, mine \in Tally :
            c = proc[p].challenge /\ Credited(k, s, c, mine)
    BY <1>4, <2>1, CreditWrites
  <2>3. c \notin 1..e
    BY <2>2 DEF Settled
  <2> QED
    BY <2>2, <2>3 DEF Credited
<1>5. ASSUME NEW p \in Processors, CountStep(p)
      PROVE  CreditMiner(p) \/ miner_challengediff' = miner_challengediff
  BY <1>5, CountMoves DEF CountMove
<1> QED
  BY <1>1, <1>2, <1>3, <1>4, <1>5, StepShapes

\* A miner with a share in the window of an epoch, and a challenge it was found for.
LEMMA InWindowHasRow ==
    ASSUME MiningInvariant, NEW e \in Epochs, NEW m, InWindow(m, e)
    PROVE  \E i \in Rows, d \in 1..e :
            /\ miner_challengediff[i].miner = m /\ miner_challengediff[i].challenge = d
            /\ miner_challengediff[i].totaldiff # NoShares
            /\ d > e - PPLNSDEPTH /\ d \in Epochs
<1>1. PICK i \in Rows : /\ miner_challengediff[i].miner = m
                        /\ miner_challengediff[i].challenge \in (e - PPLNSDEPTH + 1)..e
                        /\ miner_challengediff[i].totaldiff # NoShares
  BY DEF InWindow
<1>2. PICK d \in Epochs : d = miner_challengediff[i].challenge
  BY SumTypes
<1>3. d \in 1..e /\ d > e - PPLNSDEPTH
  BY <1>1, <1>2, EpochAssumption, RewardAssumption DEF Epochs
<1> QED
  BY <1>1, <1>2, <1>3

\* Once an epoch is settled, nobody comes into its window.
LEMMA WindowStays ==
    ASSUME MiningInvariant, MiningInvariant', SumsInvariant, BooksInvariant, [Next]_vars,
           NEW e \in Epochs, Settled(e), NEW m, InWindow(m, e)'
    PROVE  InWindow(m, e)
<1>1. PICK i \in Rows' :
            /\ miner_challengediff'[i].miner = m
            /\ miner_challengediff'[i].challenge \in (e - PPLNSDEPTH + 1)..e
            /\ miner_challengediff'[i].totaldiff # NoShares
  BY DEF InWindow
<1>2. miner_challengediff'[i].challenge \in 1..e
  <2>1. MiningTypeOK'
    BY DEF MiningInvariant, ShareInvariant, CollectorInvariant
  <2>2. miner_challengediff'[i] \in ChallengeDiff
    BY <2>1 DEF MiningTypeOK, Rows
  <2>3. miner_challengediff'[i].challenge \in Epochs
    BY <2>2 DEF ChallengeDiff
  <2> QED
    BY <1>1, <2>3, EpochAssumption, RewardAssumption DEF Epochs
<1>3. i \in Rows
  BY <1>1, <1>2, SettledRowsStay
<1>4. /\ miner_challengediff[i].miner = m
      /\ miner_challengediff[i].challenge = miner_challengediff'[i].challenge
  BY <1>1, <1>3, AllKeep DEF PlacesKeep
<1>5. miner_challengediff[i].totaldiff = miner_challengediff'[i].totaldiff
  BY <1>2, <1>3, <1>4, SettledRowsStay
<1> QED
  BY <1>1, <1>3, <1>4, <1>5 DEF InWindow

(* The rewards are added to. *)
RewardsKeep ==
    /\ DOMAIN rewards \subseteq DOMAIN rewards'
    /\ \A k \in DOMAIN rewards : rewards'[k] = rewards[k]

LEMMA RewardsAreKept ==
    ASSUME MiningInvariant, MiningInvariant', [Next]_vars
    PROVE  RewardsKeep
<1>1. CASE rewards' = rewards
  BY <1>1 DEF RewardsKeep
<1>2. ASSUME NEW r \in CrawlRuns, AwardTokensForShares(r) PROVE RewardsKeep
  <2>1. PICK reward : rewards' = rewards \/ rewards' = Append(rewards, reward)
    BY <1>2 DEF AwardTokensForShares
  <2>2. rewards \in Seq(Reward)
    BY MintEpochs
  <2>3. CASE rewards' = Append(rewards, reward)
    <3>1. /\ DOMAIN rewards = 1..Len(rewards)
          /\ Len(rewards) \in Nat
          /\ DOMAIN rewards' = 1..Len(rewards) + 1
          /\ \A k \in 1..Len(rewards) : rewards'[k] = rewards[k]
      BY <2>2, <2>3, AppendProperties
    <3> QED
      BY <3>1 DEF RewardsKeep
  <2> QED
    BY <1>1, <2>1, <2>3
<1> QED
  BY <1>1, <1>2, OthersRewardNobody, RewardShapes
  DEF Rest, RewardSide, rewardVars, mintVars

(* Every step is one of a crawl, a fault, or leaves the crawls, the rewards, and what *)
(* rows and mints there are alone.                                                    *)
Elsewhere ==
    /\ crawl' = crawl /\ rewards' = rewards
    /\ RowsGrow
    /\ \A i \in Mints' : \/ i \in Mints /\ pool_mints'[i] = pool_mints[i]
                         \/ pool_mints'[i].poolstatus = 1

LEMMA ServeShapes ==
    ASSUME MiningInvariant, [Next]_vars, faults' = 0
    PROVE  \/ Elsewhere
           \/ \E r \in CrawlRuns : RewardSide(CrawlStep(r))
<1>0. MiningTypeOK /\ ShareInvariant /\ faults \in Nat /\ pool_mints \in Seq(PoolMint)
  BY DataTypes, MintEpochs DEF MiningInvariant
<1>1. ASSUME UNCHANGED rewardVars, RowsGrow PROVE Elsewhere
  BY <1>1 DEF Elsewhere, Mints, rewardVars, mintVars, crawlVars
<1>2. ASSUME UNCHANGED rewardVars, miner_challengediff' = miner_challengediff PROVE Elsewhere
  BY <1>0, <1>1, <1>2, RowsStay
<1>3. CASE MineBlock \/ UNCHANGED vars
  BY <1>2, <1>3 DEF MineBlock, NewEpoch, vars, miningVars
<1>4. CASE \E r \in CollectRuns : CollectSide(CollectStep(r))
  BY <1>2, <1>4 DEF CollectSide, CollectStep, ReadParameter, CompareChallenge, Compare,
     WriteMiningContractData, WriteAllMiningContracts, EnsureTotal, PurgeQueuedShares,
     miningVars
<1>5. CASE \E p \in Processors : ShareSide(ProcessStep(p))
  BY <1>0, <1>1, <1>5, ProcessRows DEF ShareSide
<1>6. CASE ShareSide(WorkerStep) \/ ShareSide(CleanPendingShares)
  BY <1>2, <1>6 DEF ShareSide, WorkerStep, AddShare, AddShareToList, CleanPendingShares,
     miningVars
<1>7. ASSUME NEW r \in InsertRuns, RewardSide(ScanStep(r)) PROVE Elsewhere
  <2>1. /\ UNCHANGED <<rewards, crawl, miner_challengediff>>
    BY <1>7 DEF RewardSide, ScanStep, LookForMint, InsertMint, SetInsert, crawlVars, miningVars
  <2>2. \A i \in Mints' : \/ i \in Mints /\ pool_mints'[i] = pool_mints[i]
                          \/ pool_mints'[i].poolstatus = 1
    <3>1. CASE pool_mints' = pool_mints
      BY <3>1 DEF Mints
    <3>2. CASE InsertMint(r)
      <4> DEFINE mint == [epoch |-> inserting[r], poolstatus |-> 1]
      <4>1. mint \in PoolMint
        BY <3>2, EpochAssumption DEF InsertMint, MiningInvariant, RewardInvariant,
           RewardTypeOK, PoolMint, Epochs
      <4>2. pool_mints' = Append(pool_mints, mint) /\ mint.poolstatus = 1
        BY <3>2 DEF InsertMint
      <4> HIDE DEF mint
      <4> QED
        BY <1>0, <4>1, <4>2, SeqAppend DEF Mints
    <3> QED
      BY <1>7, <3>1, <3>2 DEF RewardSide, ScanStep, LookForMint
  <2> QED
    BY <1>0, <2>1, <2>2, RowsStay DEF Elsewhere
<1>8. CASE Fault
  BY <1>0, <1>8 DEF Fault
<1> QED
  BY <1>3, <1>4, <1>5, <1>6, <1>7, <1>8 DEF Next

----------------------------------------------------------------------------
(* What a crawl, a row and a mint have done for those in the window. *)

\* No failure yet, and no row the pool was too poor for.
Clean == faults = 0 /\ \A i \in Rows : miner_challengediff[i].status # 5

Served(m, c) == \E k \in DOMAIN rewards : rewards[k].miner = m /\ rewards[k].challenge = c

InList(d, challenges) == \E k \in 1..Len(challenges) : challenges[k] = d

HasTotal(e, d) == d > e - PPLNSDEPTH /\ totaldiff_challengenumber[d] # None

(***************************************************************************)
(* What a crawl that shares out the block of epoch e still has to do: each *)
(* challenge of the window with a total is in one of its lists, each miner *)
(* in the window is in its list or has a row for the block, and then has   *)
(* been rewarded or has one of the rows that are left.  A sum that has     *)
(* come past a row with a share is not empty.                              *)
(***************************************************************************)
CrawlServes(state, e) ==
    /\ state.pc = "totals" =>
        \A d \in 1..e : HasTotal(e, d) =>
            allminingContracts[d] \in state.records \/ InList(d, state.challenges)
    /\ state.pc \in AtSums => \A d \in 1..e : HasTotal(e, d) => InList(d, state.challenges)
    /\ state.pc \in {"fill", "zero"} =>
        \A m \in Miners : InWindow(m, e) =>
            \/ m \in state.miners
            \/ state.pc = "zero" /\ m = state.miner
            \/ RowsOf(m, e) # {}
    /\ state.pc \in AtRows =>
        \A m \in Miners : InWindow(m, e) =>
            Served(m, e) \/ \E i \in state.rows : miner_challengediff[i].miner = m
    /\ state.pc = "sum" =>
        \A k \in 1..state.read :
            \A j \in RowsOf(miner_challengediff[state.row].miner, state.challenges[k]) :
                miner_challengediff[j].totaldiff # NoShares => state.mine # NoShares
    /\ state.pc = "award" => state.mine # NoShares

CrawlsServe == \A r \in CrawlRuns : CrawlServes(crawl[r], pool_mints[crawl[r].mint].epoch)

\* A row that is closed has been rewarded, or is about to be, or its miner is in no window.
RowServes(i, m, c) ==
    /\ miner_challengediff[i].status = 2 =>
        Served(m, c) \/ \E r \in CrawlRuns : crawl[r].pc = "award" /\ crawl[r].row = i
    /\ miner_challengediff[i].status = 3 => Settled(c) /\ ~InWindow(m, c)

RowsServe ==
    \A i \in Rows : RowServes(i, miner_challengediff[i].miner, miner_challengediff[i].challenge)

\* A mint that was shared out has served everybody.
AllServed(e) == Settled(e) /\ \A m \in Miners : InWindow(m, e) => Served(m, e)

MintsServe == \A i \in Mints : pool_mints[i].poolstatus = 2 => AllServed(pool_mints[i].epoch)

ServeInvariant == Clean => CrawlsServe /\ RowsServe /\ MintsServe

\* What was proved of the sums and the records.
ServeBasis ==
    /\ MiningInvariant /\ SumsInvariant /\ BooksInvariant /\ CrawlsSum
    /\ RecordsWhole /\ TotalsRecorded

LEMMA ServedStays ==
    ASSUME RewardsKeep, NEW m, NEW c, Served(m, c)
    PROVE  Served(m, c)'
BY DEF RewardsKeep, Served

LEMMA NothingToServe ==
    ASSUME NEW e, NEW new, new.pc \in {"idle", "mint", "window"}
    PROVE  CrawlServes(new, e)
BY DEF CrawlServes, AtSums, AtRows

(* What a crawl has done stays done, whatever the others do, once the epoch is settled. *)
LEMMA StateServesStay ==
    ASSUME ServeBasis, MiningInvariant', InTurn, [Next]_vars,
           NEW state, NEW e \in Epochs, Settled(e), CrawlServes(state, e),
           state.rows \subseteq Rows,
           state.pc = "sum" =>
                state.row \in Rows /\ \A k \in 1..state.read : state.challenges[k] \in 1..e
    PROVE  CrawlServes(state, e)'
<1>0. /\ MiningInvariant /\ SumsInvariant /\ BooksInvariant /\ Forward
      /\ MintsKeep /\ PlacesKeep /\ RewardsKeep
  BY AllKeep, RewardsAreKept DEF ServeBasis, BooksInvariant
<1>1. \A d \in 1..e : /\ allminingContracts'[d] = allminingContracts[d]
                      /\ HasTotal(e, d)' <=> HasTotal(e, d)
  BY <1>0, SettledStays DEF HasTotal
<1>2. \A m : InWindow(m, e)' => InWindow(m, e)
  BY <1>0, WindowStays
<1>3. ASSUME NEW m, RowsOf(m, e) # {} PROVE RowsOf(m, e)' # {}
  BY <1>0, <1>3 DEF PlacesKeep, RowsOf
<1>4. \A m : Served(m, e) => Served(m, e)'
  BY <1>0, ServedStays
<1>5. \A i \in state.rows : miner_challengediff'[i].miner = miner_challengediff[i].miner
  BY <1>0 DEF PlacesKeep
<1>6. ASSUME state.pc = "sum", NEW k \in 1..state.read,
             NEW j \in RowsOf(miner_challengediff[state.row].miner, state.challenges[k])',
             miner_challengediff'[j].totaldiff # NoShares
      PROVE  state.mine # NoShares
  <2>1. PICK m, c : /\ m = miner_challengediff[state.row].miner /\ c = state.challenges[k]
                    /\ c \in 1..e /\ m = miner_challengediff'[state.row].miner
    BY <1>0, <1>6 DEF PlacesKeep
  <2>2. j \in Rows' /\ miner_challengediff'[j].miner = m /\ miner_challengediff'[j].challenge = c
    BY <1>6, <2>1 DEF RowsOf
  <2>3. j \in Rows
    BY <1>0, <1>6, <2>1, <2>2, SettledRowsStay
  <2>4. miner_challengediff[j].miner = m /\ miner_challengediff[j].challenge = c
    BY <1>0, <2>2, <2>3 DEF PlacesKeep
  <2>5. miner_challengediff[j].totaldiff # NoShares
    BY <1>0, <1>6, <2>1, <2>3, <2>4, SettledRowsStay
  <2>6. j \in RowsOf(m, c)
    BY <2>3, <2>4 DEF RowsOf
  <2> QED
    BY <1>6, <2>1, <2>5, <2>6 DEF CrawlServes
<1>7. state.pc = "totals" =>
        \A d \in 1..e : HasTotal(e, d)' =>
            allminingContracts'[d] \in state.records \/ InList(d, state.challenges)
  BY <1>1 DEF CrawlServes
<1>8. state.pc \in AtSums => \A d \in 1..e : HasTotal(e, d)' => InList(d, state.challenges)
  BY <1>1 DEF CrawlServes
<1>9. state.pc \in {"fill", "zero"} =>
        \A m \in Miners : InWindow(m, e)' =>
            \/ m \in state.miners
            \/ state.pc = "zero" /\ m = state.miner
            \/ RowsOf(m, e)' # {}
  BY <1>2, <1>3 DEF CrawlServes
<1>10. state.pc \in AtRows =>
        \A m \in Miners : InWindow(m, e)' =>
            Served(m, e)' \/ \E i \in state.rows : miner_challengediff'[i].miner = m
  BY <1>2, <1>4, <1>5 DEF CrawlServes
<1>11. state.pc = "award" => state.mine # NoShares
  BY DEF CrawlServes
<1> QED
  BY <1>6, <1>7, <1>8, <1>9, <1>10, <1>11 DEF CrawlServes

(* The rows and the mints are right as long as a row that is closed and a mint that is *)
(* shared out have served those they should.                                           *)
LEMMA RowsServeStay ==
    ASSUME ServeBasis, MiningInvariant', InTurn, [Next]_vars, RowsServe,
           \A i \in Rows' :
                LET m == miner_challengediff'[i].miner
                    c == miner_challengediff'[i].challenge
                IN  \/ i \in Rows /\ miner_challengediff'[i].status = miner_challengediff[i].status
                    \/ miner_challengediff'[i].status \in {1, 5}
                    \/ /\ miner_challengediff'[i].status = 2
                       /\ \E r \in CrawlRuns : crawl'[r].pc = "award" /\ crawl'[r].row = i
                    \/ /\ miner_challengediff'[i].status = 3
                       /\ Settled(c) /\ ~InWindow(m, c),
           \A r \in CrawlRuns, i \in Rows : crawl[r].pc = "award" /\ crawl[r].row = i =>
                \/ crawl'[r] = crawl[r]
                \/ Served(miner_challengediff[i].miner, miner_challengediff[i].challenge)'
    PROVE  RowsServe'
<1>0. /\ MiningInvariant /\ SumsInvariant /\ BooksInvariant /\ Forward
      /\ MintsKeep /\ PlacesKeep /\ RewardsKeep
  BY AllKeep, RewardsAreKept DEF ServeBasis, BooksInvariant
<1>1. ASSUME NEW i \in Rows', NEW m, NEW c, m = miner_challengediff'[i].miner,
             c = miner_challengediff'[i].challenge
      PROVE  RowServes(i, m, c)'
  <2>0. c \in Epochs
    <3>1. MiningTypeOK'
      BY DEF MiningInvariant, ShareInvariant, CollectorInvariant
    <3>2. miner_challengediff'[i] \in ChallengeDiff
      BY <3>1 DEF MiningTypeOK, Rows
    <3> QED
      BY <1>1, <3>2 DEF ChallengeDiff
  <2>1. ASSUME Settled(c), ~InWindow(m, c) PROVE Settled(c)' /\ ~InWindow(m, c)'
    BY <1>0, <2>0, <2>1, WindowStays, SettledStays
  <2>2. ASSUME i \in Rows, miner_challengediff'[i].status = miner_challengediff[i].status
        PROVE  RowServes(i, m, c)'
    <3>1. m = miner_challengediff[i].miner /\ c = miner_challengediff[i].challenge
      BY <1>0, <1>1, <2>2 DEF PlacesKeep
    <3>2. RowServes(i, m, c)
      BY <2>2, <3>1 DEF RowsServe
    <3>3. ASSUME NEW r \in CrawlRuns, crawl[r].pc = "award", crawl[r].row = i
          PROVE  crawl'[r] = crawl[r] \/ Served(m, c)'
      BY <1>1, <2>2, <3>1, <3>3 DEF Served
    <3>4. Served(m, c) => Served(m, c)'
      BY <1>0, ServedStays
    <3> QED
      BY <2>1, <2>2, <3>2, <3>3, <3>4 DEF RowServes
  <2>3. ASSUME miner_challengediff'[i].status \in {1, 5} PROVE RowServes(i, m, c)'
    BY <2>3 DEF RowServes
  <2>4. ASSUME miner_challengediff'[i].status = 2,
               \E r \in CrawlRuns : crawl'[r].pc = "award" /\ crawl'[r].row = i
        PROVE  RowServes(i, m, c)'
    BY <2>4 DEF RowServes
  <2>5. ASSUME miner_challengediff'[i].status = 3, Settled(c), ~InWindow(m, c)
        PROVE  RowServes(i, m, c)'
    BY <2>1, <2>5 DEF RowServes
  <2> QED
    BY <1>1, <2>2, <2>3, <2>4, <2>5
<1>2. ASSUME NEW i \in Rows'
      PROVE  RowServes(i, miner_challengediff[i].miner, miner_challengediff[i].challenge)'
  BY <1>1 DEF RowServes, Served, InWindow, Settled
<1> QED
  BY <1>2 DEF RowsServe

LEMMA MintsServeStay ==
    ASSUME ServeBasis, MiningInvariant', InTurn, [Next]_vars, MintsServe,
           \A i \in Mints' :
                \/ i \in Mints /\ pool_mints'[i] = pool_mints[i]
                \/ pool_mints'[i].poolstatus # 2
                \/ i \in Mints /\ AllServed(pool_mints[i].epoch)
    PROVE  MintsServe'
<1>0. /\ MiningInvariant /\ SumsInvariant /\ BooksInvariant /\ Forward
      /\ MintsKeep /\ PlacesKeep /\ RewardsKeep
  BY AllKeep, RewardsAreKept DEF ServeBasis, BooksInvariant
<1>1. ASSUME NEW i \in Mints', pool_mints'[i].poolstatus = 2
      PROVE  AllServed(pool_mints[i].epoch)'
  <2>1. i \in Mints /\ AllServed(pool_mints[i].epoch)
    BY <1>1 DEF MintsServe
  <2>2. PICK e \in Epochs : e = pool_mints[i].epoch /\ e = pool_mints'[i].epoch
    BY <1>0, <2>1, MintEpochs DEF MintsKeep
  <2>3. AllServed(e)
    BY <2>1, <2>2
  <2>4. Settled(e)' /\ \A m \in Miners : InWindow(m, e)' => Served(m, e)'
    BY <1>0, <2>3, SettledStays, WindowStays, ServedStays DEF AllServed
  <2>5. AllServed(e)'
    BY <2>4 DEF AllServed
  <2> QED
    BY <2>2, <2>5 DEF AllServed
<1> QED
  BY <1>1 DEF MintsServe

\* The crawl at hand, with the settled epoch of its mint: the challenge is that of the epoch.
LEMMA ServesAtHand ==
    ASSUME ServeBasis, CrawlsServe, NEW r \in CrawlRuns, crawl[r].pc \in Opened
    PROVE  \E old, e :
            /\ old = crawl[r] /\ old \in CrawlState /\ CrawlOK(old) /\ RowsOpen(old)
            /\ CrawlBooks(old) /\ old.mint \in Mints
            /\ e = pool_mints[old.mint].epoch /\ e \in Epochs /\ e \in 1..e /\ Settled(e)
            /\ old.challenge = e
            /\ SumsFor(old, e) /\ CrawlServes(old, e)
<1>1. PICK old, e : /\ old = crawl[r] /\ old \in CrawlState /\ CrawlOK(old)
                    /\ e = pool_mints[old.mint].epoch /\ e \in Epochs /\ SumsFor(old, e)
  BY SumsAtHand DEF ServeBasis
<1>2. RowsOpen(old) /\ CrawlBooks(old) /\ CrawlServes(old, e) /\ old.mint \in Mints
  BY <1>1, CrawlAtHand
  DEF ServeBasis, MiningInvariant, BooksInvariant, CrawlsBook, CrawlsServe, CrawlOK
<1>3. Settled(e) /\ old.challenge = e
  BY <1>1, <1>2 DEF CrawlBooks, Settling, ServeBasis, RecordsWhole
<1>4. e \in 1..e
  BY <1>1, EpochAssumption DEF Epochs
<1> QED
  BY <1>1, <1>2, <1>3, <1>4

\* A call that goes on does not run beside another: those have nothing to do.
LEMMA PutServes ==
    ASSUME MiningInvariant, NEW r \in CrawlRuns, NEW new,
           crawl[r].pc # "idle" \/ ~rewardCrawlRunning,
           crawl' = [crawl EXCEPT ![r] = new],
           CrawlServes(new, pool_mints[new.mint].epoch)'
    PROVE  /\ CrawlsServe' /\ crawl'[r] = new
           /\ \A q \in CrawlRuns : q # r => crawl'[q] = crawl[q] /\ crawl[q].pc = "idle"
<1>1. /\ crawl \in [CrawlRuns -> CrawlState]
      /\ \A q \in CrawlRuns : q # r => crawl[q].pc = "idle"
  BY DEF MiningInvariant, RewardInvariant, RewardTypeOK, OneCrawl
<1>2. crawl'[r] = new /\ \A q \in CrawlRuns : q # r => crawl'[q] = crawl[q]
  BY <1>1
<1>3. ASSUME NEW q \in CrawlRuns
      PROVE  CrawlServes(crawl[q], pool_mints[crawl[q].mint].epoch)'
  <2>1. CASE q = r
    BY <1>2, <2>1 DEF CrawlServes
  <2>2. CASE q # r
    <3>1. crawl'[q].pc = "idle"
      BY <1>1, <1>2, <2>2
    <3> QED
      BY <3>1 DEF CrawlServes, AtSums, AtRows
  <2> QED
    BY <2>1, <2>2
<1> QED
  BY <1>1, <1>2, <1>3 DEF CrawlsServe

\* What the crawl has to do before the step is done, as far as this step is concerned.
GoesOn(r, new) ==
    /\ crawl[r].pc # "idle" \/ ~rewardCrawlRunning
    /\ crawl' = [crawl EXCEPT ![r] = new]
    /\ new.pc \notin {"idle", "mint", "window"} =>
        /\ crawl[r].pc \in Opened /\ new.mint = crawl[r].mint
        /\ CrawlServes(new, pool_mints[new.mint].epoch)
        /\ new.rows \subseteq Rows
        /\ new.pc = "sum" =>
            /\ new.row \in Rows
            /\ \A k \in 1..new.read : new.challenges[k] \in 1..pool_mints[new.mint].epoch

LEMMA GoesOnServes ==
    ASSUME ServeBasis, MiningInvariant', InTurn, [Next]_vars, CrawlsServe,
           NEW r \in CrawlRuns, NEW new, GoesOn(r, new)
    PROVE  /\ CrawlsServe' /\ crawl'[r] = new
           /\ \A q \in CrawlRuns : q # r => crawl'[q] = crawl[q] /\ crawl[q].pc = "idle"
<1>1. CASE new.pc \in {"idle", "mint", "window"}
  <2>1. CrawlServes(new, pool_mints[new.mint].epoch)'
    BY <1>1 DEF CrawlServes, AtSums, AtRows
  <2> QED
    BY <2>1, PutServes DEF GoesOn, ServeBasis
<1>2. CASE new.pc \notin {"idle", "mint", "window"}
  <2>1. PICK old, e : /\ old = crawl[r] /\ old.mint \in Mints
                      /\ e = pool_mints[old.mint].epoch /\ e \in Epochs /\ Settled(e)
    BY <1>2, ServesAtHand DEF GoesOn
  <2>2. /\ pool_mints[new.mint].epoch = e /\ CrawlServes(new, e) /\ new.rows \subseteq Rows
        /\ new.pc = "sum" =>
            new.row \in Rows /\ \A k \in 1..new.read : new.challenges[k] \in 1..e
    BY <1>2, <2>1 DEF GoesOn
  <2>3. CrawlServes(new, e)'
    BY <2>1, <2>2, StateServesStay
  <2>4. pool_mints'[new.mint].epoch = e
    BY <1>2, <2>1, AllKeep DEF GoesOn, MintsKeep, ServeBasis
  <2>5. CrawlServes(new, pool_mints[new.mint].epoch)'
    BY <2>3, <2>4 DEF CrawlServes
  <2> QED
    BY <2>5, PutServes DEF GoesOn, ServeBasis
<1> QED
  BY <1>1, <1>2

----------------------------------------------------------------------------
(* The steps of a crawl, and whom they serve. *)

LEMMA TallyPositive ==
    ASSUME NEW t \in Tally
    PROVE  t # NoShares <=> \E s \in Shares : t[s] > 0
<1>1. ASSUME \A s \in Shares : ~(t[s] > 0) PROVE t = NoShares
  BY <1>1 DEF Tally, NoShares
<1> QED
  BY <1>1 DEF NoShares

\* Who is in the window has a share of a challenge in it that has a total.
LEMMA InWindowHasTotal ==
    ASSUME MiningInvariant, SumsInvariant, NEW e \in Epochs, NEW m, InWindow(m, e)
    PROVE  \E i \in Rows, d \in 1..e :
            /\ miner_challengediff[i].miner = m /\ miner_challengediff[i].challenge = d
            /\ miner_challengediff[i].totaldiff # NoShares
            /\ HasTotal(e, d)
<1>1. PICK i \in Rows, d \in 1..e :
            /\ miner_challengediff[i].miner = m /\ miner_challengediff[i].challenge = d
            /\ miner_challengediff[i].totaldiff # NoShares
            /\ d > e - PPLNSDEPTH /\ d \in Epochs
  BY InWindowHasRow
<1>2. PICK t \in Tally : t = miner_challengediff[i].totaldiff
  BY SumTypes
<1>3. PICK s \in Shares : t[s] > 0
  BY <1>1, <1>2, TallyPositive
<1>4. totaldiff_challengenumber[d] # None
  BY <1>1, <1>2, <1>3 DEF SumsInvariant, RowsCovered, Covered
<1> QED
  BY <1>1, <1>4 DEF HasTotal

\* A call begins, opens a mint or is done with one.
LEMMA TurnServes ==
    ASSUME MiningInvariant, NEW r \in CrawlRuns,
           \/ StartCrawl(r) \/ FinishCrawl(r) \/ FinishMint(r)
           \/ \E i \in Mints : NoContractFound(r, i) \/ FindContract(r, i)
    PROVE  \E new : GoesOn(r, new)
<1>1. crawl[r].pc # "idle" \/ ~rewardCrawlRunning
  BY DEF StartCrawl, FinishCrawl, FinishMint, NoContractFound, FindContract, Reads
<1>2. CASE StartCrawl(r) \/ FinishMint(r) \/ \E i \in Mints : NoContractFound(r, i)
  <2>1. PICK mints : crawl' = [crawl EXCEPT ![r] =
                                [IdleCrawl EXCEPT !.pc = "mint", !.mints = mints]]
    BY <1>2 DEF StartCrawl, BeginCrawl, FinishMint, NoContractFound, SetMint, SetCrawl
  <2>2. PICK new : new = [IdleCrawl EXCEPT !.pc = "mint", !.mints = mints]
    OBVIOUS
  <2>3. new.pc = "mint"
    BY <2>2 DEF IdleCrawl
  <2>4. GoesOn(r, new)
    BY <1>1, <2>1, <2>2, <2>3 DEF GoesOn
  <2> QED
    BY <2>4
<1>3. CASE FinishCrawl(r)
  <2>1. GoesOn(r, IdleCrawl)
    BY <1>1, <1>3, IdleCrawlTypes DEF FinishCrawl, SetCrawl, GoesOn
  <2> QED
    BY <2>1
<1>4. ASSUME NEW i \in Mints, FindContract(r, i) PROVE \E new : GoesOn(r, new)
  <2>1. PICK new : new = [crawl[r] EXCEPT !.pc = "window", !.mint = i,
                                          !.challenge = Record(r, i).challenge]
    OBVIOUS
  <2>2. new.pc = "window"
    BY <2>1, CrawlAtHand DEF CrawlState, MiningInvariant
  <2>3. crawl' = [crawl EXCEPT ![r] = new]
    BY <1>4, <2>1 DEF FindContract, SetCrawl
  <2>4. GoesOn(r, new)
    BY <1>1, <2>2, <2>3 DEF GoesOn
  <2> QED
    BY <2>4
<1> QED
  BY <1>2, <1>3, <1>4

\* Each challenge of the window that has a total has a record to find it by.
LEMMA FindWindowServes ==
    ASSUME ServeBasis, CrawlsServe, NEW r \in CrawlRuns, FindWindow(r)
    PROVE  \E new : GoesOn(r, new)
<1>0. crawl[r].pc = "window"
  BY DEF FindWindow, Reads
<1>1. PICK old, e : /\ old = crawl[r] /\ old \in CrawlState /\ CrawlOK(old)
                    /\ e = pool_mints[old.mint].epoch /\ e \in Epochs
  BY <1>0, ServesAtHand DEF Opened
<1>2. PICK new : new = [old EXCEPT !.pc = "totals", !.records = LeftRecords(e, 0)]
  OBVIOUS
<1>3. crawl' = [crawl EXCEPT ![r] = new]
  <2>1. LeftRecords(e, 0) = {allminingContracts[d] :
                    d \in {f \in Epochs : f <= e /\ f > e - PPLNSDEPTH}} \ {NoContract}
    BY DEF LeftRecords, Epochs
  <2> QED
    BY <1>1, <1>2, <2>1 DEF FindWindow, SetCrawl
<1>4. /\ new.pc = "totals" /\ new.mint = old.mint /\ new.records = LeftRecords(e, 0)
      /\ new.rows = old.rows /\ old.rows \subseteq Rows
  BY <1>1, <1>2 DEF CrawlState, CrawlOK
<1>5. ASSUME NEW d \in 1..e, HasTotal(e, d) PROVE allminingContracts[d] \in LeftRecords(e, 0)
  <2>1. d \in Epochs /\ d <= e /\ d > 0
    BY <1>1, EpochAssumption DEF Epochs
  <2>2. allminingContracts[d] # NoContract /\ d > e - PPLNSDEPTH
    BY <1>5, <2>1 DEF HasTotal, ServeBasis, TotalsRecorded
  <2> QED
    BY <2>1, <2>2 DEF LeftRecords
<1>6. CrawlServes(new, e)
  BY <1>4, <1>5 DEF CrawlServes, AtSums, AtRows
<1> QED
  BY <1>0, <1>1, <1>3, <1>4, <1>6 DEF GoesOn, Opened

\* The record that is dealt with is that of its challenge, whose total is listed if it has one.
LEMMA ReadTotalServes ==
    ASSUME ServeBasis, CrawlsServe, NEW r \in CrawlRuns, ReadTotalDifficulty(r)
    PROVE  \E new : GoesOn(r, new)
<1>0. crawl[r].pc = "totals" /\ crawl[r].records # {}
  BY DEF ReadTotalDifficulty, AddTotal, Reads
<1>1. PICK old, e : /\ old = crawl[r] /\ old \in CrawlState /\ CrawlOK(old)
                    /\ e = pool_mints[old.mint].epoch /\ e \in Epochs
                    /\ SumsFor(old, e) /\ CrawlServes(old, e)
  BY <1>0, ServesAtHand DEF Opened
<1>2. PICK u \in 0..e : old.records = LeftRecords(e, u)
  BY <1>0, <1>1 DEF SumsFor
<1>3. PICK record : record = FirstRecord(old.records)
  OBVIOUS
<1>4. PICK b \in 1..e : record = allminingContracts[b] /\ record # NoContract
  <2>1. LeftRecords(e, u) # {} /\ e \in Epochs /\ MiningInvariant
    BY <1>0, <1>1, <1>2 DEF ServeBasis
  <2> QED
    BY <1>2, <1>3, <2>1, NextRecord
<1>5. PICK total, c, left : /\ c = record.challenge /\ total = totaldiff_challengenumber[c]
                            /\ left = old.records \ {record}
  OBVIOUS
<1>6. PICK rest : rest = [old EXCEPT !.records = left]
  OBVIOUS
<1>7. PICK sum : crawl' = [crawl EXCEPT ![r] =
                    IF total = None THEN rest
                    ELSE [rest EXCEPT !.total = sum, !.challenges = Append(rest.challenges, c)]]
  <2>1. record = FirstRecord(crawl[r].records)
    BY <1>1, <1>3
  <2>2. rest = [crawl[r] EXCEPT !.records = crawl[r].records \ {record}]
    BY <1>1, <1>5, <1>6
  <2>3. SetCrawl(r, IF total = None THEN rest
                    ELSE [rest EXCEPT !.total = SumTally(old.total, total),
                                      !.challenges = Append(rest.challenges, c)])
    BY <1>1, <1>5, <2>1, <2>2 DEF ReadTotalDifficulty, AddTotal, FirstRecord
  <2> QED
    BY <2>3 DEF SetCrawl
<1>8. /\ rest.pc = "totals" /\ rest.mint = old.mint /\ rest.records = left
      /\ rest.challenges = old.challenges /\ rest.rows = old.rows /\ old.rows \subseteq Rows
      /\ rest \in CrawlState /\ old.challenges \in Seq(Epochs)
  <2>1. left \in SUBSET Contract
    BY <1>1, <1>5 DEF CrawlState
  <2> QED
    BY <1>0, <1>1, <1>6, <2>1 DEF CrawlState, CrawlOK
<1>9. ASSUME NEW d \in 1..e, HasTotal(e, d)
      PROVE  \/ allminingContracts[d] \in left \/ InList(d, old.challenges)
             \/ d = c /\ total # None
  <2>1. allminingContracts[d] \in old.records \/ InList(d, old.challenges)
    BY <1>0, <1>1, <1>9 DEF CrawlServes
  <2>2. ASSUME allminingContracts[d] = record PROVE d = c /\ total # None
    <3>1. d \in Epochs
      BY <1>1, EpochAssumption DEF Epochs
    <3>2. record.challenge = d
      BY <1>4, <2>2, <3>1 DEF ServeBasis, RecordsWhole
    <3> QED
      BY <1>5, <1>9, <3>2 DEF HasTotal
  <2> QED
    BY <1>5, <2>1, <2>2
<1>10. CASE total = None
  <2>1. crawl' = [crawl EXCEPT ![r] = rest]
    BY <1>7, <1>10
  <2>2. CrawlServes(rest, e)
    BY <1>8, <1>9, <1>10 DEF CrawlServes, AtSums, AtRows
  <2> QED
    BY <1>0, <1>1, <1>8, <2>1, <2>2 DEF GoesOn, Opened
<1>11. CASE total # None
  <2>1. PICK new : new = [rest EXCEPT !.total = sum, !.challenges = Append(rest.challenges, c)]
    OBVIOUS
  <2>2. crawl' = [crawl EXCEPT ![r] = new]
    BY <1>7, <1>11, <2>1
  <2>3. /\ new.pc = "totals" /\ new.mint = old.mint /\ new.records = left
        /\ new.challenges = Append(old.challenges, c) /\ new.rows = old.rows
    BY <1>8, <2>1 DEF CrawlState
  <2>4. InList(c, new.challenges) /\ \A d : InList(d, old.challenges) => InList(d, new.challenges)
    <3>1. c \in Epochs
      <4>1. b \in Epochs
        BY <1>1, EpochAssumption DEF Epochs
      <4> QED
        BY <1>4, <1>5, <4>1 DEF ServeBasis, RecordsWhole
    <3>2. PICK n, challenges : n = Len(old.challenges) /\ challenges = new.challenges
      OBVIOUS
    <3>3. /\ n \in Nat /\ Len(challenges) = n + 1 /\ challenges[n + 1] = c
          /\ \A k \in 1..n : challenges[k] = old.challenges[k]
      BY <1>8, <2>3, <3>1, <3>2
    <3> QED
      BY <3>2, <3>3 DEF InList
  <2>5. CrawlServes(new, e)
    BY <1>9, <2>3, <2>4 DEF CrawlServes, AtSums, AtRows
  <2> QED
    BY <1>0, <1>1, <1>8, <2>2, <2>3, <2>5 DEF GoesOn, Opened
<1> QED
  BY <1>10, <1>11

\* Nothing is left of the window: who has a share in it has one of a challenge that is listed.
LEMMA FindMinersServes ==
    ASSUME ServeBasis, CrawlsServe, NEW r \in CrawlRuns, FindMiners(r)
    PROVE  \E new : GoesOn(r, new)
<1>0. crawl[r].pc = "totals" /\ crawl[r].records = {}
  BY DEF FindMiners, FindMinersOf, Reads
<1>1. PICK old, e : /\ old = crawl[r] /\ old \in CrawlState /\ CrawlOK(old)
                    /\ e = pool_mints[old.mint].epoch /\ e \in Epochs /\ CrawlServes(old, e)
  BY <1>0, ServesAtHand DEF Opened
<1>2. PICK challenges : challenges = {old.challenges[k] : k \in DOMAIN old.challenges}
  OBVIOUS
<1>3. PICK new : new = [old EXCEPT !.pc = "fill", !.miners = MinersOf(challenges)]
  OBVIOUS
<1>4. crawl' = [crawl EXCEPT ![r] = new]
  BY <1>1, <1>2, <1>3 DEF FindMiners, FindMinersOf, SetCrawl
<1>5. /\ new.pc = "fill" /\ new.mint = old.mint /\ new.challenges = old.challenges
      /\ new.miners = MinersOf(challenges) /\ new.rows = old.rows /\ old.rows \subseteq Rows
      /\ old.challenges \in Seq(Epochs)
  BY <1>1, <1>3 DEF CrawlState, CrawlOK
<1>6. ASSUME NEW d \in 1..e, HasTotal(e, d) PROVE InList(d, old.challenges)
  BY <1>0, <1>1, <1>6 DEF CrawlServes
<1>7. ASSUME NEW m \in Miners, InWindow(m, e) PROVE m \in MinersOf(challenges)
  <2>1. PICK i \in Rows, d \in 1..e :
            /\ miner_challengediff[i].miner = m /\ miner_challengediff[i].challenge = d
            /\ HasTotal(e, d)
    BY <1>1, <1>7, InWindowHasTotal DEF ServeBasis
  <2>2. d \in challenges
    BY <1>2, <1>5, <1>6, <2>1 DEF InList
  <2> QED
    BY <2>1, <2>2 DEF MinersOf
<1>8. CrawlServes(new, e)
  BY <1>5, <1>6, <1>7 DEF CrawlServes, AtSums, AtRows
<1> QED
  BY <1>0, <1>1, <1>4, <1>5, <1>8 DEF GoesOn, Opened

\* A miner that is done with has a row for the block, or is about to get one.
LEMMA FillRowServes ==
    ASSUME ServeBasis, CrawlsServe, NEW r \in CrawlRuns, NEW m \in Miners, FillRow(r, m)
    PROVE  \E new : GoesOn(r, new)
<1>0. crawl[r].pc = "fill"
  BY DEF FillRow, Reads
<1>1. PICK old, e : /\ old = crawl[r] /\ old \in CrawlState /\ CrawlOK(old)
                    /\ e = pool_mints[old.mint].epoch /\ e \in Epochs
                    /\ old.challenge = e /\ CrawlServes(old, e)
  BY <1>0, ServesAtHand DEF Opened
<1>2. PICK miners : miners = old.miners \ {m}
  OBVIOUS
<1>3. PICK skip, zero : /\ skip = [old EXCEPT !.miners = miners]
                        /\ zero = [old EXCEPT !.miners = miners, !.pc = "zero", !.miner = m]
  OBVIOUS
<1>4. \/ RowsOf(m, e) # {} /\ crawl' = [crawl EXCEPT ![r] = skip]
      \/ crawl' = [crawl EXCEPT ![r] = zero]
  BY <1>1, <1>2, <1>3 DEF FillRow, SetCrawl
<1>5. /\ skip.pc = "fill" /\ skip.mint = old.mint /\ skip.challenges = old.challenges
      /\ skip.miners = miners /\ skip.rows = old.rows
      /\ zero.pc = "zero" /\ zero.mint = old.mint /\ zero.challenges = old.challenges
      /\ zero.miners = miners /\ zero.rows = old.rows /\ zero.miner = m
      /\ old.rows \subseteq Rows
  BY <1>0, <1>1, <1>3 DEF CrawlState, CrawlOK
<1>6. \A n \in Miners : InWindow(n, e) => n \in miners \/ n = m \/ RowsOf(n, e) # {}
  BY <1>0, <1>1, <1>2 DEF CrawlServes
<1>7. \A d \in 1..e : HasTotal(e, d) => InList(d, old.challenges)
  BY <1>0, <1>1 DEF CrawlServes, AtSums
<1>8. CASE RowsOf(m, e) # {} /\ crawl' = [crawl EXCEPT ![r] = skip]
  <2>1. CrawlServes(skip, e)
    BY <1>5, <1>6, <1>7, <1>8 DEF CrawlServes, AtSums, AtRows
  <2> QED
    BY <1>0, <1>1, <1>5, <1>8, <2>1 DEF GoesOn, Opened
<1>9. CASE crawl' = [crawl EXCEPT ![r] = zero]
  <2>1. CrawlServes(zero, e)
    BY <1>5, <1>6, <1>7 DEF CrawlServes, AtSums, AtRows
  <2> QED
    BY <1>0, <1>1, <1>5, <1>9, <2>1 DEF GoesOn, Opened
<1> QED
  BY <1>4, <1>8, <1>9

\* The miner has its row, of a miner and a challenge that had none.
LEMMA ZeroRowServes ==
    ASSUME ServeBasis, MiningInvariant', InTurn, [Next]_vars, CrawlsServe,
           NEW r \in CrawlRuns, InsertZeroRow(r)
    PROVE  CrawlsServe' /\ RowsGrow
<1>0. crawl[r].pc = "zero"
  BY DEF InsertZeroRow
<1>1. PICK old, e : /\ old = crawl[r] /\ old \in CrawlState /\ CrawlOK(old)
                    /\ e = pool_mints[old.mint].epoch /\ e \in Epochs /\ Settled(e)
                    /\ old.challenge = e /\ CrawlServes(old, e)
  BY <1>0, ServesAtHand DEF Opened
<1>2. PICK new, row, m : /\ new = [old EXCEPT !.pc = "fill", !.miner = None]
                         /\ row = NewRow(m, e, NoShares) /\ m = old.miner
  OBVIOUS
<1>3. /\ crawl' = [crawl EXCEPT ![r] = new]
      /\ miner_challengediff' = Append(miner_challengediff, row)
      /\ pool_mints' = pool_mints
  BY <1>1, <1>2 DEF InsertZeroRow, SetCrawl
<1>4. row \in ChallengeDiff /\ row.status = 1 /\ row.miner = m /\ row.challenge = e
  <2>1. m \in Miners
    BY <1>0, <1>1, <1>2 DEF CrawlOK
  <2> QED
    BY <1>1, <1>2, <2>1, RowTypes, TallyTypes
<1> DEFINE k == Len(miner_challengediff) + 1
<1>5. RowsGrow /\ k \in Rows' /\ miner_challengediff'[k] = row
  BY <1>3, <1>4, RowIsAppended, DataTypes DEF ServeBasis
<1> HIDE DEF k
<1>6. /\ new.pc = "fill" /\ new.mint = old.mint /\ new.challenges = old.challenges
      /\ new.miners = old.miners
  BY <1>1, <1>2 DEF CrawlState
<1>7. CrawlServes(old, e)'
  <2>1. old.rows \subseteq Rows /\ old.pc # "sum"
    BY <1>0, <1>1 DEF CrawlOK
  <2> QED
    BY <1>1, <2>1, StateServesStay
<1>8. RowsOf(m, e)' # {}
  BY <1>4, <1>5 DEF RowsOf
<1>9. CrawlServes(new, e)'
  <2>1. \A n \in Miners : InWindow(n, e)' => n \in new.miners \/ n = m \/ RowsOf(n, e)' # {}
    BY <1>0, <1>1, <1>2, <1>6, <1>7 DEF CrawlServes
  <2>2. \A d \in 1..e : HasTotal(e, d)' => InList(d, new.challenges)
    BY <1>0, <1>1, <1>6, <1>7 DEF CrawlServes, AtSums
  <2> QED
    BY <1>6, <1>8, <2>1, <2>2 DEF CrawlServes, AtSums, AtRows
<1>10. CrawlServes(new, pool_mints[new.mint].epoch)'
  <2>1. pool_mints'[new.mint].epoch = e
    BY <1>1, <1>3, <1>6
  <2> QED
    BY <1>9, <2>1 DEF CrawlServes
<1> QED
  BY <1>0, <1>3, <1>5, <1>10, PutServes DEF ServeBasis

\* Every miner in the window has a row: it is still to be dealt with, or has been.
LEMMA ListRowsServes ==
    ASSUME ServeBasis, Clean, CrawlsServe, RowsServe, NEW r \in CrawlRuns, ListRows(r)
    PROVE  \E new : GoesOn(r, new)
<1>0. crawl[r].pc = "fill" /\ crawl[r].miners = {}
  BY DEF ListRows, Reads
<1>1. PICK old, e : /\ old = crawl[r] /\ old \in CrawlState /\ CrawlOK(old)
                    /\ e = pool_mints[old.mint].epoch /\ e \in Epochs
                    /\ old.challenge = e /\ CrawlServes(old, e)
  BY <1>0, ServesAtHand DEF Opened
<1>2. PICK rows : rows = {i \in Rows : /\ miner_challengediff[i].challenge = e
                                       /\ miner_challengediff[i].status = 1}
  OBVIOUS
<1>3. PICK new : new = [old EXCEPT !.pc = "rows", !.rows = rows]
  OBVIOUS
<1>4. crawl' = [crawl EXCEPT ![r] = new]
  BY <1>1, <1>2, <1>3 DEF ListRows, SetCrawl
<1>5. /\ new.pc = "rows" /\ new.mint = old.mint /\ new.challenges = old.challenges
      /\ new.rows = rows /\ rows \subseteq Rows
  BY <1>1, <1>2, <1>3 DEF CrawlState
<1>6. \A q \in CrawlRuns : crawl[q].pc # "award"
  BY <1>0 DEF ServeBasis, MiningInvariant, RewardInvariant, OneCrawl
<1>7. ASSUME NEW m \in Miners, InWindow(m, e)
      PROVE  Served(m, e) \/ \E i \in rows : miner_challengediff[i].miner = m
  <2>1. RowsOf(m, e) # {}
    BY <1>0, <1>1, <1>7 DEF CrawlServes
  <2>2. PICK i \in Rows : /\ miner_challengediff[i].miner = m
                          /\ miner_challengediff[i].challenge = e
    BY <2>1 DEF RowsOf
  <2>3. RowServes(i, m, e)
    BY <2>2 DEF RowsServe
  <2>4. miner_challengediff[i].status \in {1, 2, 3}
    <3>1. MiningTypeOK /\ StatusFourNever
      BY DEF ServeBasis, MiningInvariant, ShareInvariant, CollectorInvariant, RewardInvariant
    <3>2. miner_challengediff[i] \in ChallengeDiff
      BY <3>1 DEF MiningTypeOK, Rows
    <3>3. miner_challengediff[i].status \in 1..5
      BY <3>2 DEF ChallengeDiff
    <3> QED
      BY <3>1, <3>3 DEF StatusFourNever, Clean
  <2>5. CASE miner_challengediff[i].status = 1
    BY <1>2, <2>2, <2>5
  <2>6. CASE miner_challengediff[i].status = 2
    BY <1>6, <2>3, <2>6 DEF RowServes
  <2>7. CASE miner_challengediff[i].status = 3
    BY <1>7, <2>3, <2>7 DEF RowServes
  <2> QED
    BY <2>4, <2>5, <2>6, <2>7
<1>8. \A d \in 1..e : HasTotal(e, d) => InList(d, old.challenges)
  BY <1>0, <1>1 DEF CrawlServes, AtSums
<1>9. CrawlServes(new, e)
  BY <1>5, <1>7, <1>8 DEF CrawlServes, AtSums, AtRows
<1> QED
  BY <1>0, <1>1, <1>4, <1>5, <1>9 DEF GoesOn, Opened

LEMMA RecheckServes ==
    ASSUME ServeBasis, CrawlsServe, NEW r \in CrawlRuns, NEW i \in Rows, RecheckRow(r, i)
    PROVE  \E new : GoesOn(r, new)
<1>0. crawl[r].pc = "rows"
  BY DEF RecheckRow
<1>1. PICK old, e : /\ old = crawl[r] /\ old \in CrawlState /\ CrawlOK(old)
                    /\ e = pool_mints[old.mint].epoch /\ SumsFor(old, e)
                    /\ CrawlServes(old, e)
  BY <1>0, ServesAtHand DEF Opened
<1>2. PICK new : new = [old EXCEPT !.pc = "sum", !.row = i]
  OBVIOUS
<1>3. crawl' = [crawl EXCEPT ![r] = new]
  BY <1>1, <1>2, RecheckTypes, DataTypes DEF ServeBasis, MiningInvariant
<1>4. /\ new.pc = "sum" /\ new.mint = old.mint /\ new.challenges = old.challenges
      /\ new.rows = old.rows /\ new.row = i /\ new.read = old.read /\ old.read = 0
      /\ old.rows \subseteq Rows
  BY <1>0, <1>1, <1>2 DEF CrawlState, CrawlOK, SumsFor
<1>5. /\ \A d \in 1..e : HasTotal(e, d) => InList(d, old.challenges)
      /\ \A m \in Miners : InWindow(m, e) =>
            Served(m, e) \/ \E j \in old.rows : miner_challengediff[j].miner = m
  BY <1>0, <1>1 DEF CrawlServes, AtSums, AtRows
<1>6. 1..new.read = {}
  BY <1>4
<1>7. CrawlServes(new, e)
  BY <1>4, <1>5, <1>6 DEF CrawlServes, AtSums, AtRows
<1> QED
  BY <1>0, <1>1, <1>3, <1>4, <1>6, <1>7 DEF GoesOn, Opened

\* The miner has one row for the challenge: if it has a share, the sum has it.
LEMMA SumRowServes ==
    ASSUME ServeBasis, CrawlsServe, NEW r \in CrawlRuns, SumRow(r)
    PROVE  \E new : GoesOn(r, new)
<1>0. crawl[r].pc = "sum" /\ MiningInvariant /\ RowsUnique /\ MiningTypeOK
  BY DataTypes DEF SumRow, Reads, ServeBasis, BooksInvariant
<1>1. PICK old, e : /\ old = crawl[r] /\ old \in CrawlState /\ CrawlOK(old)
                    /\ e = pool_mints[old.mint].epoch /\ SumsFor(old, e)
                    /\ CrawlServes(old, e)
  BY <1>0, ServesAtHand DEF Opened
<1>2. PICK k, m, rows : /\ k = old.read + 1 /\ m = miner_challengediff[old.row].miner
                        /\ rows = RowsOf(m, old.challenges[k])
  OBVIOUS
<1>3. PICK mine : mine = IF rows = {} THEN old.mine
                         ELSE SumTally(old.mine, miner_challengediff[FirstOf(rows)].totaldiff)
  OBVIOUS
<1>4. PICK new : new = [old EXCEPT !.read = k, !.mine = mine]
  OBVIOUS
<1>5. crawl' = [crawl EXCEPT ![r] = new] /\ k <= Len(old.challenges)
  BY <1>1, <1>2, <1>3, <1>4 DEF SumRow, SetCrawl
<1>6. /\ new.pc = "sum" /\ new.mint = old.mint /\ new.challenges = old.challenges
      /\ new.rows = old.rows /\ new.row = old.row /\ new.read = k /\ new.mine = mine
      /\ old.rows \subseteq Rows /\ old.row \in Rows /\ old.read \in Nat /\ old.mine \in Tally
      /\ old.challenges \in Seq(Epochs)
  BY <1>0, <1>1, <1>4 DEF CrawlState, CrawlOK
<1>7. \A b \in 1..k : old.challenges[b] \in 1..e
  <2>1. PICK g \in [Nat -> Tally] : ChallengeSums(g, old.challenges, e)
    BY <1>0, <1>1 DEF SumsFor, AtSums
  <2>2. \A b \in 1..k : b \in 1..Len(old.challenges)
    BY <1>2, <1>5, <1>6
  <2> QED
    BY <2>1, <2>2 DEF ChallengeSums
<1>8. rows # {} =>
        /\ FirstOf(rows) \in rows
        /\ miner_challengediff[FirstOf(rows)].totaldiff \in Tally
  BY <1>0, <1>2, RowsOfTypes
<1>9. mine \in Tally /\ (old.mine # NoShares => mine # NoShares)
  <2>1. CASE rows = {}
    BY <1>3, <1>6, <2>1
  <2>2. CASE rows # {}
    <3>1. PICK t \in Tally : t = miner_challengediff[FirstOf(rows)].totaldiff
      BY <1>8, <2>2
    <3>2. mine = SumTally(old.mine, t)
      BY <1>3, <2>2, <3>1
    <3>3. mine \in Tally /\ \A s \in Shares : mine[s] = old.mine[s] + t[s]
      BY <1>6, <3>2, TallyTypes
    <3>4. ASSUME NEW s \in Shares, old.mine[s] > 0 PROVE mine[s] > 0
      <4>1. old.mine[s] \in Nat /\ t[s] \in Nat
        BY <1>6 DEF Tally
      <4> QED
        BY <3>3, <3>4, <4>1
    <3> QED
      BY <1>6, <3>3, <3>4, TallyPositive
  <2> QED
    BY <2>1, <2>2
<1>10. ASSUME NEW j \in rows, miner_challengediff[j].totaldiff # NoShares
       PROVE  mine # NoShares
  <2>1. j = FirstOf(rows)
    BY <1>0, <1>2, <1>8 DEF RowsOf, RowsUnique
  <2>2. PICK t \in Tally : t = miner_challengediff[j].totaldiff
    BY <1>8, <2>1
  <2>3. mine = SumTally(old.mine, t)
    BY <1>3, <2>1, <2>2
  <2>4. \A s \in Shares : mine[s] = old.mine[s] + t[s]
    BY <1>6, <2>3, TallyTypes
  <2>5. PICK s \in Shares : t[s] > 0
    BY <1>10, <2>2, TallyPositive
  <2>6. old.mine[s] \in Nat /\ t[s] \in Nat
    BY <1>6 DEF Tally
  <2>7. mine[s] > 0
    BY <2>4, <2>5, <2>6
  <2> QED
    BY <1>9, <2>7, TallyPositive
<1>11. /\ \A d \in 1..e : HasTotal(e, d) => InList(d, old.challenges)
       /\ \A n \in Miners : InWindow(n, e) =>
            Served(n, e) \/ \E j \in old.rows : miner_challengediff[j].miner = n
  BY <1>0, <1>1 DEF CrawlServes, AtSums, AtRows
<1>12. ASSUME NEW b \in 1..k, NEW j \in RowsOf(m, old.challenges[b]),
              miner_challengediff[j].totaldiff # NoShares
       PROVE  mine # NoShares
  <2>1. CASE b = k
    BY <1>2, <1>10, <1>12, <2>1
  <2>2. CASE b # k
    <3>1. b \in 1..old.read
      BY <1>2, <1>6, <2>2
    <3>2. old.mine # NoShares
      BY <1>0, <1>1, <1>2, <1>12, <3>1 DEF CrawlServes
    <3> QED
      BY <1>9, <3>2
  <2> QED
    BY <2>1, <2>2
<1>13. CrawlServes(new, e)
  BY <1>2, <1>6, <1>11, <1>12 DEF CrawlServes, AtSums, AtRows
<1> QED
  BY <1>0, <1>1, <1>5, <1>6, <1>7, <1>13 DEF GoesOn, Opened

\* A sum that is empty is that of a miner who is not in the window.
LEMMA NothingServes ==
    ASSUME ServeBasis, CrawlsServe, NEW r \in CrawlRuns, NothingToShare(r)
    PROVE  /\ \E new : GoesOn(r, new)
           /\ \E i \in Rows : \E m, c :
                /\ i = crawl[r].row /\ m = miner_challengediff[i].miner
                /\ c = miner_challengediff[i].challenge
                /\ Settled(c) /\ ~InWindow(m, c)
<1>0. /\ crawl[r].pc = "sum" /\ crawl[r].read = Len(crawl[r].challenges)
      /\ crawl[r].mine = NoShares
  BY DEF NothingToShare, Summed
<1>1. PICK old, e : /\ old = crawl[r] /\ old \in CrawlState /\ CrawlOK(old) /\ CrawlBooks(old)
                    /\ e = pool_mints[old.mint].epoch /\ e \in Epochs /\ Settled(e)
                    /\ old.challenge = e /\ CrawlServes(old, e)
  BY <1>0, ServesAtHand DEF Opened
<1>2. PICK i, m, rows : /\ i = old.row /\ m = miner_challengediff[i].miner
                        /\ rows = old.rows \ {i}
  OBVIOUS
<1>3. PICK new : new = [old EXCEPT !.pc = "rows", !.rows = rows, !.row = 0, !.read = 0,
                                   !.mine = NoShares]
  OBVIOUS
<1>4. crawl' = [crawl EXCEPT ![r] = new]
  BY <1>1, <1>2, <1>3 DEF NothingToShare, SetRow, SetCrawl
<1>5. /\ new.pc = "rows" /\ new.mint = old.mint /\ new.challenges = old.challenges
      /\ new.rows = rows /\ rows \subseteq Rows
      /\ i \in Rows /\ miner_challengediff[i].challenge = e
  BY <1>0, <1>1, <1>2, <1>3 DEF CrawlState, CrawlOK, CrawlBooks
<1>6. \A d \in 1..e : HasTotal(e, d) => InList(d, old.challenges)
  BY <1>0, <1>1 DEF CrawlServes, AtSums
<1>7. ASSUME InWindow(m, e) PROVE FALSE
  <2>1. PICK j \in Rows, d \in 1..e :
            /\ miner_challengediff[j].miner = m /\ miner_challengediff[j].challenge = d
            /\ miner_challengediff[j].totaldiff # NoShares
            /\ HasTotal(e, d)
    BY <1>1, <1>7, InWindowHasTotal DEF ServeBasis
  <2>2. PICK k \in 1..Len(old.challenges) : old.challenges[k] = d
    BY <1>6, <2>1 DEF InList
  <2>3. j \in RowsOf(m, old.challenges[k]) /\ k \in 1..old.read
    BY <1>0, <1>1, <2>1, <2>2 DEF RowsOf
  <2> QED
    BY <1>0, <1>1, <1>2, <2>1, <2>3 DEF CrawlServes
<1>8. ASSUME NEW n \in Miners, InWindow(n, e)
      PROVE  Served(n, e) \/ \E j \in rows : miner_challengediff[j].miner = n
  <2>1. Served(n, e) \/ \E j \in old.rows : miner_challengediff[j].miner = n
    BY <1>0, <1>1, <1>8 DEF CrawlServes, AtRows
  <2> QED
    BY <1>2, <1>7, <1>8, <2>1
<1>9. CrawlServes(new, e)
  BY <1>5, <1>6, <1>8 DEF CrawlServes, AtSums, AtRows
<1>10. GoesOn(r, new)
  BY <1>0, <1>1, <1>4, <1>5, <1>9 DEF GoesOn, Opened
<1> QED
  BY <1>1, <1>2, <1>5, <1>7, <1>10

LEMMA MarkServes ==
    ASSUME ServeBasis, CrawlsServe, NEW r \in CrawlRuns, MarkRewarded(r)
    PROVE  \E new : GoesOn(r, new) /\ new.pc = "award" /\ new.row = crawl[r].row
<1>0. crawl[r].pc = "sum" /\ crawl[r].mine # NoShares
  BY DEF MarkRewarded, Summed
<1>1. PICK old, e : /\ old = crawl[r] /\ old \in CrawlState /\ CrawlOK(old)
                    /\ e = pool_mints[old.mint].epoch /\ CrawlServes(old, e)
  BY <1>0, ServesAtHand DEF Opened
<1>2. PICK new : new = [old EXCEPT !.pc = "award"]
  OBVIOUS
<1>3. crawl' = [crawl EXCEPT ![r] = new]
  BY <1>1, <1>2 DEF MarkRewarded, SetCrawl
<1>4. /\ new.pc = "award" /\ new.mint = old.mint /\ new.challenges = old.challenges
      /\ new.rows = old.rows /\ new.row = old.row /\ new.mine = old.mine
      /\ old.rows \subseteq Rows
  BY <1>1, <1>2 DEF CrawlState, CrawlOK
<1>5. /\ \A d \in 1..e : HasTotal(e, d) => InList(d, old.challenges)
      /\ \A m \in Miners : InWindow(m, e) =>
            Served(m, e) \/ \E j \in old.rows : miner_challengediff[j].miner = m
  BY <1>0, <1>1 DEF CrawlServes, AtSums, AtRows
<1>6. CrawlServes(new, e)
  BY <1>0, <1>1, <1>4, <1>5 DEF CrawlServes, AtSums, AtRows
<1>7. GoesOn(r, new)
  BY <1>0, <1>1, <1>3, <1>4, <1>6 DEF GoesOn, Opened
<1> QED
  BY <1>1, <1>4, <1>7

\* What is awarded is a part of a total that is not empty: the miner is served.
LEMMA AwardServes ==
    ASSUME ServeBasis, MiningInvariant', InTurn, [Next]_vars, CrawlsServe,
           NEW r \in CrawlRuns, AwardTokensForShares(r)
    PROVE  /\ CrawlsServe'
           /\ \A i \in Rows : i = crawl[r].row =>
                Served(miner_challengediff[i].miner, miner_challengediff[i].challenge)'
<1>0. crawl[r].pc = "award"
  BY DEF AwardTokensForShares
<1>1. PICK old, e : /\ old = crawl[r] /\ old \in CrawlState /\ CrawlOK(old) /\ CrawlBooks(old)
                    /\ e = pool_mints[old.mint].epoch /\ e \in Epochs /\ Settled(e)
                    /\ old.challenge = e /\ SumsFor(old, e) /\ CrawlServes(old, e)
  BY <1>0, ServesAtHand DEF Opened
<1>2. PICK i, m : i = old.row /\ m = miner_challengediff[i].miner
  OBVIOUS
<1>3. PICK new : new = [old EXCEPT !.pc = "rows", !.rows = old.rows \ {i}, !.row = 0,
                                   !.read = 0, !.mine = NoShares]
  OBVIOUS
<1>4. PICK reward : reward = [mint |-> old.mint, miner |-> m, challenge |-> e,
                              shares |-> old.mine, poolshares |-> old.total]
  OBVIOUS
<1>5. /\ crawl' = [crawl EXCEPT ![r] = new]
      /\ old.total # NoShares => rewards' = Append(rewards, reward)
      /\ UNCHANGED <<pool_mints, miner_challengediff>>
  BY <1>1, <1>2, <1>3, <1>4 DEF AwardTokensForShares, SetCrawl
<1>6. /\ new.pc = "rows" /\ new.mint = old.mint /\ new.challenges = old.challenges
      /\ new.rows = old.rows \ {i} /\ i \in Rows /\ miner_challengediff[i].challenge = e
      /\ old.rows \subseteq Rows /\ old.mine \in Tally /\ old.total \in Tally
  BY <1>0, <1>1, <1>2, <1>3 DEF CrawlState, CrawlOK, CrawlBooks
<1>7. old.total # NoShares
  <2>1. PICK g \in [Nat -> Tally] : /\ g[Len(old.challenges)] = old.total
                                    /\ \A s \in Shares : old.mine[s] <= g[old.read][s]
    BY <1>0, <1>1 DEF SumsFor, AtSums
  <2>2. old.read = Len(old.challenges) /\ old.mine # NoShares
    BY <1>0, <1>1 DEF SumsFor, CrawlServes
  <2>3. PICK s \in Shares : old.mine[s] > 0
    BY <1>6, <2>2, TallyPositive
  <2>4. old.mine[s] <= old.total[s] /\ old.mine[s] \in Nat /\ old.total[s] \in Nat
    BY <1>6, <2>1, <2>2 DEF Tally
  <2>5. old.total[s] > 0
    BY <2>3, <2>4
  <2> QED
    BY <1>6, <2>5, TallyPositive
<1>8. Served(m, e)'
  <2>1. rewards' = Append(rewards, reward) /\ rewards \in Seq(Reward)
    BY <1>5, <1>7, MintEpochs DEF ServeBasis
  <2>2. reward.miner = m /\ reward.challenge = e
    BY <1>4
  <2>3. Len(rewards) + 1 \in DOMAIN rewards' /\ rewards'[Len(rewards) + 1] = reward
    BY <2>1
  <2> QED
    BY <2>2, <2>3 DEF Served
<1>9. CrawlServes(old, e)'
  <2>1. old.rows \subseteq Rows /\ old.pc # "sum"
    BY <1>0, <1>1, <1>6
  <2> QED
    BY <1>1, <2>1, StateServesStay
<1>10. CrawlServes(new, e)'
  <2>1. ASSUME NEW n \in Miners, InWindow(n, e)'
        PROVE  Served(n, e)' \/ \E j \in new.rows : miner_challengediff'[j].miner = n
    <3>1. Served(n, e)' \/ \E j \in old.rows : miner_challengediff'[j].miner = n
      BY <1>0, <1>1, <1>9, <2>1 DEF CrawlServes, AtRows
    <3> QED
      BY <1>2, <1>5, <1>6, <1>8, <3>1
  <2>2. \A d \in 1..e : HasTotal(e, d)' => InList(d, new.challenges)
    BY <1>0, <1>1, <1>6, <1>9 DEF CrawlServes, AtSums
  <2> QED
    BY <1>6, <2>1, <2>2 DEF CrawlServes, AtSums, AtRows
<1>11. CrawlServes(new, pool_mints[new.mint].epoch)'
  <2>1. pool_mints'[new.mint].epoch = e
    BY <1>1, <1>5, <1>6
  <2> QED
    BY <1>10, <2>1 DEF CrawlServes
<1>12. CrawlsServe'
  BY <1>0, <1>5, <1>11, PutServes DEF ServeBasis
<1>13. ASSUME NEW j \in Rows, j = crawl[r].row
       PROVE  Served(miner_challengediff[j].miner, miner_challengediff[j].challenge)'
  <2>1. m = miner_challengediff'[j].miner /\ e = miner_challengediff'[j].challenge
    BY <1>1, <1>2, <1>5, <1>6, <1>13
  <2> QED
    BY <1>8, <2>1 DEF Served
<1> QED
  BY <1>12, <1>13

----------------------------------------------------------------------------
(* Nobody is forgotten. *)

\* A crawl writes a status only on the row that it has summed up for, which was open.
Closes(r, status) ==
    /\ crawl[r].pc = "sum" /\ StatusWritten(crawl[r].row, status)
    /\ status = 2 => MarkRewarded(r)
    /\ status = 3 => NothingToShare(r)

LEMMA CrawlWrites ==
    ASSUME MiningInvariant, NEW r \in CrawlRuns, CrawlStep(r)
    PROVE  RowsGrow \/ \E status \in {2, 3, 5} : Closes(r, status)
<1>0. MiningTypeOK
  BY DataTypes
<1>1. ASSUME miner_challengediff' = miner_challengediff PROVE RowsGrow
  BY <1>0, <1>1, RowsStay
<1>2. CASE StartCrawl(r) \/ FinishCrawl(r) \/ \E i \in Mints : OpenMint(r, i)
  BY <1>1, <1>2 DEF StartCrawl, BeginCrawl, FinishCrawl, OpenMint, FindContract,
     NoContractFound, Reads, SetMint
<1>3. CASE InsertZeroRow(r)
  <2>1. PICK old, m, c : /\ old = crawl[r] /\ m = old.miner /\ c = old.challenge
                         /\ CrawlOK(old)
    BY CrawlAtHand DEF MiningInvariant
  <2>2. PICK row : row = NewRow(m, c, NoShares)
    OBVIOUS
  <2>3. old.pc = "zero" /\ miner_challengediff' = Append(miner_challengediff, row)
    BY <1>3, <2>1, <2>2 DEF InsertZeroRow
  <2>4. row \in ChallengeDiff /\ row.status = 1
    BY <2>1, <2>2, <2>3, RowTypes, TallyTypes DEF CrawlOK, Opened
  <2> QED
    BY <1>0, <2>3, <2>4, RowIsAppended
<1>4. CASE MintStep(r) /\ ~InsertZeroRow(r)
  BY <1>1, <1>4 DEF MintStep, FindWindow, ReadTotalDifficulty, AddTotal, FindMiners,
     FindMinersOf, FillRow, ListRows, FinishMint, SetMint, Reads
<1>5. ASSUME NEW i \in Rows, RecheckRow(r, i) PROVE RowsGrow
  BY <1>0, <1>1, <1>5, RecheckTypes, DataTypes DEF MiningInvariant
<1>6. CASE SumRow(r) \/ AwardTokensForShares(r)
  BY <1>1, <1>6 DEF SumRow, AwardTokensForShares, Reads
<1>7. CASE NothingToShare(r)
  <2>1. Closes(r, 3)
    BY <1>7 DEF Closes, NothingToShare, Summed, SetRow, StatusWritten
  <2> QED
    BY <2>1
<1>8. CASE PoolTooPoor(r)
  <2>1. Closes(r, 5)
    BY <1>8 DEF Closes, PoolTooPoor, Summed, SetRow, StatusWritten
  <2> QED
    BY <2>1
<1>9. CASE MarkRewarded(r)
  <2>1. Closes(r, 2)
    BY <1>9 DEF Closes, MarkRewarded, Summed, StatusWritten
  <2> QED
    BY <2>1
<1> QED
  BY <1>2, <1>3, <1>4, <1>5, <1>6, <1>7, <1>8, <1>9 DEF CrawlStep, RowStep

\* The row that is closed was open.
LEMMA ClosesOpen ==
    ASSUME MiningInvariant, NEW r \in CrawlRuns, NEW status \in {2, 3, 5}, Closes(r, status)
    PROVE  \E i \in Rows :
            /\ i = crawl[r].row /\ miner_challengediff[i].status = 1
            /\ Rows' = Rows
            /\ \A j \in Rows :
                /\ miner_challengediff'[j].miner = miner_challengediff[j].miner
                /\ miner_challengediff'[j].challenge = miner_challengediff[j].challenge
                /\ miner_challengediff'[j].status =
                        IF j = i THEN status ELSE miner_challengediff[j].status
<1>1. PICK old, i : /\ old = crawl[r] /\ i = old.row /\ old.pc = "sum"
                    /\ CrawlOK(old) /\ RowsOpen(old)
  BY CrawlAtHand DEF MiningInvariant, Closes
<1>2. i \in Rows /\ miner_challengediff[i].status = 1
  BY <1>1 DEF CrawlOK, RowsOpen
<1>3. StatusWritten(i, status) /\ MiningTypeOK /\ status \in 1..5
  BY <1>1, DataTypes DEF Closes
<1>4. /\ Rows' = Rows
      /\ \A j \in Rows :
            /\ miner_challengediff'[j].miner = miner_challengediff[j].miner
            /\ miner_challengediff'[j].challenge = miner_challengediff[j].challenge
            /\ miner_challengediff'[j].status =
                    IF j = i THEN status ELSE miner_challengediff[j].status
  BY <1>3, StatusIsWritten
<1> QED
  BY <1>1, <1>2, <1>4

\* A row the pool was too poor for stays one.
LEMMA CleanBefore ==
    ASSUME MiningInvariant, [Next]_vars, Clean'
    PROVE  Clean
<1>0. faults' = 0 /\ \A i \in Rows' : miner_challengediff'[i].status # 5
  BY DEF Clean
<1>1. faults = 0
  BY <1>0, FaultsGrow
<1>2. ASSUME RowsGrow PROVE Clean
  BY <1>0, <1>1, <1>2 DEF RowsGrow, Clean
<1>3. ASSUME NEW r \in CrawlRuns, CrawlStep(r) PROVE Clean
  <2>1. ASSUME NEW status \in {2, 3, 5}, Closes(r, status) PROVE Clean
    <3>1. PICK i \in Rows :
            /\ miner_challengediff[i].status = 1 /\ Rows' = Rows
            /\ \A j \in Rows : miner_challengediff'[j].status =
                    IF j = i THEN status ELSE miner_challengediff[j].status
      BY <2>1, ClosesOpen
    <3> QED
      BY <1>0, <1>1, <3>1 DEF Clean
  <2> QED
    BY <1>2, <1>3, <2>1, CrawlWrites
<1> QED
  BY <1>0, <1>2, <1>3, ServeShapes DEF Elsewhere, RewardSide

\* While a row is being rewarded no other call is at work, and nothing else is done.
LEMMA AwardAlone ==
    ASSUME MiningInvariant, NEW r \in CrawlRuns, CrawlStep(r),
           NEW q \in CrawlRuns, crawl[q].pc = "award"
    PROVE  q = r /\ AwardTokensForShares(r)
<1>1. rewardCrawlRunning /\ (crawl[r].pc # "idle" => q = r)
  BY DEF MiningInvariant, RewardInvariant, OneCrawl
<1>2. CASE StartCrawl(r)
  BY <1>1, <1>2 DEF StartCrawl
<1>3. CASE FinishCrawl(r) \/ \E i \in Mints : OpenMint(r, i)
  BY <1>1, <1>3 DEF FinishCrawl, OpenMint, FindContract, NoContractFound, Reads
<1>4. CASE MintStep(r)
  BY <1>1, <1>4 DEF MintStep, FindWindow, ReadTotalDifficulty, AddTotal, FindMiners,
     FindMinersOf, FillRow, InsertZeroRow, ListRows, FinishMint, Reads
<1>5. CASE RowStep(r) /\ ~AwardTokensForShares(r)
  BY <1>1, <1>5 DEF RowStep, RecheckRow, SumRow, NothingToShare, PoolTooPoor, MarkRewarded,
     Summed, Reads
<1>6. CASE AwardTokensForShares(r)
  BY <1>1, <1>6 DEF AwardTokensForShares
<1> QED
  BY <1>2, <1>3, <1>4, <1>5, <1>6 DEF CrawlStep, RowStep

\* The rows of the block are all done with: who is in the window has been rewarded.
LEMMA FinishServes ==
    ASSUME ServeBasis, CrawlsServe, NEW r \in CrawlRuns, FinishMint(r)
    PROVE  \E i \in Mints : i = crawl[r].mint /\ AllServed(pool_mints[i].epoch)
<1>0. crawl[r].pc = "rows" /\ crawl[r].rows = {}
  BY DEF FinishMint
<1>1. PICK old, e : /\ old = crawl[r] /\ old.mint \in Mints
                    /\ e = pool_mints[old.mint].epoch /\ Settled(e) /\ CrawlServes(old, e)
  BY <1>0, ServesAtHand DEF Opened
<1>2. \A m \in Miners : InWindow(m, e) => Served(m, e)
  BY <1>0, <1>1 DEF CrawlServes, AtRows
<1>3. AllServed(e)
  BY <1>1, <1>2 DEF AllServed
<1> QED
  BY <1>1, <1>3

LEMMA CrawlMintsServe ==
    ASSUME ServeBasis, MiningInvariant', InTurn, [Next]_vars, CrawlsServe, MintsServe,
           NEW r \in CrawlRuns, CrawlStep(r)
    PROVE  MintsServe'
<1>0. pool_mints \in Seq(PoolMint)
  BY MintEpochs DEF ServeBasis
<1>1. ASSUME pool_mints' = pool_mints PROVE MintsServe'
  BY <1>1, MintsServeStay DEF Mints
<1>2. ASSUME NEW i, NEW status \in {2, 4}, i \in Mints,
             pool_mints' = [pool_mints EXCEPT ![i].poolstatus = status],
             status = 2 => AllServed(pool_mints[i].epoch)
      PROVE  MintsServe'
  <2>1. PICK mint : mint = [pool_mints[i] EXCEPT !.poolstatus = status]
    OBVIOUS
  <2>2. mint \in PoolMint /\ mint.poolstatus = status
    <3>1. pool_mints[i] \in PoolMint
      BY <1>0, <1>2 DEF Mints
    <3> QED
      BY <2>1, <3>1 DEF PoolMint
  <2>3. pool_mints' = [pool_mints EXCEPT ![i] = mint]
    BY <1>2, <2>1
  <2>4. /\ Mints' = Mints
        /\ \A j \in Mints : pool_mints'[j] = IF j = i THEN mint ELSE pool_mints[j]
    BY <1>0, <2>2, <2>3, SeqExcept DEF Mints
  <2>5. ASSUME NEW j \in Mints'
        PROVE  \/ j \in Mints /\ pool_mints'[j] = pool_mints[j]
               \/ pool_mints'[j].poolstatus # 2
               \/ j \in Mints /\ AllServed(pool_mints[j].epoch)
    <3>1. CASE j = i
      BY <1>2, <2>2, <2>4, <3>1
    <3>2. CASE j # i
      BY <2>4, <2>5, <3>2
    <3> QED
      BY <3>1, <3>2
  <2> QED
    BY <2>5, MintsServeStay
<1>3. CASE FinishMint(r)
  <2>1. PICK i \in Mints : i = crawl[r].mint /\ AllServed(pool_mints[i].epoch)
    BY <1>3, FinishServes
  <2>2. pool_mints' = [pool_mints EXCEPT ![i].poolstatus = 2]
    BY <1>3, <2>1 DEF FinishMint, SetMint
  <2> QED
    BY <1>2, <2>1, <2>2
<1>4. ASSUME NEW i \in Mints, NoContractFound(r, i) PROVE MintsServe'
  <2>1. pool_mints' = [pool_mints EXCEPT ![i].poolstatus = 4]
    BY <1>4 DEF NoContractFound, SetMint
  <2>2. 4 \in {2, 4} /\ 4 # 2
    OBVIOUS
  <2> QED
    BY <1>2, <1>4, <2>1, <2>2
<1>5. CASE StartCrawl(r) \/ FinishCrawl(r) \/ \E i \in Mints : FindContract(r, i)
  BY <1>1, <1>5 DEF StartCrawl, BeginCrawl, FinishCrawl, FindContract, Reads
<1>6. CASE MintStep(r) /\ ~FinishMint(r)
  BY <1>1, <1>6 DEF MintStep, FindWindow, ReadTotalDifficulty, AddTotal, FindMiners,
     FindMinersOf, FillRow, InsertZeroRow, ListRows, Reads
<1>7. CASE RowStep(r)
  BY <1>1, <1>7 DEF RowStep, RecheckRow, SumRow, NothingToShare, PoolTooPoor, MarkRewarded,
     AwardTokensForShares, SetRow, Reads
<1> QED
  BY <1>3, <1>4, <1>5, <1>6, <1>7 DEF CrawlStep, OpenMint

LEMMA CrawlRowsServe ==
    ASSUME ServeBasis, MiningInvariant', InTurn, [Next]_vars, CrawlsServe, RowsServe,
           NEW r \in CrawlRuns, CrawlStep(r)
    PROVE  RowsServe'
<1>0. MiningInvariant
  BY DEF ServeBasis
<1>1. ASSUME NEW q \in CrawlRuns, NEW i \in Rows, crawl[q].pc = "award", crawl[q].row = i
      PROVE  Served(miner_challengediff[i].miner, miner_challengediff[i].challenge)'
  BY <1>0, <1>1, AwardAlone, AwardServes
<1>2. CASE RowsGrow
  <2>1. \A i \in Rows' :
            \/ i \in Rows /\ miner_challengediff'[i].status = miner_challengediff[i].status
            \/ miner_challengediff'[i].status \in {1, 5}
    BY <1>2 DEF RowsGrow
  <2> QED
    BY <1>1, <2>1, RowsServeStay
<1>3. ASSUME NEW status \in {2, 3, 5}, Closes(r, status) PROVE RowsServe'
  <2>1. PICK i \in Rows :
            /\ i = crawl[r].row /\ Rows' = Rows
            /\ \A j \in Rows :
                /\ miner_challengediff'[j].miner = miner_challengediff[j].miner
                /\ miner_challengediff'[j].challenge = miner_challengediff[j].challenge
                /\ miner_challengediff'[j].status =
                        IF j = i THEN status ELSE miner_challengediff[j].status
    BY <1>0, <1>3, ClosesOpen
  <2>2. ASSUME status = 2
        PROVE  \E q \in CrawlRuns : crawl'[q].pc = "award" /\ crawl'[q].row = i
    <3>1. PICK new : GoesOn(r, new) /\ new.pc = "award" /\ new.row = crawl[r].row
      BY <1>3, <2>2, MarkServes DEF Closes
    <3>2. crawl'[r] = new
      BY <3>1, GoesOnServes
    <3> QED
      BY <2>1, <3>1, <3>2
  <2>3. ASSUME status = 3
        PROVE  /\ Settled(miner_challengediff[i].challenge)
               /\ ~InWindow(miner_challengediff[i].miner, miner_challengediff[i].challenge)
    BY <1>3, <2>1, <2>3, NothingServes DEF Closes
  <2>4. ASSUME NEW j \in Rows', NEW m, NEW c, m = miner_challengediff'[j].miner,
               c = miner_challengediff'[j].challenge
        PROVE  \/ j \in Rows /\ miner_challengediff'[j].status = miner_challengediff[j].status
               \/ miner_challengediff'[j].status \in {1, 5}
               \/ /\ miner_challengediff'[j].status = 2
                  /\ \E q \in CrawlRuns : crawl'[q].pc = "award" /\ crawl'[q].row = j
               \/ /\ miner_challengediff'[j].status = 3
                  /\ Settled(c) /\ ~InWindow(m, c)
    <3>1. CASE j # i
      BY <2>1, <2>4, <3>1
    <3>2. CASE j = i
      <4>1. miner_challengediff'[j].status = status
        BY <2>1, <3>2
      <4>2. m = miner_challengediff[i].miner /\ c = miner_challengediff[i].challenge
        BY <2>1, <2>4, <3>2
      <4> QED
        BY <2>2, <2>3, <3>2, <4>1, <4>2
    <3> QED
      BY <3>1, <3>2
  <2> QED
    BY <1>1, <2>4, RowsServeStay
<1> QED
  BY <1>0, <1>2, <1>3, CrawlWrites

LEMMA CrawlStepServes ==
    ASSUME ServeBasis, MiningInvariant', InTurn, [Next]_vars, Clean, Clean',
           CrawlsServe, RowsServe, NEW r \in CrawlRuns, CrawlStep(r)
    PROVE  CrawlsServe'
<1>1. ASSUME NEW new, GoesOn(r, new) PROVE CrawlsServe'
  BY <1>1, GoesOnServes
<1>2. CASE StartCrawl(r) \/ FinishCrawl(r) \/ \E i \in Mints : OpenMint(r, i)
  BY <1>1, <1>2, TurnServes DEF OpenMint, ServeBasis
<1>3. CASE MintStep(r)
  BY <1>1, <1>3, FindWindowServes, ReadTotalServes, FindMinersServes, FillRowServes,
     ZeroRowServes, ListRowsServes, TurnServes DEF MintStep, ServeBasis
<1>4. CASE RowStep(r) /\ ~PoolTooPoor(r)
  BY <1>1, <1>4, RecheckServes, SumRowServes, NothingServes, MarkServes, AwardServes
  DEF RowStep
<1>5. CASE PoolTooPoor(r)
  <2>1. Closes(r, 5)
    BY <1>5 DEF Closes, PoolTooPoor, Summed, SetRow, StatusWritten
  <2>2. PICK i \in Rows : Rows' = Rows /\ miner_challengediff'[i].status = 5
    BY <2>1, ClosesOpen DEF ServeBasis
  <2> QED
    BY <2>2 DEF Clean
<1> QED
  BY <1>2, <1>3, <1>4, <1>5 DEF CrawlStep

LEMMA ElsewhereServes ==
    ASSUME ServeBasis, MiningInvariant', InTurn, [Next]_vars, Elsewhere,
           CrawlsServe, RowsServe, MintsServe
    PROVE  (CrawlsServe /\ RowsServe /\ MintsServe)'
<1>1. ASSUME NEW r \in CrawlRuns
      PROVE  CrawlServes(crawl[r], pool_mints[crawl[r].mint].epoch)'
  <2>0. crawl'[r] = crawl[r] /\ crawl[r] \in CrawlState
    BY CrawlAtHand DEF Elsewhere, ServeBasis, MiningInvariant
  <2>1. CASE crawl[r].pc \in {"idle", "mint"}
    BY <2>0, <2>1 DEF CrawlServes, AtSums, AtRows
  <2>2. CASE crawl[r].pc \in Opened
    <3>1. PICK old, e : /\ old = crawl[r] /\ CrawlOK(old) /\ old.mint \in Mints
                        /\ e = pool_mints[old.mint].epoch /\ e \in Epochs /\ Settled(e)
                        /\ SumsFor(old, e) /\ CrawlServes(old, e) /\ old \in CrawlState
      BY <2>2, ServesAtHand
    <3>2. ASSUME old.pc = "sum"
          PROVE  old.row \in Rows /\ \A k \in 1..old.read : old.challenges[k] \in 1..e
      <4>1. PICK g \in [Nat -> Tally] : ChallengeSums(g, old.challenges, e)
        BY <3>1, <3>2 DEF SumsFor, AtSums
      <4>2. \A k \in 1..old.read : k \in 1..Len(old.challenges)
        <5>1. /\ old.read \in Nat /\ old.read <= Len(old.challenges)
              /\ Len(old.challenges) \in Nat
          BY <3>1 DEF CrawlOK, CrawlState
        <5> QED
          BY <5>1
      <4> QED
        BY <3>1, <3>2, <4>1, <4>2 DEF ChallengeSums, CrawlOK
    <3>3. old.rows \subseteq Rows
      BY <3>1 DEF CrawlOK
    <3>4. CrawlServes(old, e)'
      BY <3>1, <3>2, <3>3, StateServesStay
    <3>5. old = crawl'[r] /\ pool_mints'[old.mint].epoch = e
      BY <2>0, <3>1, AllKeep DEF MintsKeep, ServeBasis
    <3> QED
      BY <3>4, <3>5 DEF CrawlServes
  <2> QED
    BY <2>0, <2>1, <2>2 DEF CrawlState, Opened
<1>2. RowsServe'
  <2>1. \A i \in Rows' :
            \/ i \in Rows /\ miner_challengediff'[i].status = miner_challengediff[i].status
            \/ miner_challengediff'[i].status \in {1, 5}
    BY DEF Elsewhere, RowsGrow
  <2>2. \A r \in CrawlRuns : crawl'[r] = crawl[r]
    BY DEF Elsewhere
  <2> QED
    BY <2>1, <2>2, RowsServeStay
<1>3. MintsServe'
  BY MintsServeStay DEF Elsewhere
<1> QED
  BY <1>1, <1>2, <1>3 DEF CrawlsServe

LEMMA ServesGoOn ==
    ASSUME ServeBasis, MiningInvariant', InTurn, [Next]_vars, ServeInvariant
    PROVE  ServeInvariant'
<1> SUFFICES ASSUME Clean' PROVE (CrawlsServe /\ RowsServe /\ MintsServe)'
  BY DEF ServeInvariant
<1>1. Clean /\ CrawlsServe /\ RowsServe /\ MintsServe /\ MiningInvariant
  BY CleanBefore DEF ServeInvariant, ServeBasis
<1>2. ASSUME NEW r \in CrawlRuns, CrawlStep(r)
      PROVE  (CrawlsServe /\ RowsServe /\ MintsServe)'
  BY <1>1, <1>2, CrawlStepServes, CrawlRowsServe, CrawlMintsServe
<1>3. faults' = 0
  BY DEF Clean
<1> QED
  BY <1>1, <1>2, <1>3, ElsewhereServes, ServeShapes DEF RewardSide

LEMMA ServesStart == Init => RecordsWhole /\ TotalsRecorded /\ ServeInvariant
<1> SUFFICES ASSUME Init PROVE RecordsWhole /\ TotalsRecorded /\ ServeInvariant
  OBVIOUS
<1>1. IdleCrawl.pc = "idle" /\ IdleCollect.pc = "read"
  BY DEF IdleCrawl, IdleCollect
<1>2. CrawlsServe
  BY <1>1 DEF Init, RewardInit, CrawlsServe, CrawlServes, AtSums, AtRows
<1>3. RowsServe /\ MintsServe
  BY DEF Init, MiningInit, RewardInit, RowsServe, MintsServe, Rows, Mints
<1>4. RecordsWhole /\ TotalsRecorded
  BY <1>1, NoneAssumption DEF Init, MiningInit, CollectInit, RecordsWhole, TotalsRecorded
<1> QED
  BY <1>2, <1>3, <1>4 DEF ServeInvariant

(***************************************************************************)
(* Where also the epoch does not pass between the requests of a call of    *)
(* the collector, a mint that counts as shared out has given its part to   *)
(* every miner with a share in its window, as long as nothing has failed   *)
(* and the pool was rich enough: the miner's challenge is among those that *)
(* are added up, so it is found, gets a row of the block if it has none,   *)
(* and its sum is not empty when the turn of the row comes.                *)
(***************************************************************************)
THEOREM NobodyIsForgotten ==
    ASSUME Together = 1, ~LateShares
    PROVE  Spec /\ []InTurn /\ []Whole => []NobodyForgotten
<1> DEFINE Books == MiningInvariant /\ SumsInvariant /\ BooksInvariant
           Inv == CrawlsSum /\ RecordsWhole /\ TotalsRecorded /\ ServeInvariant
<1>1. Books /\ Books' /\ InTurn /\ Whole /\ [Next]_vars /\ Inv => Inv'
  BY CrawlsSumGoesOn, RecordsGoOn, ServesGoOn DEF ServeBasis
<1>2. Init => Inv
  BY SumsOfRewardsStart, ServesStart
<1>3. Books /\ Inv => NobodyForgotten
  <2> SUFFICES ASSUME Books, Inv, Clean,
                      NEW i \in Mints, NEW m \in Miners,
                      pool_mints[i].poolstatus = 2, InWindow(m, pool_mints[i].epoch)
               PROVE  \E k \in DOMAIN rewards :
                        /\ rewards[k].miner = m
                        /\ pool_mints[rewards[k].mint].epoch = pool_mints[i].epoch
    BY DEF NobodyForgotten, Clean
  <2>1. PICK e \in Epochs : e = pool_mints[i].epoch
    BY MintEpochs
  <2>2. PICK k \in DOMAIN rewards : rewards[k].miner = m /\ rewards[k].challenge = e
    BY <2>1 DEF ServeInvariant, MintsServe, AllServed, Served
  <2>3. rewards[k].mint \in Mints /\ Settling(rewards[k].mint, e)
    BY <2>2 DEF BooksInvariant, RewardsBook
  <2>4. pool_mints[rewards[k].mint].epoch = e
    BY <2>3, MintEpochs DEF Settling, RecordsWhole
  <2> QED
    BY <2>1, <2>2, <2>4
<1> QED
  BY <1>1, <1>2, <1>3, BooksHold, PTL DEF Spec

=============================================================================
