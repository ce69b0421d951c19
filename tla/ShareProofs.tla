---------------------------- MODULE ShareProofs -----------------------------
(***************************************************************************)
(* TotalCoversMiners, UsedAtMostOnce and NothingLost, for every value of   *)
(* the constants but one share processor at a time.  Most steps are Quiet: *)
(* they leave the sums alone.                                              *)
(***************************************************************************)
EXTENDS MiningProofs

(* One process at a time: the sums. *)

Single ==
    \A p, q \in Processors : proc[p].pc # "down" /\ proc[q].pc # "down" => p = q

(* Only a start wakes a process, and it finds no other one awake. *)
LEMMA SingleGoesOn ==
    ASSUME Together = 1, MiningInvariant, Single, [Next]_vars
    PROVE  Single'
<1>0. proc \in [Processors -> ProcessState]
  BY DEF MiningInvariant, ShareInvariant, ShareTypeOK
<1>1. ASSUME \A q \in Processors : proc'[q].pc # "down" => proc[q].pc # "down"
      PROVE  Single'
  BY <1>1 DEF Single
<1>2. ASSUME proc' = proc PROVE Single'
  BY <1>2 DEF Single
<1>3. ASSUME NEW p \in Processors, NEW new, proc[p].pc # "down",
             proc' = [proc EXCEPT ![p] = new]
      PROVE  Single'
  BY <1>0, <1>1, <1>3
<1>4. ASSUME NEW p \in Processors, Start(p) \/ StartWithoutRedis(p)
      PROVE  Single'
  <2>1. Cardinality(Running) < 1
    BY <1>4 DEF Start, StartWithoutRedis
  <2>2. ASSUME NEW q \in Processors, proc[q].pc # "down" PROVE FALSE
    <3>1. Running = {q}
      BY <2>2 DEF Running, Single
    <3> QED
      BY <2>1, <3>1, FS_Singleton
  <2>3. \E new : proc' = [proc EXCEPT ![p] = new]
    BY <1>4 DEF Start, StartWithoutRedis, SetProcess
  <2> QED
    BY <1>0, <2>2, <2>3 DEF Single
<1>5. ASSUME NEW p \in Processors, ProcessStep(p) PROVE Single'
  <2>1. CASE Start(p) \/ StartWithoutRedis(p)
    BY <1>4, <2>1
  <2>2. CASE ~Start(p) /\ ~StartWithoutRedis(p)
    <3>1. proc[p].pc # "down"
      BY <1>5, <2>2 DEF ProcessStep, LoopStep, HandleStep, Reclaim, ClaimStaleShares,
         Claim, ReadPendingShares, ReadShares, TakeFromList, CheckShare, Accept,
         FindDigest, InPace, TooFast, ReadTotal, WriteTotal, InsertPendingShare, FindRow,
         CreditMiner, WriteRow, QueueSolution, AckShare, Ack
    <3>2. \E new : proc' = [proc EXCEPT ![p] = new]
      BY <1>5, <2>2 DEF ProcessStep, LoopStep, HandleStep, Reclaim, ClaimStaleShares,
         Claim, ReadPendingShares, ReadShares, TakeFromList, CheckShare, Accept,
         FindDigest, InPace, TooFast, ReadTotal, WriteTotal, InsertPendingShare, FindRow,
         CreditMiner, WriteRow, QueueSolution, AckShare, Ack, Goto, SetProcess
    <3> QED
      BY <1>3, <3>1, <3>2
  <2> QED
    BY <2>1, <2>2
<1>6. ASSUME NEW p \in Processors, FailShare(p) \/ CrashProcess(p) PROVE Single'
  <2>1. /\ proc[p].pc # "down"
        /\ \E new : proc' = [proc EXCEPT ![p] = new]
    BY <1>6 DEF FailShare, CrashProcess, Running, SetProcess
  <2> QED
    BY <1>3, <2>1
<1>7. CASE Fault
  <2>1. \/ \E p \in Processors : FailShare(p) \/ CrashProcess(p)
        \/ UNCHANGED shareVars
    BY <1>7 DEF Fault
  <2> QED
    BY <1>2, <1>6, <2>1 DEF shareVars
<1>8. CASE ShareSide(WorkerStep) \/ ShareSide(CleanPendingShares)
  <2>1. proc' = proc
    BY <1>8 DEF ShareSide, WorkerStep, AddShare, AddShareToList, CleanPendingShares
  <2> QED
    BY <1>2, <2>1
<1>9. CASE \/ MineBlock \/ UNCHANGED vars
           \/ \E r \in CollectRuns : CollectSide(CollectStep(r))
           \/ \E r \in CrawlRuns : RewardSide(CrawlStep(r))
           \/ \E r \in InsertRuns : RewardSide(ScanStep(r))
  <2>1. proc' = proc
    BY <1>9 DEF MineBlock, vars, CollectSide, RewardSide, shareVars
  <2> QED
    BY <1>2, <2>1
<1> QED
  BY <1>5, <1>7, <1>8, <1>9 DEF Next, ShareSide

\* What a tally holds for a challenge is in the pool's total for it.
Covered(tally, c) ==
    \A s \in Shares :
        tally[s] > 0 =>
            /\ totaldiff_challengenumber[c] # None
            /\ tally[s] <= totaldiff_challengenumber[c][s]

RowsCovered ==
    \A i \in Rows : Covered(miner_challengediff[i].totaldiff, miner_challengediff[i].challenge)

\* A miner's row has the miner's own shares.
Own(tally, m) == \A s \in Shares : tally[s] > 0 => MinerOf[s] = m

RowsOwn == \A i \in Rows : Own(miner_challengediff[i].totaldiff, miner_challengediff[i].miner)

\* What a process has read of the first row of a miner for a challenge is still in it.
RowRead(row, mine, m, c) ==
    \/ row = 0 /\ mine = NoShares
    \/ /\ row \in Rows
       /\ miner_challengediff[row].miner = m
       /\ miner_challengediff[row].challenge = c
       /\ miner_challengediff[row].totaldiff = mine
       /\ \A j \in Rows :
            miner_challengediff[j].miner = m /\ miner_challengediff[j].challenge = c
                => row <= j

\* A process about to write the total knows it; after that no row of the challenge has
\* as much of the share as the total has.
Ahead(tally, c, s) ==
    /\ totaldiff_challengenumber[c] # None
    /\ tally[s] < totaldiff_challengenumber[c][s]

ProcessSums(state) ==
    /\ state.pc = "write" => totaldiff_challengenumber[state.challenge] = state.total
    /\ state.pc \in InTotal =>
        /\ Ahead(NoShares, state.challenge, state.share)
        /\ \A i \in Rows :
            miner_challengediff[i].challenge = state.challenge =>
                Ahead(miner_challengediff[i].totaldiff, state.challenge, state.share)
    /\ state.pc \in {"insert", "credit"} =>
        RowRead(state.row, state.mine, MinerOf[state.share], state.challenge)

ProcessesSum == \A p \in Processors : ProcessSums(proc[p])

SumsInvariant ==
    /\ Single
    /\ RowsCovered
    /\ RowsOwn
    /\ ProcessesSum

(* What the sums are. *)
LEMMA SumTypes ==
    ASSUME MiningInvariant
    PROVE  /\ \A i \in Rows : /\ miner_challengediff[i].miner \in Miners
                              /\ miner_challengediff[i].challenge \in Epochs
                              /\ miner_challengediff[i].totaldiff \in Tally
           /\ \A c \in Epochs : totaldiff_challengenumber[c] # None =>
                /\ totaldiff_challengenumber[c] \in Tally
                /\ \A s \in Shares : totaldiff_challengenumber[c][s] \in Nat
           /\ Rows \subseteq Nat
           /\ MiningTypeOK
<1>1. MiningTypeOK
  BY DEF MiningInvariant, ShareInvariant, CollectorInvariant
<1>2. \A i \in Rows : miner_challengediff[i] \in ChallengeDiff
  BY <1>1 DEF MiningTypeOK, Rows
<1>3. \A i \in Rows : /\ miner_challengediff[i].miner \in Miners
                      /\ miner_challengediff[i].challenge \in Epochs
                      /\ miner_challengediff[i].totaldiff \in Tally
  BY <1>2 DEF ChallengeDiff
<1>4. \A c \in Epochs : totaldiff_challengenumber[c] # None =>
        totaldiff_challengenumber[c] \in Tally
  BY <1>1 DEF MiningTypeOK
<1>5. Rows \subseteq Nat
  BY <1>1 DEF MiningTypeOK, Rows
<1> QED
  BY <1>1, <1>3, <1>4, <1>5 DEF Tally

(* Totals that stay cover what they covered. *)
LEMMA CoverStays ==
    ASSUME TotalsKeep, NEW tally, NEW c \in Epochs
    PROVE  /\ Covered(tally, c) => Covered(tally, c)'
           /\ \A s \in Shares : Ahead(tally, c, s) => Ahead(tally, c, s)'
BY DEF TotalsKeep, Covered, Ahead

(* What a process knows of the sums stays true while they stay, so that a step that only
   moves processes is good for the sums when what the processes know then is true now. *)
LEMMA SumsStay ==
    ASSUME MiningInvariant, MiningInvariant', SumsInvariant, Single',
           TalliesKeep, TotalsKeep,
           \A q \in Processors : proc'[q] = proc[q] \/ ProcessSums(proc'[q])
    PROVE  SumsInvariant'
<1>1. \A i \in Rows' \ Rows : miner_challengediff'[i].totaldiff = NoShares
  BY DEF TalliesKeep
<1>2. \A s \in Shares : ~(NoShares[s] > 0)
  BY TallyTypes
<1>3. RowsCovered'
  <2>1. ASSUME NEW i \in Rows
        PROVE  Covered(miner_challengediff[i].totaldiff, miner_challengediff[i].challenge)'
    <3>1. Covered(miner_challengediff[i].totaldiff, miner_challengediff[i].challenge)
      BY DEF SumsInvariant, RowsCovered
    <3>2. PICK tally, c : /\ tally = miner_challengediff[i].totaldiff
                          /\ c = miner_challengediff[i].challenge
      OBVIOUS
    <3>3. c \in Epochs
      BY <3>2, SumTypes
    <3>4. Covered(tally, c)'
      BY <3>1, <3>2, <3>3, CoverStays
    <3> QED
      BY <3>2, <3>4 DEF TalliesKeep, Covered
  <2>2. ASSUME NEW i \in Rows' \ Rows
        PROVE  Covered(miner_challengediff[i].totaldiff, miner_challengediff[i].challenge)'
    BY <1>1, <1>2 DEF Covered
  <2> QED
    BY <2>1, <2>2 DEF RowsCovered
<1>4. RowsOwn'
  BY <1>1, <1>2 DEF SumsInvariant, RowsOwn, Own, TalliesKeep
<1>5. ASSUME NEW q \in Processors PROVE ProcessSums(proc[q])'
  <2>1. PICK state : state = proc'[q]
    OBVIOUS
  <2>2. ProcessSums(state)
    BY <2>1 DEF SumsInvariant, ProcessesSum
  <2>3. CASE state.pc \notin AtWork
    <3>1. ProcessSums(state)'
      BY <2>3 DEF ProcessSums, AtWork, AtShare, InTotal
    <3> QED
      BY <2>1, <3>1
  <2>4. CASE state.pc \in AtWork
    <3>2. /\ ProcessSums(state) /\ state.challenge \in Epochs /\ state.share \in Shares
          /\ state.total \in Tally
      BY <2>1, <2>2, <2>4 DEF MiningInvariant, ShareInvariant, ShareTypeOK, ProcessesOK,
         ProcessOK, ProcessState, AtWork
    <3>3. ASSUME state.pc = "write"
          PROVE  totaldiff_challengenumber'[state.challenge] = state.total
      BY <3>2, <3>3, TallyTypes DEF ProcessSums, TotalsKeep
    <3>4. ASSUME state.pc \in InTotal
          PROVE  /\ Ahead(NoShares, state.challenge, state.share)'
                 /\ \A i \in Rows' :
                     miner_challengediff'[i].challenge = state.challenge =>
                         Ahead(miner_challengediff[i].totaldiff, state.challenge, state.share)'
      <4>1. Ahead(NoShares, state.challenge, state.share)'
        BY <3>2, <3>4, CoverStays DEF ProcessSums
      <4>2. ASSUME NEW i \in Rows, miner_challengediff'[i].challenge = state.challenge
            PROVE  Ahead(miner_challengediff[i].totaldiff, state.challenge, state.share)'
        <5>1. PICK tally : tally = miner_challengediff[i].totaldiff
          OBVIOUS
        <5>2. Ahead(tally, state.challenge, state.share)
          BY <3>2, <3>4, <4>2, <5>1 DEF ProcessSums, TalliesKeep
        <5>3. Ahead(tally, state.challenge, state.share)'
          BY <3>2, <5>2, CoverStays
        <5> QED
          BY <5>1, <5>3 DEF Ahead, TalliesKeep
      <4>3. ASSUME NEW i \in Rows' \ Rows
            PROVE  Ahead(miner_challengediff[i].totaldiff, state.challenge, state.share)'
        BY <1>1, <4>1 DEF Ahead
      <4> QED
        BY <4>1, <4>2, <4>3
    <3>5. ASSUME state.pc \in {"insert", "credit"}
          PROVE  RowRead(state.row, state.mine, MinerOf[state.share], state.challenge)'
      <4>1. RowRead(state.row, state.mine, MinerOf[state.share], state.challenge)
        BY <3>2, <3>5 DEF ProcessSums
      <4>2. /\ Rows \subseteq Rows' /\ state.row \in Nat /\ Rows' \subseteq Nat
            /\ \A i \in Rows :
                /\ miner_challengediff'[i].miner = miner_challengediff[i].miner
                /\ miner_challengediff'[i].challenge = miner_challengediff[i].challenge
                /\ miner_challengediff'[i].totaldiff = miner_challengediff[i].totaldiff
            /\ \A i \in Rows' \ Rows : \A j \in Rows : j < i
        BY <2>1, SumTypes
        DEF TalliesKeep, MiningInvariant, ShareInvariant, CollectorInvariant, MiningTypeOK,
            Rows, ShareTypeOK, ProcessState
      <4> QED
        BY <4>1, <4>2 DEF RowRead
    <3>6. ProcessSums(state)'
      BY <3>3, <3>4, <3>5 DEF ProcessSums
    <3> QED
      BY <2>1, <3>6
  <2> QED
    BY <2>3, <2>4
<1> QED
  BY <1>3, <1>4, <1>5 DEF SumsInvariant, ProcessesSum

(* A step that moves one process and leaves rows and totals. *)
LEMMA OneProcessSums ==
    ASSUME MiningInvariant, MiningInvariant', SumsInvariant, Single',
           miner_challengediff' = miner_challengediff,
           totaldiff_challengenumber' = totaldiff_challengenumber,
           NEW p \in Processors, NEW new, proc' = [proc EXCEPT ![p] = new],
           ProcessSums(new)
    PROVE  SumsInvariant'
<1>1. \A q \in Processors : proc'[q] = proc[q] \/ ProcessSums(proc'[q])
  BY DEF MiningInvariant, ShareInvariant, ShareTypeOK
<1> QED
  BY <1>1, SumsStay, TalliesStay, TotalsStay

LEMMA QuietSums ==
    ASSUME MiningInvariant, MiningInvariant', SumsInvariant, Single', Quiet \/ Forgets
    PROVE  SumsInvariant'
<1>1. CASE Quiet
  <2>1. \A q \in Processors : proc'[q].pc \notin AtWork => ProcessSums(proc'[q])
    BY DEF ProcessSums, AtWork, AtShare, InTotal
  <2> QED
    BY <1>1, <2>1, SumsStay DEF Quiet, ProcessesRest
<1>2. CASE Forgets
  <2>1. /\ miner_challengediff' = miner_challengediff /\ proc' = proc
        /\ totaldiff_challengenumber' = totaldiff_challengenumber
    BY <1>2 DEF Forgets, CleanPendingShares, miningVars
  <2> QED
    BY <2>1, SumsStay, TalliesStay, TotalsStay
<1> QED
  BY <1>1, <1>2

(* The steps that read and look. *)
LEMMA LookSums ==
    ASSUME MiningInvariant, MiningInvariant', SumsInvariant, Single',
           NEW p \in Processors,
           \/ CheckShare(p) \/ FindDigest(p) \/ InPace(p) \/ ReadTotal(p)
           \/ InsertPendingShare(p) \/ FindRow(p) \/ QueueSolution(p)
    PROVE  SumsInvariant'
<1> DEFINE old == proc[p]
<1>0. old \in ProcessState /\ ProcessSums(old)
  BY AtHand DEF MiningInvariant, SumsInvariant, ProcessesSum
<1>1. ASSUME NEW pc, pc \notin InTotal \cup {"write"},
             SetProcess(p, [old EXCEPT !.pc = pc])
      PROVE  SumsInvariant'
  <2> DEFINE new == [old EXCEPT !.pc = pc]
  <2>1. new.pc = pc
    BY <1>0 DEF ProcessState
  <2> HIDE DEF new
  <2>2. ProcessSums(new)
    BY <1>1, <2>1 DEF ProcessSums, InTotal
  <2> QED
    BY <1>1, <2>2, OneProcessSums DEF SetProcess, miningVars, new
<1>2. CASE CheckShare(p)
  <2> DEFINE new == IF EpochOf[old.share] = miningContractData.blob
                    THEN [old EXCEPT !.pc = "find",
                                     !.challenge = miningContractData.challenge]
                    ELSE [old EXCEPT !.pc = "ack"]
  <2>1. SetProcess(p, new)
    BY <1>2 DEF CheckShare, Accept
  <2>2. new.pc \in {"find", "ack"}
    BY <1>0 DEF ProcessState
  <2> HIDE DEF new
  <2>3. ProcessSums(new)
    BY <2>2 DEF ProcessSums, InTotal
  <2> QED
    BY <2>1, <2>3, OneProcessSums DEF SetProcess, miningVars
<1>3. CASE FindDigest(p)
  <2>1. PICK pc \in {"ack", "pace"} : SetProcess(p, [old EXCEPT !.pc = pc])
    BY <1>3 DEF FindDigest, Goto
  <2> QED
    BY <1>1, <2>1 DEF InTotal
<1>4. CASE InPace(p) \/ QueueSolution(p)
  <2>1. PICK pc \in {"ack", "total"} : SetProcess(p, [old EXCEPT !.pc = pc])
    BY <1>4 DEF InPace, QueueSolution, Goto
  <2> QED
    BY <1>1, <2>1 DEF InTotal
<1>5. CASE ReadTotal(p)
  <2> DEFINE total == totaldiff_challengenumber[old.challenge]
             new == [old EXCEPT !.pc = "write", !.total = total]
  <2>1. CASE total = None
    BY <1>1, <1>5, <2>1 DEF ReadTotal, InTotal
  <2>2. CASE total # None
    <3>1. SetProcess(p, new)
      BY <1>5, <2>2 DEF ReadTotal
    <3>2. new.pc = "write" /\ new.total = total /\ new.challenge = old.challenge
      BY <1>0 DEF ProcessState
    <3> HIDE DEF new
    <3>3. ProcessSums(new)
      BY <3>2 DEF ProcessSums, InTotal
    <3> QED
      BY <3>1, <3>3, OneProcessSums DEF SetProcess, miningVars
  <2> QED
    BY <2>1, <2>2
<1>6. CASE InsertPendingShare(p)
  <2> DEFINE pc == IF old.pc = "both" THEN "row" ELSE "credit"
             new == [old EXCEPT !.pc = pc]
  <2>1. SetProcess(p, new) /\ old.pc \in {"both", "insert"}
    BY <1>6 DEF InsertPendingShare, Goto
  <2>2. /\ new.pc = pc /\ new.challenge = old.challenge /\ new.share = old.share
        /\ new.mine = old.mine /\ new.row = old.row
    BY <1>0 DEF ProcessState
  <2> HIDE DEF new
  <2>3. ProcessSums(new)
    BY <1>0, <2>1, <2>2 DEF ProcessSums, InTotal
  <2> QED
    BY <2>1, <2>3, OneProcessSums DEF SetProcess, miningVars
<1>7. CASE FindRow(p)
  <2> DEFINE m == MinerOf[old.share]
             c == old.challenge
             rows == RowsOf(m, c)
             pc == IF old.pc = "both" THEN "insert" ELSE "credit"
             row == IF rows = {} THEN 0 ELSE FirstOf(rows)
             mine == IF rows = {} THEN NoShares
                     ELSE miner_challengediff[FirstOf(rows)].totaldiff
             new == [old EXCEPT !.pc = pc, !.row = row, !.mine = mine]
  <2>1. SetProcess(p, new) /\ old.pc \in {"both", "row"}
    BY <1>7 DEF FindRow
  <2>2. /\ new.pc = pc /\ new.challenge = old.challenge /\ new.share = old.share
        /\ new.mine = mine /\ new.row = row
    BY <1>0 DEF ProcessState
  <2>3. RowRead(row, mine, m, c)
    BY RowsOfTypes, SumTypes DEF RowRead, RowsOf
  <2> HIDE DEF new, mine, row
  <2>4. ProcessSums(new)
    BY <1>0, <2>1, <2>2, <2>3 DEF ProcessSums, InTotal
  <2> QED
    BY <2>1, <2>4, OneProcessSums DEF SetProcess, miningVars
<1> QED
  BY <1>2, <1>3, <1>4, <1>5, <1>6, <1>7

(* While one process is at a share the others are down. *)
LEMMA OthersDown ==
    ASSUME MiningInvariant, Single, NEW p \in Processors, proc[p].pc # "down",
           NEW new, proc' = [proc EXCEPT ![p] = new]
    PROVE  /\ proc'[p] = new
           /\ \A q \in Processors : q # p => proc'[q] = proc[q] /\ proc[q].pc = "down"
BY DEF Single, MiningInvariant, ShareInvariant, ShareTypeOK

LEMMA WriteTotalSums ==
    ASSUME MiningInvariant, MiningInvariant', SumsInvariant, Single',
           NEW p \in Processors, WriteTotal(p)
    PROVE  SumsInvariant'
<1>0. PICK old \in ProcessState, s \in Shares, c \in Epochs, total \in Tally :
        /\ old = proc[p] /\ s = old.share /\ c = old.challenge /\ total = old.total
  BY AtHand DEF MiningInvariant, WriteTotal, AtWork, AtShare
<1> DEFINE sum == PlusShare(total, s)
           new == [old EXCEPT !.pc = "both"]
<1>1. /\ ProcessSums(old) /\ old.pc = "write"
      /\ total = totaldiff_challengenumber[c] /\ total # None
  BY <1>0, TallyTypes DEF SumsInvariant, ProcessesSum, WriteTotal, ProcessSums
<1>2. /\ proc' = [proc EXCEPT ![p] = new]
      /\ miner_challengediff' = miner_challengediff
      /\ totaldiff_challengenumber' = [totaldiff_challengenumber EXCEPT ![c] = sum]
  BY <1>0 DEF WriteTotal
<1>3. /\ new.pc = "both" /\ new.challenge = c /\ new.share = s
  BY <1>0 DEF ProcessState
<1>4. sum \in Tally /\ sum # None /\ sum[s] = total[s] + 1
      /\ \A z \in Shares : total[z] \in Nat /\ total[z] <= sum[z]
  <2>1. \A z \in Shares : total[z] \in Nat
    BY <1>1 DEF Tally
  <2>2. sum \in Tally /\ sum # None /\ sum[s] = total[s] + 1
        /\ \A z \in Shares : z # s => sum[z] = total[z]
    BY <1>0, <1>1, TallyTypes
  <2> HIDE DEF sum
  <2> QED
    BY <1>0, <2>1, <2>2
<1>5. /\ totaldiff_challengenumber'[c] = sum
      /\ \A d \in Epochs : d # c => totaldiff_challengenumber'[d] = totaldiff_challengenumber[d]
  BY <1>0, <1>2 DEF MiningInvariant, ShareInvariant, CollectorInvariant, MiningTypeOK
<1>6. ASSUME NEW tally \in Tally, NEW d \in Epochs, Covered(tally, d)
      PROVE  /\ Covered(tally, d)'
             /\ d = c => Ahead(tally, c, s)'
  <2>1. CASE d # c
    BY <1>5, <1>6, <2>1 DEF Covered
  <2>2. CASE d = c
    <3>1. \A z \in Shares : tally[z] \in Nat
      BY DEF Tally
    <3>2. ASSUME NEW z \in Shares, tally[z] > 0 PROVE tally[z] <= total[z]
      BY <1>1, <1>6, <2>2, <3>2 DEF Covered
    <3>3. ASSUME NEW z \in Shares PROVE tally[z] <= sum[z]
      <4>1. tally[z] \in Nat /\ total[z] \in Nat /\ total[z] <= sum[z] /\ sum[z] \in Nat
        BY <1>4, <3>1 DEF Tally
      <4> HIDE DEF sum
      <4> QED
        BY <3>2, <4>1
    <3>4. tally[s] < sum[s]
      <4>1. tally[s] \in Nat /\ total[s] \in Nat
        BY <1>0, <1>4, <3>1
      <4> HIDE DEF sum
      <4> QED
        BY <1>0, <1>4, <3>2, <4>1
    <3> HIDE DEF sum
    <3> QED
      BY <1>4, <1>5, <2>2, <3>3, <3>4 DEF Covered, Ahead
  <2> QED
    BY <2>1, <2>2
<1> HIDE DEF sum, new
<1>7. \A i \in Rows :
        /\ miner_challengediff[i].totaldiff \in Tally
        /\ miner_challengediff[i].challenge \in Epochs
        /\ Covered(miner_challengediff[i].totaldiff, miner_challengediff[i].challenge)
  BY SumTypes DEF SumsInvariant, RowsCovered
<1>8. ASSUME NEW i \in Rows
      PROVE  /\ Covered(miner_challengediff[i].totaldiff, miner_challengediff[i].challenge)'
             /\ miner_challengediff[i].challenge = c =>
                    Ahead(miner_challengediff[i].totaldiff, c, s)'
  <2>1. PICK tally \in Tally, d \in Epochs : /\ tally = miner_challengediff[i].totaldiff
                                             /\ d = miner_challengediff[i].challenge
    BY <1>7
  <2>2. Covered(tally, d)
    BY <1>7, <2>1
  <2>3. Covered(tally, d)' /\ (d = c => Ahead(tally, c, s)')
    BY <1>6, <2>2
  <2> QED
    BY <1>2, <2>1, <2>3 DEF Covered, Ahead
<1>9. RowsCovered' /\ RowsOwn'
  BY <1>2, <1>8 DEF RowsCovered, RowsOwn, Own, Rows, SumsInvariant
<1>10. Ahead(NoShares, c, s)'
  <2>1. Covered(NoShares, c) /\ NoShares \in Tally
    BY TallyTypes DEF Covered
  <2> QED
    BY <1>0, <1>6, <2>1
<1>11. ASSUME NEW q \in Processors PROVE ProcessSums(proc[q])'
  <2>1. CASE q # p
    <3>1. proc'[q].pc = "down"
      BY <1>0, <1>1, <1>2, <2>1, OthersDown DEF SumsInvariant
    <3> QED
      BY <3>1 DEF ProcessSums, InTotal
  <2>2. CASE q = p
    <3>1. proc'[q].pc = "both" /\ proc'[q].challenge = c /\ proc'[q].share = s
      BY <1>0, <1>1, <1>2, <1>3, <2>2, OthersDown DEF SumsInvariant
    <3>2. \A i \in Rows' : miner_challengediff'[i].challenge = c =>
                Ahead(miner_challengediff[i].totaldiff, c, s)'
      BY <1>2, <1>8 DEF Rows
    <3> QED
      BY <1>10, <3>1, <3>2 DEF ProcessSums, InTotal
  <2> QED
    BY <2>1, <2>2
<1> QED
  BY <1>9, <1>11 DEF SumsInvariant, ProcessesSum

\* The credit of a share: one row, a new one or the one that was read, has it now.
Credited(k, s, c, mine) ==
    /\ Rows' = Rows \cup {k}
    /\ miner_challengediff'[k].miner = MinerOf[s]
    /\ miner_challengediff'[k].challenge = c
    /\ miner_challengediff'[k].totaldiff = PlusShare(mine, s)
    /\ \A i \in Rows \ {k} :
        /\ miner_challengediff'[i].miner = miner_challengediff[i].miner
        /\ miner_challengediff'[i].challenge = miner_challengediff[i].challenge
        /\ miner_challengediff'[i].totaldiff = miner_challengediff[i].totaldiff
    /\ k \in Rows =>
        /\ miner_challengediff[k].miner = MinerOf[s]
        /\ miner_challengediff[k].challenge = c
        /\ miner_challengediff[k].totaldiff = mine
    /\ k \notin Rows => mine = NoShares

LEMMA CreditWrites ==
    ASSUME MiningInvariant, NEW p \in Processors, ProcessSums(proc[p]), CreditMiner(p)
    PROVE  \E k \in Nat, s \in Shares, c \in Epochs, mine \in Tally :
            /\ s = proc[p].share /\ c = proc[p].challenge /\ mine = proc[p].mine
            /\ Credited(k, s, c, mine)
            /\ k \notin Rows => RowsOf(MinerOf[s], c) = {} \/ proc[p].row = 0
<1>0. PICK s \in Shares, c \in Epochs, mine \in Tally, m \in Miners, row \in Nat :
        /\ s = proc[p].share /\ c = proc[p].challenge /\ mine = proc[p].mine
        /\ m = MinerOf[s] /\ row = proc[p].row
  BY AtHand DEF MiningInvariant, CreditMiner, WriteRow, AtWork, AtShare, ProcessState
<1> DEFINE tally == PlusShare(mine, s)
           i == FirstOf(RowsOf(m, c))
<1>1. /\ proc[p].pc = "credit"
      /\ miner_challengediff' =
            IF row = 0 THEN Append(miner_challengediff, NewRow(m, c, tally))
            ELSE [miner_challengediff EXCEPT ![i].totaldiff = tally]
  BY <1>0 DEF CreditMiner, WriteRow
<1>2. tally \in Tally /\ MiningTypeOK /\ RowRead(row, mine, m, c)
  BY <1>0, <1>1, TallyTypes, SumTypes DEF ProcessSums
<1> HIDE DEF tally, i
<1>3. CASE row = 0
  <2> DEFINE k == Len(miner_challengediff) + 1
             new == NewRow(m, c, tally)
  <2>1. /\ new \in ChallengeDiff /\ new.status = 1 /\ new.miner = m /\ new.challenge = c
        /\ new.totaldiff = tally
    BY <1>2, RowTypes
  <2>2. k \in Nat
    BY <1>2 DEF MiningTypeOK
  <2>3. miner_challengediff' = Append(miner_challengediff, new)
    BY <1>1, <1>3
  <2> HIDE DEF new
  <2>4. /\ Rows' = Rows \cup {k} /\ k \notin Rows
        /\ miner_challengediff'[k] = new
        /\ \A j \in Rows : miner_challengediff'[j] = miner_challengediff[j]
    BY <1>2, <2>1, <2>3, RowIsAppended
  <2>5. mine = NoShares
    BY <1>2, <1>3 DEF RowRead, MiningTypeOK, Rows
  <2> HIDE DEF k
  <2>6. Credited(k, s, c, mine)
    BY <1>0, <2>1, <2>4, <2>5 DEF Credited, tally
  <2> QED
    BY <1>0, <1>3, <2>2, <2>6
<1>4. CASE row # 0
  <2>1. /\ row \in RowsOf(m, c) /\ row \in Rows
        /\ miner_challengediff[row].miner = m
        /\ miner_challengediff[row].challenge = c
        /\ miner_challengediff[row].totaldiff = mine
        /\ \A j \in RowsOf(m, c) : row <= j
    BY <1>2, <1>4 DEF RowRead, RowsOf
  <2>2. i \in RowsOf(m, c) /\ i \in Nat /\ \A j \in RowsOf(m, c) : i <= j
    BY <1>2, <2>1, RowsOfTypes DEF i
  <2>3. i = row
    BY <2>1, <2>2
  <2>4. TotalWritten(row, tally)
    BY <1>1, <1>4, <2>3 DEF TotalWritten
  <2>5. /\ Rows' = Rows
        /\ \A j \in Rows :
                /\ miner_challengediff'[j].miner = miner_challengediff[j].miner
                /\ miner_challengediff'[j].challenge = miner_challengediff[j].challenge
                /\ miner_challengediff'[j].totaldiff =
                        IF j = row THEN tally ELSE miner_challengediff[j].totaldiff
    BY <1>2, <2>4, TotalIsWritten
  <2>6. Credited(row, s, c, mine)
    BY <1>0, <2>1, <2>5 DEF Credited, tally
  <2> QED
    BY <1>0, <2>1, <2>6
<1> QED
  BY <1>3, <1>4

LEMMA CreditSums ==
    ASSUME MiningInvariant, MiningInvariant', SumsInvariant, Single',
           NEW p \in Processors, CreditMiner(p)
    PROVE  SumsInvariant'
<1>0. ProcessSums(proc[p]) /\ proc[p] \in ProcessState /\ proc[p].pc = "credit"
  BY AtHand DEF MiningInvariant, SumsInvariant, ProcessesSum, CreditMiner, WriteRow
<1>1. PICK k \in Nat, s \in Shares, c \in Epochs, mine \in Tally :
        /\ s = proc[p].share /\ c = proc[p].challenge /\ mine = proc[p].mine
        /\ Credited(k, s, c, mine)
  BY <1>0, CreditWrites
<1> DEFINE tally == PlusShare(mine, s)
<1>2. totaldiff_challengenumber' = totaldiff_challengenumber
  BY DEF CreditMiner, WriteRow
<1>3. /\ totaldiff_challengenumber[c] # None /\ totaldiff_challengenumber[c] \in Tally
      /\ 0 < totaldiff_challengenumber[c][s]
      /\ \A i \in Rows : miner_challengediff[i].challenge = c =>
            miner_challengediff[i].totaldiff[s] < totaldiff_challengenumber[c][s]
  BY <1>0, <1>1, SumTypes, TallyTypes DEF ProcessSums, InTotal, Ahead
<1>4. /\ tally \in Tally /\ tally[s] = mine[s] + 1
      /\ \A z \in Shares : z # s => tally[z] = mine[z]
  BY TallyTypes
<1> HIDE DEF tally
<1>5. mine[s] < totaldiff_challengenumber[c][s]
  BY <1>1, <1>3, TallyTypes DEF Credited
<1>6. Covered(mine, c) /\ Own(mine, MinerOf[s])
  <2>1. CASE k \in Rows
    BY <1>1, <2>1 DEF Credited, SumsInvariant, RowsCovered, RowsOwn
  <2>2. CASE k \notin Rows
    BY <1>1, <2>2, TallyTypes DEF Credited, Covered, Own
  <2> QED
    BY <2>1, <2>2
<1>7. Covered(tally, c) /\ Own(tally, MinerOf[s])
  <2>1. \A z \in Shares : mine[z] \in Nat /\ totaldiff_challengenumber[c][z] \in Nat
    BY <1>3 DEF Tally
  <2>2. tally[s] <= totaldiff_challengenumber[c][s]
    BY <1>4, <1>5, <2>1
  <2>3. Covered(tally, c)
    BY <1>3, <1>4, <1>6, <2>2 DEF Covered
  <2>4. Own(tally, MinerOf[s])
    BY <1>4, <1>6 DEF Own
  <2> QED
    BY <2>3, <2>4
<1>8. RowsCovered' /\ RowsOwn'
  <2>1. ASSUME NEW i \in Rows'
        PROVE  /\ Covered(miner_challengediff[i].totaldiff, miner_challengediff[i].challenge)'
               /\ Own(miner_challengediff[i].totaldiff, miner_challengediff[i].miner)'
    <3>1. CASE i = k
      BY <1>1, <1>2, <1>7, <3>1 DEF Credited, Covered, Own, tally
    <3>2. CASE i # k
      <4>1. /\ i \in Rows
            /\ Covered(miner_challengediff[i].totaldiff, miner_challengediff[i].challenge)
            /\ Own(miner_challengediff[i].totaldiff, miner_challengediff[i].miner)
        BY <1>1, <3>2 DEF Credited, SumsInvariant, RowsCovered, RowsOwn
      <4> QED
        BY <1>1, <1>2, <3>2, <4>1 DEF Credited, Covered, Own
    <3> QED
      BY <3>1, <3>2
  <2> QED
    BY <2>1 DEF RowsCovered, RowsOwn
<1>9. \A q \in Processors : proc'[q].pc \notin InTotal \cup {"write"}
  <2> DEFINE new == [proc[p] EXCEPT !.pc = IF proc[p].share \in Solvers THEN "queue" ELSE "ack"]
  <2>1. proc' = [proc EXCEPT ![p] = new]
    BY DEF CreditMiner, WriteRow
  <2>2. new.pc \in {"queue", "ack"}
    BY <1>0 DEF ProcessState
  <2> HIDE DEF new
  <2>3. /\ proc'[p] = new
        /\ \A q \in Processors : q # p => proc'[q].pc = "down"
    BY <1>0, <2>1, OthersDown DEF SumsInvariant
  <2> QED
    BY <2>2, <2>3 DEF InTotal
<1>10. ProcessesSum'
  BY <1>9 DEF ProcessesSum, ProcessSums, InTotal
<1> QED
  BY <1>8, <1>10 DEF SumsInvariant

LEMMA SumsStart == Init => SumsInvariant
BY DEF Init, MiningInit, ShareInit, SumsInvariant, Single, RowsCovered, RowsOwn,
   ProcessesSum, ProcessSums, InTotal, Rows, Down, Waiting

LEMMA SumsGoOn ==
    ASSUME Together = 1, MiningInvariant, MiningInvariant', SumsInvariant, [Next]_vars
    PROVE  SumsInvariant'
<1>1. Single'
  BY SingleGoesOn DEF SumsInvariant
<1> QED
  BY <1>1, StepShapes, QuietSums, LookSums, WriteTotalSums, CreditSums DEF CountStep

LEMMA SumsInvariantHolds ==
    ASSUME Together = 1
    PROVE  Spec => [](MiningInvariant /\ SumsInvariant)
<1>1. /\ MiningInvariant /\ SumsInvariant /\ [Next]_vars
            => (MiningInvariant /\ SumsInvariant)'
  BY MiningGoesOn, SumsGoOn
<1> QED
  BY <1>1, MiningStarts, SumsStart, PTL DEF Spec

(***************************************************************************)
(* As long as the deployment runs one share processor, the pool's total    *)
(* for a challenge has every share some miner is credited with for it:     *)
(* whatever fails or dies between the two writes, and whatever the crawls  *)
(* do to the rows meanwhile, the miners never share out more than the      *)
(* whole.                                                                  *)
(***************************************************************************)
THEOREM TotalIsEnough ==
    ASSUME Together = 1
    PROVE  Spec => []TotalCoversMiners
<1>1. MiningInvariant /\ SumsInvariant => TotalCoversMiners
  <2> SUFFICES ASSUME MiningInvariant, SumsInvariant, NEW i \in Rows, NEW s \in Shares,
                      InRow(s, i)
               PROVE  LET total == totaldiff_challengenumber[miner_challengediff[i].challenge]
                      IN  total # None /\ total[s] > 0
    BY DEF TotalCoversMiners
  <2> DEFINE c == miner_challengediff[i].challenge
             tally == miner_challengediff[i].totaldiff
             total == totaldiff_challengenumber[c]
  <2>1. Covered(tally, c) /\ tally \in Tally /\ c \in Epochs /\ tally[s] > 0
    BY SumTypes DEF SumsInvariant, RowsCovered, InRow
  <2>2. total # None /\ tally[s] <= total[s] /\ tally[s] \in Nat
    BY <2>1 DEF Covered, Tally
  <2>3. total[s] \in Nat
    BY <2>1, <2>2, SumTypes
  <2> HIDE DEF c, tally, total
  <2>4. total # None /\ total[s] > 0
    BY <2>1, <2>2, <2>3
  <2> QED
    BY <2>4 DEF c, tally, total
<1> QED
  BY <1>1, SumsInvariantHolds, PTL

----------------------------------------------------------------------------
(* One process at a time: a share is used once. *)

HalfDelay == EpochCountDelay \div 2

(***************************************************************************)
(* What the delay of a thousand epochs, about a week, has to be enough     *)
(* for: the reads of a collector call are not further apart than half of   *)
(* it, and the challenge a share is counted for is not further behind what *)
(* the collector has recorded.                                             *)
(***************************************************************************)
Timely ==
    /\ \A r \in CollectRuns :
        collect[r].at > Len(Parameters) =>
            collect[r].contract.blob - collect[r].contract.challenge <= HalfDelay
    /\ \A p \in Processors, last \in Epochs :
        proc[p].challenge # 0 /\ allminingContracts[last].epoch = last =>
            last - proc[p].challenge <= HalfDelay

\* A share is counted for the challenge of its blob, or one a little older.
Near(c, e) == e - HalfDelay <= c /\ c <= e

SpansInvariant ==
    /\ Near(miningContractData.challenge, miningContractData.blob)
    /\ \A p \in Processors :
        proc[p].pc \in AtWork => Near(proc[p].challenge, EpochOf[proc[p].share])
    /\ \A q \in miner_pendingshares : Near(q.challenge, EpochOf[q.share])

\* What each step that counts a share does to its process and to the stores.
CountMove(p) ==
    /\ \A q \in Processors : q # p => proc'[q] = proc[q]
    /\ proc[p].share \in Shares /\ proc'[p].share = proc[p].share
    /\ \/ proc[p].pc = "check"
       \/ proc[p].pc \in AtWork /\ proc'[p].challenge = proc[p].challenge
    /\ CreditMiner(p) \/ miner_challengediff' = miner_challengediff
    /\ WriteTotal(p) \/ totaldiff_challengenumber' = totaldiff_challengenumber
    /\ QueueSolution(p) \/ solutions' = solutions
    /\ InsertPendingShare(p) \/ miner_pendingshares' = miner_pendingshares
    /\ \/ /\ proc[p].pc = "check" /\ proc'[p].pc = "ack"
       \/ /\ proc[p].pc = "check" /\ proc'[p].pc = "find"
          /\ proc'[p].challenge = miningContractData.challenge
          /\ EpochOf[proc[p].share] = miningContractData.blob
       \/ /\ proc[p].pc = "find" /\ proc'[p].pc = "ack"
       \/ /\ proc[p].pc = "find" /\ proc'[p].pc = "pace"
          /\ ~\E q \in miner_pendingshares : q.share = proc[p].share
       \/ /\ proc[p].pc \in {"pace", "total"} /\ proc'[p].pc \in {"total", "write", "ack"}
          /\ InPace(p) \/ ReadTotal(p)
       \/ /\ proc[p].pc = "write" /\ proc'[p].pc = "both" /\ WriteTotal(p)
       \/ /\ \/ proc[p].pc = "both" /\ proc'[p].pc = "row"
             \/ proc[p].pc = "insert" /\ proc'[p].pc = "credit"
          /\ miner_pendingshares' = miner_pendingshares \cup
                {[share |-> proc[p].share, challenge |-> proc[p].challenge]}
       \/ /\ \/ proc[p].pc = "both" /\ proc'[p].pc = "insert"
             \/ proc[p].pc = "row" /\ proc'[p].pc = "credit"
          /\ FindRow(p)
       \/ /\ proc[p].pc = "credit" /\ CreditMiner(p)
          /\ proc'[p].pc = IF proc[p].share \in Solvers THEN "queue" ELSE "ack"
       \/ /\ proc[p].pc = "queue" /\ proc'[p].pc = "ack"
          /\ solutions' = Append(solutions, proc[p].share)

LEMMA CountMoves ==
    ASSUME MiningInvariant, NEW p \in Processors, CountStep(p)
    PROVE  CountMove(p)
<1> USE DEF AtShare, AtWork
<1> DEFINE old == proc[p]
<1>0. /\ old \in ProcessState /\ proc \in [Processors -> ProcessState]
      /\ old.pc \in AtShare => old.share \in Shares
  BY AtHand DEF MiningInvariant, ShareInvariant, ShareTypeOK
<1>1. ASSUME NEW new, proc' = [proc EXCEPT ![p] = new]
      PROVE  proc'[p] = new /\ \A q \in Processors : q # p => proc'[q] = proc[q]
  BY <1>0, <1>1
<1>2. ASSUME NEW pc, proc' = [proc EXCEPT ![p] = [old EXCEPT !.pc = pc]]
      PROVE  /\ proc'[p].pc = pc /\ proc'[p].share = old.share
             /\ proc'[p].challenge = old.challenge
             /\ \A q \in Processors : q # p => proc'[q] = proc[q]
  <2> DEFINE new == [old EXCEPT !.pc = pc]
  <2>1. new.pc = pc /\ new.share = old.share /\ new.challenge = old.challenge
    BY <1>0 DEF ProcessState
  <2> HIDE DEF new
  <2> QED
    BY <1>1, <1>2, <2>1 DEF new
<1>3. CASE CheckShare(p)
  <2> DEFINE good == EpochOf[old.share] = miningContractData.blob
             counted == [old EXCEPT !.pc = "find", !.challenge = miningContractData.challenge]
  <2>1. /\ old.pc = "check" /\ UNCHANGED <<storeVars, miner_challengediff, totaldiff_challengenumber>>
        /\ proc' = [proc EXCEPT ![p] = IF good THEN counted ELSE [old EXCEPT !.pc = "ack"]]
    BY <1>3 DEF CheckShare, Accept, SetProcess, miningVars
  <2>2. CASE good
    <3>1. /\ counted.pc = "find" /\ counted.challenge = miningContractData.challenge
          /\ counted.share = old.share
      BY <1>0 DEF ProcessState
    <3> HIDE DEF counted
    <3>2. proc'[p] = counted /\ \A q \in Processors : q # p => proc'[q] = proc[q]
      BY <1>1, <2>1, <2>2
    <3> QED
      BY <1>0, <2>1, <2>2, <3>1, <3>2 DEF CountMove, storeVars
  <2>3. CASE ~good
    BY <1>0, <1>2, <2>1, <2>3 DEF CountMove, storeVars
  <2> QED
    BY <2>2, <2>3
<1>4. CASE FindDigest(p)
  <2>1. /\ old.pc = "find" /\ UNCHANGED <<storeVars, miner_challengediff, totaldiff_challengenumber>>
        /\ proc' = [proc EXCEPT ![p] = [old EXCEPT !.pc =
                        IF \E q \in miner_pendingshares : q.share = old.share
                        THEN "ack" ELSE "pace"]]
    BY <1>4 DEF FindDigest, Goto, SetProcess, miningVars
  <2> QED
    BY <1>0, <1>2, <2>1 DEF CountMove, storeVars
<1>5. CASE InPace(p)
  <2>1. /\ old.pc = "pace"
        /\ UNCHANGED <<miner_pendingshares, solutions, miner_challengediff, totaldiff_challengenumber>>
        /\ proc' = [proc EXCEPT ![p] = [old EXCEPT !.pc = "total"]]
    BY <1>5 DEF InPace, Goto, SetProcess, miningVars
  <2> QED
    BY <1>0, <1>2, <1>5, <2>1 DEF CountMove
<1>6. CASE ReadTotal(p)
  <2> DEFINE total == totaldiff_challengenumber[old.challenge]
             new == [old EXCEPT !.pc = "write", !.total = total]
  <2>1. /\ old.pc = "total" /\ UNCHANGED <<storeVars, miner_challengediff, totaldiff_challengenumber>>
        /\ proc' = [proc EXCEPT ![p] = IF total = None THEN [old EXCEPT !.pc = "ack"] ELSE new]
    BY <1>6 DEF ReadTotal, SetProcess, miningVars
  <2>2. CASE total = None
    BY <1>0, <1>2, <1>6, <2>1, <2>2 DEF CountMove, storeVars
  <2>3. CASE total # None
    <3>1. new.pc = "write" /\ new.share = old.share /\ new.challenge = old.challenge
      BY <1>0 DEF ProcessState
    <3> HIDE DEF new
    <3>2. proc'[p] = new /\ \A q \in Processors : q # p => proc'[q] = proc[q]
      BY <1>1, <2>1, <2>3
    <3> QED
      BY <1>0, <1>6, <2>1, <3>1, <3>2 DEF CountMove, storeVars
  <2> QED
    BY <2>2, <2>3
<1>7. CASE WriteTotal(p)
  <2>1. /\ old.pc = "write" /\ UNCHANGED <<storeVars, miner_challengediff>>
        /\ proc' = [proc EXCEPT ![p] = [old EXCEPT !.pc = "both"]]
    BY <1>7 DEF WriteTotal
  <2> QED
    BY <1>0, <1>2, <1>7, <2>1 DEF CountMove, storeVars
<1>8. CASE InsertPendingShare(p)
  <2>1. /\ old.pc \in {"both", "insert"}
        /\ UNCHANGED <<solutions, miner_challengediff, totaldiff_challengenumber>>
        /\ miner_pendingshares' = miner_pendingshares \cup
                {[share |-> old.share, challenge |-> old.challenge]}
        /\ proc' = [proc EXCEPT ![p] = [old EXCEPT !.pc =
                        IF old.pc = "both" THEN "row" ELSE "credit"]]
    BY <1>8 DEF InsertPendingShare, Goto, SetProcess, miningVars
  <2> QED
    BY <1>0, <1>2, <1>8, <2>1 DEF CountMove
<1>9. CASE FindRow(p)
  <2> DEFINE rows == RowsOf(MinerOf[old.share], old.challenge)
             pc == IF old.pc = "both" THEN "insert" ELSE "credit"
             row == IF rows = {} THEN 0 ELSE FirstOf(rows)
             mine == IF rows = {} THEN NoShares
                     ELSE miner_challengediff[FirstOf(rows)].totaldiff
             new == [old EXCEPT !.pc = pc, !.row = row, !.mine = mine]
  <2>1. /\ old.pc \in {"both", "row"}
        /\ UNCHANGED <<storeVars, miner_challengediff, totaldiff_challengenumber>>
        /\ proc' = [proc EXCEPT ![p] = new]
    BY <1>9 DEF FindRow, SetProcess, miningVars
  <2>2. new.pc = pc /\ new.share = old.share /\ new.challenge = old.challenge
    BY <1>0 DEF ProcessState
  <2> HIDE DEF new
  <2>3. proc'[p] = new /\ \A q \in Processors : q # p => proc'[q] = proc[q]
    BY <1>1, <2>1
  <2> QED
    BY <1>0, <1>9, <2>1, <2>2, <2>3 DEF CountMove, storeVars
<1>10. CASE CreditMiner(p)
  <2>1. /\ old.pc = "credit" /\ UNCHANGED <<storeVars, totaldiff_challengenumber>>
        /\ proc' = [proc EXCEPT ![p] = [old EXCEPT !.pc =
                        IF old.share \in Solvers THEN "queue" ELSE "ack"]]
    BY <1>10 DEF CreditMiner, WriteRow
  <2> QED
    BY <1>0, <1>2, <1>10, <2>1 DEF CountMove, storeVars
<1>11. CASE QueueSolution(p)
  <2>1. /\ old.pc = "queue"
        /\ UNCHANGED <<miner_pendingshares, miner_challengediff, totaldiff_challengenumber>>
        /\ solutions' = Append(solutions, old.share)
        /\ proc' = [proc EXCEPT ![p] = [old EXCEPT !.pc = "ack"]]
    BY <1>11 DEF QueueSolution, Goto, SetProcess, miningVars
  <2> QED
    BY <1>0, <1>2, <1>11, <2>1 DEF CountMove
<1> QED
  BY <1>3, <1>4, <1>5, <1>6, <1>7, <1>8, <1>9, <1>10, <1>11 DEF CountStep

(* Only a call that has read a new challenge writes the data of the pool, *)
(* and only a call that has written them writes its records.              *)
LEMMA DataIsWritten ==
    ASSUME [Next]_vars
    PROVE  \/ UNCHANGED <<miningContractData, allminingContracts>>
           \/ \E r \in CollectRuns : WriteMiningContractData(r) \/ WriteAllMiningContracts(r)
<1>1. \A r \in CollectRuns : CollectSide(CollectStep(r)) =>
        \/ UNCHANGED <<miningContractData, allminingContracts>>
        \/ WriteMiningContractData(r) \/ WriteAllMiningContracts(r)
  BY DEF CollectSide, CollectStep, ReadParameter, CompareChallenge, Compare,
     EnsureTotal, PurgeQueuedShares, miningVars
<1>2. \A p \in Processors : ShareSide(ProcessStep(p)) =>
        UNCHANGED <<miningContractData, allminingContracts>>
  BY DEF ShareSide, ProcessStep, LoopStep, HandleStep, Start, StartWithoutRedis, Reclaim,
     ClaimStaleShares, Claim, ReadPendingShares, ReadShares, TakeFromList, CheckShare,
     Accept, FindDigest, InPace, TooFast, ReadTotal, WriteTotal, InsertPendingShare,
     FindRow, CreditMiner, WriteRow, QueueSolution, AckShare, Ack, Goto, SetProcess, miningVars
<1>3. \A r \in CrawlRuns : RewardSide(CrawlStep(r)) =>
        UNCHANGED <<miningContractData, allminingContracts>>
  BY DEF RewardSide, CrawlStep, StartCrawl, BeginCrawl, OpenMint, FindContract,
     NoContractFound, SetMint, MintStep, FindWindow, ReadTotalDifficulty, AddTotal,
     FindMiners, FindMinersOf, FillRow, InsertZeroRow, ListRows, FinishMint, RowStep,
     RecheckRow, SetRow, SumRow, NothingToShare, PoolTooPoor, MarkRewarded,
     AwardTokensForShares, FinishCrawl, SetCrawl
<1>4. Fault => UNCHANGED <<miningContractData, allminingContracts>>
  BY DEF Fault, FailCollect, FailShare, CrashProcess, SetProcess, RewardFault, FailInsert,
     SetInsert, FailCrawl, AbortCrawl, SetCrawl, CollectorCrash, miningVars
<1>5. \/ MineBlock \/ ShareSide(WorkerStep) \/ ShareSide(CleanPendingShares)
      \/ \E r \in InsertRuns : RewardSide(ScanStep(r))
      \/ UNCHANGED vars
      => UNCHANGED <<miningContractData, allminingContracts>>
  BY DEF MineBlock, NewEpoch, ShareSide, WorkerStep, AddShare, AddShareToList,
     CleanPendingShares, RewardSide, ScanStep, LookForMint, InsertMint, SetInsert, vars,
     miningVars
<1> QED
  BY <1>1, <1>2, <1>3, <1>4, <1>5 DEF Next

(* What the steps that move a process to work know of its share. *)
LEMMA SpansGoOn ==
    ASSUME MiningInvariant, Timely, SpansInvariant, [Next]_vars
    PROVE  SpansInvariant'
<1> USE DEF SpansInvariant
<1>0. HalfDelay \in Nat /\ ShareTypeOK /\ CollectorInvariant
  BY ShareAssumption DEF HalfDelay, MiningInvariant, ShareInvariant
<1>1. Near(miningContractData.challenge, miningContractData.blob)'
  <2>1. CASE miningContractData' = miningContractData
    BY <2>1 DEF Near
  <2>2. CASE miningContractData' # miningContractData
    <3>1. PICK r \in CollectRuns :
            collect[r].pc = "data" /\ miningContractData' = collect[r].contract
      BY <2>2, DataIsWritten DEF WriteMiningContractData, WriteAllMiningContracts
    <3>2. collect[r].at = 4
      BY <1>0, <3>1 DEF CollectorInvariant, CollectsOK, CollectOK
    <3>3. /\ collect[r].contract \in Ordered
          /\ collect[r].contract.blob - collect[r].contract.challenge <= HalfDelay
      BY <1>0, <3>2, ReadWhole, ParametersAre DEF Timely
    <3> QED
      BY <1>0, <3>1, <3>3, ContractTypes, EpochAssumption DEF Near, Ordered, Contract
  <2> QED
    BY <2>1, <2>2
<1>2. CASE Quiet
  <2>1. \A p \in Processors : proc'[p].pc \in AtWork =>
            Near(proc'[p].challenge, EpochOf[proc'[p].share])
    BY <1>2 DEF Quiet, ProcessesRest
  <2> QED
    BY <1>1, <1>2, <2>1 DEF Quiet, StoresStay, Near
<1>3. CASE Forgets
  <2>1. miner_pendingshares' \subseteq miner_pendingshares /\ proc' = proc
    BY <1>3 DEF Forgets, CleanPendingShares
  <2> QED
    BY <1>1, <2>1 DEF Near
<1>4. ASSUME NEW p \in Processors, CountStep(p) PROVE SpansInvariant'
  <2>1. CountMove(p)
    BY <1>4, CountMoves
  <2>2. ASSUME NEW q \in Processors, proc'[q].pc \in AtWork
        PROVE  Near(proc'[q].challenge, EpochOf[proc'[q].share])
    <3>1. CASE q = p /\ proc[p].pc = "check"
      BY <2>1, <2>2, <3>1 DEF CountMove, AtWork, AtShare
    <3>2. CASE q # p \/ proc[p].pc # "check"
      BY <2>1, <2>2, <3>2 DEF CountMove
    <3> QED
      BY <3>1, <3>2
  <2>3. \A q \in miner_pendingshares' : Near(q.challenge, EpochOf[q.share])
    <3>1. CASE InsertPendingShare(p)
      <4>1. /\ proc[p].pc \in AtWork
            /\ miner_pendingshares' = miner_pendingshares \cup
                    {[share |-> proc[p].share, challenge |-> proc[p].challenge]}
        BY <3>1 DEF InsertPendingShare, AtWork, AtShare
      <4> QED
        BY <4>1
    <3>2. CASE ~InsertPendingShare(p)
      BY <2>1, <3>2 DEF CountMove
    <3> QED
      BY <3>1, <3>2
  <2> QED
    BY <1>1, <2>2, <2>3 DEF Near
<1> QED
  BY <1>2, <1>3, <1>4, StepShapes

----------------------------------------------------------------------------
(* What is used is known by its digest, or too old to come back. *)

HasDigest(s) == \E q \in miner_pendingshares : q.share = s

\* The collector has recorded an epoch so new that no process can be at the share.
Expired(s) ==
    \E last \in Epochs :
        allminingContracts[last].epoch = last /\ last > EpochOf[s] + HalfDelay

InRows(s) == \E i \in Rows : InRow(s, i)

InSolutions(s) == \E k \in DOMAIN solutions : solutions[k] = s

UsesKnown == \A s \in Shares : InRows(s) \/ InSolutions(s) => HasDigest(s) \/ Expired(s)

\* From the look for its digest to its credit the share at hand is a new one, and its
\* digest is there from the insert on.
ProcessUses(state) ==
    /\ state.pc \in {"pace", "total", "write"} \cup InTotal =>
        ~InRows(state.share) /\ ~InSolutions(state.share)
    /\ state.pc = "queue" => ~InSolutions(state.share)
    /\ state.pc \in {"row", "credit", "queue"} =>
        [share |-> state.share, challenge |-> state.challenge] \in miner_pendingshares

ProcessesUse == \A p \in Processors : ProcessUses(proc[p])

UsesInvariant ==
    /\ UsesKnown
    /\ ProcessesUse
    /\ UsedAtMostOnce

(* A record is never taken away, so what is expired stays so. *)
LEMMA ExpiredStays ==
    ASSUME MiningInvariant, MiningInvariant', [Next]_vars, NEW s \in Shares, Expired(s)
    PROVE  Expired(s)'
<1>1. PICK last \in Epochs :
        allminingContracts[last].epoch = last /\ last > EpochOf[s] + HalfDelay
  BY DEF Expired
<1>2. allminingContracts'[last].epoch = last
  <2>1. CASE allminingContracts' = allminingContracts
    BY <1>1, <2>1
  <2>2. CASE allminingContracts' # allminingContracts
    <3>1. PICK r \in CollectRuns : WriteAllMiningContracts(r)
      BY <2>2, DataIsWritten DEF WriteMiningContractData
    <3>2. allminingContracts \in [Epochs -> Contract] /\ collect[r].contract \in Contract
      BY DEF MiningInvariant, ShareInvariant, CollectorInvariant, MiningTypeOK,
         CollectTypeOK, CollectState
    <3> QED
      BY <1>1, <3>1, <3>2 DEF WriteAllMiningContracts
  <2> QED
    BY <2>1, <2>2
<1> QED
  BY <1>1, <1>2 DEF Expired

RowsOnce ==
    \A s \in Shares :
        /\ \A i \in Rows : miner_challengediff[i].totaldiff[s] <= 1
        /\ \A i, j \in Rows : InRow(s, i) /\ InRow(s, j) => i = j

SolutionsOnce ==
    \A s \in Shares, i, j \in DOMAIN solutions : solutions[i] = s /\ solutions[j] = s => i = j

LEMMA UsedOnce == UsedAtMostOnce <=> RowsOnce /\ SolutionsOnce
BY DEF UsedAtMostOnce, RowsOnce, SolutionsOnce

\* The pcs of a process whose share is new.
Fresh == {"pace", "total", "write"} \cup InTotal

(* Rows that keep their tallies keep their shares. *)
LEMMA RowsKeep ==
    ASSUME TalliesKeep
    PROVE  /\ \A s \in Shares : InRows(s)' <=> InRows(s)
           /\ RowsOnce => RowsOnce'
<1>1. \A s \in Shares : ~(NoShares[s] > 0) /\ NoShares[s] <= 1
  BY TallyTypes
<1>2. /\ Rows \subseteq Rows'
      /\ \A i \in Rows, s \in Shares : InRow(s, i)' <=> InRow(s, i)
  BY DEF TalliesKeep, InRow
<1>3. \A i \in Rows' \ Rows, s \in Shares : ~InRow(s, i)'
  BY <1>1 DEF TalliesKeep, InRow
<1>4. \A s \in Shares : InRows(s)' <=> InRows(s)
  BY <1>2, <1>3 DEF InRows
<1>5. ASSUME RowsOnce PROVE RowsOnce'
  <2>1. \A s \in Shares, i \in Rows' : miner_challengediff'[i].totaldiff[s] <= 1
    BY <1>1, <1>5 DEF TalliesKeep, RowsOnce
  <2>2. \A s \in Shares, i, j \in Rows' : InRow(s, i)' /\ InRow(s, j)' => i = j
    BY <1>2, <1>3, <1>5 DEF RowsOnce
  <2> QED
    BY <2>1, <2>2 DEF RowsOnce, InRow
<1> QED
  BY <1>4, <1>5

(* A step that credits nothing, queues nothing and forgets nothing. *)
LEMMA UsesStay ==
    ASSUME MiningInvariant, MiningInvariant', [Next]_vars, UsesInvariant,
           TalliesKeep, solutions' = solutions,
           miner_pendingshares \subseteq miner_pendingshares',
           \A q \in Processors :
                \/ proc'[q] = proc[q]
                \/ /\ proc'[q].pc \in Fresh =>
                        ~InRows(proc'[q].share) /\ ~InSolutions(proc'[q].share)
                   /\ proc'[q].pc = "queue" => ~InSolutions(proc'[q].share)
                   /\ proc'[q].pc \in {"row", "credit", "queue"} =>
                        [share |-> proc'[q].share, challenge |-> proc'[q].challenge]
                            \in miner_pendingshares'
    PROVE  UsesInvariant'
<1> USE DEF UsesInvariant
<1>1. /\ \A s \in Shares : InRows(s)' <=> InRows(s)
      /\ RowsOnce => RowsOnce'
  BY RowsKeep
<1>2. \A s \in Shares : /\ InSolutions(s)' <=> InSolutions(s)
                        /\ HasDigest(s) => HasDigest(s)'
  BY DEF InSolutions, HasDigest
<1>3. UsesKnown'
  BY <1>1, <1>2, ExpiredStays DEF UsesKnown
<1>4. UsedAtMostOnce'
  <2>1. RowsOnce /\ SolutionsOnce
    BY UsedOnce
  <2>2. SolutionsOnce'
    BY <2>1 DEF SolutionsOnce
  <2> QED
    BY <1>1, <2>1, <2>2, UsedOnce DEF UsedAtMostOnce, RowsOnce, SolutionsOnce
<1>5. ASSUME NEW q \in Processors PROVE ProcessUses(proc[q])'
  <2>1. PICK state : state = proc'[q]
    OBVIOUS
  <2>2. /\ state.pc \in Fresh =>
            /\ state.share \in Shares
            /\ ~InRows(state.share) /\ ~InSolutions(state.share)
        /\ state.pc = "queue" => state.share \in Shares /\ ~InSolutions(state.share)
        /\ state.pc \in {"row", "credit", "queue"} =>
            [share |-> state.share, challenge |-> state.challenge] \in miner_pendingshares'
    <3>1. state.pc \in AtShare => state.share \in Shares
      BY <2>1 DEF MiningInvariant, ShareInvariant, ProcessesOK, ProcessOK
    <3>2. CASE state = proc[q]
      BY <3>1, <3>2 DEF ProcessesUse, ProcessUses, Fresh, InTotal, AtShare
    <3>3. CASE state # proc[q]
      BY <2>1, <3>1, <3>3 DEF Fresh, InTotal, AtShare
    <3> QED
      BY <3>2, <3>3
  <2>3. ProcessUses(state)'
    BY <1>1, <1>2, <2>2 DEF ProcessUses, Fresh
  <2> QED
    BY <2>1, <2>3
<1> QED
  BY <1>3, <1>4, <1>5 DEF ProcessesUse

(* What the cleaner forgets is expired, and no process is at it. *)
LEMMA ForgetUses ==
    ASSUME MiningInvariant, MiningInvariant', [Next]_vars, SpansInvariant, UsesInvariant,
           Forgets
    PROVE  UsesInvariant'
<1> USE DEF UsesInvariant
<1>1. PICK last \in 1..(contractEpoch - 1), e \in Epochs, c \in 0..MaxEpoch :
        /\ c = allminingContracts[e].challenge
        /\ allminingContracts[last].epoch = last /\ allminingContracts[e].epoch = e
        /\ e < last - EpochCountDelay /\ NotAtWork(c)
        /\ miner_pendingshares' = {q \in miner_pendingshares : q.challenge # c}
        /\ UNCHANGED <<solutions, proc, miner_challengediff, allminingContracts>>
  <2>1. \A e \in Epochs : allminingContracts[e].challenge \in 0..MaxEpoch
    BY DEF MiningInvariant, ShareInvariant, CollectorInvariant, MiningTypeOK, Contract
  <2> QED
    BY <2>1 DEF Forgets, CleanPendingShares, miningVars
<1>2. /\ EpochCountDelay \in Nat /\ HalfDelay \in Nat /\ HalfDelay + HalfDelay <= EpochCountDelay
      /\ last \in Epochs
  BY EpochAssumption, ShareAssumption
  DEF HalfDelay, Epochs, MiningInvariant, ShareInvariant, CollectorInvariant, MiningTypeOK
<1>3. c <= e /\ c \in Nat
  <2>1. allminingContracts[e] \in Ordered
    BY <1>1, ContractTypes, EpochAssumption
    DEF MiningInvariant, ShareInvariant, CollectorInvariant, RecordsOK, Epochs
  <2> QED
    BY <1>1, <2>1, EpochAssumption DEF Ordered, Contract
<1>4. ASSUME NEW q \in miner_pendingshares, q.challenge = c
      PROVE  Expired(q.share)
  <2>1. q.share \in Shares /\ Near(c, EpochOf[q.share])
    BY <1>4 DEF SpansInvariant, MiningInvariant, ShareInvariant, ShareTypeOK, PendingShare
  <2>2. EpochOf[q.share] \in Nat
    BY <2>1, FinderAssumption, EpochAssumption
  <2>3. e \in Nat /\ last \in Nat
    BY <1>2, EpochAssumption DEF Epochs
  <2>4. last > EpochOf[q.share] + HalfDelay
    BY <1>1, <1>2, <1>3, <2>1, <2>2, <2>3 DEF Near
  <2> QED
    BY <1>1, <1>2, <2>4 DEF Expired
<1>5. UsesKnown'
  <2>1. \A s \in Shares : HasDigest(s) => HasDigest(s)' \/ Expired(s)
    BY <1>1, <1>4 DEF HasDigest
  <2>2. \A s \in Shares : /\ InRows(s)' <=> InRows(s)
                          /\ InSolutions(s)' <=> InSolutions(s)
    BY <1>1 DEF InRows, InRow, InSolutions, Rows
  <2> QED
    BY <2>1, <2>2, ExpiredStays DEF UsesKnown
<1>6. UsedAtMostOnce'
  BY <1>1 DEF UsedAtMostOnce, InRow, Rows
<1>7. ASSUME NEW q \in Processors PROVE ProcessUses(proc[q])'
  <2>1. ProcessUses(proc[q]) /\ proc[q].challenge # c /\ proc'[q] = proc[q]
    BY <1>1 DEF ProcessesUse, NotAtWork
  <2>2. PICK state : state = proc[q] /\ state = proc'[q]
    BY <2>1
  <2>3. ProcessUses(state)'
    BY <1>1, <2>1, <2>2 DEF ProcessUses, InRows, InRow, InSolutions, Rows
  <2> QED
    BY <2>2, <2>3
<1> QED
  BY <1>5, <1>6, <1>7 DEF ProcessesUse

(* A share without a digest, while a process is at it, was never used. *)
LEMMA NewIsNew ==
    ASSUME MiningInvariant, Timely, UsesKnown, NEW p \in Processors, proc[p].pc = "find",
           ~HasDigest(proc[p].share)
    PROVE  ~InRows(proc[p].share) /\ ~InSolutions(proc[p].share)
<1>1. PICK s \in Shares, c \in Epochs :
        s = proc[p].share /\ c = proc[p].challenge /\ c <= EpochOf[s]
  BY AtHand DEF MiningInvariant, AtWork, AtShare
<1>2. SUFFICES ASSUME Expired(s) PROVE FALSE
  BY <1>1 DEF UsesKnown
<1>3. PICK last \in Epochs :
        allminingContracts[last].epoch = last /\ last > EpochOf[s] + HalfDelay
  BY <1>2 DEF Expired
<1>4. c # 0 /\ c \in Nat /\ last \in Nat /\ HalfDelay \in Nat /\ EpochOf[s] \in Nat
  BY <1>1, FinderAssumption, ShareAssumption, EpochAssumption DEF Epochs, HalfDelay
<1>5. last - c <= HalfDelay
  BY <1>1, <1>3, <1>4 DEF Timely
<1> QED
  BY <1>1, <1>3, <1>4, <1>5

(* The steps that count a share, up to its credit. *)
LEMMA CountUses ==
    ASSUME MiningInvariant, MiningInvariant', [Next]_vars, Timely, UsesInvariant,
           NEW p \in Processors, CountStep(p), ~CreditMiner(p), ~QueueSolution(p)
    PROVE  UsesInvariant'
<1>1. CountMove(p) /\ ProcessUses(proc[p])
  BY CountMoves DEF UsesInvariant, ProcessesUse
<1>2. miner_challengediff' = miner_challengediff /\ solutions' = solutions
      /\ miner_pendingshares \subseteq miner_pendingshares'
  BY <1>1 DEF CountMove, InsertPendingShare
<1>3. proc'[p].pc \in Fresh => ~InRows(proc'[p].share) /\ ~InSolutions(proc'[p].share)
  <2>1. proc'[p].share = proc[p].share
    BY <1>1 DEF CountMove
  <2>2. CASE proc[p].pc \in Fresh
    BY <1>1, <2>1, <2>2 DEF ProcessUses, Fresh
  <2>3. CASE proc[p].pc = "find"
    <3>1. proc'[p].pc \in Fresh => ~HasDigest(proc[p].share)
      BY <1>1, <2>3 DEF CountMove, HasDigest, Fresh, InTotal
    <3> QED
      BY <2>1, <2>3, <3>1, NewIsNew DEF UsesInvariant
  <2>4. CASE proc[p].pc \in {"check", "queue"}
    BY <1>1, <2>4 DEF CountMove, Fresh, InTotal
  <2> QED
    BY <1>1, <2>2, <2>3, <2>4 DEF CountMove, Fresh, InTotal
<1>4. proc'[p].pc # "queue"
  BY <1>1 DEF CountMove, Fresh, InTotal
<1>5. proc'[p].pc \in {"row", "credit"} =>
        [share |-> proc'[p].share, challenge |-> proc'[p].challenge] \in miner_pendingshares'
  <2>1. CASE proc'[p].pc \in {"row", "credit"}
    <3>1. /\ proc[p].pc # "check"
          /\ proc'[p].share = proc[p].share /\ proc'[p].challenge = proc[p].challenge
          /\ \/ proc[p].pc = "row"
             \/ miner_pendingshares' = miner_pendingshares \cup
                    {[share |-> proc[p].share, challenge |-> proc[p].challenge]}
      BY <1>1, <2>1 DEF CountMove
    <3> QED
      BY <1>1, <1>2, <3>1 DEF ProcessUses
  <2> QED
    BY <2>1
<1>6. \A q \in Processors : q # p => proc'[q] = proc[q]
  BY <1>1 DEF CountMove
<1> QED
  BY <1>2, <1>3, <1>4, <1>5, <1>6, TalliesStay, UsesStay

(* A solution is queued by the only process, which knows that it is not there. *)
LEMMA QueueUses ==
    ASSUME MiningInvariant, MiningInvariant', [Next]_vars, Single, UsesInvariant,
           NEW p \in Processors, QueueSolution(p)
    PROVE  UsesInvariant'
<1> USE DEF UsesInvariant
<1>1. CountMove(p) /\ ProcessUses(proc[p])
  BY CountMoves DEF CountStep, ProcessesUse
<1>2. PICK s \in Shares : s = proc[p].share
  BY <1>1 DEF CountMove
<1>3. /\ proc[p].pc = "queue" /\ proc'[p].pc = "ack"
      /\ solutions' = Append(solutions, s)
      /\ miner_challengediff' = miner_challengediff
      /\ miner_pendingshares' = miner_pendingshares
      /\ ~InSolutions(s) /\ HasDigest(s)
  <2>1. proc[p].pc = "queue" /\ solutions' = Append(solutions, s)
    BY <1>2 DEF QueueSolution
  <2>2. proc'[p].pc = "ack" /\ miner_pendingshares' = miner_pendingshares
    BY <1>1, <2>1 DEF CountMove, InsertPendingShare
  <2>3. miner_challengediff' = miner_challengediff
    BY DEF QueueSolution, Goto, SetProcess, miningVars
  <2>4. ~InSolutions(s) /\ HasDigest(s)
    BY <1>1, <1>2, <2>1 DEF ProcessUses, HasDigest
  <2> QED
    BY <2>1, <2>2, <2>3, <2>4
<1>4. /\ DOMAIN solutions' = DOMAIN solutions \cup {Len(solutions) + 1}
      /\ \A k \in DOMAIN solutions : solutions'[k] = solutions[k]
      /\ solutions'[Len(solutions) + 1] = s
  BY <1>3, SeqAppend DEF MiningInvariant, ShareInvariant, ShareTypeOK
<1>5. \A z \in Shares : /\ InRows(z)' <=> InRows(z)
                        /\ HasDigest(z)' <=> HasDigest(z)
                        /\ InSolutions(z)' <=> InSolutions(z) \/ z = s
  BY <1>3, <1>4 DEF InRows, InRow, Rows, HasDigest, InSolutions
<1>6. UsesKnown'
  BY <1>3, <1>5, ExpiredStays DEF UsesKnown
<1>7. UsedAtMostOnce'
  <2>1. RowsOnce /\ SolutionsOnce
    BY UsedOnce
  <2>2. RowsOnce'
    BY <1>3, <2>1 DEF RowsOnce, InRow, Rows
  <2>3. SolutionsOnce'
    BY <1>3, <1>4, <2>1 DEF SolutionsOnce, InSolutions
  <2> QED
    BY <2>2, <2>3 DEF UsedAtMostOnce, RowsOnce, SolutionsOnce
<1>8. ASSUME NEW q \in Processors PROVE ProcessUses(proc[q])'
  <2>1. proc'[q].pc \in {"ack", "down"}
    BY <1>1, <1>3 DEF CountMove, Single
  <2> QED
    BY <2>1 DEF ProcessUses, InTotal
<1> QED
  BY <1>6, <1>7, <1>8 DEF ProcessesUse

(* The credit of a new share: one row has it, once. *)
LEMMA CreditUses ==
    ASSUME MiningInvariant, MiningInvariant', [Next]_vars, SumsInvariant, UsesInvariant,
           NEW p \in Processors, CreditMiner(p)
    PROVE  UsesInvariant'
<1> USE DEF UsesInvariant
<1>1. /\ CountMove(p) /\ ProcessUses(proc[p]) /\ ProcessSums(proc[p])
      /\ proc[p].pc = "credit"
  BY CountMoves DEF CountStep, ProcessesUse, SumsInvariant, ProcessesSum, CreditMiner, WriteRow
<1>2. PICK k \in Nat, s \in Shares, c \in Epochs, mine \in Tally :
        s = proc[p].share /\ Credited(k, s, c, mine)
  BY <1>1, CreditWrites
<1> DEFINE tally == PlusShare(mine, s)
<1>3. /\ miner_pendingshares' = miner_pendingshares /\ solutions' = solutions
      /\ ~InRows(s) /\ ~InSolutions(s) /\ HasDigest(s)
  BY <1>1, <1>2 DEF CreditMiner, WriteRow, storeVars, ProcessUses, InTotal, HasDigest
<1>4. /\ tally[s] = mine[s] + 1
      /\ \A z \in Shares : z # s => tally[z] = mine[z]
      /\ \A z \in Shares : mine[z] \in Nat
  BY TallyTypes DEF Tally
<1>5. mine[s] = 0 /\ \A z \in Shares : mine[z] <= 1
  <2>1. CASE k \in Rows
    <3>1. ~InRow(s, k) /\ miner_challengediff[k].totaldiff = mine
      BY <1>2, <1>3, <2>1 DEF InRows, Credited
    <3> QED
      BY <1>4, <2>1, <3>1 DEF InRow, UsedAtMostOnce
  <2>2. CASE k \notin Rows
    BY <1>2, <2>2, TallyTypes DEF Credited
  <2> QED
    BY <2>1, <2>2
<1>6. /\ Rows' = Rows \cup {k}
      /\ \A i \in Rows' : miner_challengediff'[i].totaldiff =
                            IF i = k THEN tally ELSE miner_challengediff[i].totaldiff
      /\ k \in Rows => miner_challengediff[k].totaldiff = mine
      /\ k \notin Rows => mine = NoShares
  BY <1>2 DEF Credited
<1> HIDE DEF tally
<1>7. \A i \in Rows', z \in Shares : z # s => (InRow(z, i)' <=> i \in Rows /\ InRow(z, i))
  <2>1. \A i \in Rows' \ {k} : i \in Rows /\ \A z \in Shares : InRow(z, i)' <=> InRow(z, i)
    BY <1>6 DEF InRow
  <2>2. \A z \in Shares : z # s => (InRow(z, k)' <=> k \in Rows /\ InRow(z, k))
    BY <1>4, <1>6, TallyTypes DEF InRow
  <2> QED
    BY <2>1, <2>2
<1>8. \A i \in Rows' : InRow(s, i)' <=> i = k
  BY <1>3, <1>4, <1>5, <1>6 DEF InRow, InRows
<1>9. UsedAtMostOnce'
  <2>1. RowsOnce /\ SolutionsOnce
    BY UsedOnce
  <2>2. ASSUME NEW i \in Rows', NEW z \in Shares
        PROVE  miner_challengediff'[i].totaldiff[z] <= 1
    <3>1. CASE i = k
      BY <1>4, <1>5, <1>6, <3>1
    <3>2. CASE i # k
      BY <1>6, <2>1, <3>2 DEF RowsOnce
    <3> QED
      BY <3>1, <3>2
  <2>3. ASSUME NEW z \in Shares, NEW i \in Rows', NEW j \in Rows', InRow(z, i)', InRow(z, j)'
        PROVE  i = j
    BY <1>7, <1>8, <2>1, <2>3 DEF RowsOnce
  <2>4. RowsOnce' /\ SolutionsOnce'
    BY <1>3, <2>1, <2>2, <2>3 DEF RowsOnce, SolutionsOnce
  <2> QED
    BY <2>4 DEF UsedAtMostOnce, RowsOnce, SolutionsOnce
<1>10. UsesKnown'
  <2>1. ASSUME NEW z \in Shares, InRows(z)' \/ InSolutions(z)'
        PROVE  HasDigest(z)' \/ Expired(z)'
    <3>1. CASE z = s
      BY <1>3, <3>1 DEF HasDigest
    <3>2. CASE z # s
      <4>1. InRows(z) \/ InSolutions(z)
        BY <1>3, <1>7, <2>1, <3>2 DEF InRows, InSolutions
      <4>2. HasDigest(z) \/ Expired(z)
        BY <4>1 DEF UsesKnown
      <4> QED
        BY <1>3, <4>2, ExpiredStays DEF HasDigest
    <3> QED
      BY <3>1, <3>2
  <2> QED
    BY <2>1 DEF UsesKnown
<1>11. ASSUME NEW q \in Processors PROVE ProcessUses(proc[q])'
  <2>1. CASE q = p
    <3>1. /\ proc'[p].pc \in {"queue", "ack"} /\ proc'[p].share = s
          /\ proc'[p].challenge = proc[p].challenge
      BY <1>1, <1>2 DEF CountMove
    <3>2. [share |-> s, challenge |-> proc[p].challenge] \in miner_pendingshares'
      BY <1>1, <1>2, <1>3 DEF ProcessUses
    <3> QED
      BY <1>3, <2>1, <3>1, <3>2 DEF ProcessUses, InSolutions, InTotal
  <2>2. CASE q # p
    <3>1. proc'[q].pc = "down"
      BY <1>1, <2>2 DEF CountMove, SumsInvariant, Single
    <3> QED
      BY <3>1 DEF ProcessUses, InTotal
  <2> QED
    BY <2>1, <2>2
<1> QED
  BY <1>9, <1>10, <1>11 DEF ProcessesUse

LEMMA UsesStart == Init => SpansInvariant /\ UsesInvariant
<1> SUFFICES ASSUME Init PROVE SpansInvariant /\ UsesInvariant
  OBVIOUS
<1>1. /\ miner_challengediff = <<>> /\ solutions = <<>> /\ miner_pendingshares = {}
      /\ miningContractData = NoContract
      /\ \A p \in Processors : proc[p].pc = "down"
  BY DEF Init, MiningInit, ShareInit, Down, Waiting
<1>2. SpansInvariant
  <2>1. HalfDelay \in Nat
    BY ShareAssumption DEF HalfDelay
  <2> QED
    BY <1>1, <2>1, ContractTypes DEF SpansInvariant, Near, AtWork, AtShare
<1>3. UsesInvariant
  BY <1>1 DEF UsesInvariant, UsesKnown, InRows, InSolutions, ProcessesUse, ProcessUses,
     InTotal, UsedAtMostOnce, Rows
<1> QED
  BY <1>2, <1>3

\* All that is known of the shares while one process runs and is in time.
UseInvariant == MiningInvariant /\ SumsInvariant /\ SpansInvariant /\ UsesInvariant

LEMMA UsesGoOn ==
    ASSUME Together = 1, UseInvariant, Timely, [Next]_vars
    PROVE  UseInvariant'
<1> USE DEF UseInvariant
<1>1. MiningInvariant'
  BY MiningGoesOn
<1>2. SumsInvariant' /\ SpansInvariant'
  BY <1>1, SumsGoOn, SpansGoOn
<1>3. UsesInvariant'
  <2>1. CASE Quiet
    <3>1. \A q \in Processors :
            proc'[q] = proc[q] \/ proc'[q].pc \notin Fresh \cup {"row", "credit", "queue"}
      BY <2>1 DEF Quiet, ProcessesRest, Fresh, InTotal, AtWork, AtShare
    <3> QED
      BY <1>1, <2>1, <3>1, UsesStay DEF Quiet, StoresStay
  <2>2. CASE Forgets
    BY <1>1, <2>2, ForgetUses
  <2>3. ASSUME NEW p \in Processors, CountStep(p) PROVE UsesInvariant'
    BY <1>1, <2>3, CountUses, QueueUses, CreditUses DEF SumsInvariant
  <2> QED
    BY <2>1, <2>2, <2>3, StepShapes
<1> QED
  BY <1>1, <1>2, <1>3

LEMMA UseInvariantHolds ==
    ASSUME Together = 1
    PROVE  Spec /\ []Timely => []UseInvariant
<1>1. UseInvariant /\ Timely /\ [Next]_vars => UseInvariant'
  BY UsesGoOn
<1>2. Init => UseInvariant
  BY MiningStarts, SumsStart, UsesStart DEF UseInvariant
<1> QED
  BY <1>1, <1>2, PTL DEF Spec

(***************************************************************************)
(* As long as the deployment runs one share processor and the collector    *)
(* and the shares at hand are not behind by more than half of the delay    *)
(* after which digests are forgotten, a share is credited to its miner at  *)
(* most once and sent to the contract at most once, however often it is    *)
(* submitted, delivered, claimed and tried again after a failure.          *)
(***************************************************************************)
THEOREM UsesAtMostOnce ==
    ASSUME Together = 1
    PROVE  Spec /\ []Timely => []UsedAtMostOnce
<1>1. UseInvariant => UsedAtMostOnce
  BY DEF UseInvariant, UsesInvariant
<1> QED
  BY <1>1, UseInvariantHolds, PTL

----------------------------------------------------------------------------
(* One process at a time, and no fault: no share is lost. *)

\* A share of a total is on its way to a row for the same challenge, or is in one.
CountedFor(s, c) ==
    \/ \E p \in Processors :
        proc[p].share = s /\ proc[p].challenge = c /\ proc[p].pc \in InTotal
    \/ \E i \in Rows :
        /\ miner_challengediff[i].miner = MinerOf[s]
        /\ miner_challengediff[i].challenge = c
        /\ InRow(s, i)

Kept(s, c) ==
    /\ totaldiff_challengenumber[c][s] = 1
    /\ CountedFor(s, c)
    /\ s \in Solvers => Queueing(s) \/ InSolutions(s)

InSum(s, c) == totaldiff_challengenumber[c] # None /\ totaldiff_challengenumber[c][s] > 0

LossInvariant ==
    faults = 0 => \A c \in Epochs, s \in Shares : InSum(s, c) => Kept(s, c)

LEMMA FaultsGrow ==
    ASSUME MiningInvariant, [Next]_vars, faults' = 0
    PROVE  faults = 0
<1>1. faults \in Nat
  BY DEF MiningInvariant
<1>2. faults' = faults \/ faults' = faults + 1
  BY DEF Next, vars, MineBlock, CollectSide, ShareSide, RewardSide, Fault
<1> QED
  BY <1>1, <1>2

(* A step that leaves totals and rows alone, and no process without its share. *)
LEMMA LossStays ==
    ASSUME MiningInvariant, [Next]_vars, LossInvariant, TalliesKeep, TotalsKeep,
           \A k \in DOMAIN solutions :
                k \in DOMAIN solutions' /\ solutions'[k] = solutions[k],
           \A q \in Processors :
                \/ proc'[q] = proc[q]
                \/ faults' = 0 => proc[q].pc \notin AfterTotal
                \/ /\ proc'[q].share = proc[q].share /\ proc'[q].challenge = proc[q].challenge
                   /\ proc[q].pc \in InTotal /\ proc'[q].pc \in InTotal
    PROVE  LossInvariant'
<1> SUFFICES ASSUME faults' = 0, NEW c \in Epochs, NEW s \in Shares, InSum(s, c)'
             PROVE  Kept(s, c)'
  BY DEF LossInvariant
<1>1. faults = 0
  BY FaultsGrow
<1>2. totaldiff_challengenumber'[c] = totaldiff_challengenumber[c]
  BY TallyTypes DEF TotalsKeep, InSum
<1>3. Kept(s, c)
  BY <1>1, <1>2 DEF LossInvariant, InSum
<1>4. CountedFor(s, c)'
  <2>1. CASE \E p \in Processors :
            proc[p].share = s /\ proc[p].challenge = c /\ proc[p].pc \in InTotal
    BY <2>1 DEF CountedFor, AfterTotal
  <2>2. CASE \E i \in Rows : /\ miner_challengediff[i].miner = MinerOf[s]
                             /\ miner_challengediff[i].challenge = c
                             /\ InRow(s, i)
    BY <2>2 DEF CountedFor, TalliesKeep, InRow
  <2> QED
    BY <1>3, <2>1, <2>2 DEF Kept, CountedFor
<1>5. ASSUME Queueing(s) PROVE Queueing(s)'
  BY <1>5 DEF Queueing, AfterTotal, InTotal
<1>6. ASSUME InSolutions(s) PROVE InSolutions(s)'
  BY <1>6 DEF InSolutions
<1> QED
  BY <1>2, <1>3, <1>4, <1>5, <1>6 DEF Kept

(* The write of the total counts a share that is in none. *)
LEMMA WriteTotalKeeps ==
    ASSUME UseInvariant, MiningInvariant', [Next]_vars, LossInvariant,
           NEW p \in Processors, WriteTotal(p)
    PROVE  LossInvariant'
<1> USE DEF UseInvariant
<1>0. PICK s \in Shares, c \in Epochs, total \in Tally :
        /\ s = proc[p].share /\ c = proc[p].challenge /\ total = proc[p].total
  BY AtHand DEF MiningInvariant, WriteTotal, AtWork, AtShare
<1>1. /\ CountMove(p) /\ proc[p].pc = "write"
      /\ total = totaldiff_challengenumber[c] /\ total # None
      /\ ~InRows(s)
  BY <1>0, TallyTypes, CountMoves
  DEF CountStep, WriteTotal, SumsInvariant, ProcessesSum, ProcessSums, UsesInvariant,
      ProcessesUse, ProcessUses
<1>2. /\ miner_challengediff' = miner_challengediff /\ solutions' = solutions
      /\ proc'[p].pc = "both" /\ proc'[p].share = s /\ proc'[p].challenge = c
      /\ \A q \in Processors : q # p => proc'[q] = proc[q]
  BY <1>0, <1>1 DEF CountMove, WriteTotal, storeVars
<1>3. /\ totaldiff_challengenumber'[c] = PlusShare(total, s)
      /\ \A d \in Epochs : d # c => totaldiff_challengenumber'[d] = totaldiff_challengenumber[d]
  BY <1>0 DEF WriteTotal, MiningInvariant, ShareInvariant, CollectorInvariant, MiningTypeOK
<1>4. /\ PlusShare(total, s) # None /\ PlusShare(total, s)[s] = total[s] + 1
      /\ \A z \in Shares : z # s => PlusShare(total, s)[z] = total[z]
      /\ total[s] \in Nat
  BY TallyTypes DEF Tally
<1> SUFFICES ASSUME faults' = 0, NEW d \in Epochs, NEW z \in Shares, InSum(z, d)'
             PROVE  Kept(z, d)'
  BY DEF LossInvariant
<1>5. \A q \in Processors : proc[q].pc \notin AfterTotal
  BY <1>1 DEF SumsInvariant, Single, AfterTotal, InTotal
<1>6. faults = 0 /\ (InSum(z, d) => Kept(z, d))
  BY FaultsGrow DEF LossInvariant
<1>7. CASE z = s /\ d = c
  <2>1. ~InSum(s, c)
    <3>1. ~CountedFor(s, c)
      BY <1>1, <1>5 DEF CountedFor, InRows, AfterTotal
    <3> QED
      BY <1>6, <1>7, <3>1 DEF Kept
  <2>2. total[s] = 0
    BY <1>1, <1>4, <2>1 DEF InSum
  <2>3. totaldiff_challengenumber'[c][s] = 1
    BY <1>3, <1>4, <2>2
  <2>4. CountedFor(s, c)' /\ Queueing(s)'
    BY <1>2 DEF CountedFor, Queueing, InTotal
  <2> QED
    BY <1>7, <2>3, <2>4 DEF Kept
<1>8. CASE ~(z = s /\ d = c)
  <2>1. InSum(z, d) /\ totaldiff_challengenumber'[d][z] = totaldiff_challengenumber[d][z]
    BY <1>1, <1>3, <1>4, <1>8 DEF InSum
  <2>2. Kept(z, d)
    BY <1>6, <2>1
  <2>3. CountedFor(z, d)'
    BY <1>2, <1>5, <2>2 DEF Kept, CountedFor, InRow, Rows, AfterTotal
  <2>4. (Queueing(z) \/ InSolutions(z)) => (Queueing(z) \/ InSolutions(z))'
    BY <1>2, <1>5 DEF Queueing, InSolutions, AfterTotal, InTotal
  <2> QED
    BY <2>1, <2>2, <2>3, <2>4 DEF Kept
<1> QED
  BY <1>7, <1>8

(* The credit brings the share to a row of its miner for the challenge of the total. *)
LEMMA CreditKeeps ==
    ASSUME UseInvariant, [Next]_vars, LossInvariant, NEW p \in Processors, CreditMiner(p)
    PROVE  LossInvariant'
<1> USE DEF UseInvariant
<1>1. CountMove(p) /\ ProcessSums(proc[p]) /\ proc[p].pc = "credit"
  BY CountMoves DEF CountStep, SumsInvariant, ProcessesSum, CreditMiner, WriteRow
<1>2. PICK k \in Nat, s \in Shares, c \in Epochs, mine \in Tally :
        /\ s = proc[p].share /\ c = proc[p].challenge
        /\ Credited(k, s, c, mine)
  BY <1>1, CreditWrites
<1>3. /\ totaldiff_challengenumber' = totaldiff_challengenumber /\ solutions' = solutions
      /\ proc'[p].share = s
      /\ proc'[p].pc = IF s \in Solvers THEN "queue" ELSE "ack"
      /\ \A q \in Processors : q # p => proc'[q] = proc[q]
  BY <1>1, <1>2 DEF CountMove, CreditMiner, WriteRow, storeVars
<1>4. \A z \in Shares : mine[z] \in Nat /\ PlusShare(mine, s)[z] >= mine[z]
  <2>1. \A z \in Shares : mine[z] \in Nat
    BY DEF Tally
  <2>2. \A z \in Shares : PlusShare(mine, s)[z] = IF z = s THEN mine[z] + 1 ELSE mine[z]
    BY TallyTypes
  <2> QED
    BY <2>1, <2>2
<1>5. PlusShare(mine, s)[s] > 0
  BY <1>4, TallyTypes
<1> SUFFICES ASSUME faults' = 0, NEW d \in Epochs, NEW z \in Shares, InSum(z, d)'
             PROVE  Kept(z, d)'
  BY DEF LossInvariant
<1>6. Kept(z, d)
  BY <1>3, FaultsGrow DEF LossInvariant, InSum
<1>7. \A q \in Processors : q # p => proc[q].pc \notin AfterTotal
  BY <1>1 DEF SumsInvariant, Single, AfterTotal, InTotal
<1>8. CountedFor(z, d)'
  <2>1. CASE z = s /\ d = c
    <3>1. /\ k \in Rows' /\ miner_challengediff'[k].miner = MinerOf[s]
          /\ miner_challengediff'[k].challenge = c /\ InRow(s, k)'
      BY <1>2, <1>5 DEF Credited, InRow
    <3> QED
      BY <2>1, <3>1 DEF CountedFor
  <2>2. CASE ~(z = s /\ d = c)
    <3>1. PICK i \in Rows : /\ miner_challengediff[i].miner = MinerOf[z]
                            /\ miner_challengediff[i].challenge = d
                            /\ InRow(z, i)
      BY <1>2, <1>6, <1>7, <2>2 DEF Kept, CountedFor, AfterTotal
    <3>2. /\ i \in Rows' /\ miner_challengediff'[i].miner = MinerOf[z]
          /\ miner_challengediff'[i].challenge = d
      BY <1>2, <3>1 DEF Credited
    <3>3. InRow(z, i)'
      <4>1. CASE i = k
        <5>1. mine[z] > 0
          BY <1>2, <3>1, <4>1 DEF Credited, InRow
        <5>2. PlusShare(mine, s)[z] > 0
          <6>1. PlusShare(mine, s)[z] \in Nat
            BY TallyTypes DEF Tally
          <6> QED
            BY <1>4, <5>1, <6>1
        <5> QED
          BY <1>2, <4>1, <5>2 DEF Credited, InRow
      <4>2. CASE i # k
        BY <1>2, <3>1, <4>2 DEF Credited, InRow
      <4> QED
        BY <4>1, <4>2
    <3> QED
      BY <3>2, <3>3 DEF CountedFor
  <2> QED
    BY <2>1, <2>2
<1>9. ASSUME z \in Solvers PROVE Queueing(z)' \/ InSolutions(z)'
  <2>1. CASE z = s
    BY <1>3, <1>9, <2>1 DEF Queueing
  <2>2. CASE z # s
    <3>1. InSolutions(z)
      BY <1>2, <1>6, <1>7, <1>9, <2>2 DEF Kept, Queueing, AfterTotal, InTotal
    <3> QED
      BY <1>3, <3>1 DEF InSolutions
  <2> QED
    BY <2>1, <2>2
<1> QED
  BY <1>3, <1>6, <1>8, <1>9 DEF Kept

(* The solution at hand is queued. *)
LEMMA QueueKeeps ==
    ASSUME UseInvariant, [Next]_vars, LossInvariant, NEW p \in Processors, QueueSolution(p)
    PROVE  LossInvariant'
<1> USE DEF UseInvariant
<1>1. CountMove(p) /\ proc[p].pc = "queue"
  BY CountMoves DEF CountStep, QueueSolution
<1>2. PICK s \in Shares : s = proc[p].share /\ solutions' = Append(solutions, s)
  BY <1>1 DEF CountMove, QueueSolution
<1>3. /\ DOMAIN solutions' = DOMAIN solutions \cup {Len(solutions) + 1}
      /\ \A k \in DOMAIN solutions : solutions'[k] = solutions[k]
      /\ solutions'[Len(solutions) + 1] = s
  BY <1>2, SeqAppend DEF MiningInvariant, ShareInvariant, ShareTypeOK
<1>4. /\ UNCHANGED <<totaldiff_challengenumber, miner_challengediff>>
      /\ \A q \in Processors : q # p => proc'[q] = proc[q]
  BY <1>1 DEF CountMove, QueueSolution, Goto, SetProcess, miningVars
<1> SUFFICES ASSUME faults' = 0, NEW d \in Epochs, NEW z \in Shares, InSum(z, d)'
             PROVE  Kept(z, d)'
  BY DEF LossInvariant
<1>5. Kept(z, d)
  BY <1>4, FaultsGrow DEF LossInvariant, InSum
<1>6. CountedFor(z, d)'
  BY <1>1, <1>4, <1>5 DEF Kept, CountedFor, InTotal, InRow, Rows
<1>7. (Queueing(z) \/ InSolutions(z)) => (Queueing(z) \/ InSolutions(z))'
  BY <1>2, <1>3, <1>4 DEF Queueing, InSolutions
<1> QED
  BY <1>4, <1>5, <1>6, <1>7 DEF Kept

LEMMA LossGoesOn ==
    ASSUME UseInvariant, UseInvariant', LossInvariant, [Next]_vars
    PROVE  LossInvariant'
<1> USE DEF UseInvariant
<1>1. CASE Quiet
  BY <1>1, LossStays DEF Quiet, ProcessesRest, StoresStay
<1>2. CASE Forgets
  <2>1. UNCHANGED <<solutions, proc, miner_challengediff, totaldiff_challengenumber>>
    BY <1>2 DEF Forgets, CleanPendingShares, miningVars
  <2> QED
    BY <2>1, LossStays, TalliesStay, TotalsStay
<1>3. ASSUME NEW p \in Processors, CountStep(p) PROVE LossInvariant'
  <2>1. CASE WriteTotal(p)
    BY <2>1, WriteTotalKeeps
  <2>2. CASE CreditMiner(p)
    BY <2>2, CreditKeeps
  <2>3. CASE QueueSolution(p)
    BY <2>3, QueueKeeps
  <2>4. CASE ~WriteTotal(p) /\ ~CreditMiner(p) /\ ~QueueSolution(p)
    <3>1. CountMove(p)
      BY <1>3, CountMoves
    <3>2. UNCHANGED <<solutions, miner_challengediff, totaldiff_challengenumber>>
      BY <2>4, <3>1 DEF CountMove
    <3>3. \/ proc[p].pc \notin AfterTotal
          \/ /\ proc'[p].share = proc[p].share /\ proc'[p].challenge = proc[p].challenge
             /\ proc[p].pc \in InTotal /\ proc'[p].pc \in InTotal
      <4>1. proc[p].pc # "queue"
        BY <1>3, <2>4 DEF CountStep, CheckShare, Accept, FindDigest, InPace, ReadTotal,
           InsertPendingShare, FindRow
      <4> QED
        BY <2>4, <3>1, <4>1 DEF CountMove, AfterTotal, InTotal
    <3>4. \A q \in Processors : q # p => proc'[q] = proc[q]
      BY <3>1 DEF CountMove
    <3> QED
      BY <3>2, <3>3, <3>4, LossStays, TalliesStay, TotalsStay
  <2> QED
    BY <2>1, <2>2, <2>3, <2>4
<1> QED
  BY <1>1, <1>2, <1>3, StepShapes

(***************************************************************************)
(* As long as nothing has failed, with one share processor that is in time *)
(* (see above), no work is lost: a share in the pool's total is in it      *)
(* once, and in a row of its miner for the same challenge or on its way    *)
(* there, and a solution among them is queued or about to be.              *)
(***************************************************************************)
THEOREM LosesNothing ==
    ASSUME Together = 1
    PROVE  Spec /\ []Timely => []NothingLost
<1>1. UseInvariant /\ LossInvariant /\ Timely /\ [Next]_vars
            => (UseInvariant /\ LossInvariant)'
  BY UsesGoOn, LossGoesOn
<1>2. Init => UseInvariant /\ LossInvariant
  <2>1. Init => LossInvariant
    BY DEF Init, MiningInit, LossInvariant, InSum
  <2> QED
    BY <2>1, MiningStarts, SumsStart, UsesStart DEF UseInvariant
<1>3. LossInvariant => NothingLost
  <2> SUFFICES ASSUME LossInvariant, faults = 0, NEW c \in Epochs, NEW s \in Shares,
                      InSum(s, c)
               PROVE  /\ totaldiff_challengenumber[c][s] = 1
                      /\ \/ Counting(s)
                         \/ \E i \in RowsOf(MinerOf[s], c) : InRow(s, i)
                      /\ s \in Solvers => \/ Queueing(s)
                                          \/ \E k \in DOMAIN solutions : solutions[k] = s
    BY DEF NothingLost, InSum
  <2>1. Kept(s, c)
    BY DEF LossInvariant
  <2> QED
    BY <2>1 DEF Kept, CountedFor, Counting, InTotal, RowsOf, InSolutions
<1> QED
  BY <1>1, <1>2, <1>3, PTL DEF Spec

=============================================================================
