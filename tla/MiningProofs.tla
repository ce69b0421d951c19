---------------------------- MODULE MiningProofs ----------------------------
(***************************************************************************)
(* The types of MiningSystem, and that no crawl finds a row closed, for    *)
(* every value of the constants; and what its steps are to the shares.     *)
(***************************************************************************)
EXTENDS MiningSystem, CollectionFacts

\* The parameters of a contract that was read whole, in the order they were asked for.
Ordered ==
    {c \in Contract : 1 <= c.challenge /\ c.challenge <= c.epoch /\ c.epoch <= c.blob}

\* What was written was read whole, and a record is that of its epoch.
RecordsOK ==
    /\ miningContractData \in Ordered \cup {NoContract}
    /\ \A e \in Epochs :
        \/ allminingContracts[e] = NoContract
        \/ allminingContracts[e] \in Ordered /\ allminingContracts[e].epoch = e

\* A call has read what it has come to, one parameter after the other.
CollectOK(state) ==
    /\ state \in CollectState
    /\ state.at >= 2 =>
        1 <= state.contract.challenge /\ state.contract.challenge <= contractEpoch
    /\ state.at >= 3 =>
        /\ state.contract.challenge <= state.contract.epoch
        /\ state.contract.epoch <= contractEpoch
    /\ state.at >= 4 =>
        /\ state.contract.epoch <= state.contract.blob
        /\ state.contract.blob <= contractEpoch
    /\ state.pc # "read" => state.at = 4

CollectsOK == \A r \in CollectRuns : CollectOK(collect[r])

\* The pcs of a process that has a share at hand, and of one that counts it.
AtShare == {"check", "find", "pace", "total", "write", "both", "insert", "row", "credit",
            "queue", "ack"}
AtWork == AtShare \ {"check", "ack"}

\* A process holds entries of the stream, and counts a share for a challenge that is not
\* newer than the blob the share was found for.
ProcessOK(state) ==
    /\ state \in ProcessState
    /\ state.batch \subseteq Entries
    /\ state.entry \in Entries \cup {NoEntry}
    /\ state.pc \in AtShare => state.share \in Shares
    /\ state.pc \in AtWork =>
        state.challenge \in Epochs /\ state.challenge <= EpochOf[state.share]

ProcessesOK == \A p \in Processors : ProcessOK(proc[p])

----------------------------------------------------------------------------
(* The operators of the model. *)

(* findOne takes a document that matches, and none before it does. *)
LEMMA FirstIsIn ==
    ASSUME NEW S \in SUBSET Nat, S # {}
    PROVE  FirstOf(S) \in S /\ \A i \in S : FirstOf(S) <= i
BY MinExists DEF FirstOf

LEMMA ParametersAre ==
    /\ Len(Parameters) = 3
    /\ Parameters[1] = "challenge" /\ Parameters[2] = "epoch" /\ Parameters[3] = "blob"
BY DEF Parameters

LEMMA ContractTypes ==
    /\ NoContract \in Contract /\ NoContract.epoch = 0 /\ NoContract.challenge = 0
    /\ NoContract.blob = 0
    /\ IdleCollect \in CollectState /\ IdleCollect.at = 1 /\ IdleCollect.pc = "read"
    /\ IdleCollect.contract = NoContract
    /\ Ordered \subseteq Contract
    /\ \A c \in Ordered : /\ c.challenge \in Epochs /\ c.epoch \in Epochs /\ c.blob \in Epochs
                          /\ c # NoContract
<1> USE EpochAssumption, ParametersAre DEF NoContract, Contract, Epochs
<1>1. NoContract \in Contract
  OBVIOUS
<1>2. IdleCollect \in CollectState
  BY <1>1 DEF IdleCollect, CollectState
<1> QED
  BY <1>1, <1>2 DEF IdleCollect, Ordered

(* The share added to a tally is in it once more. *)
LEMMA TallyTypes ==
    /\ NoShares \in Tally /\ \A s \in Shares : NoShares[s] = 0
    /\ \A t \in Tally : t # None
    /\ \A t \in Tally, s \in Shares :
        /\ PlusShare(t, s) \in Tally
        /\ PlusShare(t, s)[s] = t[s] + 1
        /\ \A z \in Shares : z # s => PlusShare(t, s)[z] = t[z]
    /\ \A t, u \in Tally :
        /\ SumTally(t, u) \in Tally
        /\ \A s \in Shares : SumTally(t, u)[s] = t[s] + u[s]
BY NoneAssumption DEF NoShares, Tally, PlusShare, SumTally

(* A new row, and a row with another total or another status. *)
LEMMA RowTypes ==
    ASSUME NEW m \in Miners, NEW c \in Epochs, NEW t \in Tally
    PROVE  /\ NewRow(m, c, t) \in ChallengeDiff
           /\ NewRow(m, c, t).miner = m /\ NewRow(m, c, t).challenge = c
           /\ NewRow(m, c, t).totaldiff = t /\ NewRow(m, c, t).status = 1
BY DEF NewRow, ChallengeDiff

----------------------------------------------------------------------------
(* The collector. *)

CollectorInvariant ==
    /\ MiningTypeOK
    /\ CollectTypeOK
    /\ RecordsOK
    /\ CollectsOK

(* A request reads the next parameter, which is no older than the last. *)
LEMMA ReadParameterTypes ==
    ASSUME CollectorInvariant, NEW r \in CollectRuns, ReadParameter(r)
    PROVE  collect' \in [CollectRuns -> CollectState] /\ CollectsOK'
<1> DEFINE old == collect[r]
           n == old.at
           x == Parameters[n]
           contract == [old.contract EXCEPT ![x] = contractEpoch]
           new == [old EXCEPT !.at = n + 1, !.contract = contract]
<1>1. /\ old \in CollectState /\ CollectOK(old) /\ old.contract \in Contract
      /\ contractEpoch \in Epochs
      /\ n \in {1, 2, 3} /\ old.pc = "read"
  BY ParametersAre DEF CollectorInvariant, MiningTypeOK, CollectTypeOK, CollectsOK,
     CollectState, ReadParameter
<1>2. collect' = [collect EXCEPT ![r] = new]
  BY <1>1 DEF ReadParameter, CollectorInvariant, CollectTypeOK, CollectState
<1>3. contract \in Contract /\ x \in {"challenge", "epoch", "blob"}
  BY <1>1, ParametersAre DEF Contract, Epochs
<1>4. new \in CollectState /\ new.at = n + 1 /\ new.contract = contract /\ new.pc = "read"
  <2>1. n + 1 \in 1..(Len(Parameters) + 1)
    BY <1>1, ParametersAre
  <2> HIDE DEF contract, x, n
  <2> QED
    BY <1>1, <1>3, <2>1 DEF CollectState
<1>5. CollectOK(new)
  <2>1. contractEpoch \in 1..MaxEpoch /\ MaxEpoch \in Nat
    BY <1>1, EpochAssumption DEF Epochs
  <2>2. CASE n = 1
    <3>1. contract.challenge = contractEpoch
      BY <1>1, <2>2, ParametersAre DEF Contract
    <3> HIDE DEF new, contract, n
    <3> QED
      BY <1>4, <2>1, <2>2, <3>1 DEF CollectOK
  <2>3. CASE n = 2
    <3>1. /\ contract.challenge = old.contract.challenge
          /\ contract.epoch = contractEpoch
      BY <1>1, <2>3, ParametersAre DEF Contract
    <3>2. 1 <= old.contract.challenge /\ old.contract.challenge <= contractEpoch
      BY <1>1, <2>3 DEF CollectOK
    <3> HIDE DEF new, contract, n, old
    <3> QED
      BY <1>4, <2>1, <2>3, <3>1, <3>2 DEF CollectOK
  <2>4. CASE n = 3
    <3>1. /\ contract.challenge = old.contract.challenge
          /\ contract.epoch = old.contract.epoch
          /\ contract.blob = contractEpoch
      BY <1>1, <2>4, ParametersAre DEF Contract
    <3>2. /\ 1 <= old.contract.challenge /\ old.contract.challenge <= contractEpoch
          /\ old.contract.challenge <= old.contract.epoch
          /\ old.contract.epoch <= contractEpoch
      BY <1>1, <2>4 DEF CollectOK
    <3> HIDE DEF new, contract, n, old
    <3> QED
      BY <1>4, <2>1, <2>4, <3>1, <3>2 DEF CollectOK
  <2> QED
    BY <1>1, <2>2, <2>3, <2>4
<1> HIDE DEF new
<1>6. contractEpoch' = contractEpoch
  BY DEF ReadParameter, miningVars
<1> QED
  BY <1>1, <1>2, <1>4, <1>5, <1>6
  DEF CollectorInvariant, CollectTypeOK, CollectsOK, CollectOK

(* What one call does to itself: it goes on, or is over. *)
LEMMA CollectMoves ==
    ASSUME CollectorInvariant, contractEpoch' = contractEpoch,
           NEW r \in CollectRuns, NEW new,
           collect' = [collect EXCEPT ![r] = new],
           new \in CollectState,
           \/ new = IdleCollect
           \/ /\ collect[r].at = 4
              /\ new.at = 4 /\ new.contract = collect[r].contract
    PROVE  collect' \in [CollectRuns -> CollectState] /\ CollectsOK'
<1>1. CollectOK(collect[r])
  BY DEF CollectorInvariant, CollectsOK
<1>2. CollectOK(new)
  <2>1. CASE new = IdleCollect
    BY <2>1, ContractTypes DEF CollectOK
  <2>2. CASE /\ collect[r].at = 4
             /\ new.at = 4 /\ new.contract = collect[r].contract
    BY <1>1, <2>2 DEF CollectOK
  <2> QED
    BY <2>1, <2>2
<1> QED
  BY <1>1, <1>2 DEF CollectorInvariant, CollectTypeOK, CollectsOK, CollectOK

(* What a call has read whole is in order. *)
LEMMA ReadWhole ==
    ASSUME CollectorInvariant, NEW r \in CollectRuns, collect[r].at > 3
    PROVE  /\ collect[r].contract \in Ordered
           /\ collect[r].at = 4
           /\ collect[r].contract.blob <= contractEpoch
<1>1. CollectOK(collect[r]) /\ collect[r] \in CollectState
  BY DEF CollectorInvariant, CollectsOK, CollectOK
<1>2. collect[r].at = 4 /\ collect[r].contract \in Contract
  BY <1>1, ParametersAre DEF CollectState
<1> QED
  BY <1>1, <1>2 DEF CollectOK, Ordered

LEMMA CompareTypes ==
    ASSUME CollectorInvariant, NEW r \in CollectRuns, CompareChallenge(r)
    PROVE  collect' \in [CollectRuns -> CollectState] /\ CollectsOK'
<1> DEFINE seen == collect[r].contract.challenge = miningContractData.challenge
           going == [collect[r] EXCEPT !.pc = "data",
                                       !.existing = miningContractData.challenge]
           new == IF seen THEN IdleCollect ELSE going
<1>1. collect[r] \in CollectState /\ miningContractData.challenge \in 0..MaxEpoch
  BY ContractTypes DEF CollectorInvariant, CollectTypeOK, MiningTypeOK, Contract
<1>2. going \in CollectState /\ going.at = collect[r].at
      /\ going.contract = collect[r].contract
  BY <1>1 DEF CollectState
<1>3. collect' = [collect EXCEPT ![r] = new] /\ contractEpoch' = contractEpoch
  BY DEF CompareChallenge, Compare, miningVars
<1>4. collect[r].at = 4
  BY ReadWhole, ParametersAre DEF CompareChallenge, Compare
<1>5. new \in CollectState /\ (new = IdleCollect \/ new = going)
  BY <1>2, ContractTypes
<1> HIDE DEF new, going
<1> QED
  BY <1>2, <1>3, <1>4, <1>5, CollectMoves

(* The other steps of a call. *)
LEMMA GoOnTypes ==
    ASSUME CollectorInvariant, contractEpoch' = contractEpoch,
           NEW r \in CollectRuns, NEW pc \in {"record", "total", "purge"},
           collect[r].pc # "read", collect' = [collect EXCEPT ![r].pc = pc]
    PROVE  collect' \in [CollectRuns -> CollectState] /\ CollectsOK'
<1> DEFINE new == [collect[r] EXCEPT !.pc = pc]
<1>1. collect[r] \in CollectState /\ CollectOK(collect[r])
  BY DEF CollectorInvariant, CollectTypeOK, CollectsOK
<1>2. /\ new \in CollectState /\ new.at = collect[r].at
      /\ new.contract = collect[r].contract
      /\ collect[r].at = 4
  BY <1>1 DEF CollectState, CollectOK
<1>3. collect' = [collect EXCEPT ![r] = new]
  OBVIOUS
<1> HIDE DEF new
<1> QED
  BY <1>2, <1>3, CollectMoves

(* The purge keeps shares of the list. *)
LEMMA PurgeTypes ==
    ASSUME CollectorInvariant, NEW r \in CollectRuns, PurgeQueuedShares(r)
    PROVE  queued_shares_list' \in Seq(Shares)
<1> DEFINE kept == {i \in DOMAIN queued_shares_list :
                    /\ EpochOf[queued_shares_list[i]] # collect[r].existing
                    /\ EpochOf[queued_shares_list[i]] = collect[r].contract.challenge}
<1>1. queued_shares_list \in Seq(Shares)
  BY DEF CollectorInvariant, CollectTypeOK
<1>2. kept \subseteq 1..Len(queued_shares_list) /\ Len(queued_shares_list) \in Nat
  BY <1>1
<1>3. Cardinality(kept) \in Nat
  <2>1. IsFiniteSet(1..Len(queued_shares_list))
    BY <1>2, FS_Interval
  <2> HIDE DEF kept
  <2>2. IsFiniteSet(kept)
    BY <1>2, <2>1, FS_Subset
  <2> QED
    BY <2>2, FS_CardinalityType
<1>4. PICK place \in [1..Cardinality(kept) -> kept] :
        queued_shares_list' = [i \in DOMAIN place |-> queued_shares_list[place[i]]]
  BY DEF PurgeQueuedShares
<1>5. \A k \in kept : queued_shares_list[k] \in Shares
  BY <1>1, <1>2
<1> HIDE DEF kept
<1>6. queued_shares_list' \in [1..Cardinality(kept) -> Shares]
  BY <1>4, <1>5
<1> QED
  BY <1>3, <1>6, FunctionIsSeq

(* Every step of a call. *)
LEMMA CollectStepTypes ==
    ASSUME CollectorInvariant, NEW r \in CollectRuns, CollectStep(r)
    PROVE  CollectorInvariant'
<1> USE DEF CollectorInvariant
<1>1. CASE ReadParameter(r)
  BY <1>1, ReadParameterTypes
  DEF ReadParameter, MiningTypeOK, CollectTypeOK, RecordsOK, miningVars
<1>2. CASE CompareChallenge(r)
  BY <1>2, CompareTypes
  DEF CompareChallenge, Compare, MiningTypeOK, CollectTypeOK, RecordsOK, miningVars
<1>3. CASE WriteMiningContractData(r)
  <2>1. collect' \in [CollectRuns -> CollectState] /\ CollectsOK'
    BY <1>3, GoOnTypes DEF WriteMiningContractData
  <2>2. collect[r].at > 3
    BY <1>3 DEF WriteMiningContractData, CollectsOK, CollectOK
  <2>3. collect[r].contract \in Ordered
    BY <2>2, ReadWhole
  <2> QED
    BY <1>3, <2>1, <2>3, ContractTypes
    DEF WriteMiningContractData, MiningTypeOK, CollectTypeOK, RecordsOK
<1>4. CASE WriteAllMiningContracts(r)
  <2> DEFINE contract == collect[r].contract
  <2>1. collect' \in [CollectRuns -> CollectState] /\ CollectsOK'
    BY <1>4, GoOnTypes DEF WriteAllMiningContracts
  <2>2. collect[r].at > 3
    BY <1>4 DEF WriteAllMiningContracts, CollectsOK, CollectOK
  <2>3. contract \in Ordered
    BY <2>2, ReadWhole
  <2>4. allminingContracts' = [allminingContracts EXCEPT ![contract.epoch] = contract]
    BY <1>4 DEF WriteAllMiningContracts
  <2> HIDE DEF contract
  <2>5. allminingContracts' \in [Epochs -> Contract]
    BY <2>3, <2>4, ContractTypes DEF MiningTypeOK
  <2>6. ASSUME NEW e \in Epochs
        PROVE  \/ allminingContracts'[e] = NoContract
               \/ allminingContracts'[e] \in Ordered /\ allminingContracts'[e].epoch = e
    <3>1. allminingContracts'[e] = IF e = contract.epoch THEN contract
                                   ELSE allminingContracts[e]
      BY <2>4 DEF MiningTypeOK
    <3> QED
      BY <2>3, <3>1 DEF RecordsOK
  <2>7. miningContractData' = miningContractData
    BY <1>4 DEF WriteAllMiningContracts
  <2>8. RecordsOK'
    BY <2>6, <2>7 DEF RecordsOK
  <2> QED
    BY <1>4, <2>1, <2>5, <2>8 DEF WriteAllMiningContracts, MiningTypeOK, CollectTypeOK
<1>5. CASE EnsureTotal(r)
  <2>1. collect' \in [CollectRuns -> CollectState] /\ CollectsOK'
    BY <1>5, GoOnTypes DEF EnsureTotal
  <2>2. totaldiff_challengenumber' \in [Epochs -> Tally \cup {None}]
    <3> DEFINE c == collect[r].contract.challenge
               total == totaldiff_challengenumber[c]
               new == IF total = None THEN NoShares ELSE total
    <3>1. totaldiff_challengenumber' = [totaldiff_challengenumber EXCEPT ![c] = new]
      BY <1>5 DEF EnsureTotal
    <3>2. c \in Epochs => new \in Tally \cup {None}
      BY TallyTypes DEF MiningTypeOK
    <3> HIDE DEF new, c
    <3> QED
      BY <3>1, <3>2 DEF MiningTypeOK
  <2> QED
    BY <1>5, <2>1, <2>2 DEF EnsureTotal, MiningTypeOK, CollectTypeOK, RecordsOK
<1>6. CASE PurgeQueuedShares(r)
  <2>1. collect' = [collect EXCEPT ![r] = IdleCollect] /\ contractEpoch' = contractEpoch
    BY <1>6 DEF PurgeQueuedShares, miningVars
  <2>2. collect' \in [CollectRuns -> CollectState] /\ CollectsOK'
    BY <2>1, ContractTypes, CollectMoves
  <2> QED
    BY <1>6, <2>2, PurgeTypes
    DEF PurgeQueuedShares, MiningTypeOK, CollectTypeOK, RecordsOK, miningVars
<1> QED
  BY <1>1, <1>2, <1>3, <1>4, <1>5, <1>6 DEF CollectStep

(* Calls that are over. *)
LEMMA CollectFailTypes ==
    ASSUME CollectorInvariant, UNCHANGED <<queued_shares_list, miningVars>>,
           \/ \E r \in CollectRuns : collect' = [collect EXCEPT ![r] = IdleCollect]
           \/ collect' = [r \in CollectRuns |-> IdleCollect]
    PROVE  CollectorInvariant'
<1>1. CollectOK(IdleCollect)
  BY ContractTypes DEF CollectOK
<1>2. contractEpoch' = contractEpoch
  BY DEF miningVars
<1>3. collect' \in [CollectRuns -> CollectState] /\ \A r \in CollectRuns : CollectOK(collect'[r])
  BY <1>1, ContractTypes DEF CollectorInvariant, CollectTypeOK, CollectsOK
<1>4. CollectsOK'
  BY <1>2, <1>3 DEF CollectsOK, CollectOK
<1> QED
  BY <1>3, <1>4
  DEF CollectorInvariant, CollectTypeOK, MiningTypeOK, RecordsOK, miningVars

(* The contract goes on. *)
LEMMA NewEpochTypes ==
    ASSUME CollectorInvariant, NewEpoch, UNCHANGED collectVars
    PROVE  CollectorInvariant'
<1>1. /\ contractEpoch \in 1..MaxEpoch /\ MaxEpoch \in Nat
      /\ contractEpoch' = contractEpoch + 1 /\ contractEpoch < MaxEpoch
  BY EpochAssumption DEF CollectorInvariant, MiningTypeOK, NewEpoch, Epochs
<1>2. ASSUME NEW r \in CollectRuns
      PROVE  CollectOK(collect[r])'
  <2>1. CollectOK(collect[r])
    BY DEF CollectorInvariant, CollectsOK
  <2>2. collect[r].contract \in Contract /\ collect' = collect
    BY DEF CollectorInvariant, CollectTypeOK, CollectState, collectVars
  <2>3. /\ collect[r].contract.challenge \in Nat /\ collect[r].contract.epoch \in Nat
        /\ collect[r].contract.blob \in Nat
    BY <2>2, EpochAssumption DEF Contract
  <2> QED
    BY <1>1, <2>1, <2>2, <2>3 DEF CollectOK
<1>3. CollectsOK'
  BY <1>2 DEF CollectsOK
<1>4. MiningTypeOK'
  BY <1>1 DEF CollectorInvariant, MiningTypeOK, NewEpoch, Epochs
<1> QED
  BY <1>3, <1>4
  DEF CollectorInvariant, CollectTypeOK, NewEpoch, RecordsOK, collectVars

(* Sums and rows leave the contract's data alone. *)
LEMMA DataStays ==
    ASSUME CollectorInvariant, UNCHANGED <<contractEpoch, miningContractData,
                                           allminingContracts, collect>>,
           queued_shares_list' \in Seq(Shares),
           totaldiff_challengenumber' \in [Epochs -> Tally \cup {None}],
           miner_challengediff' \in Seq(ChallengeDiff)
    PROVE  CollectorInvariant'
<1>1. CollectsOK'
  BY DEF CollectorInvariant, CollectsOK, CollectOK
<1>2. RecordsOK'
  BY DEF CollectorInvariant, RecordsOK
<1> QED
  BY <1>1, <1>2 DEF CollectorInvariant, CollectTypeOK, MiningTypeOK

----------------------------------------------------------------------------
(* The processors. *)

ShareInvariant ==
    /\ CollectorInvariant
    /\ ShareTypeOK
    /\ ProcessesOK

LEMMA WaitingTypes ==
    ASSUME NEW pc \in {"down", "claim", "drain", "read", "list"},
           NEW mode \in {"drain", "read", "list"}
    PROVE  /\ ProcessOK(Waiting(pc, mode, {}))
           /\ Waiting(pc, mode, {}).pc = pc
           /\ Waiting(pc, mode, {}).challenge = 0
<1> DEFINE new == Waiting(pc, mode, {})
<1>1. /\ new.pc = pc /\ new.batch = {} /\ new.entry = NoEntry /\ new.mode = mode
      /\ new.challenge = 0 /\ new.share = None /\ new.total = NoShares /\ new.row = 0
      /\ new.mine = NoShares
  BY DEF Waiting
<1>2. new \in ProcessState
  BY TallyTypes, EpochAssumption DEF Waiting, ProcessState, NoEntry
<1> HIDE DEF new
<1>3. ProcessOK(new)
  BY <1>1, <1>2 DEF ProcessOK, AtShare, AtWork
<1> QED
  BY <1>1, <1>3 DEF new

LEMMA HandleTypes ==
    ASSUME ShareTypeOK, NEW mode \in {"drain", "read", "list"},
           NEW batch \in SUBSET Entries
    PROVE  /\ ProcessOK(Handle(mode, batch))
           /\ Handle(mode, batch).pc \in {"drain", "read", "list", "check"}
           /\ Handle(mode, batch).challenge = 0
<1>1. CASE batch = {}
  BY <1>1, WaitingTypes DEF Handle
<1>2. CASE batch # {}
  <2> DEFINE i == FirstOf(batch)
             new == [pc |-> "check", mode |-> mode, batch |-> batch \ {i},
                     entry |-> i, share |-> stream[i], challenge |-> 0,
                     total |-> NoShares, row |-> 0, mine |-> NoShares]
  <2>1. Entries \subseteq Nat /\ \A k \in Entries : stream[k] \in Shares
    BY DEF ShareTypeOK, Entries
  <2>2. i \in batch
    BY <1>2, <2>1, FirstIsIn
  <2>3. Handle(mode, batch) = new
    BY <1>2 DEF Handle, Waiting
  <2> HIDE DEF i
  <2>4. new \in ProcessState
    <3>1. /\ stream[i] \in Shares /\ i \in Nat /\ batch \ {i} \in SUBSET Nat
          /\ NoShares \in Tally /\ 0 \in 0..MaxEpoch
      BY <2>1, <2>2, TallyTypes, EpochAssumption
    <3> QED
      BY <3>1 DEF ProcessState
  <2>5. ProcessOK(new)
    BY <2>1, <2>2, <2>4 DEF ProcessOK, AtShare, AtWork
  <2> QED
    BY <2>3, <2>5
<1> QED
  BY <1>1, <1>2

(* One process moves, and the entries only grow. *)
LEMMA ProcessMoves ==
    ASSUME ShareInvariant, NEW p \in Processors, NEW new, ProcessOK(new),
           proc' = [proc EXCEPT ![p] = new], stream' = stream
    PROVE  proc' \in [Processors -> ProcessState] /\ ProcessesOK'
<1>1. \A q \in Processors : ProcessOK(proc'[q])
  BY DEF ShareInvariant, ShareTypeOK, ProcessesOK
<1>2. proc' \in [Processors -> ProcessState]
  BY DEF ShareInvariant, ShareTypeOK, ProcessOK
<1>3. Entries' = Entries
  BY DEF Entries
<1> QED
  BY <1>1, <1>2, <1>3 DEF ProcessesOK, ProcessOK

(* A process that goes on with the share it is at. *)
LEMMA GoOnWithShare ==
    ASSUME NEW old, ProcessOK(old), NEW new \in ProcessState,
           old.pc \in AtShare, new.pc \in AtShare,
           new.batch = old.batch, new.entry = old.entry, new.share = old.share,
           new.pc \in AtWork => old.pc \in AtWork /\ new.challenge = old.challenge
    PROVE  ProcessOK(new)
BY DEF ProcessOK

LEMMA GotoTypes ==
    ASSUME ShareInvariant, NEW p \in Processors, NEW pc \in AtShare,
           proc[p].pc \in AtShare, pc \in AtWork => proc[p].pc \in AtWork
    PROVE  ProcessOK([proc[p] EXCEPT !.pc = pc])
<1>1. ProcessOK(proc[p]) /\ proc[p] \in ProcessState
  BY DEF ShareInvariant, ProcessesOK, ProcessOK
<1>2. [proc[p] EXCEPT !.pc = pc] \in ProcessState
  BY <1>1 DEF ProcessState, AtShare
<1> QED
  BY <1>1, <1>2, GoOnWithShare DEF ProcessState

(* What a step of a process does to the shares, apart from the process itself. *)
QueuesStay ==
    /\ stream' = stream
    /\ acked' \subseteq Entries
    /\ pending' \in [Processors -> SUBSET Entries]
    /\ miner_pendingshares' \subseteq PendingShare
    /\ lastSubmitted' \subseteq Miners
    /\ solutions' \in Seq(Shares)

LEMMA OneProcessMoves ==
    ASSUME ShareInvariant, NEW p \in Processors, NEW new, ProcessOK(new),
           proc' = [proc EXCEPT ![p] = new], QueuesStay, CollectorInvariant'
    PROVE  ShareInvariant'
<1>1. proc' \in [Processors -> ProcessState] /\ ProcessesOK'
  BY ProcessMoves DEF QueuesStay
<1>2. Entries' = Entries
  BY DEF QueuesStay, Entries
<1>3. ShareTypeOK'
  BY <1>1, <1>2 DEF QueuesStay, ShareInvariant, ShareTypeOK
<1> QED
  BY <1>1, <1>3 DEF ShareInvariant

(* The steps of a process that write nothing but what it knows. *)
LEMMA LocalStepTypes ==
    ASSUME ShareInvariant, NEW p \in Processors, NEW new, ProcessOK(new),
           SetProcess(p, new), QueuesStay
    PROVE  ShareInvariant'
<1>1. UNCHANGED <<contractEpoch, miningContractData, allminingContracts, collect,
                  queued_shares_list, totaldiff_challengenumber, miner_challengediff>>
  BY DEF SetProcess, collectVars, miningVars
<1>2. CollectorInvariant'
  BY <1>1, DataStays DEF ShareInvariant, CollectorInvariant, MiningTypeOK, CollectTypeOK
<1> QED
  BY <1>2, OneProcessMoves DEF SetProcess

LEMMA UnchangedQueues ==
    ASSUME ShareInvariant, UNCHANGED <<queueVars, storeVars>>
    PROVE  QueuesStay
BY DEF ShareInvariant, ShareTypeOK, QueuesStay, queueVars, storeVars

(* The loop of a process. *)
LEMMA LoopTypes ==
    ASSUME ShareInvariant, NEW p \in Processors,
           Start(p) \/ StartWithoutRedis(p) \/ Reclaim(p) \/ LoopStep(p)
    PROVE  ShareInvariant'
<1>0. /\ ShareTypeOK /\ acked \subseteq Entries /\ pending \in [Processors -> SUBSET Entries]
  BY DEF ShareInvariant, ShareTypeOK
<1>1. CASE Start(p) \/ Reclaim(p)
  BY <1>1, UnchangedQueues, WaitingTypes, LocalStepTypes DEF Start, Reclaim
<1>2. CASE StartWithoutRedis(p)
  BY <1>2, UnchangedQueues, WaitingTypes, LocalStepTypes DEF StartWithoutRedis
<1>3. CASE ClaimStaleShares(p)
  <2>1. PICK entries \in SUBSET HeldByOthers(p) : Claim(p, entries)
    BY <1>3 DEF ClaimStaleShares
  <2>2. entries \subseteq Entries
    BY <1>0 DEF HeldByOthers
  <2>3. QueuesStay
    <3>1. pending' \in [Processors -> SUBSET Entries]
      BY <1>0, <2>1, <2>2 DEF Claim
    <3> QED
      BY <2>1, <3>1 DEF Claim, QueuesStay, ShareInvariant, ShareTypeOK, storeVars
  <2> QED
    BY <2>1, <2>3, WaitingTypes, LocalStepTypes DEF Claim
<1>4. CASE ReadPendingShares(p)
  <2> DEFINE batch == FirstBatch(pending[p])
             new == IF pending[p] = {} THEN Waiting("read", "read", {})
                    ELSE Handle("drain", batch)
  <2>1. batch \in SUBSET Entries
    BY <1>0 DEF FirstBatch
  <2> HIDE DEF batch
  <2>2. ProcessOK(new)
    BY <1>0, <2>1, WaitingTypes, HandleTypes
  <2> USE DEF batch
  <2>3. SetProcess(p, new)
    BY <1>4 DEF ReadPendingShares
  <2> HIDE DEF new
  <2> QED
    BY <1>4, <2>2, <2>3, UnchangedQueues, LocalStepTypes DEF ReadPendingShares
<1>5. CASE ReadShares(p)
  <2> DEFINE batch == FirstBatch(Entries \ Delivered)
             new == Handle("read", batch)
  <2>1. batch \in SUBSET Entries
    BY DEF FirstBatch
  <2>2. /\ pending' = [pending EXCEPT ![p] = @ \cup batch]
        /\ SetProcess(p, new)
    BY <1>5 DEF ReadShares
  <2> HIDE DEF batch
  <2>3. ProcessOK(new)
    BY <1>0, <2>1, HandleTypes
  <2>4. pending' \in [Processors -> SUBSET Entries]
    BY <1>0, <2>1, <2>2
  <2>5. QueuesStay
    BY <1>5, <2>4 DEF ReadShares, QueuesStay, ShareInvariant, ShareTypeOK, storeVars
  <2> HIDE DEF new
  <2> QED
    BY <2>2, <2>3, <2>5, LocalStepTypes
<1>6. CASE TakeFromList(p)
  <2> DEFINE new == [proc[p] EXCEPT !.pc = "check", !.share = Head(queued_shares_list)]
  <2>1. /\ queued_shares_list \in Seq(Shares) /\ queued_shares_list # <<>>
        /\ ProcessOK(proc[p]) /\ proc[p] \in ProcessState
    BY <1>6 DEF TakeFromList, ShareInvariant, CollectorInvariant, CollectTypeOK,
                ProcessesOK, ProcessOK
  <2>2. /\ Head(queued_shares_list) \in Shares
        /\ Tail(queued_shares_list) \in Seq(Shares)
    BY <2>1
  <2>3. new \in ProcessState /\ new.pc = "check" /\ new.batch = proc[p].batch
        /\ new.entry = proc[p].entry /\ new.share \in Shares
    BY <2>1, <2>2 DEF ProcessState
  <2>4. ProcessOK(new)
    BY <2>1, <2>3 DEF ProcessOK, AtShare, AtWork
  <2>5. proc' = [proc EXCEPT ![p] = new]
    BY <1>6 DEF TakeFromList
  <2>6. CollectorInvariant'
    BY <1>6, <2>2, DataStays
    DEF TakeFromList, ShareInvariant, CollectorInvariant, MiningTypeOK, miningVars
  <2>7. QueuesStay
    BY <1>6, UnchangedQueues DEF TakeFromList
  <2> HIDE DEF new
  <2> QED
    BY <2>4, <2>5, <2>6, <2>7, OneProcessMoves
<1> QED
  BY <1>1, <1>2, <1>3, <1>4, <1>5, <1>6 DEF LoopStep

(* The share at hand, and what it is counted for. *)
LEMMA AtHand ==
    ASSUME ShareInvariant, NEW p \in Processors
    PROVE  /\ ProcessOK(proc[p]) /\ proc[p] \in ProcessState
           /\ proc[p].pc \in AtShare =>
                /\ proc[p].share \in Shares
                /\ MinerOf[proc[p].share] \in Miners
                /\ EpochOf[proc[p].share] \in Epochs
           /\ proc[p].pc \in AtWork =>
                /\ proc[p].challenge \in Epochs
                /\ proc[p].challenge <= EpochOf[proc[p].share]
           /\ proc[p].total \in Tally /\ proc[p].mine \in Tally
BY FinderAssumption DEF ShareInvariant, ProcessesOK, ProcessOK, ProcessState, Epochs

(* A miner's rows are rows. *)
LEMMA RowsOfTypes ==
    ASSUME MiningTypeOK, NEW m, NEW c, RowsOf(m, c) # {}
    PROVE  /\ FirstOf(RowsOf(m, c)) \in RowsOf(m, c)
           /\ FirstOf(RowsOf(m, c)) \in Rows /\ FirstOf(RowsOf(m, c)) \in Nat
           /\ \A i \in RowsOf(m, c) : FirstOf(RowsOf(m, c)) <= i
           /\ miner_challengediff[FirstOf(RowsOf(m, c))].miner = m
           /\ miner_challengediff[FirstOf(RowsOf(m, c))].challenge = c
           /\ miner_challengediff[FirstOf(RowsOf(m, c))].totaldiff \in Tally
<1>1. RowsOf(m, c) \subseteq Rows /\ Rows \subseteq Nat
  BY DEF MiningTypeOK, RowsOf, Rows
<1>2. /\ FirstOf(RowsOf(m, c)) \in RowsOf(m, c)
      /\ \A i \in RowsOf(m, c) : FirstOf(RowsOf(m, c)) <= i
  BY <1>1, FirstIsIn
<1>3. \A i \in RowsOf(m, c) : /\ miner_challengediff[i].miner = m
                              /\ miner_challengediff[i].challenge = c
                              /\ miner_challengediff[i].totaldiff \in Tally
  <2>1. \A i \in Rows : miner_challengediff[i] \in ChallengeDiff
    BY DEF MiningTypeOK, Rows
  <2> QED
    BY <2>1 DEF RowsOf, ChallengeDiff
<1> QED
  BY <1>1, <1>2, <1>3

(* The blob that is compared is that of an epoch, and the challenge not newer. *)
LEMMA CheckShareTypes ==
    ASSUME ShareInvariant, NEW p \in Processors, CheckShare(p)
    PROVE  ShareInvariant'
<1> DEFINE good == EpochOf[proc[p].share] = miningContractData.blob
           counted == [proc[p] EXCEPT !.pc = "find",
                                      !.challenge = miningContractData.challenge]
           new == IF good THEN counted ELSE [proc[p] EXCEPT !.pc = "ack"]
<1>1. /\ proc[p].pc = "check" /\ SetProcess(p, new)
      /\ UNCHANGED <<queueVars, storeVars>>
  BY DEF CheckShare, Accept
<1>2. /\ ProcessOK(proc[p]) /\ proc[p] \in ProcessState /\ proc[p].share \in Shares
      /\ EpochOf[proc[p].share] \in Epochs
  BY <1>1, AtHand DEF AtShare
<1>3. ASSUME good PROVE ProcessOK(counted)
  <2>1. miningContractData \in Ordered
    BY <1>2, <1>3, ContractTypes, EpochAssumption
    DEF ShareInvariant, CollectorInvariant, RecordsOK, Epochs
  <2>2. /\ miningContractData.challenge \in Epochs
        /\ miningContractData.challenge <= EpochOf[proc[p].share]
        /\ miningContractData.challenge \in 0..MaxEpoch
    BY <1>3, <2>1, ContractTypes, EpochAssumption DEF Ordered, Epochs
  <2>3. counted \in ProcessState /\ counted.share = proc[p].share
        /\ counted.challenge = miningContractData.challenge
        /\ counted.batch = proc[p].batch /\ counted.entry = proc[p].entry
    BY <1>2, <2>2 DEF ProcessState
  <2> HIDE DEF counted
  <2> QED
    BY <1>2, <2>2, <2>3 DEF ProcessOK
<1>4. ProcessOK([proc[p] EXCEPT !.pc = "ack"])
  BY <1>1, GotoTypes DEF AtShare, AtWork
<1> HIDE DEF counted
<1>5. ProcessOK(new)
  BY <1>3, <1>4
<1> HIDE DEF new
<1> QED
  BY <1>1, <1>5, UnchangedQueues, LocalStepTypes

(* The steps that go on with the share and read or note something of it. *)
LEMMA LookTypes ==
    ASSUME ShareInvariant, NEW p \in Processors,
           FindDigest(p) \/ InPace(p) \/ TooFast(p) \/ ReadTotal(p) \/ QueueSolution(p)
    PROVE  ShareInvariant'
<1> USE DEF AtShare, AtWork
<1>0. ShareTypeOK
  BY DEF ShareInvariant
<1>1. CASE FindDigest(p)
  <2> DEFINE pc == IF \E q \in miner_pendingshares : q.share = proc[p].share
                   THEN "ack" ELSE "pace"
  <2>1. proc[p].pc = "find" /\ SetProcess(p, [proc[p] EXCEPT !.pc = pc])
        /\ UNCHANGED <<queueVars, storeVars>>
    BY <1>1 DEF FindDigest, Goto
  <2>2. pc \in {"ack", "pace"}
    OBVIOUS
  <2> HIDE DEF pc
  <2>3. ProcessOK([proc[p] EXCEPT !.pc = pc])
    BY <2>1, <2>2, GotoTypes
  <2> QED
    BY <2>1, <2>3, UnchangedQueues, LocalStepTypes
<1>2. CASE InPace(p)
  <2>1. ProcessOK([proc[p] EXCEPT !.pc = "total"])
    BY <1>2, GotoTypes DEF InPace
  <2>2. MinerOf[proc[p].share] \in Miners
    BY <1>2, AtHand DEF InPace
  <2>3. QueuesStay
    BY <1>0, <1>2, <2>2 DEF InPace, QueuesStay, ShareTypeOK, queueVars
  <2> QED
    BY <1>2, <2>1, <2>3, LocalStepTypes DEF InPace, Goto
<1>3. CASE TooFast(p)
  <2>1. ProcessOK([proc[p] EXCEPT !.pc = "ack"])
    BY <1>3, GotoTypes DEF TooFast
  <2> QED
    BY <1>3, <2>1, UnchangedQueues, LocalStepTypes DEF TooFast, Goto
<1>4. CASE ReadTotal(p)
  <2> DEFINE total == totaldiff_challengenumber[proc[p].challenge]
             read == [proc[p] EXCEPT !.pc = "write", !.total = total]
             new == IF total = None THEN [proc[p] EXCEPT !.pc = "ack"] ELSE read
  <2>1. /\ proc[p].pc = "total" /\ SetProcess(p, new) /\ UNCHANGED <<queueVars, storeVars>>
    BY <1>4 DEF ReadTotal
  <2>2. ProcessOK([proc[p] EXCEPT !.pc = "ack"])
    BY <2>1, GotoTypes
  <2>3. ASSUME total # None PROVE ProcessOK(read)
    <3>1. total \in Tally /\ ProcessOK(proc[p]) /\ proc[p] \in ProcessState
      BY <2>1, <2>3, AtHand DEF ShareInvariant, CollectorInvariant, MiningTypeOK
    <3> HIDE DEF total
    <3>2. /\ read \in ProcessState /\ read.pc = "write" /\ read.batch = proc[p].batch
          /\ read.entry = proc[p].entry /\ read.share = proc[p].share
          /\ read.challenge = proc[p].challenge
      BY <3>1 DEF ProcessState
    <3> HIDE DEF read
    <3> QED
      BY <2>1, <3>1, <3>2, GoOnWithShare
  <2> HIDE DEF read
  <2>4. ProcessOK(new)
    BY <2>2, <2>3
  <2> HIDE DEF new
  <2> QED
    BY <2>1, <2>4, UnchangedQueues, LocalStepTypes
<1>5. CASE QueueSolution(p)
  <2>1. ProcessOK([proc[p] EXCEPT !.pc = "ack"])
    BY <1>5, GotoTypes DEF QueueSolution
  <2>2. proc[p].share \in Shares
    BY <1>5, AtHand DEF QueueSolution
  <2>3. solutions' \in Seq(Shares)
    BY <1>0, <1>5, <2>2 DEF QueueSolution, ShareTypeOK
  <2>4. QueuesStay
    BY <1>0, <1>5, <2>3 DEF QueueSolution, QueuesStay, ShareTypeOK, queueVars
  <2> QED
    BY <1>5, <2>1, <2>4, LocalStepTypes DEF QueueSolution, Goto
<1> QED
  BY <1>1, <1>2, <1>3, <1>4, <1>5

(* The write of the total, and what follows it. *)
LEMMA WriteTotalTypes ==
    ASSUME ShareInvariant, NEW p \in Processors, WriteTotal(p)
    PROVE  ShareInvariant'
<1> DEFINE total == PlusShare(proc[p].total, proc[p].share)
<1>1. proc[p].share \in Shares /\ proc[p].total \in Tally
  BY AtHand DEF WriteTotal, AtShare
<1>2. total \in Tally
  BY <1>1, TallyTypes
<1> HIDE DEF total
<1>3. totaldiff_challengenumber' =
        [totaldiff_challengenumber EXCEPT ![proc[p].challenge] = total]
  BY DEF WriteTotal, total
<1>4. totaldiff_challengenumber' \in [Epochs -> Tally \cup {None}]
  BY <1>2, <1>3 DEF ShareInvariant, CollectorInvariant, MiningTypeOK
<1>5. CollectorInvariant'
  BY <1>4, DataStays DEF WriteTotal, ShareInvariant, CollectorInvariant, MiningTypeOK,
     CollectTypeOK, collectVars
<1>6. ProcessOK([proc[p] EXCEPT !.pc = "both"])
  BY GotoTypes DEF WriteTotal, AtShare, AtWork
<1> QED
  BY <1>5, <1>6, UnchangedQueues, OneProcessMoves DEF WriteTotal

LEMMA InsertTypes ==
    ASSUME ShareInvariant, NEW p \in Processors, InsertPendingShare(p)
    PROVE  ShareInvariant'
<1> DEFINE pc == IF proc[p].pc = "both" THEN "row" ELSE "credit"
           q == [share |-> proc[p].share, challenge |-> proc[p].challenge]
<1>1. /\ proc[p].pc \in {"both", "insert"}
      /\ SetProcess(p, [proc[p] EXCEPT !.pc = pc])
      /\ miner_pendingshares' = miner_pendingshares \cup {q}
  BY DEF InsertPendingShare, Goto
<1>2. q \in PendingShare
  BY <1>1, AtHand DEF AtShare, AtWork, PendingShare
<1>3. QueuesStay
  BY <1>1, <1>2 DEF InsertPendingShare, QueuesStay, ShareInvariant, ShareTypeOK, queueVars
<1>4. pc \in {"row", "credit"}
  OBVIOUS
<1> HIDE DEF pc, q
<1>5. ProcessOK([proc[p] EXCEPT !.pc = pc])
  BY <1>1, <1>4, GotoTypes DEF AtShare, AtWork
<1> QED
  BY <1>1, <1>3, <1>5, LocalStepTypes

LEMMA FindRowTypes ==
    ASSUME ShareInvariant, NEW p \in Processors, FindRow(p)
    PROVE  ShareInvariant'
<1> DEFINE rows == RowsOf(MinerOf[proc[p].share], proc[p].challenge)
           pc == IF proc[p].pc = "both" THEN "insert" ELSE "credit"
           row == IF rows = {} THEN 0 ELSE FirstOf(rows)
           mine == IF rows = {} THEN NoShares
                   ELSE miner_challengediff[FirstOf(rows)].totaldiff
           new == [proc[p] EXCEPT !.pc = pc, !.row = row, !.mine = mine]
<1>1. /\ proc[p].pc \in {"both", "row"} /\ SetProcess(p, new)
      /\ UNCHANGED <<queueVars, storeVars>>
  BY DEF FindRow
<1>2. pc \in {"insert", "credit"} /\ row \in Nat /\ mine \in Tally
  BY RowsOfTypes, TallyTypes DEF ShareInvariant, CollectorInvariant
<1>3. ProcessOK(proc[p]) /\ proc[p] \in ProcessState
  BY AtHand
<1> HIDE DEF pc, row, mine
<1>4. /\ new \in ProcessState /\ new.pc = pc /\ new.batch = proc[p].batch
      /\ new.entry = proc[p].entry /\ new.share = proc[p].share
      /\ new.challenge = proc[p].challenge
  BY <1>2, <1>3 DEF ProcessState
<1> HIDE DEF new
<1>5. ProcessOK(new)
  BY <1>1, <1>2, <1>3, <1>4, GoOnWithShare DEF AtShare, AtWork
<1> QED
  BY <1>1, <1>5, UnchangedQueues, LocalStepTypes

(* A row is written with another total, or a new one is. *)
LEMMA CreditTypes ==
    ASSUME ShareInvariant, NEW p \in Processors, CreditMiner(p)
    PROVE  /\ ShareInvariant'
           /\ PlusShare(proc[p].mine, proc[p].share) \in Tally
<1> DEFINE m == MinerOf[proc[p].share]
           c == proc[p].challenge
           tally == PlusShare(proc[p].mine, proc[p].share)
           i == FirstOf(RowsOf(m, c))
           pc == IF proc[p].share \in Solvers THEN "queue" ELSE "ack"
<1>1. /\ proc[p].pc = "credit"
      /\ miner_challengediff' =
            IF proc[p].row = 0 THEN Append(miner_challengediff, NewRow(m, c, tally))
            ELSE [miner_challengediff EXCEPT ![i].totaldiff = tally]
      /\ proc' = [proc EXCEPT ![p] = [proc[p] EXCEPT !.pc = pc]]
      /\ UNCHANGED <<contractEpoch, miningContractData, allminingContracts,
                     totaldiff_challengenumber, collectVars, queueVars, storeVars>>
  BY DEF CreditMiner, WriteRow
<1>2. m \in Miners /\ c \in Epochs /\ tally \in Tally /\ pc \in {"queue", "ack"}
  BY <1>1, AtHand, TallyTypes DEF AtShare, AtWork
<1> HIDE DEF m, c, tally, i, pc
<1>3. miner_challengediff \in Seq(ChallengeDiff)
  BY DEF ShareInvariant, CollectorInvariant, MiningTypeOK
<1>4. miner_challengediff' \in Seq(ChallengeDiff)
  <2>1. CASE proc[p].row = 0
    BY <1>1, <1>2, <1>3, <2>1, RowTypes, SeqAppend
  <2>2. CASE proc[p].row # 0
    <3> DEFINE row == [miner_challengediff[i] EXCEPT !.totaldiff = tally]
    <3>1. miner_challengediff' = [miner_challengediff EXCEPT ![i] = row]
      BY <1>1, <2>2
    <3>2. i \in DOMAIN miner_challengediff => row \in ChallengeDiff
      <4>1. i \in DOMAIN miner_challengediff => miner_challengediff[i] \in ChallengeDiff
        BY <1>3
      <4> QED
        BY <1>2, <4>1 DEF ChallengeDiff
    <3> HIDE DEF row
    <3> QED
      BY <1>3, <3>1, <3>2, SeqExcept
  <2> QED
    BY <2>1, <2>2
<1>5. CollectorInvariant'
  BY <1>1, <1>4, DataStays DEF ShareInvariant, CollectorInvariant, MiningTypeOK,
     CollectTypeOK, collectVars
<1>6. ProcessOK([proc[p] EXCEPT !.pc = pc])
  BY <1>1, <1>2, GotoTypes DEF AtShare, AtWork
<1>7. QueuesStay
  BY <1>1, UnchangedQueues
<1>8. ShareInvariant'
  BY <1>1, <1>5, <1>6, <1>7, OneProcessMoves
<1> QED
  BY <1>2, <1>8 DEF tally

LEMMA AckTypes ==
    ASSUME ShareInvariant, NEW p \in Processors, AckShare(p)
    PROVE  ShareInvariant'
<1> DEFINE entries == {proc[p].entry} \ {NoEntry}
           new == Handle(proc[p].mode, proc[p].batch)
<1>1. ProcessOK(proc[p]) /\ proc[p] \in ProcessState
  BY AtHand
<1>2. entries \subseteq Entries /\ proc[p].batch \in SUBSET Entries
  BY <1>1 DEF ProcessOK
<1>3. /\ SetProcess(p, new) /\ acked' = acked \cup entries
      /\ pending' = [q \in Processors |-> pending[q] \ entries]
      /\ UNCHANGED <<stream, storeVars>>
  BY DEF AckShare, Ack
<1> HIDE DEF entries
<1>4. ProcessOK(new)
  BY <1>1, <1>2, HandleTypes DEF ShareInvariant, ProcessState
<1>5. QueuesStay
  BY <1>2, <1>3 DEF QueuesStay, ShareInvariant, ShareTypeOK, storeVars
<1> HIDE DEF new
<1> QED
  BY <1>3, <1>4, <1>5, LocalStepTypes

LEMMA ProcessTypes ==
    ASSUME ShareInvariant, NEW p \in Processors, ProcessStep(p)
    PROVE  ShareInvariant'
BY LoopTypes, CheckShareTypes, LookTypes, WriteTotalTypes, InsertTypes, FindRowTypes,
   CreditTypes, AckTypes DEF ProcessStep, HandleStep

(* The workers hand in shares, and the cleaner takes digests. *)
LEMMA WorkerTypes ==
    ASSUME ShareInvariant, WorkerStep
    PROVE  ShareInvariant'
<1>1. PICK s \in Shares : AddShare(s) \/ AddShareToList(s)
  BY DEF WorkerStep
<1>2. /\ stream \in Seq(Shares) /\ queued_shares_list \in Seq(Shares)
      /\ ShareTypeOK /\ CollectorInvariant
  BY DEF ShareInvariant, ShareTypeOK, CollectorInvariant, CollectTypeOK
<1>3. /\ stream' \in Seq(Shares) /\ Entries \subseteq Entries'
      /\ queued_shares_list' \in Seq(Shares)
  <2>1. /\ Append(stream, s) \in Seq(Shares)
        /\ DOMAIN stream \subseteq DOMAIN Append(stream, s)
        /\ Append(queued_shares_list, s) \in Seq(Shares)
    BY <1>2, SeqAppend
  <2>2. /\ stream' \in {stream, Append(stream, s)}
        /\ queued_shares_list' \in {queued_shares_list, Append(queued_shares_list, s)}
    BY <1>1 DEF AddShare, AddShareToList, collectVars
  <2> QED
    BY <1>2, <2>1, <2>2 DEF Entries
<1>4. /\ UNCHANGED <<acked, pending, storeVars, proc, collect, miningVars>>
  BY <1>1 DEF AddShare, AddShareToList, collectVars
<1>5. CollectorInvariant'
  BY <1>2, <1>3, <1>4, DataStays DEF CollectorInvariant, MiningTypeOK, miningVars
<1>6. ShareTypeOK'
  BY <1>2, <1>3, <1>4 DEF ShareTypeOK, storeVars
<1>7. ProcessesOK'
  BY <1>3, <1>4 DEF ShareInvariant, ProcessesOK, ProcessOK
<1> QED
  BY <1>5, <1>6, <1>7 DEF ShareInvariant

LEMMA CleanTypes ==
    ASSUME ShareInvariant, CleanPendingShares
    PROVE  ShareInvariant'
<1>1. /\ miner_pendingshares' \subseteq miner_pendingshares
      /\ UNCHANGED <<queueVars, lastSubmitted, solutions, proc, collectVars, miningVars>>
  BY DEF CleanPendingShares
<1>2. CollectorInvariant'
  BY <1>1, DataStays DEF ShareInvariant, CollectorInvariant, MiningTypeOK, CollectTypeOK,
     miningVars, collectVars
<1>3. ShareTypeOK' /\ ProcessesOK'
  BY <1>1 DEF ShareInvariant, ShareTypeOK, ProcessesOK, ProcessOK, queueVars, Entries
<1> QED
  BY <1>2, <1>3 DEF ShareInvariant

(* What goes wrong with a process leaves it with the rest of its batch, or without. *)
LEMMA ShareFaultTypes ==
    ASSUME ShareInvariant, NEW p \in Processors, FailShare(p) \/ CrashProcess(p)
    PROVE  ShareInvariant'
<1>1. CASE FailShare(p)
  <2> DEFINE new == IF proc[p].mode = "drain" THEN Waiting("read", "read", {})
                    ELSE Handle(proc[p].mode, proc[p].batch)
  <2>1. /\ proc[p] \in ProcessState /\ proc[p].batch \in SUBSET Entries
    BY AtHand DEF ProcessOK
  <2>2. ProcessOK(new)
    BY <2>1, WaitingTypes, HandleTypes DEF ShareInvariant, ProcessState
  <2> HIDE DEF new
  <2>3. SetProcess(p, new)
    BY <1>1 DEF FailShare, new
  <2> QED
    BY <1>1, <2>2, <2>3, UnchangedQueues, LocalStepTypes DEF FailShare
<1>2. CASE CrashProcess(p)
  BY <1>2, WaitingTypes, UnchangedQueues, LocalStepTypes DEF CrashProcess, Down
<1> QED
  BY <1>1, <1>2

(* A step that is not of the processors. *)
LEMMA SharesStay ==
    ASSUME ShareInvariant, UNCHANGED shareVars, CollectorInvariant'
    PROVE  ShareInvariant'
BY DEF ShareInvariant, ShareTypeOK, ProcessesOK, ProcessOK, Entries, shareVars, queueVars,
   storeVars

----------------------------------------------------------------------------
(* The scans and the crawls. *)

Opened == {"window", "totals", "fill", "zero", "rows", "sum", "award"}
AtRows == {"rows", "sum", "award"}

\* A crawl is at a mint whose record gave it a challenge, and at a row of its list.
CrawlOK(state) ==
    /\ state \in CrawlState
    /\ state.mints \subseteq Mints
    /\ state.pc \in Opened => state.mint \in Mints /\ state.challenge \in Epochs
    /\ state.records \subseteq Ordered
    /\ state.pc = "zero" => state.miner \in Miners
    /\ state.rows \subseteq Rows
    /\ state.pc \notin AtRows => state.rows = {}
    /\ state.pc \in {"sum", "award"} => state.row \in state.rows
    /\ state.read <= Len(state.challenges)

CrawlsOK == \A r \in CrawlRuns : CrawlOK(crawl[r])

\* The rows a crawl has yet to come to are open; the one it rewards it has just closed.
RowsOpen(state) ==
    \A i \in state.rows :
        \/ miner_challengediff[i].status = 1
        \/ state.pc = "award" /\ state.row = i

OpenRows == \A r \in CrawlRuns : RowsOpen(crawl[r])

\* The flag keeps two crawls apart.
OneCrawl ==
    /\ \A r \in CrawlRuns : crawl[r].pc # "idle" => rewardCrawlRunning
    /\ \A q, r \in CrawlRuns : crawl[q].pc # "idle" /\ crawl[r].pc # "idle" => q = r

RewardInvariant ==
    /\ RewardTypeOK
    /\ CrawlsOK
    /\ OpenRows
    /\ OneCrawl
    /\ StatusFourNever

LEMMA IdleCrawlTypes ==
    /\ CrawlOK(IdleCrawl) /\ IdleCrawl \in CrawlState
    /\ IdleCrawl.pc = "idle" /\ IdleCrawl.rows = {} /\ IdleCrawl.mints = {}
<1>1. IdleCrawl \in CrawlState
  <2>1. <<>> \in Seq(Epochs) /\ 0 \in 0..MaxEpoch /\ NoShares \in Tally
    BY TallyTypes, EpochAssumption
  <2> QED
    BY <2>1 DEF IdleCrawl, CrawlState
<1> QED
  BY <1>1 DEF IdleCrawl, CrawlOK, Opened, AtRows

(* The rows grow, and those that are there keep what they are. *)
RowsGrow ==
    /\ Rows \subseteq Rows'
    /\ \A i \in Rows :
        /\ miner_challengediff'[i].miner = miner_challengediff[i].miner
        /\ miner_challengediff'[i].challenge = miner_challengediff[i].challenge
        /\ miner_challengediff'[i].status = miner_challengediff[i].status
    /\ \A i \in Rows' \ Rows : miner_challengediff'[i].status = 1

LEMMA RewardsStay ==
    ASSUME RewardInvariant, UNCHANGED rewardVars, RowsGrow
    PROVE  RewardInvariant'
<1>1. UNCHANGED <<pool_mints, rewards, inserting, rewardCrawlRunning, crawl>>
  BY DEF rewardVars, mintVars, crawlVars
<1>2. RewardTypeOK'
  BY <1>1 DEF RewardInvariant, RewardTypeOK
<1>3. CrawlsOK'
  BY <1>1 DEF RewardInvariant, CrawlsOK, CrawlOK, RowsGrow, Mints
<1>4. OpenRows'
  BY <1>1 DEF RewardInvariant, OpenRows, RowsOpen, CrawlsOK, CrawlOK, RowsGrow
<1>5. OneCrawl'
  BY <1>1 DEF RewardInvariant, OneCrawl
<1>6. StatusFourNever'
  BY DEF RewardInvariant, StatusFourNever, RowsGrow
<1> QED
  BY <1>2, <1>3, <1>4, <1>5, <1>6 DEF RewardInvariant

(* What a step of one crawl does: the mints stay, the rows stay or grow. *)
CrawlSettles(new) ==
    /\ CrawlOK(new)
    /\ Mints' = Mints
    /\ Rows \subseteq Rows'
    /\ \A i \in new.rows :
        miner_challengediff'[i].status = 1 \/ (new.pc = "award" /\ new.row = i)
    /\ new.pc # "idle" => rewardCrawlRunning'
    /\ rewardCrawlRunning' \in BOOLEAN
    /\ pool_mints' \in Seq(PoolMint)
    /\ rewards' \in Seq(Reward)
    /\ \A i \in Rows' : miner_challengediff'[i].status # 4

LEMMA CrawlMoves ==
    ASSUME RewardInvariant, NEW r \in CrawlRuns, NEW new,
           crawl[r].pc # "idle" \/ ~rewardCrawlRunning,
           crawl' = [crawl EXCEPT ![r] = new], inserting' = inserting, CrawlSettles(new)
    PROVE  RewardInvariant'
<1>1. \A q \in CrawlRuns : q # r => crawl[q].pc = "idle"
  BY DEF RewardInvariant, OneCrawl
<1>2. crawl \in [CrawlRuns -> CrawlState]
  BY DEF RewardInvariant, RewardTypeOK
<1>3. crawl'[r] = new /\ \A q \in CrawlRuns : q # r => crawl'[q] = crawl[q]
  BY <1>2
<1>4. RewardTypeOK'
  <2>1. crawl' \in [CrawlRuns -> CrawlState]
    BY <1>2 DEF CrawlSettles, CrawlOK
  <2> QED
    BY <2>1 DEF RewardInvariant, RewardTypeOK, CrawlSettles
<1>5. CrawlsOK'
  <2>1. ASSUME NEW q \in CrawlRuns PROVE CrawlOK(crawl'[q])
    BY <1>3 DEF RewardInvariant, CrawlsOK, CrawlSettles
  <2> QED
    BY <2>1 DEF CrawlsOK, CrawlOK, CrawlSettles
<1>6. OpenRows'
  <2>1. ASSUME NEW q \in CrawlRuns, q # r PROVE crawl'[q].rows = {}
    BY <1>1, <1>3, <2>1 DEF RewardInvariant, CrawlsOK, CrawlOK, AtRows
  <2> QED
    BY <1>3, <2>1 DEF OpenRows, RowsOpen, CrawlSettles
<1>7. OneCrawl'
  BY <1>1, <1>3 DEF OneCrawl, CrawlSettles
<1>8. StatusFourNever'
  BY DEF StatusFourNever, CrawlSettles
<1> QED
  BY <1>4, <1>5, <1>6, <1>7, <1>8 DEF RewardInvariant

(* A step that only reads, and goes on with what it has read. *)
LEMMA CrawlReads ==
    ASSUME RewardInvariant, NEW r \in CrawlRuns, NEW pc, pc # "idle", Reads(r, pc),
           NEW new, SetCrawl(r, new), CrawlOK(new), new.rows = {}
    PROVE  RewardInvariant'
<1>1. /\ crawl[r].pc # "idle" /\ crawl' = [crawl EXCEPT ![r] = new]
      /\ UNCHANGED <<inserting, pool_mints, rewards, rewardCrawlRunning, miner_challengediff>>
  BY DEF Reads, SetCrawl
<1>2. CrawlSettles(new)
  BY <1>1 DEF CrawlSettles, RewardInvariant, RewardTypeOK, OneCrawl, StatusFourNever,
              Mints, Rows
<1> QED
  BY <1>1, <1>2, CrawlMoves

(* The crawl at hand. *)
LEMMA CrawlAtHand ==
    ASSUME RewardInvariant, NEW r \in CrawlRuns
    PROVE  /\ CrawlOK(crawl[r]) /\ crawl[r] \in CrawlState
           /\ RowsOpen(crawl[r])
           /\ pool_mints \in Seq(PoolMint) /\ rewards \in Seq(Reward)
BY DEF RewardInvariant, RewardTypeOK, CrawlsOK, OpenRows

(* A call starts with the mints that are to be shared out, or comes to its end. *)
LEMMA StartCrawlTypes ==
    ASSUME RewardInvariant, NEW r \in CrawlRuns, StartCrawl(r)
    PROVE  RewardInvariant'
<1> DEFINE open == {i \in Mints : pool_mints[i].poolstatus = 1}
           new == [IdleCrawl EXCEPT !.pc = "mint", !.mints = open]
<1>1. /\ ~rewardCrawlRunning /\ rewardCrawlRunning' = TRUE
      /\ crawl' = [crawl EXCEPT ![r] = new]
      /\ UNCHANGED <<inserting, pool_mints, rewards, miner_challengediff>>
  BY DEF StartCrawl, BeginCrawl, SetCrawl
<1>2. open \subseteq Mints /\ open \in SUBSET Nat
  BY DEF RewardInvariant, RewardTypeOK, Mints
<1> HIDE DEF open
<1>3. new \in CrawlState
  BY <1>2, IdleCrawlTypes DEF CrawlState
<1>4. /\ new.pc = "mint" /\ new.mints = open /\ new.records = {} /\ new.rows = {}
      /\ new.read = 0 /\ new.challenges = <<>>
  BY DEF IdleCrawl
<1> HIDE DEF new
<1>5. CrawlOK(new)
  BY <1>2, <1>3, <1>4 DEF CrawlOK, Opened, AtRows
<1>6. CrawlSettles(new)
  BY <1>1, <1>4, <1>5 DEF CrawlSettles, RewardInvariant, RewardTypeOK, StatusFourNever,
     Mints, Rows
<1> QED
  BY <1>1, <1>6, CrawlMoves

LEMMA EndCrawlTypes ==
    ASSUME RewardInvariant, NEW r \in CrawlRuns, FinishCrawl(r) \/ FailCrawl(r)
    PROVE  RewardInvariant'
<1>1. /\ crawl[r].pc # "idle" /\ rewardCrawlRunning' = FALSE
      /\ crawl' = [crawl EXCEPT ![r] = IdleCrawl]
      /\ UNCHANGED <<inserting, pool_mints, rewards, miner_challengediff>>
  BY DEF FinishCrawl, FailCrawl, AbortCrawl, SetCrawl
<1>2. CrawlSettles(IdleCrawl)
  BY <1>1, IdleCrawlTypes DEF CrawlSettles, RewardInvariant, RewardTypeOK,
     StatusFourNever, Mints, Rows
<1> QED
  BY <1>1, <1>2, CrawlMoves

(* The mint at hand gets its status, and the crawl goes on to the next. *)
LEMMA SetMintTypes ==
    ASSUME RewardInvariant, NEW r \in CrawlRuns, crawl[r].pc # "idle",
           NEW i, NEW status \in {2, 4}, SetMint(r, i, status)
    PROVE  RewardInvariant'
<1> DEFINE rest == crawl[r].mints \ {i}
           mint == [pool_mints[i] EXCEPT !.poolstatus = status]
           new == [IdleCrawl EXCEPT !.pc = "mint", !.mints = rest]
<1>1. /\ pool_mints' = [pool_mints EXCEPT ![i] = mint]
      /\ crawl' = [crawl EXCEPT ![r] = new]
      /\ UNCHANGED <<inserting, rewards, rewardCrawlRunning, miner_challengediff>>
  BY DEF SetMint, SetCrawl
<1>2. /\ CrawlOK(crawl[r]) /\ crawl[r] \in CrawlState /\ pool_mints \in Seq(PoolMint)
  BY CrawlAtHand
<1>3. rest \subseteq Mints /\ rest \in SUBSET Nat
  BY <1>2 DEF CrawlOK, CrawlState
<1>4. i \in DOMAIN pool_mints => mint \in PoolMint
  <2>1. i \in DOMAIN pool_mints => pool_mints[i] \in PoolMint
    BY <1>2
  <2> QED
    BY <2>1 DEF PoolMint
<1> HIDE DEF rest, mint
<1>5. pool_mints' \in Seq(PoolMint) /\ Mints' = Mints
  BY <1>1, <1>2, <1>4, SeqExcept DEF Mints
<1>6. new \in CrawlState
  BY <1>3, IdleCrawlTypes DEF CrawlState
<1>7. /\ new.pc = "mint" /\ new.mints = rest /\ new.records = {} /\ new.rows = {}
      /\ new.read = 0 /\ new.challenges = <<>>
  BY DEF IdleCrawl
<1> HIDE DEF new
<1>8. CrawlOK(new)
  BY <1>3, <1>6, <1>7 DEF CrawlOK, Opened, AtRows
<1>9. CrawlSettles(new)
  BY <1>1, <1>5, <1>7, <1>8 DEF CrawlSettles, RewardInvariant, RewardTypeOK, OneCrawl,
     StatusFourNever, Rows
<1> QED
  BY <1>1, <1>9, CrawlMoves

(* The record of a mint's epoch opens it; its window is made of such records. *)
LEMMA OpenMintTypes ==
    ASSUME CollectorInvariant, RewardInvariant, NEW r \in CrawlRuns, NEW i \in Mints,
           OpenMint(r, i)
    PROVE  RewardInvariant'
<1>1. CASE FindContract(r, i)
  <2> DEFINE record == Record(r, i)
             new == [crawl[r] EXCEPT !.pc = "window", !.mint = i,
                                     !.challenge = record.challenge]
  <2>1. /\ CrawlOK(crawl[r]) /\ crawl[r] \in CrawlState /\ pool_mints \in Seq(PoolMint)
    BY CrawlAtHand
  <2>2. pool_mints[i].epoch \in Epochs /\ i \in Nat
    <3>1. pool_mints[i] \in PoolMint /\ i \in Nat
      BY <2>1 DEF Mints
    <3> QED
      BY <3>1 DEF PoolMint
  <2>3. record \in Ordered
    BY <1>1, <2>2 DEF FindContract, Record, CollectorInvariant, RecordsOK
  <2>4. record.challenge \in Epochs /\ record.challenge \in 0..MaxEpoch
    BY <2>3, ContractTypes, EpochAssumption DEF Epochs
  <2>5. Reads(r, "mint") /\ SetCrawl(r, new)
    BY <1>1 DEF FindContract
  <2> HIDE DEF record
  <2>6. new \in CrawlState
    BY <2>1, <2>2, <2>4 DEF CrawlState
  <2>7. /\ new.pc = "window" /\ new.mint = i /\ new.challenge = record.challenge
        /\ new.mints = crawl[r].mints /\ new.records = crawl[r].records
        /\ new.rows = crawl[r].rows /\ new.read = crawl[r].read
        /\ new.challenges = crawl[r].challenges
    BY <2>1 DEF CrawlState
  <2> HIDE DEF new
  <2>8. CrawlOK(new) /\ new.rows = {}
    BY <2>1, <2>4, <2>5, <2>6, <2>7 DEF CrawlOK, Opened, AtRows, Reads
  <2> QED
    BY <2>5, <2>8, CrawlReads
<1>2. CASE NoContractFound(r, i)
  BY <1>2, SetMintTypes DEF NoContractFound
<1> QED
  BY <1>1, <1>2 DEF OpenMint

LEMMA FindWindowTypes ==
    ASSUME CollectorInvariant, RewardInvariant, NEW r \in CrawlRuns, FindWindow(r)
    PROVE  RewardInvariant'
<1> DEFINE e == pool_mints[crawl[r].mint].epoch
           records == {allminingContracts[d] :
                        d \in {f \in Epochs : f <= e /\ f > e - PPLNSDEPTH}} \ {NoContract}
           new == [crawl[r] EXCEPT !.pc = "totals", !.records = records]
<1>1. Reads(r, "window") /\ SetCrawl(r, new)
  BY DEF FindWindow
<1>2. /\ CrawlOK(crawl[r]) /\ crawl[r] \in CrawlState
  BY CrawlAtHand
<1>3. records \subseteq Ordered /\ records \subseteq Contract
  BY ContractTypes DEF CollectorInvariant, RecordsOK
<1> HIDE DEF records
<1>4. /\ new \in CrawlState /\ new.pc = "totals" /\ new.mint = crawl[r].mint
      /\ new.challenge = crawl[r].challenge
      /\ new.mints = crawl[r].mints /\ new.records = records
      /\ new.rows = crawl[r].rows /\ new.read = crawl[r].read
      /\ new.challenges = crawl[r].challenges
  BY <1>2, <1>3 DEF CrawlState
<1> HIDE DEF new
<1>5. CrawlOK(new) /\ new.rows = {}
  BY <1>1, <1>2, <1>3, <1>4 DEF CrawlOK, Opened, AtRows, Reads
<1> QED
  BY <1>1, <1>5, CrawlReads

LEMMA ReadTotalTypes ==
    ASSUME CollectorInvariant, RewardInvariant, NEW r \in CrawlRuns,
           ReadTotalDifficulty(r)
    PROVE  RewardInvariant'
<1> DEFINE old == crawl[r]
           record == CHOOSE f \in old.records : \A g \in old.records : f.epoch <= g.epoch
           total == totaldiff_challengenumber[record.challenge]
           sum == SumTally(old.total, total)
           challenges == Append(old.challenges, record.challenge)
           records == old.records \ {record}
           rest == [old EXCEPT !.records = records]
           added == [rest EXCEPT !.total = sum, !.challenges = challenges]
           new == IF total = None THEN rest ELSE added
<1>1. Reads(r, "totals") /\ SetCrawl(r, new) /\ old.records # {}
  BY DEF ReadTotalDifficulty, AddTotal
<1>2. CrawlOK(old) /\ old \in CrawlState
  BY CrawlAtHand
<1>3. record \in old.records
  <2> DEFINE epochs == {f.epoch : f \in old.records}
  <2>1. epochs \in SUBSET Nat /\ epochs # {}
    BY <1>1, <1>2, ContractTypes, EpochAssumption DEF CrawlOK, Epochs
  <2>2. PICK n \in epochs : \A m \in epochs : n <= m
    BY <2>1, MinExists
  <2>3. PICK f \in old.records : \A g \in old.records : f.epoch <= g.epoch
    BY <2>2
  <2> QED
    BY <2>3
<1>4. record.challenge \in Epochs
  BY <1>2, <1>3, ContractTypes DEF CrawlOK
<1> HIDE DEF record
<1>5. total # None => total \in Tally
  BY <1>4 DEF CollectorInvariant, MiningTypeOK
<1>6. old.total \in Tally /\ old.challenges \in Seq(Epochs)
  BY <1>2 DEF CrawlState
<1>7. /\ total # None => sum \in Tally
      /\ challenges \in Seq(Epochs) /\ Len(challenges) = Len(old.challenges) + 1
      /\ records \subseteq old.records
  BY <1>4, <1>5, <1>6, TallyTypes, SeqAppend
<1> HIDE DEF sum, challenges, records, total
<1>8. /\ rest \in CrawlState /\ rest.pc = old.pc /\ rest.mint = old.mint
      /\ rest.challenge = old.challenge /\ rest.mints = old.mints
      /\ rest.records = records /\ rest.rows = old.rows /\ rest.read = old.read
      /\ rest.challenges = old.challenges
  BY <1>2, <1>7 DEF CrawlState
<1>9. total # None =>
      /\ added \in CrawlState /\ added.pc = old.pc /\ added.mint = old.mint
      /\ added.challenge = old.challenge /\ added.mints = old.mints
      /\ added.records = records /\ added.rows = old.rows /\ added.read = old.read
      /\ added.challenges = challenges
  BY <1>2, <1>7 DEF CrawlState
<1> HIDE DEF added, rest
<1>10. old.read \in Nat /\ Len(old.challenges) \in Nat /\ old.pc = "totals" /\ old.rows = {}
  BY <1>1, <1>2, <1>6 DEF CrawlState, Reads, CrawlOK, AtRows
<1>11. CrawlOK(rest) /\ rest.rows = {}
  BY <1>2, <1>7, <1>8, <1>10 DEF CrawlOK, Opened
<1>12. total # None => CrawlOK(added) /\ added.rows = {}
  BY <1>2, <1>7, <1>9, <1>10 DEF CrawlOK, Opened
<1>13. CrawlOK(new) /\ new.rows = {}
  BY <1>11, <1>12
<1> HIDE DEF new
<1> QED
  BY <1>1, <1>13, CrawlReads

(* The miners of the window, and which of them has no row. *)
LEMMA MinersTypes ==
    ASSUME CollectorInvariant, RewardInvariant, NEW r \in CrawlRuns,
           FindMiners(r) \/ \E m \in Miners : FillRow(r, m)
    PROVE  RewardInvariant'
<1> DEFINE old == crawl[r]
<1>1. CrawlOK(old) /\ old \in CrawlState
  BY CrawlAtHand
<1>2. CASE FindMiners(r)
  <2> DEFINE miners == MinersOf({old.challenges[k] : k \in DOMAIN old.challenges})
             new == [old EXCEPT !.pc = "fill", !.miners = miners]
  <2>1. Reads(r, "totals") /\ SetCrawl(r, new)
    BY <1>2 DEF FindMiners, FindMinersOf
  <2>2. miners \subseteq Miners
    <3>1. \A i \in Rows : miner_challengediff[i] \in ChallengeDiff
      BY DEF CollectorInvariant, MiningTypeOK, Rows
    <3> QED
      BY <3>1 DEF MinersOf, ChallengeDiff
  <2> HIDE DEF miners
  <2>3. /\ new \in CrawlState /\ new.pc = "fill" /\ new.mint = old.mint
        /\ new.challenge = old.challenge /\ new.mints = old.mints
        /\ new.records = old.records /\ new.rows = old.rows /\ new.read = old.read
        /\ new.challenges = old.challenges
    BY <1>1, <2>2 DEF CrawlState
  <2> HIDE DEF new
  <2>4. CrawlOK(new) /\ new.rows = {}
    BY <1>1, <2>1, <2>3 DEF CrawlOK, Opened, AtRows, Reads
  <2> QED
    BY <2>1, <2>4, CrawlReads
<1>3. ASSUME NEW m \in Miners, FillRow(r, m) PROVE RewardInvariant'
  <2> DEFINE has == RowsOf(m, old.challenge) # {}
             there == [old EXCEPT !.miners = old.miners \ {m}]
             none == [old EXCEPT !.miners = old.miners \ {m}, !.pc = "zero", !.miner = m]
             new == IF has THEN there ELSE none
  <2>1. Reads(r, "fill") /\ SetCrawl(r, new)
    BY <1>3 DEF FillRow
  <2>2. /\ there \in CrawlState /\ there.pc = old.pc /\ there.mint = old.mint
        /\ there.challenge = old.challenge /\ there.mints = old.mints
        /\ there.records = old.records /\ there.rows = old.rows /\ there.read = old.read
        /\ there.challenges = old.challenges
    BY <1>1 DEF CrawlState
  <2>3. /\ none \in CrawlState /\ none.pc = "zero" /\ none.mint = old.mint
        /\ none.challenge = old.challenge /\ none.mints = old.mints
        /\ none.records = old.records /\ none.rows = old.rows /\ none.read = old.read
        /\ none.challenges = old.challenges /\ none.miner = m
    BY <1>1 DEF CrawlState
  <2> HIDE DEF there, none, has
  <2>4. old.pc = "fill" /\ old.rows = {}
    BY <1>1, <2>1 DEF Reads, CrawlOK, AtRows
  <2>5. CrawlOK(there) /\ CrawlOK(none) /\ there.rows = {} /\ none.rows = {}
    BY <1>1, <2>2, <2>3, <2>4 DEF CrawlOK, Opened
  <2>6. CrawlOK(new) /\ new.rows = {}
    BY <2>5
  <2> HIDE DEF new
  <2> QED
    BY <2>1, <2>6, CrawlReads
<1> QED
  BY <1>2, <1>3

(* An insert and a write of a status, as the rows see them. *)
LEMMA RowIsAppended ==
    ASSUME MiningTypeOK, NEW row \in ChallengeDiff, row.status = 1,
           miner_challengediff' = Append(miner_challengediff, row)
    PROVE  /\ miner_challengediff' \in Seq(ChallengeDiff)
           /\ RowsGrow
           /\ Rows' = Rows \cup {Len(miner_challengediff) + 1}
           /\ Len(miner_challengediff) + 1 \notin Rows
           /\ miner_challengediff'[Len(miner_challengediff) + 1] = row
           /\ \A i \in Rows : miner_challengediff'[i] = miner_challengediff[i]
<1>1. miner_challengediff \in Seq(ChallengeDiff)
  BY DEF MiningTypeOK
<1>2. /\ miner_challengediff' \in Seq(ChallengeDiff)
      /\ Rows' = Rows \cup {Len(miner_challengediff) + 1}
      /\ miner_challengediff'[Len(miner_challengediff) + 1] = row
      /\ \A i \in Rows : miner_challengediff'[i] = miner_challengediff[i]
  BY <1>1, SeqAppend DEF Rows
<1>3. Len(miner_challengediff) + 1 \notin Rows
  BY <1>1 DEF Rows
<1> QED
  BY <1>2, <1>3 DEF RowsGrow

StatusWritten(i, status) ==
    miner_challengediff' = [miner_challengediff EXCEPT ![i].status = status]

LEMMA StatusIsWritten ==
    ASSUME MiningTypeOK, NEW i, NEW status \in 1..5, StatusWritten(i, status)
    PROVE  /\ miner_challengediff' \in Seq(ChallengeDiff)
           /\ Rows' = Rows
           /\ \A j \in Rows :
                /\ miner_challengediff'[j].miner = miner_challengediff[j].miner
                /\ miner_challengediff'[j].challenge = miner_challengediff[j].challenge
                /\ miner_challengediff'[j].totaldiff = miner_challengediff[j].totaldiff
                /\ miner_challengediff'[j].status =
                        IF j = i THEN status ELSE miner_challengediff[j].status
<1> DEFINE row == [miner_challengediff[i] EXCEPT !.status = status]
<1>1. miner_challengediff \in Seq(ChallengeDiff)
  BY DEF MiningTypeOK
<1>2. i \in Rows => /\ row \in ChallengeDiff
                    /\ row.miner = miner_challengediff[i].miner
                    /\ row.challenge = miner_challengediff[i].challenge
                    /\ row.totaldiff = miner_challengediff[i].totaldiff
                    /\ row.status = status
  <2>1. i \in Rows => miner_challengediff[i] \in ChallengeDiff
    BY <1>1 DEF Rows
  <2> QED
    BY <2>1 DEF ChallengeDiff
<1>3. miner_challengediff' = [miner_challengediff EXCEPT ![i] = row]
  BY DEF StatusWritten
<1> HIDE DEF row
<1>4. /\ miner_challengediff' \in Seq(ChallengeDiff)
      /\ Rows' = Rows
      /\ \A j \in Rows : miner_challengediff'[j] = IF j = i THEN row ELSE miner_challengediff[j]
  BY <1>1, <1>2, <1>3, SeqExcept DEF Rows
<1> QED
  BY <1>2, <1>4

\* What a step of a crawl may do to the rows and nothing else of the collector's data.
RowsStayTyped ==
    /\ miner_challengediff' \in Seq(ChallengeDiff)
    /\ UNCHANGED <<contractEpoch, miningContractData, allminingContracts,
                   totaldiff_challengenumber>>

LEMMA ZeroRowTypes ==
    ASSUME CollectorInvariant, RewardInvariant, NEW r \in CrawlRuns, InsertZeroRow(r)
    PROVE  RewardInvariant' /\ RowsStayTyped /\ RowsGrow
<1> DEFINE old == crawl[r]
           row == NewRow(old.miner, old.challenge, NoShares)
           new == [old EXCEPT !.pc = "fill", !.miner = None]
<1>1. /\ old.pc = "zero" /\ crawl' = [crawl EXCEPT ![r] = new]
      /\ miner_challengediff' = Append(miner_challengediff, row)
      /\ UNCHANGED <<inserting, pool_mints, rewards, rewardCrawlRunning, contractEpoch,
                     miningContractData, allminingContracts, totaldiff_challengenumber>>
  BY DEF InsertZeroRow, SetCrawl
<1>2. CrawlOK(old) /\ old \in CrawlState
  BY CrawlAtHand
<1>3. row \in ChallengeDiff /\ row.status = 1
  BY <1>1, <1>2, RowTypes, TallyTypes DEF CrawlOK, Opened
<1> HIDE DEF row
<1>4. /\ miner_challengediff' \in Seq(ChallengeDiff) /\ RowsGrow
  BY <1>1, <1>3, RowIsAppended DEF CollectorInvariant
<1>5. /\ new \in CrawlState /\ new.pc = "fill" /\ new.mint = old.mint
      /\ new.challenge = old.challenge /\ new.mints = old.mints
      /\ new.records = old.records /\ new.rows = old.rows /\ new.read = old.read
      /\ new.challenges = old.challenges
  BY <1>2 DEF CrawlState
<1> HIDE DEF new
<1>6. CrawlOK(new) /\ new.rows = {}
  BY <1>1, <1>2, <1>5 DEF CrawlOK, Opened, AtRows
<1>7. CrawlSettles(new)
  <2>1. \A i \in Rows' : miner_challengediff'[i].status # 4
    BY <1>4 DEF RewardInvariant, StatusFourNever, RowsGrow
  <2>2. Rows \subseteq Rows' /\ new.pc # "award"
    BY <1>4, <1>5 DEF RowsGrow
  <2>3. pool_mints' \in Seq(PoolMint) /\ rewards' \in Seq(Reward) /\ Mints' = Mints
    BY <1>1 DEF RewardInvariant, RewardTypeOK, Mints
  <2>4. rewardCrawlRunning' /\ rewardCrawlRunning' \in BOOLEAN
    BY <1>1 DEF RewardInvariant, RewardTypeOK, OneCrawl
  <2> QED
    BY <1>6, <2>1, <2>2, <2>3, <2>4 DEF CrawlSettles
<1>8. RewardInvariant'
  BY <1>1, <1>7, CrawlMoves
<1> QED
  BY <1>1, <1>4, <1>8 DEF RowsStayTyped

LEMMA ListRowsTypes ==
    ASSUME RewardInvariant, MiningTypeOK, NEW r \in CrawlRuns, ListRows(r)
    PROVE  RewardInvariant'
<1> DEFINE old == crawl[r]
           rows == {i \in Rows : /\ miner_challengediff[i].challenge = old.challenge
                                 /\ miner_challengediff[i].status = 1}
           new == [old EXCEPT !.pc = "rows", !.rows = rows]
<1>1. /\ old.pc = "fill" /\ crawl' = [crawl EXCEPT ![r] = new]
      /\ UNCHANGED <<inserting, pool_mints, rewards, rewardCrawlRunning, miner_challengediff>>
  BY DEF ListRows, Reads, SetCrawl
<1>2. CrawlOK(old) /\ old \in CrawlState
  BY CrawlAtHand
<1>3. /\ rows \subseteq Rows /\ rows \in SUBSET Nat
      /\ \A i \in rows : miner_challengediff[i].status = 1
  BY DEF MiningTypeOK, Rows
<1> HIDE DEF rows
<1>4. /\ new \in CrawlState /\ new.pc = "rows" /\ new.mint = old.mint
      /\ new.challenge = old.challenge /\ new.mints = old.mints
      /\ new.records = old.records /\ new.rows = rows /\ new.read = old.read
      /\ new.challenges = old.challenges
  BY <1>2, <1>3 DEF CrawlState
<1> HIDE DEF new
<1>5. CrawlOK(new)
  BY <1>1, <1>2, <1>3, <1>4 DEF CrawlOK, Opened, AtRows
<1>6. CrawlSettles(new)
  BY <1>1, <1>3, <1>4, <1>5 DEF CrawlSettles, RewardInvariant, RewardTypeOK, OneCrawl,
     StatusFourNever, Mints, Rows
<1> QED
  BY <1>1, <1>6, CrawlMoves

(* A row is done: it gets its status, and the crawl goes on to the next. *)
LEMMA SetRowTypes ==
    ASSUME MiningTypeOK, RewardInvariant, NEW r \in CrawlRuns, crawl[r].pc = "sum",
           NEW status \in {3, 5}, SetRow(r, crawl[r].row, status)
    PROVE  RewardInvariant' /\ RowsStayTyped /\ Rows' = Rows
<1> DEFINE old == crawl[r]
           i == old.row
           rows == old.rows \ {i}
           new == [old EXCEPT !.pc = "rows", !.rows = rows, !.row = 0, !.read = 0,
                              !.mine = NoShares]
<1>1. /\ crawl' = [crawl EXCEPT ![r] = new]
      /\ miner_challengediff' = [miner_challengediff EXCEPT ![i].status = status]
      /\ UNCHANGED <<inserting, pool_mints, rewards, rewardCrawlRunning, contractEpoch,
                     miningContractData, allminingContracts, totaldiff_challengenumber>>
  BY DEF SetRow, SetCrawl
<1>2. CrawlOK(old) /\ old \in CrawlState /\ RowsOpen(old)
  BY CrawlAtHand
<1>3. /\ miner_challengediff' \in Seq(ChallengeDiff) /\ Rows' = Rows
      /\ \A j \in Rows : miner_challengediff'[j].status =
                            IF j = i THEN status ELSE miner_challengediff[j].status
  <2>1. status \in 1..5 /\ StatusWritten(i, status)
    BY <1>1 DEF StatusWritten
  <2> HIDE DEF i
  <2> QED
    BY <2>1, StatusIsWritten
<1>4. /\ rows \subseteq Rows /\ rows \in SUBSET Nat /\ i \notin rows
      /\ \A j \in rows : miner_challengediff[j].status = 1
  BY <1>2 DEF CrawlOK, CrawlState, RowsOpen
<1> HIDE DEF rows, i
<1>5. /\ new \in CrawlState /\ new.pc = "rows" /\ new.mint = old.mint
      /\ new.challenge = old.challenge /\ new.mints = old.mints
      /\ new.records = old.records /\ new.rows = rows /\ new.read = 0
      /\ new.challenges = old.challenges
  BY <1>2, <1>4, TallyTypes DEF CrawlState
<1>6. Len(old.challenges) \in Nat
  BY <1>2 DEF CrawlState
<1> HIDE DEF new
<1>7. CrawlOK(new)
  BY <1>2, <1>4, <1>5, <1>6 DEF CrawlOK, Opened, AtRows
<1>8. CrawlSettles(new)
  <2>1. \A j \in new.rows : miner_challengediff'[j].status = 1
    BY <1>3, <1>4, <1>5
  <2>2. \A j \in Rows' : miner_challengediff'[j].status # 4
    BY <1>3 DEF RewardInvariant, StatusFourNever
  <2> QED
    BY <1>1, <1>3, <1>7, <2>1, <2>2 DEF CrawlSettles, RewardInvariant, RewardTypeOK,
       OneCrawl, Mints
<1>9. RewardInvariant'
  BY <1>1, <1>8, CrawlMoves
<1> QED
  BY <1>1, <1>3, <1>9 DEF RowsStayTyped

(* A row of the list is open when its turn comes, so the crawl goes on with it. *)
LEMMA RecheckTypes ==
    ASSUME CollectorInvariant, RewardInvariant, NEW r \in CrawlRuns, NEW i \in Rows,
           RecheckRow(r, i)
    PROVE  RewardInvariant' /\ miner_challengediff' = miner_challengediff
           /\ crawl' = [crawl EXCEPT ![r] = [crawl[r] EXCEPT !.pc = "sum", !.row = i]]
<1> DEFINE old == crawl[r]
           new == [old EXCEPT !.pc = "sum", !.row = i]
<1>1. old.pc = "rows" /\ i \in old.rows
  BY DEF RecheckRow
<1>2. CrawlOK(old) /\ old \in CrawlState /\ RowsOpen(old)
  BY CrawlAtHand
<1>3. \A j \in old.rows : miner_challengediff[j].status = 1
  BY <1>1, <1>2 DEF RowsOpen
<1>4. StillOpen(i)
  BY <1>1, <1>3 DEF StillOpen, RowsOf
<1>5. /\ crawl' = [crawl EXCEPT ![r] = new]
      /\ UNCHANGED <<inserting, pool_mints, rewards, rewardCrawlRunning, miner_challengediff>>
  BY <1>4 DEF RecheckRow, Reads, SetCrawl
<1>6. /\ new \in CrawlState /\ new.pc = "sum" /\ new.mint = old.mint /\ new.row = i
      /\ new.challenge = old.challenge /\ new.mints = old.mints
      /\ new.records = old.records /\ new.rows = old.rows /\ new.read = old.read
      /\ new.challenges = old.challenges
  <2>1. i \in Nat
    BY <1>1, <1>2 DEF CrawlState
  <2> QED
    BY <1>2, <2>1 DEF CrawlState
<1> HIDE DEF new
<1>7. CrawlOK(new)
  BY <1>1, <1>2, <1>6 DEF CrawlOK, Opened, AtRows
<1>8. CrawlSettles(new)
  BY <1>1, <1>3, <1>5, <1>6, <1>7 DEF CrawlSettles, RewardInvariant, RewardTypeOK,
     OneCrawl, StatusFourNever, Mints, Rows
<1>9. RewardInvariant'
  BY <1>1, <1>5, <1>8, CrawlMoves
<1> QED
  BY <1>5, <1>9 DEF new

LEMMA SumRowTypes ==
    ASSUME CollectorInvariant, RewardInvariant, NEW r \in CrawlRuns, SumRow(r)
    PROVE  RewardInvariant'
<1> DEFINE old == crawl[r]
           k == old.read + 1
           rows == RowsOf(miner_challengediff[old.row].miner, old.challenges[k])
           mine == IF rows = {} THEN old.mine
                   ELSE SumTally(old.mine, miner_challengediff[FirstOf(rows)].totaldiff)
           new == [old EXCEPT !.read = k, !.mine = mine]
<1>1. /\ old.pc = "sum" /\ k <= Len(old.challenges)
      /\ crawl' = [crawl EXCEPT ![r] = new]
      /\ UNCHANGED <<inserting, pool_mints, rewards, rewardCrawlRunning, miner_challengediff>>
  BY DEF SumRow, Reads, SetCrawl
<1>2. CrawlOK(old) /\ old \in CrawlState /\ RowsOpen(old)
  BY CrawlAtHand
<1>3. k \in Nat /\ mine \in Tally
  <2>1. old.mine \in Tally /\ old.read \in Nat
    BY <1>2 DEF CrawlState
  <2>2. rows # {} => miner_challengediff[FirstOf(rows)].totaldiff \in Tally
    BY RowsOfTypes DEF CollectorInvariant
  <2> HIDE DEF rows
  <2> QED
    BY <2>1, <2>2, TallyTypes
<1> HIDE DEF k, mine
<1>4. /\ new \in CrawlState /\ new.pc = "sum" /\ new.mint = old.mint /\ new.row = old.row
      /\ new.challenge = old.challenge /\ new.mints = old.mints
      /\ new.records = old.records /\ new.rows = old.rows /\ new.read = k
      /\ new.challenges = old.challenges
  BY <1>1, <1>2, <1>3 DEF CrawlState
<1> HIDE DEF new
<1>5. CrawlOK(new)
  BY <1>1, <1>2, <1>4 DEF CrawlOK, Opened, AtRows
<1>6. CrawlSettles(new)
  BY <1>1, <1>2, <1>4, <1>5 DEF CrawlSettles, RewardInvariant, RewardTypeOK, OneCrawl,
     RowsOpen, StatusFourNever, Mints, Rows
<1> QED
  BY <1>1, <1>6, CrawlMoves

(* The row is closed before its tokens are awarded. *)
LEMMA MarkTypes ==
    ASSUME CollectorInvariant, RewardInvariant, NEW r \in CrawlRuns, MarkRewarded(r)
    PROVE  RewardInvariant' /\ RowsStayTyped /\ Rows' = Rows
<1> DEFINE old == crawl[r]
           i == old.row
           new == [old EXCEPT !.pc = "award"]
<1>1. /\ old.pc = "sum" /\ crawl' = [crawl EXCEPT ![r] = new]
      /\ miner_challengediff' = [miner_challengediff EXCEPT ![i].status = 2]
      /\ UNCHANGED <<inserting, pool_mints, rewards, rewardCrawlRunning, contractEpoch,
                     miningContractData, allminingContracts, totaldiff_challengenumber>>
  BY DEF MarkRewarded, Summed, SetCrawl
<1>2. CrawlOK(old) /\ old \in CrawlState /\ RowsOpen(old)
  BY CrawlAtHand
<1>3. StatusWritten(i, 2) /\ 2 \in 1..5
  BY <1>1 DEF StatusWritten
<1> HIDE DEF i
<1>4. /\ miner_challengediff' \in Seq(ChallengeDiff) /\ Rows' = Rows
      /\ \A j \in Rows : miner_challengediff'[j].status =
                            IF j = i THEN 2 ELSE miner_challengediff[j].status
  BY <1>3, StatusIsWritten DEF CollectorInvariant
<1>5. /\ new \in CrawlState /\ new.pc = "award" /\ new.mint = old.mint /\ new.row = i
      /\ new.challenge = old.challenge /\ new.mints = old.mints
      /\ new.records = old.records /\ new.rows = old.rows /\ new.read = old.read
      /\ new.challenges = old.challenges
  BY <1>2 DEF CrawlState, i
<1> HIDE DEF new
<1>6. CrawlOK(new)
  BY <1>1, <1>2, <1>5 DEF CrawlOK, Opened, AtRows, i
<1>7. CrawlSettles(new)
  <2>1. \A j \in new.rows : miner_challengediff'[j].status = 1 \/ new.row = j
    BY <1>1, <1>2, <1>4, <1>5 DEF RowsOpen, CrawlOK
  <2>2. \A j \in Rows' : miner_challengediff'[j].status # 4
    BY <1>4 DEF RewardInvariant, StatusFourNever
  <2> QED
    BY <1>1, <1>4, <1>5, <1>6, <2>1, <2>2 DEF CrawlSettles, RewardInvariant,
       RewardTypeOK, OneCrawl, Mints
<1>8. RewardInvariant'
  BY <1>1, <1>7, CrawlMoves
<1> QED
  BY <1>1, <1>4, <1>8 DEF RowsStayTyped

LEMMA AwardTypes ==
    ASSUME CollectorInvariant, RewardInvariant, NEW r \in CrawlRuns,
           AwardTokensForShares(r)
    PROVE  RewardInvariant'
<1> DEFINE old == crawl[r]
           i == old.row
           rows == old.rows \ {i}
           reward == [mint |-> old.mint, miner |-> miner_challengediff[i].miner,
                      challenge |-> old.challenge,
                      shares |-> old.mine, poolshares |-> old.total]
           new == [old EXCEPT !.pc = "rows", !.rows = rows, !.row = 0, !.read = 0,
                              !.mine = NoShares]
<1>1. /\ old.pc = "award" /\ crawl' = [crawl EXCEPT ![r] = new]
      /\ rewards' = IF old.total = NoShares THEN rewards ELSE Append(rewards, reward)
      /\ UNCHANGED <<inserting, pool_mints, rewardCrawlRunning, miner_challengediff>>
  BY DEF AwardTokensForShares, SetCrawl
<1>2. CrawlOK(old) /\ old \in CrawlState /\ RowsOpen(old) /\ rewards \in Seq(Reward)
  BY CrawlAtHand
<1>3. /\ rows \subseteq Rows /\ rows \in SUBSET Nat /\ i \in Rows
      /\ \A j \in rows : miner_challengediff[j].status = 1
  BY <1>1, <1>2 DEF CrawlOK, CrawlState, RowsOpen
<1>4. reward \in Reward
  <2>1. miner_challengediff[i] \in ChallengeDiff
    BY <1>3 DEF CollectorInvariant, MiningTypeOK, Rows
  <2>2. miner_challengediff[i].miner \in Miners
    BY <2>1 DEF ChallengeDiff
  <2>3. old.mint \in Nat /\ old.challenge \in Epochs /\ old.mine \in Tally /\ old.total \in Tally
    BY <1>1, <1>2 DEF CrawlOK, CrawlState, Opened
  <2> QED
    BY <2>2, <2>3 DEF Reward
<1> HIDE DEF rows, i, reward
<1>5. rewards' \in Seq(Reward)
  BY <1>1, <1>2, <1>4
<1>6. /\ new \in CrawlState /\ new.pc = "rows" /\ new.mint = old.mint
      /\ new.challenge = old.challenge /\ new.mints = old.mints
      /\ new.records = old.records /\ new.rows = rows /\ new.read = 0
      /\ new.challenges = old.challenges
  BY <1>2, <1>3, TallyTypes DEF CrawlState
<1>7. Len(old.challenges) \in Nat
  BY <1>2 DEF CrawlState
<1> HIDE DEF new
<1>8. CrawlOK(new)
  BY <1>1, <1>2, <1>3, <1>6, <1>7 DEF CrawlOK, Opened, AtRows
<1>9. CrawlSettles(new)
  BY <1>1, <1>3, <1>5, <1>6, <1>8 DEF CrawlSettles, RewardInvariant, RewardTypeOK,
     OneCrawl, StatusFourNever, Mints, Rows
<1> QED
  BY <1>1, <1>9, CrawlMoves

(* The scans. *)
LEMMA ScanTypes ==
    ASSUME RewardInvariant, NEW r \in InsertRuns, ScanStep(r) \/ FailInsert(r)
    PROVE  RewardInvariant'
<1>1. PICK e \in 0..MaxEpoch : SetInsert(r, e)
  BY EpochAssumption DEF ScanStep, LookForMint, InsertMint, FailInsert, Epochs
<1>2. /\ inserting' \in [InsertRuns -> 0..MaxEpoch]
      /\ UNCHANGED <<rewards, rewardCrawlRunning, crawl, miner_challengediff>>
  BY <1>1 DEF SetInsert, RewardInvariant, RewardTypeOK, crawlVars, miningVars
<1>3. pool_mints' \in Seq(PoolMint) /\ Mints \subseteq Mints'
  <2>1. CASE InsertMint(r)
    <3> DEFINE mint == [epoch |-> inserting[r], poolstatus |-> 1]
    <3>1. mint \in PoolMint
      BY <2>1, EpochAssumption DEF InsertMint, RewardInvariant, RewardTypeOK, PoolMint,
         Epochs
    <3>2. pool_mints' = Append(pool_mints, mint) /\ pool_mints \in Seq(PoolMint)
      BY <2>1 DEF InsertMint, RewardInvariant, RewardTypeOK
    <3> HIDE DEF mint
    <3> QED
      BY <3>1, <3>2, SeqAppend DEF Mints
  <2>2. CASE ~InsertMint(r)
    BY <2>2 DEF ScanStep, LookForMint, FailInsert, RewardInvariant, RewardTypeOK, Mints
  <2> QED
    BY <2>1, <2>2
<1>4. CrawlsOK'
  BY <1>2, <1>3 DEF RewardInvariant, CrawlsOK, CrawlOK, Rows
<1> QED
  BY <1>2, <1>3, <1>4 DEF RewardInvariant, RewardTypeOK, OpenRows, RowsOpen, OneCrawl,
     StatusFourNever, Rows

----------------------------------------------------------------------------
(* The whole. *)

MiningInvariant ==
    /\ ShareInvariant
    /\ RewardInvariant
    /\ faults \in Nat

(* Rows nobody has touched. *)
LEMMA RowsStay ==
    ASSUME MiningTypeOK, miner_challengediff' = miner_challengediff
    PROVE  RowsGrow
BY DEF RowsGrow, Rows

\* A total is written to a miner's row.
TotalWritten(i, tally) ==
    miner_challengediff' = [miner_challengediff EXCEPT ![i].totaldiff = tally]

LEMMA TotalIsWritten ==
    ASSUME MiningTypeOK, NEW i, NEW tally \in Tally, TotalWritten(i, tally)
    PROVE  /\ Rows' = Rows
           /\ \A j \in Rows :
                /\ miner_challengediff'[j].miner = miner_challengediff[j].miner
                /\ miner_challengediff'[j].challenge = miner_challengediff[j].challenge
                /\ miner_challengediff'[j].status = miner_challengediff[j].status
                /\ miner_challengediff'[j].totaldiff =
                        IF j = i THEN tally ELSE miner_challengediff[j].totaldiff
           /\ RowsGrow
<1> DEFINE row == [miner_challengediff[i] EXCEPT !.totaldiff = tally]
<1>1. miner_challengediff \in Seq(ChallengeDiff)
  BY DEF MiningTypeOK
<1>2. i \in Rows => /\ row \in ChallengeDiff
                    /\ row.miner = miner_challengediff[i].miner
                    /\ row.challenge = miner_challengediff[i].challenge
                    /\ row.totaldiff = tally
                    /\ row.status = miner_challengediff[i].status
  <2>1. i \in Rows => miner_challengediff[i] \in ChallengeDiff
    BY <1>1 DEF Rows
  <2> QED
    BY <2>1 DEF ChallengeDiff
<1>3. miner_challengediff' = [miner_challengediff EXCEPT ![i] = row]
  BY DEF TotalWritten
<1> HIDE DEF row
<1>4. /\ Rows' = Rows
      /\ \A j \in Rows : miner_challengediff'[j] = IF j = i THEN row ELSE miner_challengediff[j]
  BY <1>1, <1>2, <1>3, SeqExcept DEF Rows
<1>5. \A j \in Rows :
        /\ miner_challengediff'[j].miner = miner_challengediff[j].miner
        /\ miner_challengediff'[j].challenge = miner_challengediff[j].challenge
        /\ miner_challengediff'[j].status = miner_challengediff[j].status
        /\ miner_challengediff'[j].totaldiff =
                IF j = i THEN tally ELSE miner_challengediff[j].totaldiff
  BY <1>2, <1>4
<1> QED
  BY <1>4, <1>5 DEF RowsGrow

(* The processors close no row. *)
LEMMA ProcessRows ==
    ASSUME ShareInvariant, NEW p \in Processors, ProcessStep(p)
    PROVE  RowsGrow
<1>1. CASE CreditMiner(p)
  <2> DEFINE m == MinerOf[proc[p].share]
             c == proc[p].challenge
             tally == PlusShare(proc[p].mine, proc[p].share)
             i == FirstOf(RowsOf(m, c))
  <2>1. /\ proc[p].pc = "credit"
        /\ miner_challengediff' =
                IF proc[p].row = 0 THEN Append(miner_challengediff, NewRow(m, c, tally))
                ELSE [miner_challengediff EXCEPT ![i].totaldiff = tally]
    BY <1>1 DEF CreditMiner, WriteRow
  <2>2. m \in Miners /\ c \in Epochs /\ tally \in Tally
    BY <1>1, <2>1, AtHand, CreditTypes DEF AtShare, AtWork
  <2> HIDE DEF m, c, tally, i
  <2>3. CASE proc[p].row = 0
    BY <2>1, <2>2, <2>3, RowTypes, RowIsAppended DEF ShareInvariant, CollectorInvariant
  <2>4. CASE proc[p].row # 0
    <3>1. TotalWritten(i, tally)
      BY <2>1, <2>4 DEF TotalWritten
    <3> QED
      BY <2>2, <3>1, TotalIsWritten DEF ShareInvariant, CollectorInvariant
  <2> QED
    BY <2>3, <2>4
<1>2. CASE ~CreditMiner(p)
  <2>1. miner_challengediff' = miner_challengediff
    BY <1>2 DEF ProcessStep, LoopStep, HandleStep, Start, StartWithoutRedis, Reclaim,
       ClaimStaleShares, Claim, ReadPendingShares, ReadShares, TakeFromList, CheckShare,
       Accept, FindDigest, InPace, TooFast, ReadTotal, WriteTotal, InsertPendingShare,
       FindRow, QueueSolution, AckShare, Ack, Goto, SetProcess, miningVars
  <2> QED
    BY <2>1, RowsStay DEF ShareInvariant, CollectorInvariant
<1> QED
  BY <1>1, <1>2

(* The crawls touch nothing of the collector's but the rows. *)
LEMMA CrawlTypes ==
    ASSUME MiningInvariant, NEW r \in CrawlRuns, CrawlStep(r)
    PROVE  RewardInvariant' /\ RowsStayTyped
<1> USE DEF MiningInvariant, ShareInvariant
<1>0. MiningTypeOK /\ CollectorInvariant /\ RewardInvariant
  BY DEF CollectorInvariant
<1>1. CASE StartCrawl(r) \/ FinishCrawl(r)
  <2>1. miner_challengediff' = miner_challengediff /\ RowsStayTyped
    BY <1>0, <1>1 DEF StartCrawl, BeginCrawl, FinishCrawl, SetCrawl, RowsStayTyped,
       MiningTypeOK
  <2> QED
    BY <1>0, <1>1, <2>1, StartCrawlTypes, EndCrawlTypes
<1>2. ASSUME NEW i \in Mints, OpenMint(r, i) PROVE RewardInvariant' /\ RowsStayTyped
  <2>1. RowsStayTyped
    BY <1>0, <1>2 DEF OpenMint, FindContract, NoContractFound, Reads, SetMint, SetCrawl,
       RowsStayTyped, MiningTypeOK
  <2> QED
    BY <1>0, <1>2, <2>1, OpenMintTypes
<1>3. CASE MintStep(r)
  <2>1. CASE InsertZeroRow(r)
    BY <1>0, <2>1, ZeroRowTypes
  <2>2. CASE FinishMint(r)
    <3>1. RowsStayTyped /\ crawl[r].pc # "idle"
      BY <1>0, <2>2 DEF FinishMint, SetMint, SetCrawl, RowsStayTyped, MiningTypeOK
    <3>2. SetMint(r, crawl[r].mint, 2) /\ 2 \in {2, 4}
      BY <2>2 DEF FinishMint
    <3> QED
      BY <1>0, <3>1, <3>2, SetMintTypes
  <2>3. CASE /\ ~InsertZeroRow(r)
             /\ ~FinishMint(r)
    <3>1. RowsStayTyped
      BY <1>0, <1>3, <2>3 DEF MintStep, FindWindow, ReadTotalDifficulty, AddTotal,
         FindMiners, FindMinersOf, FillRow, ListRows, Reads, SetCrawl, RowsStayTyped,
         MiningTypeOK
    <3> QED
      BY <1>0, <1>3, <2>3, <3>1, FindWindowTypes, ReadTotalTypes, MinersTypes,
         ListRowsTypes DEF MintStep
  <2> QED
    BY <2>1, <2>2, <2>3
<1>4. CASE RowStep(r)
  <2>1. ASSUME NEW i \in Rows, RecheckRow(r, i) PROVE RewardInvariant' /\ RowsStayTyped
    <3>1. RewardInvariant' /\ miner_challengediff' = miner_challengediff
      BY <1>0, <2>1, RecheckTypes
    <3>2. UNCHANGED <<contractEpoch, miningContractData, allminingContracts,
                      totaldiff_challengenumber>>
      BY <2>1 DEF RecheckRow, SetRow, SetCrawl
    <3> QED
      BY <1>0, <3>1, <3>2 DEF RowsStayTyped, MiningTypeOK
  <2>2. CASE SumRow(r) \/ AwardTokensForShares(r)
    <3>1. RowsStayTyped
      BY <1>0, <2>2 DEF SumRow, AwardTokensForShares, Reads, SetCrawl, RowsStayTyped,
         MiningTypeOK
    <3> QED
      BY <1>0, <2>2, <3>1, SumRowTypes, AwardTypes
  <2>3. CASE NothingToShare(r)
    <3>1. crawl[r].pc = "sum" /\ SetRow(r, crawl[r].row, 3) /\ 3 \in {3, 5}
      BY <2>3 DEF NothingToShare, Summed
    <3> QED
      BY <1>0, <3>1, SetRowTypes
  <2>4. CASE PoolTooPoor(r)
    <3>1. crawl[r].pc = "sum" /\ SetRow(r, crawl[r].row, 5) /\ 5 \in {3, 5}
      BY <2>4 DEF PoolTooPoor, Summed
    <3> QED
      BY <1>0, <3>1, SetRowTypes
  <2>5. CASE MarkRewarded(r)
    BY <1>0, <2>5, MarkTypes
  <2> QED
    BY <1>4, <2>1, <2>2, <2>3, <2>4, <2>5 DEF RowStep
<1> QED
  BY <1>1, <1>2, <1>3, <1>4 DEF CrawlStep

LEMMA MiningStarts == Init => MiningInvariant
<1> SUFFICES ASSUME Init PROVE MiningInvariant
  OBVIOUS
<1> USE DEF Init, MiningInit, CollectInit, ShareInit, RewardInit
<1>1. MiningTypeOK
  BY ContractTypes, EpochAssumption DEF MiningTypeOK, Epochs
<1>2. CollectTypeOK /\ RecordsOK
  BY ContractTypes DEF CollectTypeOK, RecordsOK
<1>3. CollectsOK
  BY ContractTypes DEF CollectsOK, CollectOK
<1>4. ProcessesOK /\ ShareTypeOK
  <2>1. ProcessOK(Down) /\ Down \in ProcessState
    BY WaitingTypes DEF Down, ProcessOK
  <2> QED
    BY <2>1 DEF ProcessesOK, ShareTypeOK, Entries
<1>5. RewardInvariant
  <2>1. RewardTypeOK
    <3>1. 0 \in 0..MaxEpoch /\ <<>> \in Seq(PoolMint) /\ <<>> \in Seq(Reward)
      BY EpochAssumption
    <3> QED
      BY <3>1, IdleCrawlTypes DEF RewardTypeOK
  <2>2. CrawlsOK /\ OpenRows /\ OneCrawl
    BY IdleCrawlTypes DEF CrawlsOK, OpenRows, RowsOpen, OneCrawl
  <2>3. StatusFourNever
    BY DEF StatusFourNever, Rows
  <2> QED
    BY <2>1, <2>2, <2>3 DEF RewardInvariant
<1> QED
  BY <1>1, <1>2, <1>3, <1>4, <1>5 DEF MiningInvariant, ShareInvariant, CollectorInvariant

(* A crash of the token collector ends its calls and lowers the flag. *)
LEMMA CollectorCrashTypes ==
    ASSUME MiningInvariant, CollectorCrash, UNCHANGED shareVars
    PROVE  ShareInvariant' /\ RewardInvariant'
<1>1. CollectorInvariant'
  BY CollectFailTypes DEF CollectorCrash, MiningInvariant, ShareInvariant
<1>2. ShareInvariant'
  BY <1>1, SharesStay DEF MiningInvariant
<1>3. /\ crawl' = [r \in CrawlRuns |-> IdleCrawl]
      /\ inserting' = [r \in InsertRuns |-> 0] /\ rewardCrawlRunning' = FALSE
      /\ UNCHANGED <<pool_mints, rewards, miner_challengediff>>
  BY DEF CollectorCrash, RewardCrash, mintVars, miningVars
<1>4. RewardInvariant'
  <2>1. RewardTypeOK'
    <3>1. 0 \in 0..MaxEpoch
      BY EpochAssumption
    <3> QED
      BY <1>3, <3>1, IdleCrawlTypes DEF MiningInvariant, RewardInvariant, RewardTypeOK
  <2>2. CrawlsOK'
    <3>1. CrawlOK(IdleCrawl)'
      BY <1>3, IdleCrawlTypes DEF CrawlOK, Rows, Mints, Opened, AtRows
    <3> QED
      BY <1>3, <3>1 DEF CrawlsOK
  <2>3. OpenRows' /\ OneCrawl'
    BY <1>3, IdleCrawlTypes DEF OpenRows, RowsOpen, OneCrawl
  <2>4. StatusFourNever'
    BY <1>3 DEF MiningInvariant, RewardInvariant, StatusFourNever, Rows
  <2> QED
    BY <2>1, <2>2, <2>3, <2>4 DEF RewardInvariant
<1> QED
  BY <1>2, <1>4

LEMMA FaultTypes ==
    ASSUME MiningInvariant, Fault
    PROVE  MiningInvariant'
<1> USE DEF MiningInvariant
<1>0. /\ faults' \in Nat /\ MiningTypeOK /\ CollectorInvariant
  BY DEF Fault, ShareInvariant, CollectorInvariant
<1>1. ASSUME NEW r \in CollectRuns, FailCollect(r), UNCHANGED <<shareVars, rewardVars>>
      PROVE  ShareInvariant' /\ RewardInvariant'
  <2>1. CollectorInvariant' /\ miner_challengediff' = miner_challengediff
    BY <1>0, <1>1, CollectFailTypes DEF FailCollect, miningVars
  <2> QED
    BY <1>0, <1>1, <2>1, SharesStay, RowsStay, RewardsStay
<1>2. ASSUME NEW p \in Processors, FailShare(p) \/ CrashProcess(p), UNCHANGED rewardVars
      PROVE  ShareInvariant' /\ RewardInvariant'
  <2>1. miner_challengediff' = miner_challengediff
    BY <1>2 DEF FailShare, CrashProcess, SetProcess, miningVars
  <2> QED
    BY <1>0, <1>2, <2>1, ShareFaultTypes, RowsStay, RewardsStay
<1>3. ASSUME RewardFault, UNCHANGED <<collectVars, shareVars>>
      PROVE  ShareInvariant' /\ RewardInvariant'
  <2>1. UNCHANGED miningVars
    BY <1>3 DEF RewardFault, FailInsert, SetInsert, FailCrawl, AbortCrawl, SetCrawl, miningVars
  <2>2. CollectorInvariant'
    BY <1>0, <1>3, <2>1, DataStays DEF CollectorInvariant, MiningTypeOK, CollectTypeOK,
       miningVars, collectVars
  <2>3. RewardInvariant'
    BY <1>3, ScanTypes, EndCrawlTypes DEF RewardFault
  <2> QED
    BY <1>3, <2>2, <2>3, SharesStay
<1>4. ASSUME CollectorCrash, UNCHANGED shareVars
      PROVE  ShareInvariant' /\ RewardInvariant'
  BY <1>4, CollectorCrashTypes
<1> QED
  BY <1>0, <1>1, <1>2, <1>3, <1>4 DEF Fault

LEMMA MiningGoesOn ==
    ASSUME MiningInvariant, [Next]_vars
    PROVE  MiningInvariant'
<1> USE DEF MiningInvariant
<1>0. MiningTypeOK /\ CollectorInvariant
  BY DEF ShareInvariant, CollectorInvariant
<1>1. CASE MineBlock
  <2>1. /\ CollectorInvariant' /\ miner_challengediff' = miner_challengediff
        /\ UNCHANGED <<shareVars, rewardVars, faults>>
    BY <1>0, <1>1, NewEpochTypes DEF MineBlock, NewEpoch
  <2> QED
    BY <1>0, <2>1, SharesStay, RowsStay, RewardsStay
<1>2. ASSUME NEW r \in CollectRuns, CollectSide(CollectStep(r)) PROVE MiningInvariant'
  <2>1. /\ CollectorInvariant' /\ UNCHANGED <<shareVars, rewardVars, faults>>
    BY <1>0, <1>2, CollectStepTypes DEF CollectSide
  <2>2. miner_challengediff' = miner_challengediff
    BY <1>2 DEF CollectSide, CollectStep, ReadParameter, CompareChallenge, Compare,
       WriteMiningContractData, WriteAllMiningContracts, EnsureTotal, PurgeQueuedShares,
       miningVars
  <2> QED
    BY <1>0, <2>1, <2>2, SharesStay, RowsStay, RewardsStay
<1>3. ASSUME NEW p \in Processors, ShareSide(ProcessStep(p)) PROVE MiningInvariant'
  BY <1>3, ProcessTypes, ProcessRows, RewardsStay DEF ShareSide
<1>4. CASE ShareSide(WorkerStep)
  <2>1. miner_challengediff' = miner_challengediff
    BY <1>4 DEF ShareSide, WorkerStep, AddShare, AddShareToList, miningVars
  <2> QED
    BY <1>0, <1>4, <2>1, WorkerTypes, RowsStay, RewardsStay DEF ShareSide
<1>5. CASE ShareSide(CleanPendingShares)
  <2>1. miner_challengediff' = miner_challengediff
    BY <1>5 DEF ShareSide, CleanPendingShares, miningVars
  <2> QED
    BY <1>0, <1>5, <2>1, CleanTypes, RowsStay, RewardsStay DEF ShareSide
<1>6. ASSUME NEW r \in InsertRuns, RewardSide(ScanStep(r)) PROVE MiningInvariant'
  <2>1. UNCHANGED <<miningVars, collectVars, shareVars, faults>>
    BY <1>6 DEF RewardSide, ScanStep, LookForMint, InsertMint, SetInsert
  <2>2. CollectorInvariant'
    BY <1>0, <2>1, DataStays DEF CollectorInvariant, MiningTypeOK, CollectTypeOK,
       miningVars, collectVars
  <2> QED
    BY <1>6, <2>1, <2>2, ScanTypes, SharesStay DEF RewardSide
<1>7. ASSUME NEW r \in CrawlRuns, RewardSide(CrawlStep(r)) PROVE MiningInvariant'
  <2>1. /\ RewardInvariant' /\ RowsStayTyped
        /\ UNCHANGED <<collectVars, shareVars, faults>>
    BY <1>7, CrawlTypes DEF RewardSide
  <2>2. CollectorInvariant'
    BY <1>0, <2>1, DataStays DEF CollectorInvariant, MiningTypeOK, CollectTypeOK,
       RowsStayTyped, collectVars
  <2> QED
    BY <2>1, <2>2, SharesStay
<1>8. CASE Fault
  BY <1>8, FaultTypes
<1>9. CASE UNCHANGED vars
  <2>1. /\ UNCHANGED <<miningVars, collectVars, shareVars, rewardVars, faults>>
        /\ miner_challengediff' = miner_challengediff
    BY <1>9 DEF vars, miningVars
  <2>2. CollectorInvariant'
    BY <1>0, <2>1, DataStays DEF CollectorInvariant, MiningTypeOK, CollectTypeOK,
       miningVars, collectVars
  <2> QED
    BY <1>0, <2>1, <2>2, SharesStay, RowsStay, RewardsStay
<1> QED
  BY <1>1, <1>2, <1>3, <1>4, <1>5, <1>6, <1>7, <1>8, <1>9 DEF Next

LEMMA MiningInvariantHolds == Spec => []MiningInvariant
<1>1. MiningInvariant /\ [Next]_vars => MiningInvariant'
  BY MiningGoesOn
<1> QED
  BY <1>1, MiningStarts, PTL DEF Spec

(***************************************************************************)
(* The documents, the queues and the calls keep their types, whatever      *)
(* overlaps, fails or dies.                                                *)
(***************************************************************************)
THEOREM TypeCorrect == Spec => []TypeOK
<1>1. MiningInvariant => TypeOK
  BY DEF MiningInvariant, ShareInvariant, CollectorInvariant, RewardInvariant, TypeOK
<1> QED
  BY <1>1, MiningInvariantHolds, PTL

(***************************************************************************)
(* No crawl finds a row closed whose turn has come: the flag keeps every   *)
(* other crawl away from the rows, whatever fails and restarts.            *)
(***************************************************************************)
THEOREM NoRowFoundClosed == Spec => []StatusFourNever
<1>1. MiningInvariant => StatusFourNever
  BY DEF MiningInvariant, RewardInvariant
<1> QED
  BY <1>1, MiningInvariantHolds, PTL

----------------------------------------------------------------------------
(* What the steps are to the sums: most leave them alone. *)

\* The pcs between the write of the pool's total and the end of a share.
InTotal == {"both", "insert", "row", "credit"}
AfterTotal == InTotal \cup {"queue"}

\* The tallies of the rows stay, and a row that is new has none yet.
TalliesKeep ==
    /\ Rows \subseteq Rows'
    /\ \A i \in Rows :
        /\ miner_challengediff'[i].miner = miner_challengediff[i].miner
        /\ miner_challengediff'[i].challenge = miner_challengediff[i].challenge
        /\ miner_challengediff'[i].totaldiff = miner_challengediff[i].totaldiff
    /\ \A i \in Rows' \ Rows :
        /\ miner_challengediff'[i].totaldiff = NoShares
        /\ \A j \in Rows : j < i

\* The totals stay, and one that is new is empty.
TotalsKeep ==
    \A c \in Epochs :
        \/ totaldiff_challengenumber'[c] = totaldiff_challengenumber[c]
        \/ /\ totaldiff_challengenumber[c] = None
           /\ totaldiff_challengenumber'[c] = NoShares

\* A process stays as it is, or gives up its share; after the total only by a fault.
ProcessesRest ==
    \A q \in Processors :
        \/ proc'[q] = proc[q]
        \/ /\ proc'[q].pc \notin AtWork
           /\ faults' = 0 => proc[q].pc \notin AfterTotal

StoresStay == miner_pendingshares' = miner_pendingshares /\ solutions' = solutions

Quiet ==
    /\ TalliesKeep
    /\ TotalsKeep
    /\ ProcessesRest
    /\ StoresStay

\* The steps that count a share.
CountStep(p) ==
    \/ CheckShare(p)
    \/ FindDigest(p)
    \/ InPace(p)
    \/ ReadTotal(p)
    \/ WriteTotal(p)
    \/ InsertPendingShare(p)
    \/ FindRow(p)
    \/ CreditMiner(p)
    \/ QueueSolution(p)

LEMMA TalliesStay ==
    ASSUME miner_challengediff' = miner_challengediff
    PROVE  TalliesKeep
BY DEF TalliesKeep, Rows

LEMMA TotalsStay ==
    ASSUME totaldiff_challengenumber' = totaldiff_challengenumber
    PROVE  TotalsKeep
BY DEF TotalsKeep

LEMMA CollectQuiet ==
    ASSUME MiningInvariant, NEW r \in CollectRuns, CollectSide(CollectStep(r))
    PROVE  Quiet
<1>1. UNCHANGED <<shareVars, miner_challengediff>>
  BY DEF CollectSide, CollectStep, ReadParameter, CompareChallenge, Compare,
     WriteMiningContractData, WriteAllMiningContracts, EnsureTotal, PurgeQueuedShares,
     miningVars
<1>2. TotalsKeep
  <2>1. CASE EnsureTotal(r)
    <3> DEFINE c == collect[r].contract.challenge
               total == totaldiff_challengenumber[c]
               new == IF total = None THEN NoShares ELSE total
    <3>1. totaldiff_challengenumber' = [totaldiff_challengenumber EXCEPT ![c] = new]
      BY <2>1 DEF EnsureTotal
    <3>2. totaldiff_challengenumber \in [Epochs -> Tally \cup {None}]
      BY DEF MiningInvariant, ShareInvariant, CollectorInvariant, MiningTypeOK
    <3>3. \A d \in Epochs : totaldiff_challengenumber'[d] =
                                IF d = c THEN new ELSE totaldiff_challengenumber[d]
      BY <3>1, <3>2
    <3> QED
      BY <3>3 DEF TotalsKeep
  <2>2. CASE ~EnsureTotal(r)
    <3>1. totaldiff_challengenumber' = totaldiff_challengenumber
      BY <2>2 DEF CollectSide, CollectStep, ReadParameter, CompareChallenge, Compare,
         WriteMiningContractData, WriteAllMiningContracts, PurgeQueuedShares, miningVars
    <3> QED
      BY <3>1, TotalsStay
  <2> QED
    BY <2>1, <2>2
<1> QED
  BY <1>1, <1>2, TalliesStay DEF Quiet, ProcessesRest, StoresStay, shareVars, storeVars

LEMMA CrawlQuiet ==
    ASSUME MiningInvariant, NEW r \in CrawlRuns, RewardSide(CrawlStep(r))
    PROVE  Quiet
<1>0. MiningTypeOK /\ CollectorInvariant /\ RewardInvariant
  BY DEF MiningInvariant, ShareInvariant, CollectorInvariant
<1>1. UNCHANGED shareVars /\ RowsStayTyped
  BY CrawlTypes DEF RewardSide
<1>2. TalliesKeep
  <2>1. CASE InsertZeroRow(r)
    <3> DEFINE row == NewRow(crawl[r].miner, crawl[r].challenge, NoShares)
    <3>1. miner_challengediff' = Append(miner_challengediff, row) /\ crawl[r].pc = "zero"
      BY <2>1 DEF InsertZeroRow
    <3>2. row \in ChallengeDiff /\ row.status = 1 /\ row.totaldiff = NoShares
      BY <1>0, <3>1, CrawlAtHand, RowTypes, TallyTypes DEF CrawlOK, Opened
    <3> HIDE DEF row
    <3>3. /\ Rows' = Rows \cup {Len(miner_challengediff) + 1}
          /\ miner_challengediff'[Len(miner_challengediff) + 1] = row
          /\ \A i \in Rows : miner_challengediff'[i] = miner_challengediff[i]
      BY <1>0, <3>1, <3>2, RowIsAppended
    <3>4. \A i \in Rows : i < Len(miner_challengediff) + 1
      BY <1>0 DEF MiningTypeOK, Rows
    <3> QED
      BY <3>2, <3>3, <3>4 DEF TalliesKeep
  <2>2. ASSUME NEW i, NEW status \in 1..5, StatusWritten(i, status) PROVE TalliesKeep
    BY <1>0, <2>2, StatusIsWritten DEF TalliesKeep
  <2>3. CASE MarkRewarded(r) \/ NothingToShare(r) \/ PoolTooPoor(r)
    <3>1. /\ 2 \in 1..5 /\ 3 \in 1..5 /\ 5 \in 1..5
          /\ \/ StatusWritten(crawl[r].row, 2) \/ StatusWritten(crawl[r].row, 3)
             \/ StatusWritten(crawl[r].row, 5)
      BY <2>3 DEF MarkRewarded, NothingToShare, PoolTooPoor, SetRow, StatusWritten
    <3> QED
      BY <2>2, <3>1
  <2>4. CASE /\ ~InsertZeroRow(r) /\ ~MarkRewarded(r) /\ ~NothingToShare(r)
             /\ ~PoolTooPoor(r)
    <3>1. CASE \E i \in Rows : RecheckRow(r, i)
      BY <1>0, <3>1, RecheckTypes, TalliesStay
    <3>2. CASE ~\E i \in Rows : RecheckRow(r, i)
      <4>1. miner_challengediff' = miner_challengediff
        BY <2>4, <3>2 DEF RewardSide, CrawlStep, StartCrawl, BeginCrawl, OpenMint,
           FindContract, NoContractFound, SetMint, MintStep, FindWindow,
           ReadTotalDifficulty, AddTotal, FindMiners, FindMinersOf, FillRow, ListRows,
           FinishMint, RowStep, SumRow, AwardTokensForShares, FinishCrawl, Reads
      <4> QED
        BY <4>1, TalliesStay
    <3> QED
      BY <3>1, <3>2
  <2> QED
    BY <2>1, <2>3, <2>4
<1> QED
  BY <1>1, <1>2, TotalsStay DEF Quiet, ProcessesRest, StoresStay, shareVars, storeVars,
     RowsStayTyped

(* The steps of a process that count nothing. *)
LEMMA LocalQuiet ==
    ASSUME MiningInvariant, NEW p \in Processors, NEW new,
           proc' = [proc EXCEPT ![p] = new], new.pc \notin AtWork,
           faults' = 0 => proc[p].pc \notin AfterTotal,
           UNCHANGED <<totaldiff_challengenumber, miner_challengediff, storeVars>>
    PROVE  Quiet
<1>1. ProcessesRest
  BY DEF ProcessesRest, MiningInvariant, ShareInvariant, ShareTypeOK
<1> QED
  BY <1>1, TalliesStay, TotalsStay DEF Quiet, StoresStay, storeVars

LEMMA ProcessQuiet ==
    ASSUME MiningInvariant, NEW p \in Processors, ShareSide(ProcessStep(p)), ~CountStep(p)
    PROVE  Quiet
<1> USE DEF AtWork, AtShare, AfterTotal, InTotal
<1>0. ShareTypeOK /\ proc[p] \in ProcessState /\ proc[p].batch \in SUBSET Entries
  BY AtHand DEF MiningInvariant, ShareInvariant, ProcessOK
<1>1. CASE Start(p) \/ StartWithoutRedis(p) \/ Reclaim(p)
  <2>1. PICK new \in {Waiting("claim", "drain", {}), Waiting("list", "list", {})} :
            /\ SetProcess(p, new) /\ proc[p].pc \in {"down", "read"}
            /\ UNCHANGED storeVars
    BY <1>1 DEF Start, StartWithoutRedis, Reclaim, Running
  <2>2. new.pc \in {"claim", "list"}
    BY WaitingTypes
  <2> QED
    BY <2>1, <2>2, LocalQuiet DEF SetProcess, miningVars
<1>2. CASE ClaimStaleShares(p)
  <2>1. /\ SetProcess(p, Waiting("drain", "drain", {})) /\ proc[p].pc = "claim"
        /\ UNCHANGED storeVars
    BY <1>2 DEF ClaimStaleShares, Claim
  <2>2. Waiting("drain", "drain", {}).pc = "drain"
    BY WaitingTypes
  <2> QED
    BY <2>1, <2>2, LocalQuiet DEF SetProcess, miningVars
<1>3. CASE ReadPendingShares(p)
  <2> DEFINE batch == FirstBatch(pending[p])
             new == IF pending[p] = {} THEN Waiting("read", "read", {})
                    ELSE Handle("drain", batch)
  <2>1. batch \in SUBSET Entries
    BY <1>0 DEF ShareTypeOK, FirstBatch
  <2>2. SetProcess(p, new) /\ proc[p].pc = "drain" /\ UNCHANGED storeVars
    BY <1>3 DEF ReadPendingShares
  <2> HIDE DEF batch
  <2>3. new.pc \in {"drain", "read", "list", "check"}
    BY <1>0, <2>1, WaitingTypes, HandleTypes
  <2> HIDE DEF new
  <2> QED
    BY <2>2, <2>3, LocalQuiet DEF SetProcess, miningVars
<1>4. CASE ReadShares(p)
  <2> DEFINE batch == FirstBatch(Entries \ Delivered)
             new == Handle("read", batch)
  <2>1. batch \in SUBSET Entries
    BY DEF FirstBatch
  <2>2. SetProcess(p, new) /\ proc[p].pc = "read" /\ UNCHANGED storeVars
    BY <1>4 DEF ReadShares
  <2> HIDE DEF batch
  <2>3. new.pc \in {"drain", "read", "list", "check"}
    BY <1>0, <2>1, HandleTypes
  <2> HIDE DEF new
  <2> QED
    BY <2>2, <2>3, LocalQuiet DEF SetProcess, miningVars
<1>5. CASE TakeFromList(p)
  <2> DEFINE new == [proc[p] EXCEPT !.pc = "check", !.share = Head(queued_shares_list)]
  <2>1. /\ proc' = [proc EXCEPT ![p] = new] /\ proc[p].pc = "list"
        /\ UNCHANGED <<totaldiff_challengenumber, miner_challengediff, storeVars>>
    BY <1>5 DEF TakeFromList, miningVars
  <2>2. new.pc = "check"
    BY <1>0 DEF ProcessState
  <2> HIDE DEF new
  <2> QED
    BY <2>1, <2>2, LocalQuiet
<1>6. CASE TooFast(p)
  <2> DEFINE new == [proc[p] EXCEPT !.pc = "ack"]
  <2>1. SetProcess(p, new) /\ proc[p].pc = "pace" /\ UNCHANGED storeVars
    BY <1>6 DEF TooFast, Goto
  <2>2. new.pc = "ack"
    BY <1>0 DEF ProcessState
  <2> HIDE DEF new
  <2> QED
    BY <2>1, <2>2, LocalQuiet DEF SetProcess, miningVars
<1>7. CASE AckShare(p)
  <2> DEFINE new == Handle(proc[p].mode, proc[p].batch)
  <2>1. SetProcess(p, new) /\ proc[p].pc = "ack" /\ UNCHANGED storeVars
    BY <1>7 DEF AckShare, Ack
  <2>2. new.pc \in {"drain", "read", "list", "check"}
    BY <1>0, HandleTypes DEF ProcessState
  <2> HIDE DEF new
  <2> QED
    BY <2>1, <2>2, LocalQuiet DEF SetProcess, miningVars
<1> QED
  BY <1>1, <1>2, <1>3, <1>4, <1>5, <1>6, <1>7
  DEF ShareSide, ProcessStep, LoopStep, HandleStep, CountStep

LEMMA FaultQuiet ==
    ASSUME MiningInvariant, Fault
    PROVE  Quiet
<1>0. ShareTypeOK /\ faults' # 0
  BY DEF MiningInvariant, ShareInvariant, Fault
<1>1. ASSUME NEW p \in Processors, FailShare(p) \/ CrashProcess(p) PROVE Quiet
  <2>0. proc[p] \in ProcessState /\ proc[p].batch \in SUBSET Entries
    BY AtHand DEF MiningInvariant, ProcessOK
  <2>1. PICK new \in {Waiting("read", "read", {}), Handle(proc[p].mode, proc[p].batch),
                      Down} :
            SetProcess(p, new) /\ UNCHANGED storeVars
    BY <1>1 DEF FailShare, CrashProcess
  <2>2. new.pc \in {"drain", "read", "list", "check", "down"}
    BY <1>0, <2>0, HandleTypes, WaitingTypes DEF ProcessState, Down
  <2> QED
    BY <1>0, <2>1, <2>2, LocalQuiet DEF SetProcess, miningVars, AtWork, AtShare
<1>2. ASSUME UNCHANGED <<shareVars, totaldiff_challengenumber, miner_challengediff>>
      PROVE  Quiet
  BY <1>2, TalliesStay, TotalsStay DEF Quiet, ProcessesRest, StoresStay, shareVars, storeVars
<1>3. CASE CollectorCrash /\ UNCHANGED shareVars
  BY <1>2, <1>3 DEF CollectorCrash, miningVars
<1>4. CASE RewardFault /\ UNCHANGED <<collectVars, shareVars>>
  BY <1>2, <1>4 DEF RewardFault, FailInsert, SetInsert, FailCrawl, AbortCrawl, SetCrawl,
     miningVars
<1>5. CASE \E r \in CollectRuns : FailCollect(r) /\ UNCHANGED <<shareVars, rewardVars>>
  BY <1>2, <1>5 DEF FailCollect, miningVars
<1> QED
  BY <1>1, <1>3, <1>4, <1>5 DEF Fault

\* The cleaner forgets old digests, and does nothing else.
Forgets ==
    /\ CleanPendingShares
    /\ UNCHANGED <<rewardVars, faults>>

(* Every step is quiet, one that counts a share, or the cleaner's. *)
LEMMA StepShapes ==
    ASSUME MiningInvariant, [Next]_vars
    PROVE  \/ Quiet
           \/ Forgets
           \/ \E p \in Processors : CountStep(p) /\ UNCHANGED <<rewardVars, faults>>
<1>1. ASSUME UNCHANGED <<storeVars, proc, totaldiff_challengenumber, miner_challengediff>>
      PROVE  Quiet
  BY <1>1, TalliesStay, TotalsStay DEF Quiet, ProcessesRest, StoresStay, storeVars
<1>2. CASE MineBlock \/ UNCHANGED vars
  BY <1>1, <1>2 DEF MineBlock, NewEpoch, vars, miningVars, shareVars, storeVars
<1>3. CASE \E r \in CollectRuns : CollectSide(CollectStep(r))
  BY <1>3, CollectQuiet
<1>4. CASE \E p \in Processors : ShareSide(ProcessStep(p))
  BY <1>4, ProcessQuiet DEF ShareSide
<1>5. CASE ShareSide(WorkerStep)
  BY <1>1, <1>5 DEF ShareSide, WorkerStep, AddShare, AddShareToList, miningVars
<1>6. CASE ShareSide(CleanPendingShares)
  BY <1>6 DEF ShareSide, Forgets
<1>7. CASE \E r \in InsertRuns : RewardSide(ScanStep(r))
  BY <1>1, <1>7 DEF RewardSide, ScanStep, LookForMint, InsertMint, SetInsert, miningVars,
     shareVars
<1>8. CASE \E r \in CrawlRuns : RewardSide(CrawlStep(r))
  BY <1>8, CrawlQuiet
<1>9. CASE Fault
  BY <1>9, FaultQuiet
<1> QED
  BY <1>2, <1>3, <1>4, <1>5, <1>6, <1>7, <1>8, <1>9 DEF Next

=============================================================================
