------------------------- MODULE ChallengeCollector -------------------------
(***************************************************************************)
(* TokenDataHelper.collectTokenParameters: the parameters of the contract  *)
(* are read one request at a time, and a new challenge is written to three *)
(* collections one after the other.                                        *)
(*                                                                         *)
(* A timer calls it every three seconds and nothing keeps two calls apart: *)
(* a slot of CollectRuns is a call at work, and the next one after it.     *)
(***************************************************************************)
EXTENDS MiningData

CONSTANTS
    CollectRuns

VARIABLES
    queued_shares_list,     \* collection "queued_shares_list"
    collect                 \* the local state of each call

collectVars == <<queued_shares_list, collect>>

\* A call: what it has read of the contract, how many of the parameters, and the old challenge.
CollectState ==
    [pc: {"read", "data", "record", "total", "purge"},
     at: 1..Len(Parameters) + 1, contract: Contract, existing: 0..MaxEpoch]

IdleCollect == [pc |-> "read", at |-> 1, contract |-> NoContract, existing |-> 0]

CollectInit ==
    /\ queued_shares_list = <<>>
    /\ collect = [r \in CollectRuns |-> IdleCollect]

CollectTypeOK ==
    /\ queued_shares_list \in Seq(Shares)
    /\ collect \in [CollectRuns -> CollectState]

----------------------------------------------------------------------------

\* One request to the node.
ReadParameter(r) ==
    /\ collect[r].pc = "read"
    /\ collect[r].at <= Len(Parameters)
    /\ collect' = [collect EXCEPT
            ![r].at = @ + 1,
            ![r].contract[Parameters[collect[r].at]] = contractEpoch]
    /\ UNCHANGED <<queued_shares_list, miningVars>>

\* getRecentMiningContractData: was this challenge written before?
Compare(r, seen) ==
    /\ collect[r].pc = "read"
    /\ collect[r].at > Len(Parameters)
    /\ collect' = [collect EXCEPT ![r] =
            IF seen THEN IdleCollect
            ELSE [@ EXCEPT !.pc = "data", !.existing = miningContractData.challenge]]
    /\ UNCHANGED <<queued_shares_list, miningVars>>

\* Mutant: the blobs are compared, and the record of a torn read is taken for current.
CompareBlob(r) == Compare(r, collect[r].contract.blob = miningContractData.blob)

CompareChallenge(r) ==
    Compare(r, collect[r].contract.challenge = miningContractData.challenge)

WriteMiningContractData(r) ==
    /\ collect[r].pc = "data"
    /\ miningContractData' = collect[r].contract
    /\ collect' = [collect EXCEPT ![r].pc = "record"]
    /\ UNCHANGED <<contractEpoch, allminingContracts, totaldiff_challengenumber,
                   miner_challengediff, queued_shares_list>>

WriteAllMiningContracts(r) ==
    /\ collect[r].pc = "record"
    /\ allminingContracts' =
            [allminingContracts EXCEPT ![collect[r].contract.epoch] = collect[r].contract]
    /\ collect' = [collect EXCEPT ![r].pc = "total"]
    /\ UNCHANGED <<contractEpoch, miningContractData, totaldiff_challengenumber,
                   miner_challengediff, queued_shares_list>>

\* findOne, and insertOne if there is none.  A second document that two calls insert
\* together is never read or written: findOne and updateOne take the first.
EnsureTotal(r) ==
    LET c == collect[r].contract.challenge
        total == totaldiff_challengenumber[c]
    IN
    /\ collect[r].pc = "total"
    /\ totaldiff_challengenumber' = [totaldiff_challengenumber EXCEPT
            ![c] = IF total = None THEN NoShares ELSE total]
    /\ collect' = [collect EXCEPT ![r].pc = "purge"]
    /\ UNCHANGED <<contractEpoch, miningContractData, allminingContracts,
                   miner_challengediff, queued_shares_list>>

\* The newChallenge event, then the two deleteMany: no share of an older challenge is left.
PurgeQueuedShares(r) ==
    LET kept == {i \in DOMAIN queued_shares_list :
                    /\ EpochOf[queued_shares_list[i]] # collect[r].existing
                    /\ EpochOf[queued_shares_list[i]] = collect[r].contract.challenge}
    IN
    /\ collect[r].pc = "purge"
    /\ \E place \in [1..Cardinality(kept) -> kept] :
        /\ \A i, j \in DOMAIN place : i < j => place[i] < place[j]
        /\ queued_shares_list' = [i \in DOMAIN place |-> queued_shares_list[place[i]]]
    /\ collect' = [collect EXCEPT ![r] = IdleCollect]
    /\ UNCHANGED miningVars

\* A request to the node or the database rejects: the call is over.
FailCollect(r) ==
    /\ collect[r] # IdleCollect
    /\ collect' = [collect EXCEPT ![r] = IdleCollect]
    /\ UNCHANGED <<queued_shares_list, miningVars>>

CollectStep(r) ==
    \/ ReadParameter(r)
    \/ CompareChallenge(r)
    \/ WriteMiningContractData(r)
    \/ WriteAllMiningContracts(r)
    \/ EnsureTotal(r)
    \/ PurgeQueuedShares(r)

=============================================================================
