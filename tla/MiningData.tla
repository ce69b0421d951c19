---------------------------- MODULE MiningData -----------------------------
(***************************************************************************)
(* The data the mining side shares: the state of the token contract and    *)
(* the MongoDB collections "miningContractData", "allminingContracts",     *)
(* "totaldiff_challengenumber" and "miner_challengediff".                  *)
(*                                                                         *)
(* Every mining parameter is identified with the epoch it is in force: the *)
(* challenge and the blob of epoch e are the number e, and 0 is the        *)
(* parameter that was never read.  Target, seed hash and reward, which go  *)
(* the same way, are left out.                                             *)
(*                                                                         *)
(* A sum of difficulties is kept as a tally, how often each share is in    *)
(* it, so that a property can ask which shares a sum holds, whatever their *)
(* difficulties are.                                                       *)
(***************************************************************************)
EXTENDS Integers, Sequences, FiniteSets

CONSTANTS
    Miners,     \* minerEthAddress of the shares, "address.worker"
    Shares,     \* the digests of the valid shares the miners find
    MinerOf,    \* who finds which
    EpochOf,    \* the epoch whose blob it is a hash of
    None,       \* null
    MaxEpoch    \* bound on the epochs of the contract

ASSUME NoneAssumption == None \notin [Shares -> Nat]
ASSUME EpochAssumption == MaxEpoch \in Nat \ {0}
ASSUME FinderAssumption ==
    /\ MinerOf \in [Shares -> Miners]
    /\ EpochOf \in [Shares -> 1..MaxEpoch]

VARIABLES
    contractEpoch,              \* epochCount of the token contract
    miningContractData,         \* the one document "miningContractData"
    allminingContracts,         \* per epochCount its document, NoContract if missing
    totaldiff_challengenumber,  \* per challenge its totaldiff, None if missing
    miner_challengediff         \* collection "miner_challengediff", in insertion order

miningVars == <<contractEpoch, miningContractData, allminingContracts,
                totaldiff_challengenumber, miner_challengediff>>

Epochs == 1..MaxEpoch

\* The fields in the order in which collectTokenParameters asks the node for them.
Parameters == <<"challenge", "epoch", "blob">>
Contract == [challenge: 0..MaxEpoch, epoch: 0..MaxEpoch, blob: 0..MaxEpoch]
NoContract == [challenge |-> 0, epoch |-> 0, blob |-> 0]

Tally == [Shares -> Nat]
NoShares == [s \in Shares |-> 0]
PlusShare(tally, s) == [tally EXCEPT ![s] = @ + 1]

\* status 1: to be rewarded, 2: rewarded, 3: no shares, 4: was no longer 1, 5: pool too poor.
ChallengeDiff ==
    [miner: Miners, challenge: Epochs, totaldiff: Tally, status: 1..5]

Rows == DOMAIN miner_challengediff

RowsOf(m, c) ==
    {i \in Rows : /\ miner_challengediff[i].miner = m
                  /\ miner_challengediff[i].challenge = c}

\* findOne and updateOne by a query take the first document that matches.
FirstOf(rows) == CHOOSE i \in rows : \A j \in rows : i <= j

NewRow(m, c, tally) ==
    [miner |-> m, challenge |-> c, totaldiff |-> tally, status |-> 1]

MiningInit ==
    /\ contractEpoch = 1
    /\ miningContractData = NoContract
    /\ allminingContracts = [e \in Epochs |-> NoContract]
    /\ totaldiff_challengenumber = [c \in Epochs |-> None]
    /\ miner_challengediff = <<>>

MiningTypeOK ==
    /\ contractEpoch \in Epochs
    /\ miningContractData \in Contract
    /\ allminingContracts \in [Epochs -> Contract]
    /\ totaldiff_challengenumber \in [Epochs -> Tally \cup {None}]
    /\ miner_challengediff \in Seq(ChallengeDiff)

\* Somebody mines a block: the contract moves on to its next challenge.
NewEpoch ==
    /\ contractEpoch < MaxEpoch
    /\ contractEpoch' = contractEpoch + 1
    /\ UNCHANGED <<miningContractData, allminingContracts,
                   totaldiff_challengenumber, miner_challengediff>>

=============================================================================
