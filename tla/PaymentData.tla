---------------------------- MODULE PaymentData ----------------------------
(***************************************************************************)
(* The three pieces of shared data the payment pipeline works on: the      *)
(* MongoDB collections "balance_payments" and "transactions", and the      *)
(* cached block number of the "ethBlockNumber" record.                     *)
(*                                                                         *)
(* A collection is the sequence of its documents in insertion order, which *)
(* is the order a find without a sort returns; the index is the _id.       *)
(*                                                                         *)
(* A balance payment covers the tokens of its miner numbered from + 1 to   *)
(* upto, in the order in which the miner earned them.  The document only   *)
(* stores amountToPay = upto - from: the two ends are history, and let a   *)
(* property speak of the very tokens a payment pays for.                   *)
(***************************************************************************)
EXTENDS Integers, Sequences, FiniteSets

CONSTANTS
    Miners,     \* minerData documents, one per "address.worker"
    Uuids,      \* the values web3Utils.randomHex(32) can return
    None,       \* undefined / null
    MaxBlock    \* bound on the block number

ASSUME NoneAssumption == None \notin Uuids
ASSUME MaxBlockAssumption == MaxBlock \in Nat

VARIABLES
    balance_payments,   \* collection "balance_payments"
    transactions,       \* collection "transactions", txType batched_payment
    block               \* TokenDataHelper.getEthBlockNumber

dataVars == <<balance_payments, transactions, block>>

NoHash == 0     \* txHash: null

Statuses == {"queued", "pending", "skipped", "success", "reverted", "deleted"}

BalancePayment ==
    [miner: Miners, from: Nat, upto: Nat, uuid: Uuids \cup {None},
     confirmed: BOOLEAN, txHash: Nat]

\* payments is txData.payments: the documents whose address and amount it holds.
Transaction ==
    [uuid: Uuids, payments: SUBSET Nat, block: Nat, txHash: Nat, status: Statuses]

PaymentIds == DOMAIN balance_payments
TransactionIds == DOMAIN transactions

amountToPay(i) == balance_payments[i].upto - balance_payments[i].from

\* addTransactionToQueue('batched_payment', {uuid, payments}).
QueuedTransaction(uuid, payments) ==
    [uuid |-> uuid, payments |-> payments, block |-> block,
     txHash |-> NoHash, status |-> "queued"]

DataInit ==
    /\ balance_payments = <<>>
    /\ transactions = <<>>
    /\ block = 0

DataTypeOK ==
    /\ balance_payments \in Seq(BalancePayment)
    /\ transactions \in Seq(Transaction)
    /\ block \in Nat

\* A block arrives and collectTokenParameters caches its number.
NewBlock ==
    /\ block < MaxBlock
    /\ block' = block + 1
    /\ UNCHANGED <<balance_payments, transactions>>

=============================================================================
