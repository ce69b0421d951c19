--------------------------- MODULE PaymentSystem ---------------------------
(***************************************************************************)
(* The payment pipeline: BalancePayments and PaymentTransactions at work   *)
(* on the same two collections, in one process that can fail and restart.  *)
(***************************************************************************)
EXTENDS BalancePayments, PaymentTransactions

CONSTANT MaxFaults      \* bound on the failures and crashes of a behaviour

ASSUME FaultAssumption == MaxFaults \in Nat

VARIABLE faults         \* how many there were

vars == <<dataVars, balanceVars, transactionVars, faults>>

Init ==
    /\ DataInit
    /\ BalanceInit
    /\ TransactionInit
    /\ faults = 0

BalanceSide(A) == A /\ UNCHANGED <<transactionVars, faults>>
TransactionSide(A) == A /\ UNCHANGED <<balanceVars, faults>>

Fault ==
    /\ faults < MaxFaults
    /\ faults' = faults + 1
    /\ \/ BalanceFault /\ UNCHANGED transactionVars
       \/ TransactionFault /\ UNCHANGED balanceVars
       \/ BalanceCrash /\ TransactionCrash /\ UNCHANGED dataVars

Next ==
    \/ BalanceSide(BalanceEnvironment)
    \/ \E r \in BuildRuns : BalanceSide(BuildStep(r))
    \/ \E r \in BatchRuns : BalanceSide(BatchStep(r))
    \/ \E r \in BroadcastRuns : TransactionSide(BroadcastStep(r))
    \/ \E r \in MonitorRuns : TransactionSide(StartMonitor(r))
    \/ \E r \in StuckRuns : TransactionSide(StartStuckCheck(r))
    \/ \E r \in CheckRuns : TransactionSide(CheckStep(r))
    \/ TransactionSide(TaskStep)
    \/ TransactionSide(ChainStep)
    \/ NewBlock /\ UNCHANGED <<balanceVars, transactionVars, faults>>
    \/ Fault

Spec == Init /\ [][Next]_vars

(***************************************************************************)
(* Every timer keeps firing and every call that was made goes on, so each  *)
(* step of a task is weakly fair.  A receipt that exists is in the end     *)
(* returned by the node, though any one request may fail.                  *)
(***************************************************************************)
Fairness ==
    /\ \A r \in BroadcastRuns : WF_vars(TransactionSide(BroadcastStep(r)))
    /\ \A r \in MonitorRuns : WF_vars(TransactionSide(StartMonitor(r)))
    /\ \A r \in StuckRuns : WF_vars(TransactionSide(StartStuckCheck(r)))
    /\ \A r \in CheckRuns :
        /\ WF_vars(TransactionSide(CheckStep(r)))
        /\ SF_vars(TransactionSide(\E t \in TransactionIds, h \in Hashes :
                                        GotReceipt(r, t, h)))
    /\ WF_vars(TransactionSide(TaskStep))

FairSpec == Spec /\ Fairness

----------------------------------------------------------------------------

TypeOK ==
    /\ DataTypeOK
    /\ BalanceTypeOK
    /\ TransactionTypeOK
    /\ faults \in Nat

(***************************************************************************)
(* The pool never owes a token twice: the payments it has recorded for a   *)
(* miner cover disjoint tokens, all of them counted in tokensAwarded, and  *)
(* no more are counted there than the miner has earned.  The order of the  *)
(* two writes of buildBalancePayments and its flag are what is at stake.   *)
(***************************************************************************)
NeverOverpaid ==
    /\ \A m \in Miners : tokensAwarded[m] <= alltimeTokenBalance[m]
    /\ \A i \in PaymentIds :
        /\ balance_payments[i].from < balance_payments[i].upto
        /\ balance_payments[i].upto <= tokensAwarded[balance_payments[i].miner]
    /\ \A i, j \in PaymentIds :
        i < j /\ balance_payments[i].miner = balance_payments[j].miner
            => balance_payments[i].upto <= balance_payments[j].from

(***************************************************************************)
(* As long as nothing has failed no token is lost either: a miner's        *)
(* payments follow each other without a gap up to tokensAwarded, except    *)
(* for the payment a call of buildBalancePayments is about to insert.      *)
(***************************************************************************)
Covered(m, token) ==
    \/ token = 0
    \/ \E i \in PaymentIds :
        balance_payments[i].miner = m /\ balance_payments[i].upto = token

BooksBalance ==
    faults = 0 =>
        /\ \A i \in PaymentIds :
            Covered(balance_payments[i].miner, balance_payments[i].from)
        /\ \A m \in Miners :
            \/ Covered(m, tokensAwarded[m])
            \/ \E r \in BuildRuns :
                /\ build[r].pc = "insert"
                /\ build[r].miner = m
                /\ Covered(m, build[r].awarded[m])

(***************************************************************************)
(* As long as nothing has failed no payment is left behind by batching:    *)
(* a payment that carries a uuid is in a transaction with that uuid, or in *)
(* the batch a call is still putting together.                             *)
(***************************************************************************)
StampedIsQueued ==
    faults = 0 =>
        \A i \in PaymentIds :
            balance_payments[i].uuid # None =>
                \/ \E t \in TransactionIds :
                    /\ transactions[t].uuid = balance_payments[i].uuid
                    /\ i \in transactions[t].payments
                \/ \E r \in BatchRuns :
                    /\ batch[r].uuid = balance_payments[i].uuid
                    /\ i \in batch[r].done

(***************************************************************************)
(* The chain pays a balance payment at most once, however often its batch  *)
(* is broadcast: by overlapping calls, after a crash, as stale, or from a  *)
(* second transaction the operator's tool has made of it.                  *)
(***************************************************************************)
PaidAtMostOnce ==
    \A g, h \in Hashes :
        /\ sent[g].state = "success"
        /\ sent[h].state = "success"
        /\ sent[g].payments \cap sent[h].payments # {}
        => g = h

(***************************************************************************)
(* What the pool tells a miner is true: a confirmed payment was paid, by   *)
(* the transaction whose hash it shows.                                    *)
(***************************************************************************)
ConfirmedIsPaid ==
    \A i \in PaymentIds :
        balance_payments[i].confirmed =>
            /\ balance_payments[i].txHash \in Hashes
            /\ sent[balance_payments[i].txHash].state = "success"
            /\ i \in sent[balance_payments[i].txHash].payments

(***************************************************************************)
(* A transaction that is marked a success, whoever wrote the status last,  *)
(* has paid: the contract knows its uuid.                                  *)
(***************************************************************************)
SuccessIsPaid ==
    \A t \in WithStatus("success") : transactions[t].uuid \in successfulPayments

(***************************************************************************)
(* Once a payment is in a batch it stays in that batch, and once it is     *)
(* confirmed it stays confirmed.                                           *)
(***************************************************************************)
BatchIsFinal ==
    [][\A i \in PaymentIds :
        /\ balance_payments[i].uuid # None =>
                balance_payments'[i].uuid = balance_payments[i].uuid
        /\ balance_payments[i].confirmed => balance_payments'[i].confirmed]_vars

(***************************************************************************)
(* The pipeline keeps the promise of PayoutLedger: earned is               *)
(* alltimeTokenBalance, reserved is tokensAwarded, and paid are the        *)
(* payments of the transactions that succeeded, each with the hash of its  *)
(* transaction: a payment that was in two of them would be paid twice.     *)
(***************************************************************************)
PieceOf(i, h) ==
    [miner |-> balance_payments[i].miner, from |-> balance_payments[i].from,
     upto |-> balance_payments[i].upto, payout |-> h]

PaidPieces ==
    UNION {{PieceOf(i, h) : i \in sent[h].payments} :
                h \in {g \in Hashes : sent[g].state = "success"}}

Ledger == INSTANCE PayoutLedger WITH
    earned <- alltimeTokenBalance, reserved <- tokensAwarded, paid <- PaidPieces

KeepsTheLedger == Ledger!LedgerSpec

(***************************************************************************)
(* A batch the chain has paid is in the end confirmed to its miners.       *)
(***************************************************************************)
PaidIsConfirmed ==
    \A u \in Uuids :
        u \in successfulPayments ~>
            \A i \in PaymentIds :
                balance_payments[i].uuid = u => balance_payments[i].confirmed

=============================================================================
