-------------------------- MODULE BalancePayments --------------------------
(***************************************************************************)
(* TokenInterface: what a miner is owed becomes balance_payments           *)
(* (buildBalancePayments), and balance_payments are gathered into batches  *)
(* that are queued as transactions (buildBatchedPaymentTransactions).      *)
(*                                                                         *)
(* Both run from a timer of the token collector.  A slot of BuildRuns or   *)
(* BatchRuns is one call of the function that has not returned; the static *)
(* flag of the class is what keeps two calls from overlapping.  A step is  *)
(* the code from one await that touches shared state to the next.          *)
(***************************************************************************)
EXTENDS PaymentData

CONSTANTS
    BuildRuns, BatchRuns,
    ValidMiners,            \* miners whose first 42 characters pass web3Utils.isAddress
    CustomMinPayout,        \* per miner, getWorkerMinPayout of its bare address, 0 if unset
    MinBalanceForTransfer,  \* paymentsConfig.minBalanceForTransfer
    SweepMinimum,           \* minBalanceThreshold, 0.01 ETI
    MinPaymentsInBatch,     \* paymentsConfig.minPaymentsInBatch
    MaxTxInBatch,           \* MAX_TX_IN_BATCH, 25
    MaxEarned               \* bound on a miner's alltimeTokenBalance

ASSUME BalanceAssumption ==
    /\ ValidMiners \subseteq Miners
    /\ CustomMinPayout \in [Miners -> Nat]
    /\ MinBalanceForTransfer \in Nat
    /\ SweepMinimum \in Nat
    /\ MinPaymentsInBatch \in Nat
    /\ MaxTxInBatch \in Nat \ {0}
    /\ MaxEarned \in Nat

VARIABLES
    alltimeTokenBalance,    \* minerData.alltimeTokenBalance
    tokensAwarded,          \* minerData.tokensAwarded
    fullPayoutDue,          \* lastFullPayoutTime is unset or 24 hours old
    buildRunning,           \* TokenInterface._buildBalancePaymentsRunning
    build,                  \* the local state of each call of buildBalancePayments
    batchRunning,           \* TokenInterface._buildBatchedPaymentsRunning
    batch                   \* the local state of each call of buildBatchedPaymentTransactions

minerVars == <<alltimeTokenBalance, tokensAwarded, fullPayoutDue>>
buildVars == <<buildRunning, build>>
batchVars == <<batchRunning, batch>>
balanceVars == <<alltimeTokenBalance, tokensAwarded, fullPayoutDue,
                 buildRunning, build, batchRunning, batch>>

NoMiners == [m \in Miners |-> 0]

\* A call: the miners it has not come to, the one it is paying, and what it read.
BuildState ==
    [pc: {"idle", "pay", "insert"}, todo: SUBSET Miners, miner: Miners \cup {None},
     alltime: [Miners -> Nat], awarded: [Miners -> Nat], fullDay: BOOLEAN]

IdleBuild ==
    [pc |-> "idle", todo |-> {}, miner |-> None,
     alltime |-> NoMiners, awarded |-> NoMiners, fullDay |-> FALSE]

\* A call: the uuid of its batch, the payments it has to stamp and those it has.
BatchState ==
    [pc: {"idle", "stamp"}, uuid: Uuids \cup {None},
     todo: SUBSET Nat, done: SUBSET Nat]

IdleBatch == [pc |-> "idle", uuid |-> None, todo |-> {}, done |-> {}]

BalanceInit ==
    /\ alltimeTokenBalance = NoMiners
    /\ tokensAwarded = NoMiners
    /\ fullPayoutDue = TRUE
    /\ buildRunning = FALSE
    /\ build = [r \in BuildRuns |-> IdleBuild]
    /\ batchRunning = FALSE
    /\ batch = [r \in BatchRuns |-> IdleBatch]

BalanceTypeOK ==
    /\ alltimeTokenBalance \in [Miners -> Nat]
    /\ tokensAwarded \in [Miners -> Nat]
    /\ fullPayoutDue \in BOOLEAN
    /\ buildRunning \in BOOLEAN
    /\ build \in [BuildRuns -> BuildState]
    /\ batchRunning \in BOOLEAN
    /\ batch \in [BatchRuns -> BatchState]

----------------------------------------------------------------------------
(* The surroundings: rewards come in, and the day of the sweep comes round. *)

\* awardTokensBalanceForShares: a $inc, so it never undoes a concurrent write.
AwardTokens(m) ==
    \E n \in 1..MaxEarned :
        /\ alltimeTokenBalance[m] + n <= MaxEarned
        /\ alltimeTokenBalance' = [alltimeTokenBalance EXCEPT ![m] = @ + n]
        /\ UNCHANGED <<tokensAwarded, fullPayoutDue, buildVars, batchVars>>
        /\ UNCHANGED dataVars

DayPasses ==
    /\ ~fullPayoutDue
    /\ fullPayoutDue' = TRUE
    /\ UNCHANGED <<alltimeTokenBalance, tokensAwarded, buildVars, batchVars>>
    /\ UNCHANGED dataVars

----------------------------------------------------------------------------
(* buildBalancePayments *)

Owed(r, m) ==
    IF build[r].alltime[m] > build[r].awarded[m]
    THEN build[r].alltime[m] - build[r].awarded[m]
    ELSE 0

EffectiveThreshold(m) ==
    IF CustomMinPayout[m] > 0 THEN CustomMinPayout[m] ELSE MinBalanceForTransfer

\* Everything it reads was read when the call began.
ShouldPayout(r, m) ==
    /\ m \in ValidMiners
    /\ \/ Owed(r, m) > EffectiveThreshold(m)
       \/ /\ build[r].fullDay
          /\ Owed(r, m) > SweepMinimum
          /\ Owed(r, m) <= EffectiveThreshold(m)

\* getMinerList and the 24 hour test: the snapshot the whole call works from.
BeginBuild(r) ==
    /\ build[r].pc = "idle"
    /\ buildRunning' = TRUE
    /\ build' = [build EXCEPT ![r] =
                    [pc |-> "pay", todo |-> Miners, miner |-> None,
                     alltime |-> alltimeTokenBalance, awarded |-> tokensAwarded,
                     fullDay |-> fullPayoutDue]]
    /\ UNCHANGED <<minerVars, batchVars>>
    /\ UNCHANGED dataVars

\* Mutant: the call starts although an earlier one has not returned.
StartBuildUnguarded(r) == BeginBuild(r)

StartBuild(r) ==
    /\ ~buildRunning
    /\ BeginBuild(r)

\* updateMinerPaymentFields with amount tokens counted as awarded: a $set of one field.
WriteAwarded(r, m, awarded) ==
    /\ build[r].pc = "pay"
    /\ m \in build[r].todo
    /\ ShouldPayout(r, m)
    /\ tokensAwarded' = [tokensAwarded EXCEPT ![m] = awarded]
    /\ build' = [build EXCEPT ![r].pc = "insert", ![r].miner = m,
                              ![r].todo = @ \ {m}]
    /\ UNCHANGED <<fullPayoutDue, buildRunning, batchVars>>
    /\ UNCHANGED dataVars

\* Mutant: the whole snapshot row is saved back, over a reward that came in meanwhile.
SetTokensAwardedWholeRow(r, m) ==
    /\ WriteAwarded(r, m, build[r].awarded[m] + Owed(r, m))
    /\ alltimeTokenBalance' = [alltimeTokenBalance EXCEPT ![m] = build[r].alltime[m]]

\* Mutant: what the miner has earned by now is counted as awarded, not what is paid.
SetTokensAwardedToCurrent(r, m) ==
    /\ WriteAwarded(r, m, alltimeTokenBalance[m])
    /\ UNCHANGED alltimeTokenBalance

SetTokensAwarded(r, m) ==
    /\ WriteAwarded(r, m, build[r].awarded[m] + Owed(r, m))
    /\ UNCHANGED alltimeTokenBalance

InsertBalancePayment(r) ==
    LET m == build[r].miner IN
    /\ build[r].pc = "insert"
    /\ balance_payments' = Append(balance_payments,
            [miner |-> m, from |-> build[r].awarded[m],
             upto |-> build[r].awarded[m] + Owed(r, m), uuid |-> None,
             confirmed |-> FALSE, txHash |-> NoHash])
    /\ build' = [build EXCEPT ![r].pc = "pay", ![r].miner = None]
    /\ UNCHANGED <<minerVars, buildRunning, batchVars>>
    /\ UNCHANGED <<transactions, block>>

FinishBuild(r) ==
    /\ build[r].pc = "pay"
    /\ \A m \in build[r].todo : ~ShouldPayout(r, m)
    /\ fullPayoutDue' = (IF build[r].fullDay THEN FALSE ELSE fullPayoutDue)
    /\ build' = [build EXCEPT ![r] = IdleBuild]
    /\ buildRunning' = FALSE
    /\ UNCHANGED <<alltimeTokenBalance, tokensAwarded, batchVars>>
    /\ UNCHANGED dataVars

\* A database call of the run rejects: the finally block lowers the flag.
FailBuild(r) ==
    /\ build[r].pc # "idle"
    /\ build' = [build EXCEPT ![r] = IdleBuild]
    /\ buildRunning' = FALSE
    /\ UNCHANGED <<minerVars, batchVars>>
    /\ UNCHANGED dataVars

----------------------------------------------------------------------------
(* buildBatchedPaymentTransactions *)

Unbatched == {i \in PaymentIds : balance_payments[i].uuid = None}

\* slice(0, MAX_TX_IN_BATCH), then the filter by balancePaymentIsValid.
NextBatch ==
    {i \in Unbatched :
        /\ Cardinality({j \in Unbatched : j < i}) < MaxTxInBatch
        /\ balance_payments[i].miner \in ValidMiners}

\* What web3Utils.randomHex(32) returns has never been drawn before.
FreshUuids ==
    Uuids \ ({balance_payments[i].uuid : i \in PaymentIds}
             \cup {transactions[t].uuid : t \in TransactionIds}
             \cup {batch[r].uuid : r \in BatchRuns})

BeginBatch(r) ==
    /\ batch[r].pc = "idle"
    /\ Cardinality(Unbatched) >= MinPaymentsInBatch
    /\ NextBatch # {}
    /\ \E u \in FreshUuids :
        batch' = [batch EXCEPT ![r] =
                    [pc |-> "stamp", uuid |-> u, todo |-> NextBatch, done |-> {}]]
    /\ batchRunning' = TRUE
    /\ UNCHANGED <<minerVars, buildVars>>
    /\ UNCHANGED dataVars

\* Mutant: the call starts although an earlier one has not returned.
StartBatchUnguarded(r) == BeginBatch(r)

StartBatch(r) ==
    /\ ~batchRunning
    /\ BeginBatch(r)

StampPayment(r) ==
    \E i \in batch[r].todo :
        /\ batch[r].pc = "stamp"
        /\ \A j \in batch[r].todo : i <= j
        /\ balance_payments' = [balance_payments EXCEPT ![i].uuid = batch[r].uuid]
        /\ batch' = [batch EXCEPT ![r].todo = @ \ {i}, ![r].done = @ \cup {i}]
        /\ UNCHANGED <<minerVars, buildVars, batchRunning>>
        /\ UNCHANGED <<transactions, block>>

QueuePayments(r, payments) ==
    /\ batch[r].pc = "stamp"
    /\ batch[r].todo = {}
    /\ transactions' = Append(transactions, QueuedTransaction(batch[r].uuid, payments))
    /\ batch' = [batch EXCEPT ![r] = IdleBatch]
    /\ batchRunning' = FALSE
    /\ UNCHANGED <<minerVars, buildVars>>
    /\ UNCHANGED <<balance_payments, block>>

\* Mutant: the transaction holds one payment less than were stamped.
QueueBatchTruncated(r) ==
    QueuePayments(r, {i \in batch[r].done : \E j \in batch[r].done : j < i})

QueueBatch(r) == QueuePayments(r, batch[r].done)

\* A database call of the run rejects: the catch logs, the finally lowers the flag.
FailBatch(r) ==
    /\ batch[r].pc # "idle"
    /\ batch' = [batch EXCEPT ![r] = IdleBatch]
    /\ batchRunning' = FALSE
    /\ UNCHANGED <<minerVars, buildVars>>
    /\ UNCHANGED dataVars

----------------------------------------------------------------------------

BuildStep(r) ==
    \/ StartBuild(r)
    \/ \E m \in Miners : SetTokensAwarded(r, m)
    \/ InsertBalancePayment(r)
    \/ FinishBuild(r)

BatchStep(r) ==
    \/ StartBatch(r)
    \/ StampPayment(r)
    \/ QueueBatch(r)

BalanceEnvironment ==
    \/ \E m \in Miners : AwardTokens(m)
    \/ DayPasses

BalanceFault ==
    \/ \E r \in BuildRuns : FailBuild(r)
    \/ \E r \in BatchRuns : FailBatch(r)

\* The process dies: nothing of a run survives, the flags start lowered.
BalanceCrash ==
    /\ build' = [r \in BuildRuns |-> IdleBuild]
    /\ batch' = [r \in BatchRuns |-> IdleBatch]
    /\ buildRunning' = FALSE
    /\ batchRunning' = FALSE
    /\ UNCHANGED minerVars

=============================================================================
