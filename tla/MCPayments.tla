----------------------------- MODULE MCPayments -----------------------------
(***************************************************************************)
(* PaymentSystem on small instances for TLC.                               *)
(***************************************************************************)
EXTENDS PaymentInvariants, FiniteSetsExt

CONSTANTS m1, m2, u1, u2

\* m1 has set a payout threshold of its own, lower than the pool's.
OneCustomPayout == [m \in Miners |-> IF m = m1 THEN 1 ELSE 0]

NoCustomPayout == [m \in Miners |-> 0]

(***************************************************************************)
(* A state the balance side reaches on its own: two balance payments, one  *)
(* queued batch that holds both, and nothing else under way.  Runs that    *)
(* start here leave BuildRuns and BatchRuns empty.                         *)
(***************************************************************************)
Stamped(m, upto, u) ==
    [miner |-> m, from |-> upto - 1, upto |-> upto, uuid |-> u,
     confirmed |-> FALSE, txHash |-> NoHash]

QueuedInit ==
    /\ balance_payments = <<Stamped(m1, 1, u1), Stamped(m1, 2, u1)>>
    /\ block = 0
    /\ transactions = <<QueuedTransaction(u1, {1, 2})>>
    /\ alltimeTokenBalance = [m \in Miners |-> 2]
    /\ tokensAwarded = alltimeTokenBalance
    /\ fullPayoutDue = TRUE
    /\ buildRunning = FALSE
    /\ build = [r \in BuildRuns |-> IdleBuild]
    /\ batchRunning = FALSE
    /\ batch = [r \in BatchRuns |-> IdleBatch]
    /\ TransactionInit
    /\ faults = 0

(***************************************************************************)
(* "only do it once (when confirmed not true yet)", says the loop that     *)
(* confirms the payments of a batch: a miner is credited with no more      *)
(* tokens received than its confirmed payments are worth.                  *)
(***************************************************************************)
CreditedOnce ==
    \A m \in Miners :
        tokensReceived[m] <=
            MapThenSumSet(amountToPay,
                {i \in PaymentIds : balance_payments[i].miner = m
                                        /\ balance_payments[i].confirmed})

QueuedSpec == QueuedInit /\ [][Next]_vars
FairQueuedSpec == QueuedSpec /\ Fairness

=============================================================================
