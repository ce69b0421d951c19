------------------------- MODULE PaymentBooksProofs -------------------------
(***************************************************************************)
(* TypeOK and NeverOverpaid, for every value of the constants.  Of the     *)
(* steps only those of buildBalancePayments touch what BooksInvariant      *)
(* speaks of, except that rewards only grow.                               *)
(***************************************************************************)
EXTENDS PaymentInvariants, CollectionFacts

(* The first of a nonempty set of _ids is in the set. *)
LEMMA FirstInSet ==
    ASSUME NEW S \in SUBSET Nat, S # {}
    PROVE  First(S) \in S
BY MinExists DEF First

(* The state of a call that is not running is well-typed. *)
LEMMA IdleTypes ==
    /\ NoMiners \in [Miners -> Nat]
    /\ IdleBuild \in BuildState
    /\ IdleBatch \in BatchState
    /\ IdleBroadcast \in BroadcastState
    /\ IdleCheck \in CheckState
    /\ IdleRequeue \in RequeueState
    /\ IdleTool \in ToolState
<1>1. NoMiners \in [Miners -> Nat]
  BY DEF NoMiners
<1>2. IdleBuild \in BuildState
  BY <1>1 DEF IdleBuild, BuildState
<1>3. IdleBatch \in BatchState
  BY DEF IdleBatch, BatchState
<1>4. IdleBroadcast \in BroadcastState
  BY DEF IdleBroadcast, BroadcastState, NoHash
<1>5. IdleCheck \in CheckState
  BY DEF IdleCheck, CheckState, NoHash
<1>6. IdleRequeue \in RequeueState /\ IdleTool \in ToolState
  BY DEF IdleRequeue, RequeueState, IdleTool, ToolState
<1> QED
  BY <1>1, <1>2, <1>3, <1>4, <1>5, <1>6

(* The pipeline starts well-typed. *)
LEMMA InitTypes == Init => TypeInvariant
<1> SUFFICES ASSUME Init PROVE TypeInvariant
  OBVIOUS
<1> USE IdleTypes DEF Init, DataInit, BalanceInit, TransactionInit
<1>1. DataTypeOK
  BY DEF DataTypeOK
<1>2. BalanceTypeOK
  BY DEF BalanceTypeOK
<1>3. TransactionTypeOK
  <2>1. sent \in Seq(SentTransaction)
    OBVIOUS
  <2>2. tokensReceived \in [Miners -> Int] /\ accountNonce \in Nat
    OBVIOUS
  <2> QED
    BY <2>1, <2>2 DEF TransactionTypeOK
<1>4. BalanceReferences
  BY DEF BalanceReferences, IdleBuild, IdleBatch
<1>5. TransactionReferences
  BY DEF TransactionReferences, IdleBroadcast, IdleCheck, IdleTool
<1> QED
  BY <1>1, <1>2, <1>3, <1>4, <1>5 DEF TypeInvariant, TypeOK

(* The documents of the collections are well-typed. *)
LEMMA DocumentTypes ==
    ASSUME DataTypeOK
    PROVE  /\ PaymentIds \subseteq Nat \ {0}
           /\ TransactionIds \subseteq Nat \ {0}
           /\ \A i \in PaymentIds : balance_payments[i] \in BalancePayment
           /\ \A t \in TransactionIds : transactions[t] \in Transaction
BY ElementOfSeq, LenProperties DEF DataTypeOK, PaymentIds, TransactionIds

----------------------------------------------------------------------------
(* The balance side. *)

(* A step that leaves the balance side alone keeps its types. *)
LEMMA BalanceSideKept ==
    ASSUME BalanceTypeOK, BalanceReferences, UNCHANGED balanceVars
    PROVE  BalanceTypeOK' /\ BalanceReferences'
BY DEF BalanceTypeOK, BalanceReferences, balanceVars

(* A step that leaves the transaction side alone and deletes no document     *)
(* keeps the types of the transaction side.                                  *)
LEMMA TransactionSideKept ==
    ASSUME TransactionTypeOK, TransactionReferences, UNCHANGED transactionVars,
           PaymentIds \subseteq PaymentIds', TransactionIds \subseteq TransactionIds'
    PROVE  TransactionTypeOK' /\ TransactionReferences'
<1> USE DEF transactionVars
<1>1. TransactionTypeOK'
  BY DEF TransactionTypeOK
<1>2. TransactionReferences'
  BY DEF TransactionReferences
<1> QED
  BY <1>1, <1>2

(* A call of buildBalancePayments, the rewards and the day keep the types.   *)
LEMMA BuildTypes ==
    ASSUME TypeInvariant,
           \/ BalanceEnvironment
           \/ \E r \in BuildRuns : BuildStep(r) \/ FailBuild(r)
    PROVE  /\ DataTypeOK' /\ BalanceTypeOK' /\ BalanceReferences'
           /\ PaymentIds \subseteq PaymentIds' /\ TransactionIds \subseteq TransactionIds'
<1> USE DEF TypeInvariant, TypeOK
<1>1. ASSUME NEW m \in Miners, AwardTokens(m)
      PROVE  /\ DataTypeOK' /\ BalanceTypeOK' /\ BalanceReferences'
             /\ PaymentIds' = PaymentIds /\ TransactionIds' = TransactionIds
  BY <1>1, BalanceAssumption DEF AwardTokens, DataTypeOK, BalanceTypeOK, BalanceReferences,
         PaymentIds, TransactionIds, dataVars, buildVars, batchVars
<1>2. ASSUME DayPasses
      PROVE  /\ DataTypeOK' /\ BalanceTypeOK' /\ BalanceReferences'
             /\ PaymentIds' = PaymentIds /\ TransactionIds' = TransactionIds
  BY <1>2 DEF DayPasses, DataTypeOK, BalanceTypeOK, BalanceReferences,
         PaymentIds, TransactionIds, dataVars, buildVars, batchVars
<1>3. ASSUME NEW r \in BuildRuns, StartBuild(r)
      PROVE  /\ DataTypeOK' /\ BalanceTypeOK' /\ BalanceReferences'
             /\ PaymentIds' = PaymentIds /\ TransactionIds' = TransactionIds
  BY <1>3 DEF StartBuild, BeginBuild, BuildState, DataTypeOK, BalanceTypeOK,
         BalanceReferences, PaymentIds, TransactionIds, dataVars, minerVars, batchVars
<1>4. ASSUME NEW r \in BuildRuns, NEW m \in Miners, SetTokensAwarded(r, m)
      PROVE  /\ DataTypeOK' /\ BalanceTypeOK' /\ BalanceReferences'
             /\ PaymentIds' = PaymentIds /\ TransactionIds' = TransactionIds
  <2>1. build[r].awarded[m] + Owed(r, m) \in Nat
    BY DEF Owed, BalanceTypeOK, BuildState
  <2> QED
    BY <1>4, <2>1 DEF SetTokensAwarded, WriteAwarded, BuildState, DataTypeOK,
         BalanceTypeOK, BalanceReferences, PaymentIds, TransactionIds, dataVars, batchVars
<1>5. ASSUME NEW r \in BuildRuns, InsertBalancePayment(r)
      PROVE  /\ DataTypeOK' /\ BalanceTypeOK' /\ BalanceReferences'
             /\ PaymentIds \subseteq PaymentIds' /\ TransactionIds' = TransactionIds
  <2> DEFINE m == build[r].miner
             payment == [miner |-> m, from |-> build[r].awarded[m],
                         upto |-> build[r].awarded[m] + Owed(r, m), uuid |-> None,
                         confirmed |-> FALSE, txHash |-> NoHash]
  <2>1. m \in Miners
    BY <1>5 DEF InsertBalancePayment, BalanceReferences
  <2>2. build[r].awarded[m] \in Nat /\ build[r].awarded[m] + Owed(r, m) \in Nat
    BY <2>1 DEF Owed, BalanceTypeOK, BuildState
  <2>3. payment \in BalancePayment
    BY <2>1, <2>2 DEF BalancePayment, NoHash
  <2>4. balance_payments' = Append(balance_payments, payment)
    BY <1>5 DEF InsertBalancePayment
  <2>5. balance_payments' \in Seq(BalancePayment) /\ PaymentIds \subseteq PaymentIds'
    <3> HIDE DEF payment
    <3> QED
      BY <2>3, <2>4, SeqAppend DEF DataTypeOK, PaymentIds
  <2>6. build' = [build EXCEPT ![r].pc = "pay", ![r].miner = None]
    BY <1>5 DEF InsertBalancePayment
  <2>7. build' \in [BuildRuns -> BuildState] /\ BalanceReferences'
    <3>1. UNCHANGED batch
      BY <1>5 DEF InsertBalancePayment, batchVars
    <3>2. build' \in [BuildRuns -> BuildState]
      <4> HIDE DEF payment, m
      <4>1. build[r] \in BuildState
        BY DEF BalanceTypeOK
      <4>2. [build[r] EXCEPT !.pc = "pay", !.miner = None] \in BuildState
        BY <4>1 DEF BuildState
      <4>3. build' = [build EXCEPT ![r] = [build[r] EXCEPT !.pc = "pay", !.miner = None]]
        BY <2>6 DEF BalanceTypeOK
      <4> QED
        BY <4>2, <4>3 DEF BalanceTypeOK
    <3> QED
      BY <2>6, <3>1, <3>2 DEF BalanceReferences, BalanceTypeOK, BuildState
  <2> QED
    BY <1>5, <2>5, <2>7 DEF InsertBalancePayment, DataTypeOK, BalanceTypeOK,
         TransactionIds, minerVars, batchVars
<1>6. ASSUME NEW r \in BuildRuns, FinishBuild(r) \/ FailBuild(r)
      PROVE  /\ DataTypeOK' /\ BalanceTypeOK' /\ BalanceReferences'
             /\ PaymentIds' = PaymentIds /\ TransactionIds' = TransactionIds
  <2>1. build' = [build EXCEPT ![r] = IdleBuild]
    BY <1>6 DEF FinishBuild, FailBuild
  <2>2. build' \in [BuildRuns -> BuildState]
    BY <2>1, IdleTypes DEF BalanceTypeOK
  <2>3. BalanceReferences'
    BY <1>6, <2>1 DEF FinishBuild, FailBuild, BalanceReferences, BalanceTypeOK,
         IdleBuild, batchVars
  <2> QED
    BY <1>6, <2>2, <2>3 DEF FinishBuild, FailBuild, DataTypeOK, BalanceTypeOK,
         PaymentIds, TransactionIds, dataVars, minerVars, batchVars
<1> QED
  BY <1>1, <1>2, <1>3, <1>4, <1>5, <1>6 DEF BalanceEnvironment, BuildStep

(* A call of buildBatchedPaymentTransactions keeps the types.                *)
LEMMA BatchTypes ==
    ASSUME TypeInvariant, NEW r \in BatchRuns, BatchStep(r) \/ FailBatch(r)
    PROVE  /\ DataTypeOK' /\ BalanceTypeOK' /\ BalanceReferences'
           /\ PaymentIds' = PaymentIds /\ TransactionIds \subseteq TransactionIds'
<1> USE DEF TypeInvariant, TypeOK
<1>1. CASE StartBatch(r)
  <2>1. NextBatch \subseteq Nat
    BY LenProperties DEF NextBatch, Unbatched, PaymentIds, DataTypeOK
  <2> QED
    BY <1>1, <2>1 DEF StartBatch, BeginBatch, FreshUuids, BatchState, DataTypeOK,
         BalanceTypeOK, BalanceReferences, PaymentIds, TransactionIds, dataVars,
         minerVars, buildVars
<1>2. CASE StampPayment(r)
  <2>1. PICK i \in batch[r].todo :
            /\ balance_payments' = [balance_payments EXCEPT ![i].uuid = batch[r].uuid]
            /\ batch' = [batch EXCEPT ![r].todo = @ \ {i}, ![r].done = @ \cup {i}]
    BY <1>2 DEF StampPayment
  <2>2. batch[r].uuid \in Uuids \cup {None} /\ i \in Nat
    BY DEF BalanceTypeOK, BatchState
  <2>3. i \in PaymentIds =>
            [balance_payments[i] EXCEPT !.uuid = batch[r].uuid] \in BalancePayment
    <3>1. i \in PaymentIds => balance_payments[i] \in BalancePayment
      BY ElementOfSeq, LenProperties DEF DataTypeOK, PaymentIds
    <3> QED
      BY <2>2, <3>1 DEF BalancePayment
  <2>4. balance_payments' \in Seq(BalancePayment) /\ PaymentIds' = PaymentIds
    BY <2>1, <2>3, SeqExcept DEF DataTypeOK, PaymentIds
  <2>5. batch' \in [BatchRuns -> BatchState]
    BY <2>1, <2>2 DEF BalanceTypeOK, BatchState
  <2> QED
    BY <1>2, <2>1, <2>4, <2>5 DEF StampPayment, DataTypeOK, BalanceTypeOK,
         BalanceReferences, BatchState, TransactionIds, minerVars, buildVars
<1>3. CASE QueueBatch(r)
  <2> DEFINE t == QueuedTransaction(batch[r].uuid, batch[r].done)
  <2>1. t \in Transaction
    BY <1>3 DEF QueueBatch, QueuePayments, QueuedTransaction, Transaction, NoHash,
         Statuses, DataTypeOK, BalanceTypeOK, BalanceReferences, BatchState
  <2>2. transactions' = Append(transactions, t)
    BY <1>3 DEF QueueBatch, QueuePayments
  <2>3. transactions' \in Seq(Transaction) /\ TransactionIds \subseteq TransactionIds'
    <3> HIDE DEF t
    <3> QED
      BY <2>1, <2>2, SeqAppend DEF DataTypeOK, TransactionIds
  <2>4. batch' \in [BatchRuns -> BatchState]
    BY <1>3, IdleTypes DEF QueueBatch, QueuePayments, BalanceTypeOK
  <2> QED
    BY <1>3, <2>3, <2>4 DEF QueueBatch, QueuePayments, DataTypeOK, BalanceTypeOK,
         BalanceReferences, IdleBatch, PaymentIds, minerVars, buildVars
<1>4. CASE FailBatch(r)
  <2>1. batch' \in [BatchRuns -> BatchState]
    BY <1>4, IdleTypes DEF FailBatch, BalanceTypeOK
  <2> QED
    BY <1>4, <2>1 DEF FailBatch, DataTypeOK, BalanceTypeOK, BalanceReferences,
         IdleBatch, PaymentIds, TransactionIds, dataVars, minerVars, buildVars
<1> QED
  BY <1>1, <1>2, <1>3, <1>4 DEF BatchStep

----------------------------------------------------------------------------
(* The transaction side. *)

(* Writing a status leaves a well-typed collection of the same documents.    *)
LEMMA SetStatusTypes ==
    ASSUME DataTypeOK, NEW t, NEW status \in Statuses, SetStatus(t, status)
    PROVE  transactions' \in Seq(Transaction) /\ TransactionIds' = TransactionIds
<1> DEFINE new == [transactions[t] EXCEPT
                    !.status = IF @ = "deleted" THEN "deleted" ELSE status]
<1>1. transactions' = [transactions EXCEPT ![t] = new]
  BY DEF SetStatus
<1>2. t \in TransactionIds => new \in Transaction
  <2>1. "deleted" \in Statuses
    BY DEF Statuses
  <2> QED
    BY <2>1, DocumentTypes DEF Transaction
<1> HIDE DEF new
<1> QED
  BY <1>1, <1>2, SeqExcept DEF DataTypeOK, TransactionIds

(* The chain keeps the types. *)
LEMMA ChainTypes ==
    ASSUME TypeInvariant, NEW h \in Hashes, Mine(h) \/ Evict(h)
    PROVE  DataTypeOK' /\ TransactionTypeOK' /\ TransactionReferences'
<1> USE DEF TypeInvariant, TypeOK
<1>1. sent[h] \in SentTransaction
  BY ElementOfSeq, LenProperties DEF TransactionTypeOK, Hashes
<1>2. ASSUME NEW state \in {"pool", "dropped", "success", "reverted"},
             sent' = [sent EXCEPT ![h].state = state]
      PROVE  sent' \in Seq(SentTransaction)
  <2>1. [sent[h] EXCEPT !.state = state] \in SentTransaction
    BY <1>1 DEF SentTransaction
  <2> QED
    BY <1>2, <2>1, SeqExcept DEF TransactionTypeOK
<1>3. DataTypeOK' /\ PaymentIds' = PaymentIds /\ TransactionIds' = TransactionIds
  BY DEF Mine, MineWith, Evict, DataTypeOK, dataVars, PaymentIds, TransactionIds
<1>4. TransactionReferences'
  BY <1>3 DEF Mine, MineWith, Evict, TransactionReferences, checkVars
<1>5. CASE Mine(h)
  <2>1. PICK succeeds \in BOOLEAN : MineWith(h, succeeds)
    BY <1>5 DEF Mine
  <2>2. sent' \in Seq(SentTransaction)
    BY <1>2, <2>1 DEF MineWith
  <2>3. successfulPayments' \subseteq Uuids /\ accountNonce' \in Nat
    BY <1>1, <2>1 DEF MineWith, TransactionTypeOK, SentTransaction
  <2> QED
    BY <1>3, <1>4, <2>1, <2>2, <2>3 DEF MineWith, TransactionTypeOK, checkVars
<1>6. CASE Evict(h)
  <2>1. sent' \in Seq(SentTransaction)
    BY <1>2, <1>6 DEF Evict
  <2> QED
    BY <1>3, <1>4, <1>6, <2>1 DEF Evict, TransactionTypeOK, checkVars
<1> QED
  BY <1>5, <1>6

(* A call of the broadcast keeps the types. *)
LEMMA BroadcastTypes ==
    ASSUME TypeInvariant, NEW r \in BroadcastRuns, BroadcastStep(r) \/ FailBroadcast(r)
    PROVE  DataTypeOK' /\ TransactionTypeOK' /\ TransactionReferences'
<1> USE DocumentTypes DEF TypeInvariant, TypeOK
<1>1. broadcast[r] \in BroadcastState
  BY DEF TransactionTypeOK
\* The steps that only change the state of the call.
<1>2. ASSUME BroadcastOnly, UNCHANGED dataVars, NEW new \in BroadcastState,
             broadcast' = [broadcast EXCEPT ![r] = new],
             new.pc \notin {"idle", "find"} => new.tx \in TransactionIds
      PROVE  DataTypeOK' /\ TransactionTypeOK' /\ TransactionReferences'
  <2>1. DataTypeOK' /\ PaymentIds' = PaymentIds /\ TransactionIds' = TransactionIds
    BY <1>2 DEF DataTypeOK, dataVars, PaymentIds, TransactionIds
  <2>2. TransactionTypeOK'
    BY <1>2 DEF BroadcastOnly, chainVars, checkVars, TransactionTypeOK
  <2>3. TransactionReferences'
    BY <1>2, <2>1 DEF BroadcastOnly, checkVars, TransactionReferences, TransactionTypeOK
  <2> QED
    BY <2>1, <2>2, <2>3
\* The steps that end the call with a write to its transaction.
<1>3. ASSUME BroadcastOnly, UNCHANGED <<balance_payments, block>>,
             transactions' \in Seq(Transaction), TransactionIds' = TransactionIds,
             broadcast' = [broadcast EXCEPT ![r] = IdleBroadcast]
      PROVE  DataTypeOK' /\ TransactionTypeOK' /\ TransactionReferences'
  <2>1. DataTypeOK' /\ PaymentIds' = PaymentIds
    BY <1>3 DEF DataTypeOK, PaymentIds
  <2>2. TransactionTypeOK'
    BY <1>3, IdleTypes DEF BroadcastOnly, chainVars, checkVars, TransactionTypeOK
  <2>3. TransactionReferences'
    BY <1>3, <2>1 DEF BroadcastOnly, checkVars, TransactionReferences, TransactionTypeOK,
           IdleBroadcast
  <2> QED
    BY <2>1, <2>2, <2>3
<1>4. CASE CheckPending(r)
  <2> DEFINE new == [broadcast[r] EXCEPT !.pc = "find"]
  <2>1. broadcast' = [broadcast EXCEPT ![r] = new]
    BY <1>4 DEF CheckPending, GoTo
  <2>2. new \in BroadcastState /\ new.pc = "find"
    BY <1>1 DEF BroadcastState
  <2> QED
    BY <1>2, <1>4, <2>1, <2>2 DEF CheckPending
<1>5. CASE FindQueued(r)
  <2>1. CASE WithStatus("queued") = {}
    <3> DEFINE new == [broadcast[r] EXCEPT !.pc = "idle"]
    <3>1. broadcast' = [broadcast EXCEPT ![r] = new]
      BY <1>5, <2>1 DEF FindQueued, GoTo
    <3>2. new \in BroadcastState /\ new.pc = "idle"
      BY <1>1 DEF BroadcastState
    <3> QED
      BY <1>2, <1>5, <3>1, <3>2 DEF FindQueued
  <2>2. CASE WithStatus("queued") # {}
    <3>1. PICK t \in WithStatus("queued") :
            broadcast' = [broadcast EXCEPT ![r].pc = "estimate", ![r].tx = t]
      BY <1>5, <2>2 DEF FindQueued
    <3> DEFINE new == [broadcast[r] EXCEPT !.pc = "estimate", !.tx = t]
    <3>2. t \in TransactionIds
      BY DEF WithStatus
    <3>3. broadcast' = [broadcast EXCEPT ![r] = new]
      BY <3>1 DEF TransactionTypeOK
    <3>4. new \in BroadcastState /\ new.tx = t
      BY <1>1, <3>2 DEF BroadcastState
    <3> QED
      BY <1>2, <1>5, <3>2, <3>3, <3>4 DEF FindQueued
  <2> QED
    BY <2>1, <2>2
<1>6. CASE EstimateMultisend(r)
  <2>1. broadcast[r].tx \in TransactionIds
    BY <1>6 DEF EstimateMultisend, TransactionReferences
  <2>2. CASE broadcast' = [broadcast EXCEPT ![r].pc = "send", ![r].nonce = accountNonce]
    <3> DEFINE new == [broadcast[r] EXCEPT !.pc = "send", !.nonce = accountNonce]
    <3>1. broadcast' = [broadcast EXCEPT ![r] = new]
      BY <2>2 DEF TransactionTypeOK
    <3>2. new \in BroadcastState /\ new.tx = broadcast[r].tx
      BY <1>1 DEF BroadcastState, TransactionTypeOK
    <3> QED
      BY <1>2, <1>6, <2>1, <3>1, <3>2 DEF EstimateMultisend
  <2>3. CASE GoTo(r, "skip")
    <3> DEFINE new == [broadcast[r] EXCEPT !.pc = "skip"]
    <3>1. broadcast' = [broadcast EXCEPT ![r] = new]
      BY <2>3 DEF GoTo
    <3>2. new \in BroadcastState /\ new.tx = broadcast[r].tx
      BY <1>1 DEF BroadcastState
    <3> QED
      BY <1>2, <1>6, <2>1, <3>1, <3>2 DEF EstimateMultisend
  <2> QED
    BY <1>6, <2>2, <2>3 DEF EstimateMultisend
<1>7. CASE AcceptMultisend(r)
  <2> DEFINE t == transactions[broadcast[r].tx]
             kept == [h \in Hashes |->
                        IF h \in InPool THEN [sent[h] EXCEPT !.state = "dropped"]
                                        ELSE sent[h]]
             added == [uuid |-> t.uuid, payments |-> t.payments,
                       nonce |-> accountNonce, state |-> "pool"]
             new == [broadcast[r] EXCEPT !.pc = "pending", !.hash = Len(sent) + 1]
  <2>1. broadcast[r].tx \in TransactionIds
    BY <1>7 DEF AcceptMultisend, TransactionReferences
  <2>2. kept \in Seq(SentTransaction)
    <3>1. Len(sent) \in Nat /\ Hashes = 1..Len(sent)
      BY LenProperties DEF TransactionTypeOK, Hashes
    <3>2. \A h \in Hashes : sent[h] \in SentTransaction
      BY <3>1, ElementOfSeq DEF TransactionTypeOK
    <3>3. \A h \in Hashes : [sent[h] EXCEPT !.state = "dropped"] \in SentTransaction
      BY <3>2 DEF SentTransaction
    <3>4. kept \in [1..Len(sent) -> SentTransaction]
      BY <3>1, <3>2, <3>3
    <3> HIDE DEF kept
    <3> QED
      BY <3>1, <3>4, FunctionIsSeq
  <2>3. added \in SentTransaction
    BY <2>1 DEF Transaction, SentTransaction, TransactionTypeOK
  <2>4. sent' = Append(kept, added)
    BY <1>7 DEF AcceptMultisend
  <2>5. sent' \in Seq(SentTransaction)
    <3> HIDE DEF kept, added
    <3> QED
      BY <2>2, <2>3, <2>4, SeqAppend
  <2>6. broadcast' = [broadcast EXCEPT ![r] = new]
    BY <1>7 DEF AcceptMultisend, TransactionTypeOK
  <2>7. new \in BroadcastState /\ new.tx = broadcast[r].tx
    <3>1. Len(sent) + 1 \in Nat
      BY LenProperties DEF TransactionTypeOK
    <3> QED
      BY <1>1, <3>1 DEF BroadcastState
  <2>8. DataTypeOK' /\ PaymentIds' = PaymentIds /\ TransactionIds' = TransactionIds
    BY <1>7 DEF AcceptMultisend, DataTypeOK, dataVars, PaymentIds, TransactionIds
  <2> HIDE DEF new, kept, added, t
  <2>9. UNCHANGED <<tokensReceived, accountNonce, successfulPayments, checkVars,
                    stale, requeue, tool>>
    BY <1>7 DEF AcceptMultisend
  <2>10. TransactionTypeOK'
    BY <2>5, <2>6, <2>7, <2>9 DEF TransactionTypeOK, checkVars
  <2>11. TransactionReferences'
    BY <2>1, <2>6, <2>7, <2>8, <2>9 DEF TransactionReferences, TransactionTypeOK, checkVars
  <2> QED
    BY <2>8, <2>10, <2>11
<1>8. CASE RejectMultisend(r) \/ FailBroadcast(r)
  <2>1. IdleBroadcast.pc = "idle"
    BY DEF IdleBroadcast
  <2> QED
    BY <1>2, <1>8, <2>1, IdleTypes DEF RejectMultisend, FailBroadcast
<1>9. CASE RecordPending(r)
  <2> DEFINE t == broadcast[r].tx
             new == IF transactions[t].status = "deleted" THEN transactions[t]
                    ELSE [transactions[t] EXCEPT !.status = "pending",
                                                 !.txHash = broadcast[r].hash]
  <2>1. transactions' = [transactions EXCEPT ![t] = new]
    BY <1>9 DEF RecordPending
  <2>2. t \in TransactionIds => new \in Transaction
    BY <1>1 DEF Transaction, BroadcastState, Statuses
  <2>3. transactions' \in Seq(Transaction) /\ TransactionIds' = TransactionIds
    <3> HIDE DEF new, t
    <3> QED
      BY <2>1, <2>2, SeqExcept DEF DataTypeOK, TransactionIds
  <2> QED
    BY <1>3, <1>9, <2>3 DEF RecordPending
<1>10. CASE RecordSkipped(r)
  <2>1. transactions' \in Seq(Transaction) /\ TransactionIds' = TransactionIds
    BY <1>10, SetStatusTypes DEF RecordSkipped, Statuses
  <2> QED
    BY <1>3, <1>10, <2>1 DEF RecordSkipped
<1> QED
  BY <1>4, <1>5, <1>6, <1>7, <1>8, <1>9, <1>10 DEF BroadcastStep

(* A call that looks for receipts keeps the types. *)
LEMMA CheckTypes ==
    ASSUME TypeInvariant, NEW r \in CheckRuns,
           \/ r \in MonitorRuns /\ StartMonitor(r)
           \/ StartStuckCheck(r)
           \/ CheckStep(r)
           \/ FailCheck(r)
    PROVE  DataTypeOK' /\ TransactionTypeOK' /\ TransactionReferences'
<1> USE DocumentTypes DEF TypeInvariant, TypeOK
<1>1. check[r] \in CheckState
  BY DEF TransactionTypeOK
\* Every step changes the state of the call; what else it may change.
<1>2. ASSUME CheckOnly, NEW new \in CheckState, check' = [check EXCEPT ![r] = new],
             tokensReceived' \in [Miners -> Int], monitorRunning' \in BOOLEAN,
             balance_payments' \in Seq(BalancePayment), PaymentIds' = PaymentIds,
             transactions' \in Seq(Transaction), TransactionIds' = TransactionIds,
             UNCHANGED block,
             new.pc \in {"confirm", "credit"} =>
                new.todo # {} /\ new.todo \subseteq PaymentIds
      PROVE  DataTypeOK' /\ TransactionTypeOK' /\ TransactionReferences'
  <2>1. DataTypeOK'
    BY <1>2 DEF DataTypeOK
  <2>2. TransactionTypeOK'
    BY <1>2 DEF CheckOnly, chainVars, TransactionTypeOK
  <2>3. TransactionReferences'
    BY <1>2 DEF CheckOnly, TransactionReferences, TransactionTypeOK
  <2> QED
    BY <2>1, <2>2, <2>3
<1>3. UNCHANGED dataVars =>
        /\ balance_payments' \in Seq(BalancePayment) /\ PaymentIds' = PaymentIds
        /\ transactions' \in Seq(Transaction) /\ TransactionIds' = TransactionIds
        /\ UNCHANGED block
  BY DEF dataVars, DataTypeOK, PaymentIds, TransactionIds
<1>4. /\ UNCHANGED tokensReceived => tokensReceived' \in [Miners -> Int]
      /\ UNCHANGED monitorRunning => monitorRunning' \in BOOLEAN
  BY DEF TransactionTypeOK
<1>5. ASSUME NEW status, BeginCheck(r, status), monitorRunning' \in BOOLEAN
      PROVE  DataTypeOK' /\ TransactionTypeOK' /\ TransactionReferences'
  <2> DEFINE found == {t \in WithStatus(status) : transactions[t].txHash # NoHash}
             list == {<<t, transactions[t].txHash>> : t \in found}
             new == [IdleCheck EXCEPT !.pc = "next", !.list = list]
  <2>1. list \subseteq Nat \X Nat
    BY DEF WithStatus, Transaction
  <2>2. new \in CheckState /\ new.pc = "next"
    <3> HIDE DEF list
    <3> QED
      BY <2>1, IdleTypes DEF CheckState, IdleCheck
  <2>3. check' = [check EXCEPT ![r] = new]
    BY <1>5 DEF BeginCheck
  <2>4. CheckOnly /\ UNCHANGED tokensReceived /\ UNCHANGED dataVars
    BY <1>5 DEF BeginCheck
  <2> HIDE DEF new
  <2> QED
    BY <1>2, <1>3, <1>4, <1>5, <2>2, <2>3, <2>4
<1>6. CASE r \in MonitorRuns /\ StartMonitor(r)
  BY <1>5, <1>6 DEF StartMonitor
<1>7. CASE StartStuckCheck(r)
  BY <1>4, <1>5, <1>7 DEF StartStuckCheck
<1>8. ASSUME NEW t \in TransactionIds, NEW h \in Hashes, GotReceipt(r, t, h)
      PROVE  DataTypeOK' /\ TransactionTypeOK' /\ TransactionReferences'
  <2> DEFINE new == [check[r] EXCEPT
                !.pc = "settle", !.tx = t, !.hash = h,
                !.ok = (sent[h].state = "success"), !.list = @ \ {<<t, h>>}]
  <2>1. t \in Nat /\ h \in Nat
    BY LenProperties DEF Hashes, TransactionTypeOK
  <2>2. new \in CheckState /\ new.pc = "settle"
    BY <1>1, <2>1 DEF CheckState
  <2>3. check' = [check EXCEPT ![r] = new]
    BY <1>8 DEF GotReceipt, TakeReceipt, TransactionTypeOK
  <2> HIDE DEF new
  <2> QED
    BY <1>2, <1>3, <1>4, <1>8, <2>2, <2>3 DEF GotReceipt, TakeReceipt
<1>9. ASSUME NEW t \in TransactionIds, NEW h \in Hashes, NoReceipt(r, t, h)
      PROVE  DataTypeOK' /\ TransactionTypeOK' /\ TransactionReferences'
  <2> DEFINE new == [check[r] EXCEPT !.list = @ \ {<<t, h>>}]
  <2>1. new \in CheckState /\ new.pc = "next"
    BY <1>1, <1>9 DEF CheckState, NoReceipt
  <2>2. check' = [check EXCEPT ![r] = new]
    BY <1>9 DEF NoReceipt
  <2> HIDE DEF new
  <2> QED
    BY <1>2, <1>3, <1>4, <1>9, <2>1, <2>2 DEF NoReceipt
<1>10. CASE FinishCheck(r) \/ FailCheck(r)
  <2>1. IdleCheck.pc = "idle"
    BY DEF IdleCheck
  <2>2. monitorRunning' \in BOOLEAN
    BY <1>10 DEF FinishCheck, FailCheck, EndCheck, TransactionTypeOK
  <2> QED
    BY <1>2, <1>3, <1>4, <1>10, <2>1, <2>2, IdleTypes DEF FinishCheck, FailCheck, EndCheck
<1>11. CASE SettleTransaction(r)
  <2> DEFINE new == [check[r] EXCEPT !.pc = IF check[r].ok THEN "mark" ELSE "next"]
  <2>1. new \in CheckState /\ new.pc \in {"mark", "next"}
    BY <1>1 DEF CheckState
  <2>2. check' = [check EXCEPT ![r] = new]
    BY <1>11 DEF SettleTransaction
  <2>3. transactions' \in Seq(Transaction) /\ TransactionIds' = TransactionIds
    BY <1>11, SetStatusTypes DEF SettleTransaction, Statuses
  <2>4. balance_payments' \in Seq(BalancePayment) /\ PaymentIds' = PaymentIds
    BY <1>11 DEF SettleTransaction, DataTypeOK, PaymentIds
  <2> HIDE DEF new
  <2> QED
    BY <1>2, <1>4, <1>11, <2>1, <2>2, <2>3, <2>4 DEF SettleTransaction
<1>12. CASE FindBatchPayments(r)
  <2> DEFINE found == {i \in PaymentIds :
                        /\ balance_payments[i].uuid = transactions[check[r].tx].uuid
                        /\ ~balance_payments[i].confirmed}
             new == [check[r] EXCEPT !.todo = found,
                                     !.pc = IF found = {} THEN "next" ELSE "confirm"]
  <2>1. found \subseteq PaymentIds
    OBVIOUS
  <2>2. check' = [check EXCEPT ![r] = new]
    BY <1>12 DEF FindBatchPayments, TransactionTypeOK
  <2>3. new \in CheckState /\ (new.pc = "confirm" => new.todo # {})
        /\ new.pc # "credit" /\ new.todo = found
    <3> HIDE DEF found
    <3> QED
      BY <1>1, <2>1 DEF CheckState
  <2> HIDE DEF new, found
  <2> QED
    BY <1>2, <1>3, <1>4, <1>12, <2>1, <2>2, <2>3 DEF FindBatchPayments
<1>13. CASE ConfirmPayment(r)
  <2> DEFINE i == First(check[r].todo)
             payment == [balance_payments[i] EXCEPT !.confirmed = TRUE,
                                                    !.txHash = check[r].hash]
             new == [check[r] EXCEPT !.pc = "credit"]
  <2>1. check' = [check EXCEPT ![r] = new]
    BY <1>13 DEF ConfirmPayment
  <2>2. /\ new \in CheckState /\ new.todo = check[r].todo
        /\ check[r].todo # {} /\ check[r].todo \subseteq PaymentIds
    BY <1>1, <1>13 DEF CheckState, ConfirmPayment, TransactionReferences
  <2>3. balance_payments' = [balance_payments EXCEPT ![i] = payment]
    BY <1>13 DEF ConfirmPayment, DataTypeOK
  <2>4. i \in PaymentIds => payment \in BalancePayment
    BY <1>1 DEF BalancePayment, CheckState
  <2>5. balance_payments' \in Seq(BalancePayment) /\ PaymentIds' = PaymentIds
    <3> HIDE DEF payment, i
    <3> QED
      BY <2>3, <2>4, SeqExcept DEF DataTypeOK, PaymentIds
  <2>6. transactions' \in Seq(Transaction) /\ TransactionIds' = TransactionIds
    BY <1>13 DEF ConfirmPayment, DataTypeOK, TransactionIds
  <2> HIDE DEF new
  <2> QED
    BY <1>2, <1>4, <1>13, <2>1, <2>2, <2>5, <2>6 DEF ConfirmPayment
<1>14. CASE CreditMiner(r)
  <2> DEFINE i == First(check[r].todo)
             rest == check[r].todo \ {i}
             new == [check[r] EXCEPT !.todo = rest,
                                     !.pc = IF rest = {} THEN "next" ELSE "confirm"]
  <2>1. check[r].todo # {} /\ check[r].todo \subseteq PaymentIds
    BY <1>14 DEF CreditMiner, TransactionReferences
  <2>2. i \in PaymentIds
    BY <1>1, <2>1, FirstInSet DEF CheckState
  <2>3. tokensReceived' \in [Miners -> Int]
    <3>1. balance_payments[i].miner \in Miners /\ amountToPay(i) \in Int
      BY <2>2 DEF amountToPay, BalancePayment
    <3> QED
      BY <1>14, <3>1 DEF CreditMiner, TransactionTypeOK
  <2>4. check' = [check EXCEPT ![r] = new]
    BY <1>14 DEF CreditMiner, TransactionTypeOK
  <2>5. new \in CheckState /\ (new.pc = "confirm" => new.todo # {})
        /\ new.pc # "credit" /\ new.todo = rest
    <3>1. rest \in SUBSET Nat
      BY <1>1 DEF CheckState
    <3> HIDE DEF rest
    <3> QED
      BY <1>1, <3>1 DEF CheckState
  <2>6. rest \subseteq PaymentIds
    BY <2>1
  <2> HIDE DEF new, rest, i
  <2> QED
    BY <1>2, <1>3, <1>4, <1>14, <2>3, <2>4, <2>5, <2>6 DEF CreditMiner
<1> QED
  BY <1>6, <1>7, <1>8, <1>9, <1>10, <1>11, <1>12, <1>13, <1>14 DEF CheckStep

(* The calls that mark and requeue transactions, and the tool, keep the types. *)
LEMMA TaskTypes ==
    ASSUME TypeInvariant, TaskStep \/ \E r \in ToolRuns : FailTool(r)
    PROVE  DataTypeOK' /\ TransactionTypeOK' /\ TransactionReferences'
<1> USE DocumentTypes DEF TypeInvariant, TypeOK
\* The documents and the lists of the tool are all that matters.
<1>1. ASSUME UNCHANGED <<tokensReceived, chainVars, broadcast, checkVars>>,
             UNCHANGED <<balance_payments, block>>,
             transactions' \in Seq(Transaction), TransactionIds \subseteq TransactionIds',
             stale' \in [StaleRuns -> SUBSET Nat],
             requeue' \in [RequeueRuns -> RequeueState],
             tool' \in [ToolRuns -> ToolState],
             \A r \in ToolRuns : tool'[r].list \subseteq TransactionIds'
      PROVE  DataTypeOK' /\ TransactionTypeOK' /\ TransactionReferences'
  <2>1. DataTypeOK' /\ PaymentIds' = PaymentIds
    BY <1>1 DEF DataTypeOK, PaymentIds
  <2>2. TransactionTypeOK'
    BY <1>1 DEF chainVars, checkVars, TransactionTypeOK
  <2>3. TransactionReferences'
    BY <1>1, <2>1 DEF checkVars, TransactionReferences
  <2> QED
    BY <2>1, <2>2, <2>3
<1>2. /\ transactions \in Seq(Transaction)
      /\ stale \in [StaleRuns -> SUBSET Nat]
      /\ requeue \in [RequeueRuns -> RequeueState]
      /\ tool \in [ToolRuns -> ToolState]
      /\ \A r \in ToolRuns : tool[r].list \subseteq TransactionIds
  BY DEF DataTypeOK, TransactionTypeOK, TransactionReferences
<1>3. ASSUME NEW r \in StaleRuns, StartStale(r)
      PROVE  DataTypeOK' /\ TransactionTypeOK' /\ TransactionReferences'
  <2>1. stale' \in [StaleRuns -> SUBSET Nat]
    BY <1>2, <1>3 DEF StartStale, WithStatus
  <2>2. UNCHANGED transactions /\ TransactionIds' = TransactionIds
    BY <1>3 DEF StartStale, dataVars, TransactionIds
  <2> QED
    BY <1>1, <1>2, <1>3, <2>1, <2>2 DEF StartStale, dataVars
<1>4. ASSUME NEW r \in StaleRuns, MarkStale(r)
      PROVE  DataTypeOK' /\ TransactionTypeOK' /\ TransactionReferences'
  <2>1. stale' \in [StaleRuns -> SUBSET Nat]
    BY <1>2, <1>4 DEF MarkStale
  <2>2. transactions' \in Seq(Transaction) /\ TransactionIds' = TransactionIds
    BY <1>4, SetStatusTypes DEF MarkStale, Statuses
  <2> QED
    BY <1>1, <1>2, <1>4, <2>1, <2>2 DEF MarkStale
<1>5. ASSUME NEW r \in RequeueRuns, StartRequeue(r)
      PROVE  DataTypeOK' /\ TransactionTypeOK' /\ TransactionReferences'
  <2>1. requeue' \in [RequeueRuns -> RequeueState]
    BY <1>2, <1>5 DEF StartRequeue, WithStatus, RequeueState, DataTypeOK
  <2>2. UNCHANGED transactions /\ TransactionIds' = TransactionIds
    BY <1>5 DEF StartRequeue, dataVars, TransactionIds
  <2> QED
    BY <1>1, <1>2, <1>5, <2>1, <2>2 DEF StartRequeue, dataVars
<1>6. ASSUME NEW r \in RequeueRuns, RequeueSkipped(r)
      PROVE  DataTypeOK' /\ TransactionTypeOK' /\ TransactionReferences'
  <2> DEFINE t == First(requeue[r].list)
             new == IF transactions[t].status = "deleted" THEN transactions[t]
                    ELSE [transactions[t] EXCEPT !.status = "queued",
                                                 !.block = requeue[r].block]
  <2>1. requeue' \in [RequeueRuns -> RequeueState]
    BY <1>2, <1>6 DEF RequeueSkipped, RequeueState
  <2>2. transactions' = [transactions EXCEPT ![t] = new]
    BY <1>6 DEF RequeueSkipped
  <2>3. t \in TransactionIds => new \in Transaction
    BY <1>2 DEF Transaction, RequeueState, Statuses
  <2>4. transactions' \in Seq(Transaction) /\ TransactionIds' = TransactionIds
    <3> HIDE DEF new, t
    <3> QED
      BY <2>2, <2>3, SeqExcept DEF DataTypeOK, TransactionIds
  <2> HIDE DEF new, t
  <2> QED
    BY <1>1, <1>2, <1>6, <2>1, <2>4 DEF RequeueSkipped
<1>7. ASSUME NEW r \in ToolRuns, StartTool(r)
      PROVE  DataTypeOK' /\ TransactionTypeOK' /\ TransactionReferences'
  <2>1. UNCHANGED transactions /\ TransactionIds' = TransactionIds
    BY <1>7 DEF StartTool, dataVars, TransactionIds
  <2>2. WithStatus("reverted") \subseteq TransactionIds
    BY DEF WithStatus
  <2>3. tool' \in [ToolRuns -> ToolState]
    BY <1>2, <1>7, <2>2 DEF StartTool, ToolState
  <2>4. \A s \in ToolRuns : tool'[s].list \subseteq TransactionIds'
    BY <1>2, <1>7, <2>1, <2>2 DEF StartTool
  <2> QED
    BY <1>1, <1>2, <1>7, <2>1, <2>3, <2>4 DEF StartTool, dataVars
<1>8. ASSUME NEW r \in ToolRuns, QueueReverted(r)
      PROVE  DataTypeOK' /\ TransactionTypeOK' /\ TransactionReferences'
  <2> DEFINE t == transactions[First(tool[r].list)]
             new == QueuedTransaction(t.uuid, t.payments)
  <2>1. First(tool[r].list) \in TransactionIds
    BY <1>2, <1>8, FirstInSet DEF QueueReverted, ToolState
  <2>2. new \in Transaction
    BY <2>1 DEF QueuedTransaction, Transaction, Statuses, NoHash, DataTypeOK
  <2>3. transactions' = Append(transactions, new)
    BY <1>8 DEF QueueReverted
  <2>4. transactions' \in Seq(Transaction) /\ TransactionIds \subseteq TransactionIds'
    <3> HIDE DEF new
    <3> QED
      BY <2>2, <2>3, SeqAppend DEF DataTypeOK, TransactionIds
  <2>5. tool' = [tool EXCEPT ![r].pc = "delete"]
    BY <1>8 DEF QueueReverted
  <2>6. tool' \in [ToolRuns -> ToolState]
    BY <1>2, <2>5 DEF ToolState
  <2>7. \A s \in ToolRuns : tool'[s].list = tool[s].list
    BY <1>2, <2>5 DEF ToolState
  <2> HIDE DEF new
  <2> QED
    BY <1>1, <1>2, <1>8, <2>4, <2>6, <2>7 DEF QueueReverted
<1>9. ASSUME NEW r \in ToolRuns, DeleteReverted(r)
      PROVE  DataTypeOK' /\ TransactionTypeOK' /\ TransactionReferences'
  <2>1. tool' = [tool EXCEPT ![r].pc = "insert",
                             ![r].list = @ \ {First(tool[r].list)}]
    BY <1>9 DEF DeleteReverted
  <2>2. tool' \in [ToolRuns -> ToolState]
    BY <1>2, <2>1 DEF ToolState
  <2>3. \A s \in ToolRuns : tool'[s].list \subseteq tool[s].list
    BY <1>2, <2>1 DEF ToolState
  <2>4. transactions' \in Seq(Transaction) /\ TransactionIds' = TransactionIds
    BY <1>9, SetStatusTypes DEF DeleteReverted, Statuses
  <2> QED
    BY <1>1, <1>2, <1>9, <2>2, <2>3, <2>4 DEF DeleteReverted
<1>10. ASSUME NEW r \in ToolRuns, FailTool(r)
      PROVE  DataTypeOK' /\ TransactionTypeOK' /\ TransactionReferences'
  <2>1. UNCHANGED transactions /\ TransactionIds' = TransactionIds
    BY <1>10 DEF FailTool, dataVars, TransactionIds
  <2>2. tool' = [tool EXCEPT ![r] = IdleTool] /\ IdleTool.list = {}
    BY <1>10 DEF FailTool, IdleTool
  <2> QED
    BY <1>1, <1>2, <1>10, <2>1, <2>2, IdleTypes DEF FailTool, dataVars
<1> QED
  BY <1>3, <1>4, <1>5, <1>6, <1>7, <1>8, <1>9, <1>10 DEF TaskStep

(* The death of the token collector keeps the types. *)
LEMMA CrashTypes ==
    ASSUME TypeInvariant, BalanceCrash, TransactionCrash, UNCHANGED dataVars
    PROVE  /\ DataTypeOK' /\ BalanceTypeOK' /\ BalanceReferences'
           /\ TransactionTypeOK' /\ TransactionReferences'
<1> USE DEF TypeInvariant, TypeOK
<1>1. DataTypeOK' /\ TransactionIds' = TransactionIds
  BY DEF DataTypeOK, dataVars, TransactionIds
<1>2. BalanceTypeOK' /\ BalanceReferences'
  BY IdleTypes DEF BalanceCrash, BalanceTypeOK, BalanceReferences, minerVars,
         IdleBuild, IdleBatch
<1>3. TransactionTypeOK'
  BY IdleTypes DEF TransactionCrash, TransactionTypeOK, chainVars
<1>4. TransactionReferences'
  BY <1>1 DEF TransactionCrash, TransactionReferences, IdleBroadcast, IdleCheck
<1> QED
  BY <1>1, <1>2, <1>3, <1>4

----------------------------------------------------------------------------

(* Every step keeps the types. *)
LEMMA NextTypes ==
    ASSUME TypeInvariant, [Next]_vars
    PROVE  TypeInvariant'
<1> USE DEF TypeInvariant, TypeOK
<1>1. CASE UNCHANGED vars
  BY <1>1 DEF vars, dataVars, balanceVars, transactionVars, DataTypeOK, BalanceTypeOK,
         TransactionTypeOK, BalanceReferences, TransactionReferences, PaymentIds,
         TransactionIds
<1>2. ASSUME /\ DataTypeOK' /\ BalanceTypeOK' /\ BalanceReferences'
             /\ PaymentIds \subseteq PaymentIds' /\ TransactionIds \subseteq TransactionIds',
             UNCHANGED transactionVars, faults' \in Nat
      PROVE  TypeInvariant'
  BY <1>2, TransactionSideKept
<1>3. ASSUME DataTypeOK' /\ TransactionTypeOK' /\ TransactionReferences',
             UNCHANGED balanceVars, faults' \in Nat
      PROVE  TypeInvariant'
  BY <1>3, BalanceSideKept
<1>4. CASE BalanceSide(BalanceEnvironment)
  BY <1>2, <1>4, BuildTypes DEF BalanceSide
<1>5. ASSUME NEW r \in BuildRuns, BalanceSide(BuildStep(r))
      PROVE  TypeInvariant'
  BY <1>2, <1>5, BuildTypes DEF BalanceSide
<1>6. ASSUME NEW r \in BatchRuns, BalanceSide(BatchStep(r))
      PROVE  TypeInvariant'
  BY <1>2, <1>6, BatchTypes DEF BalanceSide
<1>7. ASSUME NEW r \in BroadcastRuns, TransactionSide(BroadcastStep(r))
      PROVE  TypeInvariant'
  BY <1>3, <1>7, BroadcastTypes DEF TransactionSide
<1>8. ASSUME NEW r \in MonitorRuns, TransactionSide(StartMonitor(r))
      PROVE  TypeInvariant'
  BY <1>3, <1>8, CheckTypes DEF TransactionSide, CheckRuns
<1>9. ASSUME NEW r \in StuckRuns, TransactionSide(StartStuckCheck(r))
      PROVE  TypeInvariant'
  BY <1>3, <1>9, CheckTypes DEF TransactionSide, CheckRuns
<1>10. ASSUME NEW r \in CheckRuns, TransactionSide(CheckStep(r))
      PROVE  TypeInvariant'
  BY <1>3, <1>10, CheckTypes DEF TransactionSide
<1>11. CASE TransactionSide(TaskStep)
  BY <1>3, <1>11, TaskTypes DEF TransactionSide
<1>12. CASE TransactionSide(ChainStep)
  BY <1>3, <1>12, ChainTypes DEF TransactionSide, ChainStep
<1>13. CASE NewBlock /\ UNCHANGED <<balanceVars, transactionVars, faults>>
  <2>1. /\ DataTypeOK' /\ PaymentIds' = PaymentIds /\ TransactionIds' = TransactionIds
    BY <1>13 DEF NewBlock, DataTypeOK, PaymentIds, TransactionIds
  <2> QED
    BY <1>13, <2>1, BalanceSideKept, TransactionSideKept
<1>14. CASE Fault
  <2>1. faults' \in Nat
    BY <1>14 DEF Fault
  <2>2. CASE BalanceFault /\ UNCHANGED transactionVars
    BY <1>2, <2>1, <2>2, BuildTypes, BatchTypes DEF BalanceFault
  <2>3. CASE TransactionFault /\ UNCHANGED balanceVars
    BY <1>3, <2>1, <2>3, BroadcastTypes, CheckTypes, TaskTypes DEF TransactionFault
  <2>4. CASE BalanceCrash /\ TransactionCrash /\ UNCHANGED dataVars
    BY <2>1, <2>4, CrashTypes
  <2> QED
    BY <1>14, <2>2, <2>3, <2>4 DEF Fault
<1> QED
  BY <1>1, <1>4, <1>5, <1>6, <1>7, <1>8, <1>9, <1>10, <1>11, <1>12, <1>13, <1>14 DEF Next

(* The types and references, together, are an invariant of the pipeline. *)
THEOREM TypeInvariance == Spec => []TypeInvariant
<1>1. Init => TypeInvariant
  BY InitTypes
<1>2. TypeInvariant /\ [Next]_vars => TypeInvariant'
  BY NextTypes
<1> QED
  BY <1>1, <1>2, PTL DEF Spec

(***************************************************************************)
(* Every document, every call and every transaction of the pipeline stays  *)
(* well-typed: no step reads a field of a document or a local variable     *)
(* that was never set.                                                     *)
(***************************************************************************)
THEOREM TypeCorrect == Spec => []TypeOK
<1>1. TypeInvariant => TypeOK
  BY DEF TypeInvariant
<1> QED
  BY <1>1, TypeInvariance, PTL

----------------------------------------------------------------------------
(* The books: what the calls of buildBalancePayments know and write. *)

\* No payment changes its miner or its amount, and none comes or goes.
AmountsKept ==
    /\ PaymentIds' = PaymentIds
    /\ \A i \in PaymentIds :
        /\ balance_payments'[i].miner = balance_payments[i].miner
        /\ balance_payments'[i].from = balance_payments[i].from
        /\ balance_payments'[i].upto = balance_payments[i].upto

(* Putting payments in a batch leaves their amounts alone. *)
LEMMA BatchKeepsAmounts ==
    ASSUME TypeInvariant, NEW r \in BatchRuns, BatchStep(r) \/ FailBatch(r)
    PROVE  AmountsKept
<1>1. CASE StampPayment(r)
  <2>1. PICK i : balance_payments' = [balance_payments EXCEPT ![i].uuid = batch[r].uuid]
    BY <1>1 DEF StampPayment
  <2> DEFINE new == [balance_payments[i] EXCEPT !.uuid = batch[r].uuid]
  <2>2. /\ PaymentIds' = PaymentIds
        /\ \A j \in PaymentIds :
            balance_payments'[j] = IF j = i THEN new ELSE balance_payments[j]
    BY <2>1, LenProperties DEF TypeInvariant, TypeOK, DataTypeOK, PaymentIds
  <2>3. \A j \in PaymentIds : balance_payments[j] \in BalancePayment
    BY DocumentTypes DEF TypeInvariant, TypeOK
  <2> QED
    BY <2>2, <2>3 DEF AmountsKept, BalancePayment
<1>2. CASE UNCHANGED balance_payments
  BY <1>2 DEF AmountsKept, PaymentIds
<1> QED
  BY <1>1, <1>2 DEF BatchStep, StartBatch, BeginBatch, QueueBatch, QueuePayments,
         FailBatch, dataVars

(* Confirming payments leaves their amounts alone. *)
LEMMA CheckKeepsAmounts ==
    ASSUME TypeInvariant, NEW r \in CheckRuns, CheckStep(r) \/ FailCheck(r)
    PROVE  AmountsKept
<1>1. CASE ConfirmPayment(r)
  <2> DEFINE i == First(check[r].todo)
             new == [balance_payments[i] EXCEPT !.confirmed = TRUE,
                                                !.txHash = check[r].hash]
  <2>1. balance_payments' = [balance_payments EXCEPT ![i] = new]
    BY <1>1 DEF ConfirmPayment, TypeInvariant, TypeOK, DataTypeOK
  <2>2. /\ PaymentIds' = PaymentIds
        /\ \A j \in PaymentIds :
            balance_payments'[j] = IF j = i THEN new ELSE balance_payments[j]
    BY <2>1, LenProperties DEF TypeInvariant, TypeOK, DataTypeOK, PaymentIds
  <2>3. \A j \in PaymentIds : balance_payments[j] \in BalancePayment
    BY DocumentTypes DEF TypeInvariant, TypeOK
  <2> QED
    BY <2>2, <2>3 DEF AmountsKept, BalancePayment
<1>2. CASE UNCHANGED balance_payments
  BY <1>2 DEF AmountsKept, PaymentIds
<1> QED
  BY <1>1, <1>2 DEF CheckStep, GotReceipt, TakeReceipt, NoReceipt, FinishCheck,
         SettleTransaction, FindBatchPayments, CreditMiner, FailCheck, dataVars

(* So does everything else but buildBalancePayments. *)
LEMMA OthersKeepAmounts ==
    ASSUME \/ \E r \in BroadcastRuns : BroadcastStep(r) \/ FailBroadcast(r)
           \/ \E r \in MonitorRuns : StartMonitor(r)
           \/ \E r \in StuckRuns : StartStuckCheck(r)
           \/ TaskStep
           \/ \E r \in ToolRuns : FailTool(r)
           \/ ChainStep
           \/ NewBlock
    PROVE  AmountsKept
<1>1. UNCHANGED balance_payments
  <2>1. (\E r \in BroadcastRuns : BroadcastStep(r) \/ FailBroadcast(r))
        => UNCHANGED balance_payments
    BY DEF BroadcastStep, CheckPending, FindQueued, EstimateMultisend, AcceptMultisend,
           RejectMultisend, RecordPending, RecordSkipped, FailBroadcast, dataVars
  <2>2. TaskStep \/ (\E r \in ToolRuns : FailTool(r)) => UNCHANGED balance_payments
    BY DEF TaskStep, StartStale, MarkStale, StartRequeue, RequeueSkipped, StartTool,
           QueueReverted, DeleteReverted, FailTool, dataVars
  <2>3. \/ \E r \in MonitorRuns : StartMonitor(r)
        \/ \E r \in StuckRuns : StartStuckCheck(r)
        \/ ChainStep
        \/ NewBlock
        => UNCHANGED balance_payments
    BY DEF StartMonitor, StartStuckCheck, BeginCheck, ChainStep, Mine, MineWith, Evict,
           NewBlock, dataVars
  <2> QED
    BY <2>1, <2>2, <2>3
<1> QED
  BY <1>1 DEF AmountsKept, PaymentIds

----------------------------------------------------------------------------

(* A step that only moves payments along keeps the books. *)
LEMMA AmountsKeptKeepsBooks ==
    ASSUME TypeInvariant, Books, AmountsKept,
           UNCHANGED <<alltimeTokenBalance, tokensAwarded, buildRunning, build>>
    PROVE  Books'
<1>1. OneBuild'
  BY DEF Books, OneBuild
<1>2. BuildSnapshot'
  BY DEF Books, BuildSnapshot, AmountsKept
<1>3. NeverOverpaid'
  BY DEF Books, NeverOverpaid, AmountsKept
<1> QED
  BY <1>1, <1>2, <1>3 DEF Books

(* A call that is over, or dead, knows nothing that could be wrong. *)
LEMMA EndOfBuildKeepsBooks ==
    ASSUME TypeInvariant, Books,
           UNCHANGED <<alltimeTokenBalance, tokensAwarded, balance_payments>>,
           buildRunning' = FALSE,
           \A s \in BuildRuns : build'[s].pc = "idle"
    PROVE  Books'
BY DEF Books, OneBuild, BuildSnapshot, NeverOverpaid, PaymentIds

(* What a call reads when it starts is what there is. *)
LEMMA StartBuildKeepsBooks ==
    ASSUME TypeInvariant, Books, NEW r \in BuildRuns, StartBuild(r)
    PROVE  Books'
<1> USE DEF TypeInvariant, TypeOK
<1> DEFINE new == [pc |-> "pay", todo |-> Miners, miner |-> None,
                   alltime |-> alltimeTokenBalance, awarded |-> tokensAwarded,
                   fullDay |-> fullPayoutDue]
<1>1. build' = [build EXCEPT ![r] = new] /\ buildRunning' = TRUE
  BY DEF StartBuild, BeginBuild
<1>2. UNCHANGED <<alltimeTokenBalance, tokensAwarded, balance_payments>>
  BY DEF StartBuild, BeginBuild, minerVars, dataVars
<1>3. \A s \in BuildRuns : build[s].pc = "idle"
  BY DEF StartBuild, Books, OneBuild
<1>4. \A s \in BuildRuns : s # r => build'[s].pc = "idle"
  BY <1>1, <1>3 DEF BalanceTypeOK
<1>5. build'[r] = new
  BY <1>1 DEF BalanceTypeOK
<1>6. OneBuild'
  BY <1>1, <1>4 DEF OneBuild
<1>7. BuildSnapshot'
  BY <1>2, <1>4, <1>5 DEF BuildSnapshot, BalanceTypeOK
<1>8. NeverOverpaid'
  BY <1>2 DEF Books, NeverOverpaid, PaymentIds
<1> QED
  BY <1>6, <1>7, <1>8 DEF Books

(* Counting as awarded what the snapshot says is owed: what the miner has    *)
(* earned since then stays owed.                                             *)
LEMMA SetTokensAwardedKeepsBooks ==
    ASSUME TypeInvariant, Books, NEW r \in BuildRuns, NEW m \in Miners,
           SetTokensAwarded(r, m)
    PROVE  Books'
<1> USE DEF TypeInvariant, TypeOK
<1>1. /\ build[r].pc = "pay" /\ m \in build[r].todo /\ ShouldPayout(r, m)
      /\ tokensAwarded' = [tokensAwarded EXCEPT ![m] = build[r].awarded[m] + Owed(r, m)]
      /\ build' = [build EXCEPT ![r].pc = "insert", ![r].miner = m, ![r].todo = @ \ {m}]
      /\ UNCHANGED <<alltimeTokenBalance, buildRunning, balance_payments>>
  BY DEF SetTokensAwarded, WriteAwarded, dataVars
<1>2. build[r] \in BuildState
  BY DEF BalanceTypeOK
<1>3. build[r].alltime[m] \in Nat /\ build[r].awarded[m] \in Nat
  BY <1>2 DEF BuildState
<1>4. EffectiveThreshold(m) \in Nat /\ SweepMinimum \in Nat
  BY BalanceAssumption DEF EffectiveThreshold
<1>5. Owed(r, m) > 0
  BY <1>1, <1>3, <1>4 DEF ShouldPayout, Owed
<1>6. build[r].awarded[m] < build[r].alltime[m]
      /\ build[r].awarded[m] + Owed(r, m) = build[r].alltime[m]
  BY <1>3, <1>5 DEF Owed
<1>7. build[r].awarded[m] = tokensAwarded[m] /\ build[r].alltime[m] <= alltimeTokenBalance[m]
  BY <1>1 DEF Books, BuildSnapshot
<1>8. tokensAwarded' = [tokensAwarded EXCEPT ![m] = build[r].alltime[m]]
  BY <1>1, <1>6
<1>9. /\ build'[r].pc = "insert" /\ build'[r].miner = m
      /\ build'[r].todo = build[r].todo \ {m}
      /\ build'[r].alltime = build[r].alltime /\ build'[r].awarded = build[r].awarded
      /\ \A s \in BuildRuns : s # r => build'[s] = build[s]
  BY <1>1, <1>2 DEF BalanceTypeOK, BuildState
<1>10. \A s \in BuildRuns : s # r => build[s].pc = "idle"
  BY <1>1 DEF Books, OneBuild
<1>11. OneBuild'
  <2>1. buildRunning
    BY <1>1 DEF Books, OneBuild
  <2>2. \A s \in BuildRuns : s # r => build'[s].pc = "idle"
    BY <1>9, <1>10
  <2> QED
    BY <1>1, <2>1, <2>2 DEF OneBuild
<1>12. \A i \in PaymentIds : balance_payments[i].miner = m =>
            balance_payments[i].upto <= build[r].awarded[m]
  BY <1>7 DEF Books, NeverOverpaid
<1>13. BuildSnapshot'
  <2>1. build'[r].todo \subseteq build[r].todo /\ m \notin build'[r].todo
    BY <1>9
  <2>2. \A k \in Miners : /\ build[r].alltime[k] <= alltimeTokenBalance[k]
                          /\ k \in build[r].todo => build[r].awarded[k] = tokensAwarded[k]
    BY <1>1 DEF Books, BuildSnapshot
  <2>3. \A k \in Miners : k # m => tokensAwarded'[k] = tokensAwarded[k]
    BY <1>8 DEF BalanceTypeOK
  <2>4. tokensAwarded'[m] = build[r].alltime[m]
    BY <1>8 DEF BalanceTypeOK
  <2>5. ASSUME NEW k \in Miners
        PROVE  /\ build'[r].alltime[k] <= alltimeTokenBalance'[k]
               /\ k \in build'[r].todo => build'[r].awarded[k] = tokensAwarded'[k]
    BY <1>1, <1>9, <2>1, <2>2, <2>3
  <2>6. /\ m \notin build'[r].todo
        /\ build'[r].awarded[m] < build'[r].alltime[m]
        /\ tokensAwarded'[m] = build'[r].alltime[m]
        /\ \A i \in PaymentIds' : balance_payments'[i].miner = m =>
            balance_payments'[i].upto <= build'[r].awarded[m]
    BY <1>1, <1>6, <1>9, <1>12, <2>1, <2>4 DEF PaymentIds
  <2>7. \A s \in BuildRuns : s # r => build'[s].pc = "idle"
    BY <1>9, <1>10
  <2> QED
    BY <1>9, <2>5, <2>6, <2>7 DEF BuildSnapshot
<1>14. NeverOverpaid'
  <2>1. \A k \in Miners : tokensAwarded'[k] = IF k = m THEN build[r].alltime[m]
                                                     ELSE tokensAwarded[k]
    BY <1>8 DEF BalanceTypeOK
  <2>2. \A k \in Miners : tokensAwarded[k] <= tokensAwarded'[k]
                          /\ tokensAwarded'[k] <= alltimeTokenBalance[k]
    <3>1. \A k \in Miners : tokensAwarded[k] <= alltimeTokenBalance[k]
      BY DEF Books, NeverOverpaid
    <3>2. \A k \in Miners : tokensAwarded[k] \in Nat
      BY DEF BalanceTypeOK
    <3> QED
      BY <1>3, <1>6, <1>7, <2>1, <3>1, <3>2
  <2>3. \A i \in PaymentIds :
            /\ balance_payments[i].miner \in Miners
            /\ balance_payments[i].upto \in Nat
            /\ balance_payments[i].upto <= tokensAwarded[balance_payments[i].miner]
    BY DocumentTypes DEF Books, NeverOverpaid, BalancePayment
  <2>4. \A i \in PaymentIds :
            balance_payments[i].upto <= tokensAwarded'[balance_payments[i].miner]
    <3>1. \A k \in Miners : tokensAwarded[k] \in Nat /\ tokensAwarded'[k] \in Nat
      BY <1>3, <2>1 DEF BalanceTypeOK
    <3> QED
      BY <2>2, <2>3, <3>1
  <2> QED
    BY <1>1, <2>2, <2>4 DEF Books, NeverOverpaid, PaymentIds
<1> QED
  BY <1>11, <1>13, <1>14 DEF Books

(* The payment that is inserted comes after all the payments of its miner.   *)
LEMMA InsertKeepsBooks ==
    ASSUME TypeInvariant, Books, NEW r \in BuildRuns, InsertBalancePayment(r)
    PROVE  Books'
<1> USE DEF TypeInvariant, TypeOK
<1> DEFINE m == build[r].miner
           new == [miner |-> m, from |-> build[r].awarded[m],
                   upto |-> build[r].awarded[m] + Owed(r, m), uuid |-> None,
                   confirmed |-> FALSE, txHash |-> NoHash]
<1>1. /\ build[r].pc = "insert"
      /\ balance_payments' = Append(balance_payments, new)
      /\ build' = [build EXCEPT ![r].pc = "pay", ![r].miner = None]
      /\ UNCHANGED <<alltimeTokenBalance, tokensAwarded, buildRunning>>
  BY DEF InsertBalancePayment, minerVars
<1>2. m \in Miners
  BY <1>1 DEF BalanceReferences
<1>3. build[r].awarded[m] \in Nat /\ build[r].alltime[m] \in Nat
  BY <1>2 DEF BalanceTypeOK, BuildState
<1>4. /\ build[r].awarded[m] < build[r].alltime[m]
      /\ tokensAwarded[m] = build[r].alltime[m]
      /\ m \notin build[r].todo
      /\ \A i \in PaymentIds : balance_payments[i].miner = m =>
            balance_payments[i].upto <= build[r].awarded[m]
  BY <1>1 DEF Books, BuildSnapshot
<1>5. build[r].awarded[m] + Owed(r, m) = build[r].alltime[m]
  BY <1>3, <1>4 DEF Owed
<1>6. new \in BalancePayment
  BY <1>2, <1>3, <1>5 DEF BalancePayment, NoHash
<1>7. /\ new.miner = m /\ new.from = build[r].awarded[m]
      /\ new.upto = build[r].alltime[m]
  BY <1>5
<1> HIDE DEF new
<1> DEFINE n == Len(balance_payments) + 1
<1>8. /\ PaymentIds' = PaymentIds \cup {n}
      /\ \A i \in PaymentIds : balance_payments'[i] = balance_payments[i] /\ i < n
      /\ balance_payments'[n] = new
  <2>1. \A i \in PaymentIds : i \in Nat /\ i < n
    BY LenProperties DEF DataTypeOK, PaymentIds
  <2> QED
    BY <1>1, <1>6, <2>1, SeqAppend DEF DataTypeOK, PaymentIds
<1>9. n \in Nat
  BY LenProperties DEF DataTypeOK
<1> HIDE DEF n
<1>10. /\ build'[r].pc = "pay" /\ build'[r].todo = build[r].todo
       /\ build'[r].alltime = build[r].alltime /\ build'[r].awarded = build[r].awarded
       /\ \A s \in BuildRuns : s # r => build'[s] = build[s] /\ build[s].pc = "idle"
  <2>1. \A s \in BuildRuns : s # r => build[s].pc = "idle"
    BY <1>1 DEF Books, OneBuild
  <2>2. build[r] \in BuildState
    BY DEF BalanceTypeOK
  <2> QED
    BY <1>1, <2>1, <2>2 DEF BalanceTypeOK, BuildState
<1>11. OneBuild'
  BY <1>1, <1>10 DEF Books, OneBuild
<1>12. BuildSnapshot'
  <2>1. \A k \in Miners : /\ build[r].alltime[k] <= alltimeTokenBalance[k]
                          /\ k \in build[r].todo => build[r].awarded[k] = tokensAwarded[k]
    BY <1>1 DEF Books, BuildSnapshot
  <2> QED
    BY <1>1, <1>10, <2>1 DEF BuildSnapshot
<1>13. NeverOverpaid'
  <2>1. \A i \in PaymentIds' :
            /\ balance_payments'[i].from < balance_payments'[i].upto
            /\ balance_payments'[i].upto <= tokensAwarded'[balance_payments'[i].miner]
    <3>1. ASSUME NEW i \in PaymentIds
          PROVE  /\ balance_payments'[i].from < balance_payments'[i].upto
                 /\ balance_payments'[i].upto <= tokensAwarded'[balance_payments'[i].miner]
      BY <1>1, <1>8 DEF Books, NeverOverpaid
    <3>2. /\ balance_payments'[n].from < balance_payments'[n].upto
          /\ balance_payments'[n].upto <= tokensAwarded'[balance_payments'[n].miner]
      BY <1>1, <1>3, <1>4, <1>7, <1>8
    <3> QED
      BY <1>8, <3>1, <3>2
  <2>2. \A i, j \in PaymentIds' :
            i < j /\ balance_payments'[i].miner = balance_payments'[j].miner
                => balance_payments'[i].upto <= balance_payments'[j].from
    <3>1. ASSUME NEW i \in PaymentIds, NEW j \in PaymentIds,
                 i < j, balance_payments'[i].miner = balance_payments'[j].miner
          PROVE  balance_payments'[i].upto <= balance_payments'[j].from
      BY <1>8, <3>1 DEF Books, NeverOverpaid
    <3>2. ASSUME NEW i \in PaymentIds, balance_payments'[i].miner = balance_payments'[n].miner
          PROVE  balance_payments'[i].upto <= balance_payments'[n].from
      BY <1>4, <1>7, <1>8, <3>2
    <3>3. \A j \in PaymentIds \cup {n} : ~(n < j)
      <4>1. \A j \in PaymentIds : j \in Nat
        BY DocumentTypes
      <4> QED
        BY <1>8, <1>9, <4>1
    <3> QED
      BY <1>8, <3>1, <3>2, <3>3
  <2>3. \A k \in Miners : tokensAwarded'[k] <= alltimeTokenBalance'[k]
    BY <1>1 DEF Books, NeverOverpaid
  <2> QED
    BY <2>1, <2>2, <2>3 DEF NeverOverpaid
<1> QED
  BY <1>11, <1>12, <1>13 DEF Books

(* A reward only makes the balance of its miner grow. *)
LEMMA AwardKeepsBooks ==
    ASSUME TypeInvariant, Books, NEW m \in Miners, AwardTokens(m)
    PROVE  Books'
<1> USE DEF TypeInvariant, TypeOK
<1>1. PICK k \in 1..MaxEarned :
        alltimeTokenBalance' = [alltimeTokenBalance EXCEPT ![m] = @ + k]
  BY DEF AwardTokens
<1>2. k \in Nat
  BY BalanceAssumption
<1>3. \A n \in Miners : /\ alltimeTokenBalance[n] \in Nat
                        /\ alltimeTokenBalance'[n] \in Nat
                        /\ alltimeTokenBalance[n] <= alltimeTokenBalance'[n]
  BY <1>1, <1>2 DEF BalanceTypeOK
<1>4. UNCHANGED <<tokensAwarded, buildRunning, build, balance_payments>>
  BY DEF AwardTokens, buildVars, dataVars
<1>5. OneBuild'
  BY <1>4 DEF Books, OneBuild
<1>6. BuildSnapshot'
  <2>1. ASSUME NEW s \in BuildRuns, build[s].pc # "idle", NEW n \in Miners
        PROVE  build[s].alltime[n] <= alltimeTokenBalance'[n]
    <3>1. build[s].alltime[n] <= alltimeTokenBalance[n]
      BY <2>1 DEF Books, BuildSnapshot
    <3>2. build[s].alltime[n] \in Nat
      BY DEF BalanceTypeOK, BuildState
    <3> QED
      BY <1>3, <3>1, <3>2
  <2> QED
    BY <1>4, <2>1 DEF Books, BuildSnapshot, PaymentIds
<1>7. NeverOverpaid'
  <2>1. ASSUME NEW n \in Miners
        PROVE  tokensAwarded[n] <= alltimeTokenBalance'[n]
    <3>1. tokensAwarded[n] <= alltimeTokenBalance[n]
      BY DEF Books, NeverOverpaid
    <3>2. tokensAwarded[n] \in Nat
      BY DEF BalanceTypeOK
    <3> QED
      BY <1>3, <3>1, <3>2
  <2> QED
    BY <1>4, <2>1 DEF Books, NeverOverpaid, PaymentIds
<1> QED
  BY <1>5, <1>6, <1>7 DEF Books

----------------------------------------------------------------------------

(* The pipeline starts with empty books. *)
LEMMA InitBooks == Init => Books
BY DEF Init, DataInit, BalanceInit, NoMiners, IdleBuild, Books, OneBuild, BuildSnapshot,
       NeverOverpaid, PaymentIds

(* Every step keeps the books. *)
LEMMA NextBooks ==
    ASSUME TypeInvariant, Books, [Next]_vars
    PROVE  Books'
<1>1. CASE UNCHANGED vars
  BY <1>1, AmountsKeptKeepsBooks DEF vars, dataVars, balanceVars, AmountsKept, PaymentIds
<1>2. CASE BalanceEnvironment
  <2>1. CASE DayPasses
    BY <2>1, AmountsKeptKeepsBooks DEF DayPasses, buildVars, dataVars, AmountsKept, PaymentIds
  <2> QED
    BY <1>2, <2>1, AwardKeepsBooks DEF BalanceEnvironment
<1>3. ASSUME NEW r \in BuildRuns, BuildStep(r) \/ FailBuild(r)
      PROVE  Books'
  <2>1. CASE FinishBuild(r) \/ FailBuild(r)
    <3>1. build' = [build EXCEPT ![r] = IdleBuild] /\ build[r].pc # "idle"
      BY <2>1 DEF FinishBuild, FailBuild
    <3>2. \A s \in BuildRuns : s # r => build[s].pc = "idle"
      BY <3>1 DEF Books, OneBuild
    <3>3. \A s \in BuildRuns : build'[s].pc = "idle"
      BY <3>1, <3>2 DEF IdleBuild, TypeInvariant, TypeOK, BalanceTypeOK
    <3> QED
      BY <2>1, <3>3, EndOfBuildKeepsBooks DEF FinishBuild, FailBuild, minerVars, dataVars
  <2> QED
    BY <1>3, <2>1, StartBuildKeepsBooks, SetTokensAwardedKeepsBooks, InsertKeepsBooks
       DEF BuildStep
<1>4. ASSUME NEW r \in BatchRuns, BatchStep(r) \/ FailBatch(r)
      PROVE  Books'
  <2>1. UNCHANGED <<alltimeTokenBalance, tokensAwarded, buildRunning, build>>
    BY <1>4 DEF BatchStep, StartBatch, BeginBatch, StampPayment, QueueBatch, QueuePayments,
           FailBatch, minerVars, buildVars
  <2> QED
    BY <1>4, <2>1, BatchKeepsAmounts, AmountsKeptKeepsBooks
<1>5. ASSUME AmountsKept, UNCHANGED balanceVars
      PROVE  Books'
  BY <1>5, AmountsKeptKeepsBooks DEF balanceVars
<1>6. CASE \E r \in CheckRuns : TransactionSide(CheckStep(r))
  BY <1>5, <1>6, CheckKeepsAmounts DEF TransactionSide
<1>7. CASE \/ \E r \in BroadcastRuns : TransactionSide(BroadcastStep(r))
           \/ \E r \in MonitorRuns : TransactionSide(StartMonitor(r))
           \/ \E r \in StuckRuns : TransactionSide(StartStuckCheck(r))
           \/ TransactionSide(TaskStep)
           \/ TransactionSide(ChainStep)
           \/ NewBlock /\ UNCHANGED <<balanceVars, transactionVars, faults>>
  BY <1>5, <1>7, OthersKeepAmounts DEF TransactionSide
<1>8. CASE Fault
  <2>1. CASE BalanceFault /\ UNCHANGED transactionVars
    BY <1>3, <1>4, <2>1 DEF BalanceFault
  <2>2. CASE TransactionFault /\ UNCHANGED balanceVars
    BY <1>5, <2>2, CheckKeepsAmounts, OthersKeepAmounts DEF TransactionFault
  <2>3. CASE BalanceCrash /\ TransactionCrash /\ UNCHANGED dataVars
    BY <2>3, EndOfBuildKeepsBooks DEF BalanceCrash, minerVars, dataVars, IdleBuild
  <2> QED
    BY <1>8, <2>1, <2>2, <2>3 DEF Fault
<1> QED
  BY <1>1, <1>2, <1>3, <1>4, <1>6, <1>7, <1>8 DEF Next, BalanceSide

(***************************************************************************)
(* The pool never owes a token twice: however rewards, failures and calls  *)
(* interleave, the payments of a miner cover disjoint tokens, all counted  *)
(* in tokensAwarded, and no more are counted than the miner has earned.    *)
(***************************************************************************)
THEOREM NeverOverpays == Spec => []NeverOverpaid
<1>1. Init => Books
  BY InitBooks
<1>2. TypeInvariant /\ Books /\ [Next]_vars => Books'
  BY NextBooks
<1>3. Books => NeverOverpaid
  BY DEF Books
<1> QED
  BY <1>1, <1>2, <1>3, TypeInvariance, PTL DEF Spec

----------------------------------------------------------------------------
(* BooksBalance: as long as nothing fails, no token is left out either. *)

(* Neither does a step that only moves payments along leave out a token. *)
LEMMA AmountsKeptKeepsBalance ==
    ASSUME BooksBalance, AmountsKept, UNCHANGED <<tokensAwarded, build, faults>>
    PROVE  BooksBalance'
BY DEF BooksBalance, Covered, AmountsKept

(* Without a call between its two writes everything awarded is covered. *)
LEMMA CoveredBetweenWrites ==
    ASSUME BooksBalance, faults = 0, \A r \in BuildRuns : build[r].pc # "insert"
    PROVE  /\ \A i \in PaymentIds :
                Covered(balance_payments[i].miner, balance_payments[i].from)
           /\ \A m \in Miners : Covered(m, tokensAwarded[m])
BY DEF BooksBalance

(* A call that starts or ends writes nothing. *)
LEMMA StartAndEndKeepBalance ==
    ASSUME TypeInvariant, Books, BooksBalance, NEW r \in BuildRuns,
           StartBuild(r) \/ FinishBuild(r), UNCHANGED faults
    PROVE  BooksBalance'
<1>1. UNCHANGED <<tokensAwarded, balance_payments>>
  BY DEF StartBuild, BeginBuild, FinishBuild, minerVars, dataVars
<1>2. \A s \in BuildRuns : build[s].pc # "insert"
  <2>1. CASE StartBuild(r)
    BY <2>1 DEF StartBuild, Books, OneBuild
  <2>2. CASE FinishBuild(r)
    BY <2>2 DEF FinishBuild, Books, OneBuild
  <2> QED
    BY <2>1, <2>2
<1>3. faults = 0 =>
        /\ \A i \in PaymentIds :
            Covered(balance_payments[i].miner, balance_payments[i].from)
        /\ \A m \in Miners : Covered(m, tokensAwarded[m])
  BY <1>2, CoveredBetweenWrites
<1> QED
  BY <1>1, <1>3 DEF BooksBalance, Covered, PaymentIds

(* Between its two writes a call knows up to where its miner is covered. *)
LEMMA SetTokensAwardedKeepsBalance ==
    ASSUME TypeInvariant, Books, BooksBalance, NEW r \in BuildRuns, NEW m \in Miners,
           SetTokensAwarded(r, m), UNCHANGED faults
    PROVE  BooksBalance'
<1>1. /\ build[r].pc = "pay" /\ m \in build[r].todo
      /\ tokensAwarded' = [tokensAwarded EXCEPT ![m] = build[r].awarded[m] + Owed(r, m)]
      /\ build' = [build EXCEPT ![r].pc = "insert", ![r].miner = m, ![r].todo = @ \ {m}]
      /\ UNCHANGED balance_payments
  BY DEF SetTokensAwarded, WriteAwarded, dataVars
<1>2. \A s \in BuildRuns : build[s].pc # "insert"
  BY <1>1 DEF Books, OneBuild
<1>3. faults = 0 =>
        /\ \A i \in PaymentIds :
            Covered(balance_payments[i].miner, balance_payments[i].from)
        /\ \A k \in Miners : Covered(k, tokensAwarded[k])
  BY <1>2, CoveredBetweenWrites
<1>4. build[r].awarded[m] = tokensAwarded[m]
  BY <1>1 DEF Books, BuildSnapshot
<1>5. \A k \in Miners : k # m => tokensAwarded'[k] = tokensAwarded[k]
  BY <1>1 DEF TypeInvariant, TypeOK, BalanceTypeOK
<1>6. /\ build'[r].pc = "insert" /\ build'[r].miner = m
      /\ build'[r].awarded[m] = tokensAwarded[m]
  <2>1. build[r] \in BuildState
    BY DEF TypeInvariant, TypeOK, BalanceTypeOK
  <2> QED
    BY <1>1, <1>4, <2>1 DEF TypeInvariant, TypeOK, BalanceTypeOK, BuildState
<1>7. ASSUME faults = 0, NEW k \in Miners
      PROVE  \/ Covered(k, tokensAwarded[k])'
             \/ \E s \in BuildRuns :
                    /\ build'[s].pc = "insert"
                    /\ build'[s].miner = k
                    /\ Covered(k, build[s].awarded[k])'
  <2>1. CASE k = m
    <3>1. \/ tokensAwarded[m] = 0
          \/ \E i \in PaymentIds :
                balance_payments[i].miner = m /\ balance_payments[i].upto = tokensAwarded[m]
      BY <1>3, <1>7 DEF Covered
    <3>2. Covered(m, build[r].awarded[m])'
      BY <1>1, <1>6, <3>1 DEF Covered, PaymentIds
    <3> QED
      BY <1>6, <2>1, <3>2
  <2>2. CASE k # m
    BY <1>1, <1>3, <1>5, <1>7, <2>2 DEF Covered, PaymentIds
  <2> QED
    BY <2>1, <2>2
<1>8. ASSUME faults = 0, NEW i \in PaymentIds'
      PROVE  Covered(balance_payments[i].miner, balance_payments[i].from)'
  BY <1>1, <1>3, <1>8 DEF Covered, PaymentIds
<1> QED
  BY <1>7, <1>8 DEF BooksBalance

(* The payment that is inserted continues where the last one of its miner    *)
(* ended, and reaches up to what is counted as awarded.                      *)
LEMMA InsertKeepsBalance ==
    ASSUME TypeInvariant, Books, BooksBalance, NEW r \in BuildRuns,
           InsertBalancePayment(r), UNCHANGED faults
    PROVE  BooksBalance'
<1> USE DEF TypeInvariant, TypeOK
<1> DEFINE m == build[r].miner
           n == Len(balance_payments) + 1
           new == [miner |-> m, from |-> build[r].awarded[m],
                   upto |-> build[r].awarded[m] + Owed(r, m), uuid |-> None,
                   confirmed |-> FALSE, txHash |-> NoHash]
<1>1. /\ build[r].pc = "insert"
      /\ balance_payments' = Append(balance_payments, new)
      /\ UNCHANGED tokensAwarded
  BY DEF InsertBalancePayment, minerVars
<1>2. m \in Miners
  BY <1>1 DEF BalanceReferences
<1>3. build[r].awarded[m] \in Nat /\ build[r].alltime[m] \in Nat
  BY <1>2 DEF BalanceTypeOK, BuildState
<1>4. /\ build[r].awarded[m] < build[r].alltime[m]
      /\ tokensAwarded[m] = build[r].alltime[m]
      /\ \A i \in PaymentIds : balance_payments[i].miner = m =>
            balance_payments[i].upto <= build[r].awarded[m]
  BY <1>1 DEF Books, BuildSnapshot
<1>5. new.miner = m /\ new.from = build[r].awarded[m] /\ new.upto = tokensAwarded[m]
  BY <1>3, <1>4 DEF Owed
<1> HIDE DEF new
<1>6. /\ PaymentIds' = PaymentIds \cup {n}
      /\ \A i \in PaymentIds : balance_payments'[i] = balance_payments[i]
      /\ balance_payments'[n] = new
  <2>1. balance_payments \in Seq(BalancePayment)
    BY DEF DataTypeOK
  <2> QED
    BY <1>1, <2>1 DEF PaymentIds
<1> HIDE DEF n
<1>7. \A s \in BuildRuns : build[s].pc = "insert" => s = r
  BY <1>1 DEF Books, OneBuild
<1>8. ~Covered(m, tokensAwarded[m])
  <2>1. \A i \in PaymentIds : balance_payments[i].upto \in Nat
    BY DocumentTypes DEF BalancePayment
  <2> QED
    BY <1>3, <1>4, <2>1 DEF Covered
<1>9. faults = 0 =>
        /\ \A i \in PaymentIds :
            Covered(balance_payments[i].miner, balance_payments[i].from)
        /\ Covered(m, build[r].awarded[m])
        /\ \A k \in Miners : k # m => Covered(k, tokensAwarded[k])
  BY <1>2, <1>7, <1>8 DEF BooksBalance
<1>10. faults = 0 => \A k \in Miners :
        \/ tokensAwarded'[k] = 0
        \/ \E i \in PaymentIds' :
            balance_payments'[i].miner = k /\ balance_payments'[i].upto = tokensAwarded'[k]
  <2>1. ASSUME faults = 0, NEW k \in Miners, k # m
        PROVE  \/ tokensAwarded'[k] = 0
               \/ \E i \in PaymentIds' : /\ balance_payments'[i].miner = k
                                          /\ balance_payments'[i].upto = tokensAwarded'[k]
    <3>1. \/ tokensAwarded[k] = 0
          \/ \E i \in PaymentIds : /\ balance_payments[i].miner = k
                                   /\ balance_payments[i].upto = tokensAwarded[k]
      BY <1>9, <2>1 DEF Covered
    <3>2. ASSUME NEW i \in PaymentIds
          PROVE  i \in PaymentIds' /\ balance_payments'[i] = balance_payments[i]
      BY <1>6
    <3> HIDE DEF m
    <3> QED
      BY <1>1, <3>1, <3>2
  <2>2. /\ n \in PaymentIds' /\ balance_payments'[n].miner = m
        /\ balance_payments'[n].upto = tokensAwarded'[m]
    BY <1>1, <1>5, <1>6
  <2> HIDE DEF m
  <2> QED
    BY <2>1, <2>2
<1>11. faults = 0 => \A i \in PaymentIds' :
        \/ balance_payments'[i].from = 0
        \/ \E j \in PaymentIds' :
            /\ balance_payments'[j].miner = balance_payments'[i].miner
            /\ balance_payments'[j].upto = balance_payments'[i].from
  <2>1. ASSUME faults = 0, NEW i \in PaymentIds
        PROVE  \/ balance_payments'[i].from = 0
               \/ \E j \in PaymentIds' :
                    /\ balance_payments'[j].miner = balance_payments'[i].miner
                    /\ balance_payments'[j].upto = balance_payments'[i].from
    BY <1>6, <1>9, <2>1 DEF Covered
  <2>2. ASSUME faults = 0
        PROVE  \/ balance_payments'[n].from = 0
               \/ \E j \in PaymentIds' :
                    /\ balance_payments'[j].miner = balance_payments'[n].miner
                    /\ balance_payments'[j].upto = balance_payments'[n].from
    BY <1>5, <1>6, <1>9, <2>2 DEF Covered
  <2> QED
    BY <1>6, <2>1, <2>2
<1> QED
  BY <1>10, <1>11 DEF BooksBalance, Covered

(* Every step keeps the balance; a failure ends the promise. *)
LEMMA NextBalance ==
    ASSUME TypeInvariant, Books, BooksBalance, [Next]_vars
    PROVE  BooksBalance'
<1>1. CASE UNCHANGED vars
  BY <1>1, AmountsKeptKeepsBalance DEF vars, dataVars, balanceVars, AmountsKept, PaymentIds
<1>2. CASE BalanceSide(BalanceEnvironment)
  BY <1>2, AmountsKeptKeepsBalance DEF BalanceSide, BalanceEnvironment, AwardTokens,
     DayPasses, buildVars, dataVars, AmountsKept, PaymentIds
<1>3. CASE \E r \in BuildRuns : BalanceSide(BuildStep(r))
  BY <1>3, StartAndEndKeepBalance, SetTokensAwardedKeepsBalance, InsertKeepsBalance
     DEF BalanceSide, BuildStep
<1>4. CASE \E r \in BatchRuns : BalanceSide(BatchStep(r))
  <2>1. PICK r \in BatchRuns : BatchStep(r) /\ UNCHANGED faults
    BY <1>4 DEF BalanceSide
  <2>2. UNCHANGED <<tokensAwarded, build>>
    BY <2>1 DEF BatchStep, StartBatch, BeginBatch, StampPayment, QueueBatch, QueuePayments,
           minerVars, buildVars
  <2> QED
    BY <2>1, <2>2, BatchKeepsAmounts, AmountsKeptKeepsBalance
<1>5. ASSUME AmountsKept, UNCHANGED <<balanceVars, faults>>
      PROVE  BooksBalance'
  BY <1>5, AmountsKeptKeepsBalance DEF balanceVars
<1>6. CASE \E r \in CheckRuns : TransactionSide(CheckStep(r))
  BY <1>5, <1>6, CheckKeepsAmounts DEF TransactionSide
<1>7. CASE \/ \E r \in BroadcastRuns : TransactionSide(BroadcastStep(r))
           \/ \E r \in MonitorRuns : TransactionSide(StartMonitor(r))
           \/ \E r \in StuckRuns : TransactionSide(StartStuckCheck(r))
           \/ TransactionSide(TaskStep)
           \/ TransactionSide(ChainStep)
           \/ NewBlock /\ UNCHANGED <<balanceVars, transactionVars, faults>>
  BY <1>5, <1>7, OthersKeepAmounts DEF TransactionSide
<1>8. CASE Fault
  <2>1. faults' # 0
    BY <1>8 DEF Fault, TypeInvariant, TypeOK
  <2> QED
    BY <2>1 DEF BooksBalance
<1> QED
  BY <1>1, <1>2, <1>3, <1>4, <1>6, <1>7, <1>8 DEF Next

(***************************************************************************)
(* As long as nothing fails no token is lost: the payments of a miner      *)
(* follow each other without a gap up to tokensAwarded, but for the one a  *)
(* call of buildBalancePayments is about to insert.                        *)
(***************************************************************************)
THEOREM NoTokenIsLeftOut == Spec => []BooksBalance
<1>1. Init => BooksBalance
  BY DEF Init, DataInit, BalanceInit, NoMiners, BooksBalance, Covered, PaymentIds
<1>2. Init => Books
  BY InitBooks
<1>3. TypeInvariant /\ Books /\ [Next]_vars => Books'
  BY NextBooks
<1>4. TypeInvariant /\ Books /\ BooksBalance /\ [Next]_vars => BooksBalance'
  BY NextBalance
<1> QED
  BY <1>1, <1>2, <1>3, <1>4, TypeInvariance, PTL DEF Spec

=============================================================================
