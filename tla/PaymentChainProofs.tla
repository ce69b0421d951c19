------------------------- MODULE PaymentChainProofs -------------------------
(***************************************************************************)
(* PaidAtMostOnce, ConfirmedIsPaid, SuccessIsPaid and BatchIsFinal, and    *)
(* that the pipeline implements PayoutLedger, for every value of the       *)
(* constants.  Most steps leave most of what the invariants speak of       *)
(* alone: the frames below say so, one lemma per task shows which of them  *)
(* its steps keep, and only the few steps that break a frame need an       *)
(* argument of their own.                                                  *)
(***************************************************************************)
EXTENDS PaymentBooksProofs

\* Payments keep their batch, and new ones have none.
PaymentFrame ==
    /\ PaymentIds \subseteq PaymentIds'
    /\ \A i \in PaymentIds : balance_payments'[i].uuid = balance_payments[i].uuid
    /\ \A i \in PaymentIds' \ PaymentIds : balance_payments'[i].uuid = None

\* No payment is newly confirmed.
ConfirmedFrame ==
    \A i \in PaymentIds' :
        balance_payments'[i].confirmed =>
            /\ i \in PaymentIds
            /\ balance_payments[i].confirmed
            /\ balance_payments'[i].txHash = balance_payments[i].txHash

\* No payment loses its confirmation.
ConfirmedStays ==
    \A i \in PaymentIds : balance_payments[i].confirmed => balance_payments'[i].confirmed

\* Transactions keep their uuid and their payments.
TransactionFrame ==
    /\ TransactionIds \subseteq TransactionIds'
    /\ \A t \in TransactionIds :
        /\ transactions'[t].uuid = transactions[t].uuid
        /\ transactions'[t].payments = transactions[t].payments

\* There is no transaction of a new batch.
TransactionCopies ==
    \A t \in TransactionIds' : \E u \in TransactionIds :
        /\ transactions'[t].uuid = transactions[u].uuid
        /\ transactions'[t].payments = transactions[u].payments

\* No hash is recorded.
HashFrame ==
    \A t \in TransactionIds' :
        transactions'[t].txHash # NoHash =>
            t \in TransactionIds /\ transactions'[t].txHash = transactions[t].txHash

\* No transaction becomes a success.
SuccessFrame ==
    \A t \in TransactionIds' :
        transactions'[t].status = "success" =>
            t \in TransactionIds /\ transactions[t].status = "success"

\* What was sent stays what it was, and what was paid stays paid.
SentFrame ==
    /\ Hashes \subseteq Hashes'
    /\ successfulPayments \subseteq successfulPayments'
    /\ \A h \in Hashes :
        /\ sent'[h].uuid = sent[h].uuid
        /\ sent'[h].payments = sent[h].payments
        /\ sent[h].state = "success" => sent'[h].state = "success"

\* What is sent is a queued transaction, and nothing is paid.
SentCopies ==
    /\ \A h \in Hashes' \ Hashes : \E t \in TransactionIds :
        /\ sent'[h].uuid = transactions[t].uuid
        /\ sent'[h].payments = transactions[t].payments
    /\ \A h \in Hashes' :
        sent'[h].state = "success" => h \in Hashes /\ sent[h].state = "success"

PaymentFrames == PaymentFrame /\ ConfirmedFrame /\ ConfirmedStays
TransactionFrames ==
    TransactionFrame /\ TransactionCopies /\ HashFrame /\ SuccessFrame
SentFrames == SentFrame /\ SentCopies

----------------------------------------------------------------------------
(* What writes to a collection keep. *)

(* A collection that is not written to keeps its frames. *)
LEMMA UnchangedFrames ==
    /\ UNCHANGED balance_payments => PaymentFrames
    /\ UNCHANGED transactions => TransactionFrames
    /\ UNCHANGED <<sent, successfulPayments>> => SentFrames
<1>1. UNCHANGED balance_payments => PaymentFrames
  BY DEF PaymentFrames, PaymentFrame, ConfirmedFrame, ConfirmedStays, PaymentIds
<1>2. UNCHANGED transactions => TransactionFrames
  BY DEF TransactionFrames, TransactionFrame, TransactionCopies, HashFrame, SuccessFrame,
         TransactionIds
<1>3. UNCHANGED <<sent, successfulPayments>> => SentFrames
  BY DEF SentFrames, SentFrame, SentCopies, Hashes
<1> QED
  BY <1>1, <1>2, <1>3

(* updateOne on a transaction that leaves its batch alone. *)
LEMMA UpdateTransaction ==
    ASSUME DataTypeOK, NEW t, NEW new,
           transactions' = [transactions EXCEPT ![t] = new],
           t \in TransactionIds =>
                new.uuid = transactions[t].uuid /\ new.payments = transactions[t].payments
    PROVE  /\ TransactionIds' = TransactionIds
           /\ \A u \in TransactionIds :
                transactions'[u] = IF u = t THEN new ELSE transactions[u]
           /\ TransactionFrame /\ TransactionCopies
<1>1. TransactionIds' = TransactionIds
  BY LenProperties DEF DataTypeOK, TransactionIds
<1>2. \A u \in TransactionIds :
        transactions'[u] = IF u = t THEN new ELSE transactions[u]
  BY LenProperties DEF DataTypeOK, TransactionIds
<1>3. \A u \in TransactionIds : /\ transactions'[u].uuid = transactions[u].uuid
                                /\ transactions'[u].payments = transactions[u].payments
  BY <1>2
<1> QED
  BY <1>1, <1>2, <1>3 DEF TransactionFrame, TransactionCopies

(* A status that is not "success" leaves all frames of the transactions. *)
LEMMA SetStatusFrames ==
    ASSUME DataTypeOK, NEW t, NEW status, SetStatus(t, status)
    PROVE  /\ TransactionFrame /\ TransactionCopies /\ HashFrame
           /\ status # "success" => SuccessFrame
           /\ TransactionIds' = TransactionIds
           /\ \A u \in TransactionIds :
                transactions'[u].status = "success" =>
                    transactions[u].status = "success" \/ (u = t /\ status = "success")
<1> DEFINE new == [transactions[t] EXCEPT
                    !.status = IF @ = "deleted" THEN "deleted" ELSE status]
<1>1. transactions' = [transactions EXCEPT ![t] = new]
  BY DEF SetStatus
<1>2. t \in TransactionIds =>
        /\ new.uuid = transactions[t].uuid
        /\ new.payments = transactions[t].payments
        /\ new.txHash = transactions[t].txHash
        /\ new.status = IF transactions[t].status = "deleted" THEN "deleted" ELSE status
  BY DocumentTypes DEF Transaction
<1> HIDE DEF new
<1>3. /\ TransactionIds' = TransactionIds
      /\ \A u \in TransactionIds :
            transactions'[u] = IF u = t THEN new ELSE transactions[u]
      /\ TransactionFrame /\ TransactionCopies
  BY <1>1, <1>2, UpdateTransaction
<1>4. HashFrame
  BY <1>2, <1>3 DEF HashFrame
<1>5. \A u \in TransactionIds :
        transactions'[u].status = "success" =>
            transactions[u].status = "success" \/ (u = t /\ status = "success")
  <2>1. ASSUME NEW u \in TransactionIds, transactions'[u].status = "success"
        PROVE  transactions[u].status = "success" \/ (u = t /\ status = "success")
    <3>1. CASE u # t
      <4>1. transactions'[u] = transactions[u]
        BY <1>3, <3>1
      <4> QED
        BY <2>1, <4>1
    <3>2. CASE u = t
      BY <1>2, <1>3, <2>1, <3>2
    <3> QED
      BY <3>1, <3>2
  <2> QED
    BY <2>1
<1>6. status # "success" => SuccessFrame
  BY <1>3, <1>5 DEF SuccessFrame
<1> QED
  BY <1>3, <1>4, <1>5, <1>6

(* A write to one payment that leaves its batch alone. *)
LEMMA UpdatePayment ==
    ASSUME DataTypeOK, NEW i, NEW new,
           balance_payments' = [balance_payments EXCEPT ![i] = new]
    PROVE  /\ PaymentIds' = PaymentIds
           /\ \A j \in PaymentIds :
                balance_payments'[j] = IF j = i THEN new ELSE balance_payments[j]
BY LenProperties DEF DataTypeOK, PaymentIds

----------------------------------------------------------------------------
(* What the steps of each task keep. *)

(* Rewards and buildBalancePayments. *)
LEMMA BuildFrames ==
    ASSUME TypeInvariant,
           \/ BalanceEnvironment
           \/ \E r \in BuildRuns : BuildStep(r) \/ FailBuild(r)
    PROVE  PaymentFrames /\ UNCHANGED <<transactions, batchRunning, batch>>
<1> USE DEF TypeInvariant, TypeOK
<1>1. CASE BalanceEnvironment
  BY <1>1, UnchangedFrames DEF BalanceEnvironment, AwardTokens, DayPasses, batchVars, dataVars
<1>2. ASSUME NEW r \in BuildRuns, BuildStep(r) \/ FailBuild(r)
      PROVE  PaymentFrames /\ UNCHANGED <<transactions, batchRunning, batch>>
  <2>1. CASE InsertBalancePayment(r)
    <3> DEFINE m == build[r].miner
               new == [miner |-> m, from |-> build[r].awarded[m],
                       upto |-> build[r].awarded[m] + Owed(r, m), uuid |-> None,
                       confirmed |-> FALSE, txHash |-> NoHash]
    <3>1. balance_payments' = Append(balance_payments, new)
      BY <2>1 DEF InsertBalancePayment
    <3>2. new.uuid = None /\ ~new.confirmed
      OBVIOUS
    <3>3. UNCHANGED <<transactions, batchRunning, batch>>
      BY <2>1 DEF InsertBalancePayment, batchVars
    <3> HIDE DEF new
    <3>4. /\ PaymentIds' = PaymentIds \cup {Len(balance_payments) + 1}
          /\ \A i \in PaymentIds : balance_payments'[i] = balance_payments[i]
          /\ balance_payments'[Len(balance_payments) + 1] = new
      <4>1. balance_payments \in Seq(BalancePayment)
        BY DEF DataTypeOK
      <4> QED
        BY <3>1, <4>1 DEF PaymentIds
    <3> QED
      BY <3>2, <3>3, <3>4 DEF PaymentFrames, PaymentFrame, ConfirmedFrame, ConfirmedStays
  <2>2. CASE UNCHANGED <<balance_payments, transactions, batchRunning, batch>>
    BY <2>2, UnchangedFrames
  <2> QED
    BY <1>2, <2>1, <2>2 DEF BuildStep, StartBuild, BeginBuild, SetTokensAwarded,
           WriteAwarded, FinishBuild, FailBuild, batchVars, dataVars
<1> QED
  BY <1>1, <1>2

(* The transaction that is sent copies its batch, and only pushes others out. *)
LEMMA AcceptedTransaction ==
    ASSUME TypeInvariant, NEW r \in BroadcastRuns, AcceptMultisend(r)
    PROVE  LET t == transactions[broadcast[r].tx]
               g == Len(sent) + 1
           IN
           /\ broadcast[r].tx \in TransactionIds
           /\ Hashes' = Hashes \cup {g}
           /\ \A h \in Hashes : /\ sent'[h].uuid = sent[h].uuid
                                /\ sent'[h].payments = sent[h].payments
                                /\ sent'[h].state = "success" <=> sent[h].state = "success"
           /\ sent'[g].uuid = t.uuid /\ sent'[g].payments = t.payments
           /\ sent'[g].state # "success"
<1> USE DEF TypeInvariant, TypeOK
<1> DEFINE old == [h \in Hashes |-> IF h \in InPool THEN [sent[h] EXCEPT !.state = "dropped"]
                                                     ELSE sent[h]]
           t == transactions[broadcast[r].tx]
           new == [uuid |-> t.uuid, payments |-> t.payments, nonce |-> accountNonce,
                   state |-> "pool"]
<1>1. sent' = Append(old, new)
  BY DEF AcceptMultisend
<1>2. broadcast[r].tx \in TransactionIds
  BY DEF AcceptMultisend, TransactionReferences
<1>3. \A h \in Hashes : sent[h] \in SentTransaction
  BY ElementOfSeq, LenProperties DEF TransactionTypeOK, Hashes
<1>4. old \in Seq(SentTransaction) /\ Len(old) = Len(sent)
  <2>1. old \in [Hashes -> SentTransaction]
    BY <1>3 DEF SentTransaction
  <2>2. Hashes = 1..Len(sent) /\ Len(sent) \in Nat
    BY LenProperties DEF TransactionTypeOK, Hashes
  <2> HIDE DEF old
  <2> QED
    BY <2>1, <2>2, FunctionIsSeq
<1>5. \A h \in Hashes : /\ old[h].uuid = sent[h].uuid
                        /\ old[h].payments = sent[h].payments
                        /\ old[h].state = "success" <=> sent[h].state = "success"
  BY <1>3 DEF SentTransaction, InPool
<1>6. new.uuid = t.uuid /\ new.payments = t.payments /\ new.state # "success"
  OBVIOUS
<1> HIDE DEF old, new
<1>7. /\ Hashes' = Hashes \cup {Len(sent) + 1}
      /\ \A h \in Hashes : sent'[h] = old[h]
      /\ sent'[Len(sent) + 1] = new
  <2>1. Hashes = 1..Len(sent) /\ Len(sent) \in Nat
    BY LenProperties DEF TransactionTypeOK, Hashes
  <2> QED
    BY <1>1, <1>4, <2>1 DEF Hashes
<1> QED
  BY <1>2, <1>5, <1>6, <1>7

(* The broadcast. *)
LEMMA BroadcastFrames ==
    ASSUME TypeInvariant, NEW r \in BroadcastRuns, BroadcastStep(r) \/ FailBroadcast(r)
    PROVE  /\ UNCHANGED balance_payments
           /\ TransactionFrame /\ TransactionCopies /\ SuccessFrame
           /\ RecordPending(r) \/ HashFrame
           /\ SentFrames
<1> USE DEF TypeInvariant, TypeOK
<1>1. broadcast[r].tx \in Nat
  BY DEF TransactionTypeOK, BroadcastState
<1>2. CASE AcceptMultisend(r)
  <2>1. UNCHANGED <<successfulPayments, balance_payments, transactions>>
    BY <1>2 DEF AcceptMultisend, dataVars
  <2>2. SentFrames
    BY <1>2, <2>1, AcceptedTransaction DEF SentFrames, SentFrame, SentCopies
  <2> QED
    BY <2>1, <2>2, UnchangedFrames DEF TransactionFrames
<1>3. CASE RecordPending(r)
  <2> DEFINE d == transactions[broadcast[r].tx]
             new == IF d.status = "deleted" THEN d
                    ELSE [d EXCEPT !.status = "pending", !.txHash = broadcast[r].hash]
  <2>1. transactions' = [transactions EXCEPT ![broadcast[r].tx] = new]
    BY <1>3 DEF RecordPending
  <2>2. broadcast[r].tx \in TransactionIds =>
            new.uuid = d.uuid /\ new.payments = d.payments /\ new.status # "success"
    BY DocumentTypes DEF Transaction
  <2>3. broadcast[r].tx \in TransactionIds
    BY <1>3 DEF RecordPending, TransactionReferences
  <2>4. UNCHANGED <<balance_payments, sent, successfulPayments>>
    BY <1>3 DEF RecordPending, BroadcastOnly, chainVars
  <2> HIDE DEF new
  <2>5. /\ TransactionIds' = TransactionIds
        /\ \A u \in TransactionIds :
            transactions'[u] = IF u = broadcast[r].tx THEN new ELSE transactions[u]
        /\ TransactionFrame /\ TransactionCopies
    BY <1>1, <2>1, <2>2, UpdateTransaction
  <2>6. SuccessFrame
    BY <2>2, <2>3, <2>5 DEF SuccessFrame
  <2> QED
    BY <1>3, <2>4, <2>5, <2>6, UnchangedFrames
<1>4. CASE RecordSkipped(r)
  BY <1>1, <1>4, SetStatusFrames, UnchangedFrames DEF RecordSkipped, BroadcastOnly, chainVars
<1>5. CASE UNCHANGED <<balance_payments, transactions, sent, successfulPayments>>
  BY <1>5, UnchangedFrames DEF TransactionFrames
<1> QED
  BY <1>2, <1>3, <1>4, <1>5 DEF BroadcastStep, CheckPending, FindQueued, EstimateMultisend,
         RejectMultisend, FailBroadcast, BroadcastOnly, chainVars, dataVars

(* The monitor and the stuck check. *)
LEMMA CheckFrames ==
    ASSUME TypeInvariant, NEW r \in CheckRuns,
           \/ r \in MonitorRuns /\ StartMonitor(r)
           \/ StartStuckCheck(r)
           \/ CheckStep(r)
           \/ FailCheck(r)
    PROVE  /\ UNCHANGED <<sent, successfulPayments, broadcast>>
           /\ PaymentFrame /\ ConfirmedStays
           /\ ConfirmPayment(r) \/ ConfirmedFrame
           /\ TransactionFrame /\ TransactionCopies /\ HashFrame
           /\ SettleTransaction(r) \/ SuccessFrame
<1> USE DEF TypeInvariant, TypeOK
<1>1. UNCHANGED <<sent, successfulPayments, broadcast>>
  BY DEF StartMonitor, StartStuckCheck, BeginCheck, CheckStep, GotReceipt, TakeReceipt,
         NoReceipt, FinishCheck, SettleTransaction, FindBatchPayments, ConfirmPayment,
         CreditMiner, FailCheck, CheckOnly, chainVars
<1>2. CASE SettleTransaction(r)
  <2>1. UNCHANGED balance_payments
    BY <1>2 DEF SettleTransaction
  <2>2. TransactionFrame /\ TransactionCopies /\ HashFrame
    BY <1>2, SetStatusFrames DEF SettleTransaction
  <2> QED
    BY <1>1, <1>2, <2>1, <2>2, UnchangedFrames DEF PaymentFrames
<1>3. CASE ConfirmPayment(r)
  <2> DEFINE i == First(check[r].todo)
             new == [balance_payments[i] EXCEPT !.confirmed = TRUE,
                                                !.txHash = check[r].hash]
  <2>1. balance_payments' = [balance_payments EXCEPT ![i] = new]
    BY <1>3 DEF ConfirmPayment, DataTypeOK
  <2>2. i \in PaymentIds => new.uuid = balance_payments[i].uuid /\ new.confirmed
    BY DocumentTypes DEF BalancePayment
  <2> HIDE DEF i, new
  <2>3. /\ PaymentIds' = PaymentIds
        /\ \A j \in PaymentIds :
            balance_payments'[j] = IF j = i THEN new ELSE balance_payments[j]
    BY <2>1, UpdatePayment
  <2>4. PaymentFrame
    BY <2>2, <2>3 DEF PaymentFrame
  <2>5. ConfirmedStays
    BY <2>2, <2>3 DEF ConfirmedStays
  <2>6. UNCHANGED transactions
    BY <1>3 DEF ConfirmPayment
  <2> QED
    BY <1>1, <1>3, <2>4, <2>5, <2>6, UnchangedFrames DEF TransactionFrames
<1>4. CASE UNCHANGED <<balance_payments, transactions>>
  BY <1>1, <1>4, UnchangedFrames DEF PaymentFrames, TransactionFrames
<1> QED
  BY <1>2, <1>3, <1>4 DEF StartMonitor, StartStuckCheck, BeginCheck, CheckStep, GotReceipt,
         TakeReceipt, NoReceipt, FinishCheck, FindBatchPayments, CreditMiner, FailCheck, dataVars

(* The stale and requeue tasks, and the tool. *)
LEMMA TaskFrames ==
    ASSUME TypeInvariant, TaskStep \/ \E r \in ToolRuns : FailTool(r)
    PROVE  /\ UNCHANGED <<balance_payments, sent, successfulPayments, broadcast, check>>
           /\ TransactionFrames
<1> USE DEF TypeInvariant, TypeOK
<1>1. UNCHANGED <<balance_payments, sent, successfulPayments, broadcast, check>>
  BY DEF TaskStep, StartStale, MarkStale, StartRequeue, RequeueSkipped, StartTool,
         QueueReverted, DeleteReverted, FailTool, chainVars, checkVars, dataVars
<1>2. CASE (\E r \in StaleRuns : MarkStale(r)) \/ (\E r \in ToolRuns : DeleteReverted(r))
  <2>1. PICK t, status : SetStatus(t, status) /\ status # "success"
    <3>1. "skipped" # "success" /\ "deleted" # "success"
      OBVIOUS
    <3> QED
      BY <1>2, <3>1 DEF MarkStale, DeleteReverted
  <2> QED
    BY <1>1, <2>1, SetStatusFrames DEF TransactionFrames
<1>3. ASSUME NEW r \in RequeueRuns, RequeueSkipped(r)
      PROVE  TransactionFrames
  <2> DEFINE t == First(requeue[r].list)
             d == transactions[t]
             new == IF d.status = "deleted" THEN d
                    ELSE [d EXCEPT !.status = "queued", !.block = requeue[r].block]
  <2>1. transactions' = [transactions EXCEPT ![t] = new]
    BY <1>3 DEF RequeueSkipped
  <2>2. t \in TransactionIds =>
            /\ new.uuid = d.uuid /\ new.payments = d.payments /\ new.txHash = d.txHash
            /\ new.status # "success"
    BY DocumentTypes DEF Transaction
  <2> HIDE DEF t, new
  <2>3. /\ TransactionIds' = TransactionIds
        /\ \A u \in TransactionIds :
            transactions'[u] = IF u = t THEN new ELSE transactions[u]
        /\ TransactionFrame /\ TransactionCopies
    BY <2>1, <2>2, UpdateTransaction
  <2>4. HashFrame
    BY <2>2, <2>3 DEF HashFrame
  <2>5. SuccessFrame
    BY <2>2, <2>3 DEF SuccessFrame
  <2> QED
    BY <2>3, <2>4, <2>5 DEF TransactionFrames
<1>4. ASSUME NEW r \in ToolRuns, QueueReverted(r)
      PROVE  TransactionFrames
  <2> DEFINE t == First(tool[r].list)
             new == QueuedTransaction(transactions[t].uuid, transactions[t].payments)
  <2>1. transactions' = Append(transactions, new) /\ tool[r].list # {}
    BY <1>4 DEF QueueReverted
  <2>2. t \in TransactionIds
    <3>1. tool[r].list \subseteq TransactionIds /\ TransactionIds \subseteq Nat
      BY DocumentTypes DEF TransactionReferences
    <3> QED
      BY <2>1, <3>1, FirstInSet
  <2>3. /\ new.uuid = transactions[t].uuid /\ new.payments = transactions[t].payments
        /\ new.txHash = NoHash /\ new.status # "success"
    BY DEF QueuedTransaction
  <2> HIDE DEF t, new
  <2>4. /\ TransactionIds' = TransactionIds \cup {Len(transactions) + 1}
        /\ \A u \in TransactionIds : transactions'[u] = transactions[u]
        /\ transactions'[Len(transactions) + 1] = new
    <3>1. transactions \in Seq(Transaction)
      BY DEF DataTypeOK
    <3> QED
      BY <2>1, <3>1 DEF TransactionIds
  <2>5. TransactionFrame /\ TransactionCopies
    BY <2>2, <2>3, <2>4 DEF TransactionFrame, TransactionCopies
  <2>6. HashFrame /\ SuccessFrame
    BY <2>3, <2>4 DEF HashFrame, SuccessFrame
  <2> QED
    BY <2>5, <2>6 DEF TransactionFrames
<1>5. CASE UNCHANGED transactions
  BY <1>1, <1>5, UnchangedFrames
<1>6. \/ UNCHANGED transactions
      \/ \E r \in StaleRuns : MarkStale(r)
      \/ \E r \in RequeueRuns : RequeueSkipped(r)
      \/ \E r \in ToolRuns : QueueReverted(r) \/ DeleteReverted(r)
  BY DEF TaskStep, StartStale, StartRequeue, StartTool, FailTool, dataVars
<1> QED
  BY <1>1, <1>2, <1>3, <1>4, <1>5, <1>6

(* The chain. *)
LEMMA ChainFrames ==
    ASSUME TypeInvariant, NEW h \in Hashes, Mine(h) \/ Evict(h)
    PROVE  /\ UNCHANGED <<balance_payments, transactions, broadcast, check>>
           /\ SentFrame
           /\ Hashes' = Hashes
           /\ \A g \in Hashes : g # h => sent'[g] = sent[g]
           /\ \/ SentCopies
              \/ /\ sent[h].state # "success"
                 /\ sent[h].uuid \notin successfulPayments
                 /\ successfulPayments' = successfulPayments \cup {sent[h].uuid}
<1> USE DEF TypeInvariant, TypeOK
<1>1. UNCHANGED <<balance_payments, transactions, broadcast, check>>
  BY DEF Mine, MineWith, Evict, checkVars, dataVars
<1>2. \A g \in Hashes : sent[g] \in SentTransaction
  BY ElementOfSeq, LenProperties DEF TransactionTypeOK, Hashes
<1>3. PICK state : sent' = [sent EXCEPT ![h].state = state]
  BY DEF Mine, MineWith, Evict
<1>4. Hashes' = Hashes /\ \A g \in Hashes : g # h => sent'[g] = sent[g]
  BY <1>3 DEF Hashes, TransactionTypeOK
<1>5. /\ sent'[h].uuid = sent[h].uuid /\ sent'[h].payments = sent[h].payments
      /\ sent'[h].state = state
  BY <1>2, <1>3 DEF Hashes, TransactionTypeOK, SentTransaction
<1>6. sent[h].state # "success"
  BY DEF Mine, MineWith, Mineable, Evict, InPool
<1>7. successfulPayments \subseteq successfulPayments'
  BY DEF Mine, MineWith, Evict
<1>8. SentFrame
  BY <1>4, <1>5, <1>6, <1>7 DEF SentFrame
<1>9. CASE sent'[h].state # "success"
  BY <1>1, <1>4, <1>6, <1>8, <1>9 DEF SentCopies
<1>10. CASE sent'[h].state = "success"
  <2>1. /\ ~AlreadyPaid(sent[h].uuid)
        /\ successfulPayments' = successfulPayments \cup {sent[h].uuid}
    <3>1. ~Evict(h)
      <4>1. Evict(h) => sent' = [sent EXCEPT ![h].state = "dropped"]
        BY DEF Evict
      <4>2. [sent EXCEPT ![h].state = "dropped"][h].state = "dropped"
        BY <1>2 DEF SentTransaction, Hashes, TransactionTypeOK
      <4> QED
        BY <1>10, <4>1, <4>2
    <3>2. PICK succeeds \in BOOLEAN :
            /\ succeeds => ~AlreadyPaid(sent[h].uuid)
            /\ MineWith(h, succeeds)
      BY <3>1 DEF Mine
    <3>3. succeeds
      <4>1. ~succeeds => sent' = [sent EXCEPT ![h].state = "reverted"]
        BY <3>2 DEF MineWith
      <4>2. [sent EXCEPT ![h].state = "reverted"][h].state = "reverted"
        BY <1>2 DEF SentTransaction, Hashes, TransactionTypeOK
      <4> QED
        BY <1>10, <4>1, <4>2
    <3> QED
      BY <3>2, <3>3 DEF MineWith
  <2> QED
    BY <1>1, <1>4, <1>6, <1>8, <2>1 DEF AlreadyPaid
<1> QED
  BY <1>9, <1>10

----------------------------------------------------------------------------
(* Batches is kept. *)

(* A new payment, which has no uuid, is in no batch. *)
LEMMA SameBatches ==
    ASSUME PaymentFrame
    PROVE  \A u \in Uuids :
                {i \in PaymentIds' : balance_payments'[i].uuid = u} = PaymentsOf(u)
BY NoneAssumption DEF PaymentFrame, PaymentsOf

(* The uuids of documents and of what was sent. *)
LEMMA UuidTypes ==
    ASSUME TypeInvariant
    PROVE  /\ \A t \in TransactionIds : transactions[t].uuid \in Uuids
           /\ \A h \in Hashes : sent[h].uuid \in Uuids
<1>1. \A h \in Hashes : sent[h] \in SentTransaction
  BY ElementOfSeq, LenProperties DEF TypeInvariant, TypeOK, TransactionTypeOK, Hashes
<1> QED
  BY <1>1, DocumentTypes DEF TypeInvariant, TypeOK, Transaction, SentTransaction

(* As long as what was sent keeps its payments, it pays for whole batches. *)
LEMMA FramesKeepWholeBatches ==
    ASSUME TypeInvariant, WholeBatches, PaymentFrame, TransactionFrame, TransactionCopies,
           SentFrame,
           \A h \in Hashes' \ Hashes : \E t \in TransactionIds :
                /\ sent'[h].uuid = transactions[t].uuid
                /\ sent'[h].payments = transactions[t].payments
    PROVE  WholeBatches'
<1>1. ASSUME NEW t \in TransactionIds'
      PROVE  transactions'[t].payments
                = {i \in PaymentIds' : balance_payments'[i].uuid = transactions'[t].uuid}
  <2>1. PICK u \in TransactionIds : /\ transactions'[t].uuid = transactions[u].uuid
                                   /\ transactions'[t].payments = transactions[u].payments
    BY DEF TransactionCopies
  <2>2. transactions[u].payments = PaymentsOf(transactions[u].uuid)
    BY DEF WholeBatches
  <2> QED
    BY <2>1, <2>2, SameBatches, UuidTypes
<1>2. ASSUME NEW h \in Hashes'
      PROVE  /\ \E t \in TransactionIds' : transactions'[t].uuid = sent'[h].uuid
             /\ sent'[h].payments
                    = {i \in PaymentIds' : balance_payments'[i].uuid = sent'[h].uuid}
  <2>1. CASE h \in Hashes
    <3>1. /\ \E t \in TransactionIds : transactions[t].uuid = sent[h].uuid
          /\ sent[h].payments = PaymentsOf(sent[h].uuid)
      BY <2>1 DEF WholeBatches
    <3>2. sent'[h].uuid = sent[h].uuid /\ sent'[h].payments = sent[h].payments
      BY <2>1 DEF SentFrame
    <3> QED
      BY <2>1, <3>1, <3>2, SameBatches, UuidTypes DEF TransactionFrame
  <2>2. CASE h \notin Hashes
    <3>1. PICK t \in TransactionIds : /\ sent'[h].uuid = transactions[t].uuid
                                     /\ sent'[h].payments = transactions[t].payments
      BY <2>2
    <3>2. transactions[t].payments = PaymentsOf(transactions[t].uuid)
      BY DEF WholeBatches
    <3> QED
      BY <3>1, <3>2, SameBatches, UuidTypes DEF TransactionFrame
  <2> QED
    BY <2>1, <2>2
<1> QED
  BY <1>1, <1>2 DEF WholeBatches, PaymentsOf

(* A step in which no batch is built keeps the calls that build them. *)
LEMMA FramesKeepOneBatch ==
    ASSUME TypeInvariant, OneBatch, PaymentFrame, TransactionCopies,
           UNCHANGED <<batchRunning, batch>>
    PROVE  OneBatch'
<1>1. ASSUME NEW r \in BatchRuns, batch[r].pc = "stamp"
      PROVE  /\ batch[r].done
                    = {i \in PaymentIds' : balance_payments'[i].uuid = batch[r].uuid}
             /\ batch[r].todo \subseteq Unbatched'
             /\ \A t \in TransactionIds' : transactions'[t].uuid # batch[r].uuid
  <2>1. /\ batch[r].done = PaymentsOf(batch[r].uuid)
        /\ batch[r].todo \subseteq Unbatched
        /\ \A t \in TransactionIds : transactions[t].uuid # batch[r].uuid
    BY <1>1 DEF OneBatch
  <2>2. batch[r].uuid \in Uuids
    BY <1>1 DEF TypeInvariant, BalanceReferences
  <2>3. Unbatched \subseteq Unbatched'
    BY DEF Unbatched, PaymentFrame
  <2> QED
    BY <2>1, <2>2, <2>3, SameBatches DEF TransactionCopies
<1> QED
  BY <1>1 DEF OneBatch, PaymentsOf

LEMMA FramesKeepBatches ==
    ASSUME TypeInvariant, Batches, PaymentFrame, TransactionFrame, TransactionCopies,
           SentFrames, UNCHANGED <<batchRunning, batch>>
    PROVE  Batches'
<1>1. OneBatch'
  BY FramesKeepOneBatch DEF Batches
<1>2. WholeBatches'
  BY FramesKeepWholeBatches DEF Batches, SentFrames, SentCopies
<1>3. PaidUuids'
  BY DEF Batches, PaidUuids, SentFrames, SentFrame, SentCopies
<1> QED
  BY <1>1, <1>2, <1>3 DEF Batches

(* A call that is over, or dead, builds no batch. *)
LEMMA EndOfBatchKeepsBatches ==
    ASSUME TypeInvariant, Batches,
           UNCHANGED <<balance_payments, transactions, sent, successfulPayments>>,
           \A s \in BatchRuns : batch'[s].pc = "idle"
    PROVE  Batches'
<1>1. OneBatch'
  BY DEF OneBatch
<1>2. WholeBatches' /\ PaidUuids'
  BY DEF Batches, WholeBatches, PaidUuids, Hashes, TransactionIds, PaymentsOf, PaymentIds
<1> QED
  BY <1>1, <1>2 DEF Batches

(* The uuid of a new batch is on no payment and in no transaction. *)
LEMMA StartBatchKeepsBatches ==
    ASSUME TypeInvariant, Batches, NEW r \in BatchRuns, StartBatch(r),
           UNCHANGED <<sent, successfulPayments>>
    PROVE  Batches'
<1> USE DEF TypeInvariant, TypeOK
<1>1. PICK u \in FreshUuids :
        batch' = [batch EXCEPT ![r] =
                    [pc |-> "stamp", uuid |-> u, todo |-> NextBatch, done |-> {}]]
  BY DEF StartBatch, BeginBatch
<1>2. UNCHANGED <<balance_payments, transactions>> /\ batchRunning' = TRUE
  BY DEF StartBatch, BeginBatch, dataVars
<1>3. \A s \in BatchRuns : batch[s].pc = "idle"
  BY DEF StartBatch, Batches, OneBatch
<1>4. /\ batch'[r].pc = "stamp" /\ batch'[r].uuid = u
      /\ batch'[r].todo = NextBatch /\ batch'[r].done = {}
      /\ \A s \in BatchRuns : s # r => batch'[s].pc = "idle"
  BY <1>1, <1>3 DEF BalanceTypeOK
<1>5. /\ {} = PaymentsOf(u) /\ NextBatch \subseteq Unbatched
      /\ \A t \in TransactionIds : transactions[t].uuid # u
  BY DEF FreshUuids, NextBatch, PaymentsOf
<1>6. OneBatch'
  BY <1>2, <1>4, <1>5 DEF OneBatch, PaymentsOf, PaymentIds, TransactionIds, Unbatched
<1>7. WholeBatches' /\ PaidUuids'
  BY <1>2 DEF Batches, WholeBatches, PaidUuids, Hashes, TransactionIds, PaymentsOf, PaymentIds
<1> QED
  BY <1>6, <1>7 DEF Batches

(* The payment that is stamped had no batch, and now is one of the batch the *)
(* call is putting together, of which no transaction exists yet.             *)
LEMMA StampKeepsBatches ==
    ASSUME TypeInvariant, Batches, NEW r \in BatchRuns, StampPayment(r),
           UNCHANGED <<sent, successfulPayments>>
    PROVE  Batches'
<1> USE DEF TypeInvariant, TypeOK
<1> DEFINE u == batch[r].uuid
<1>1. PICK i \in batch[r].todo :
        /\ balance_payments' = [balance_payments EXCEPT ![i].uuid = u]
        /\ batch' = [batch EXCEPT ![r].todo = @ \ {i}, ![r].done = @ \cup {i}]
  BY DEF StampPayment
<1>2. batch[r].pc = "stamp" /\ UNCHANGED <<transactions, batchRunning>>
  BY DEF StampPayment
<1>3. /\ batchRunning /\ \A s \in BatchRuns : s # r => batch[s].pc = "idle"
      /\ batch[r].done = PaymentsOf(u) /\ batch[r].todo \subseteq Unbatched
      /\ \A t \in TransactionIds : transactions[t].uuid # u
  BY <1>2 DEF Batches, OneBatch
<1>4. u \in Uuids
  BY <1>2 DEF BalanceReferences
<1>5. i \in PaymentIds /\ balance_payments[i].uuid = None
  BY <1>1, <1>3 DEF Unbatched
<1>6. /\ PaymentIds' = PaymentIds
      /\ \A j \in PaymentIds : j # i => balance_payments'[j] = balance_payments[j]
      /\ balance_payments'[i].uuid = u
  <2>1. balance_payments[i] \in BalancePayment
    BY <1>5, DocumentTypes
  <2>2. balance_payments'[i] = [balance_payments[i] EXCEPT !.uuid = u]
    BY <1>1, <1>5 DEF DataTypeOK, PaymentIds
  <2>3. balance_payments'[i].uuid = u
    BY <2>1, <2>2 DEF BalancePayment
  <2> QED
    BY <1>1, <1>5, <2>3 DEF DataTypeOK, PaymentIds
<1>7. /\ {j \in PaymentIds : balance_payments'[j].uuid = u} = PaymentsOf(u) \cup {i}
      /\ \A v \in Uuids : v # u =>
            {j \in PaymentIds : balance_payments'[j].uuid = v} = PaymentsOf(v)
  BY <1>5, <1>6, NoneAssumption DEF PaymentsOf
<1>8. /\ batch'[r].pc = "stamp" /\ batch'[r].uuid = u
      /\ batch'[r].todo = batch[r].todo \ {i} /\ batch'[r].done = batch[r].done \cup {i}
      /\ \A s \in BatchRuns : s # r => batch'[s] = batch[s]
  <2>1. batch[r] \in BatchState
    BY DEF BalanceTypeOK
  <2> QED
    BY <1>1, <1>2, <2>1 DEF BalanceTypeOK, BatchState
<1>9. OneBatch'
  <2>1. batch[r].todo \ {i} \subseteq Unbatched'
    BY <1>3, <1>6 DEF Unbatched
  <2>2. \A s \in BatchRuns : s # r => batch'[s].pc = "idle"
    BY <1>3, <1>8
  <2>3. \A t \in TransactionIds' : transactions'[t].uuid # u
    BY <1>2, <1>3 DEF TransactionIds
  <2>4. batch[r].done \cup {i} = {j \in PaymentIds' : balance_payments'[j].uuid = u}
    BY <1>3, <1>6, <1>7
  <2> QED
    BY <1>2, <1>3, <1>8, <2>1, <2>2, <2>3, <2>4 DEF OneBatch, PaymentsOf
<1>10. \A h \in Hashes : sent[h].uuid # u
  BY <1>3 DEF Batches, WholeBatches
<1>11. WholeBatches'
  BY <1>2, <1>3, <1>6, <1>7, <1>10, UuidTypes DEF Batches, WholeBatches, PaymentsOf,
     TransactionIds, Hashes
<1>12. PaidUuids'
  BY DEF Batches, PaidUuids, Hashes
<1> QED
  BY <1>9, <1>11, <1>12 DEF Batches

(* The transaction that is queued holds all the payments of its batch. *)
LEMMA QueueBatchKeepsBatches ==
    ASSUME TypeInvariant, Batches, NEW r \in BatchRuns, QueueBatch(r),
           UNCHANGED <<sent, successfulPayments>>
    PROVE  Batches' /\ TransactionFrame /\ HashFrame /\ SuccessFrame
<1> USE DEF TypeInvariant, TypeOK
<1> DEFINE u == batch[r].uuid
           new == QueuedTransaction(u, batch[r].done)
<1>1. /\ batch[r].pc = "stamp" /\ transactions' = Append(transactions, new)
      /\ batch' = [batch EXCEPT ![r] = IdleBatch]
      /\ UNCHANGED balance_payments
  BY DEF QueueBatch, QueuePayments
<1>2. /\ new.uuid = u /\ new.payments = PaymentsOf(u)
      /\ new.txHash = NoHash /\ new.status # "success"
  BY <1>1 DEF QueuedTransaction, Batches, OneBatch
<1> HIDE DEF new
<1>3. /\ TransactionIds' = TransactionIds \cup {Len(transactions) + 1}
      /\ \A t \in TransactionIds : transactions'[t] = transactions[t]
      /\ transactions'[Len(transactions) + 1] = new
  <2>1. transactions \in Seq(Transaction)
    BY DEF DataTypeOK
  <2> QED
    BY <1>1, <2>1 DEF TransactionIds
<1>4. \A s \in BatchRuns : batch'[s].pc = "idle"
  <2>1. \A s \in BatchRuns : s # r => batch[s].pc = "idle"
    BY <1>1 DEF Batches, OneBatch
  <2> QED
    BY <1>1, <2>1 DEF BalanceTypeOK, IdleBatch
<1>5. OneBatch'
  BY <1>4 DEF OneBatch
<1>6. WholeBatches'
  <2>1. \A v : {i \in PaymentIds' : balance_payments'[i].uuid = v} = PaymentsOf(v)
    BY <1>1 DEF PaymentsOf, PaymentIds
  <2>2. ASSUME NEW t \in TransactionIds'
        PROVE  transactions'[t].payments = PaymentsOf(transactions'[t].uuid)
    BY <1>2, <1>3 DEF Batches, WholeBatches
  <2>3. ASSUME NEW h \in Hashes
        PROVE  /\ \E t \in TransactionIds' : transactions'[t].uuid = sent[h].uuid
               /\ sent[h].payments = PaymentsOf(sent[h].uuid)
    BY <1>3 DEF Batches, WholeBatches
  <2> QED
    BY <2>1, <2>2, <2>3 DEF WholeBatches, PaymentsOf, Hashes
<1>7. PaidUuids'
  BY DEF Batches, PaidUuids, Hashes
<1>8. TransactionFrame /\ HashFrame /\ SuccessFrame
  BY <1>2, <1>3 DEF TransactionFrame, HashFrame, SuccessFrame
<1> QED
  BY <1>5, <1>6, <1>7, <1>8 DEF Batches

(* What is mined successfully has a uuid that was not paid before. *)
LEMMA ChainKeepsBatches ==
    ASSUME TypeInvariant, Batches, NEW h \in Hashes, Mine(h) \/ Evict(h),
           UNCHANGED <<batchRunning, batch>>
    PROVE  Batches'
<1>1. /\ UNCHANGED <<balance_payments, transactions>> /\ SentFrame /\ Hashes' = Hashes
      /\ \A g \in Hashes : g # h => sent'[g] = sent[g]
      /\ \/ SentCopies
         \/ /\ sent[h].state # "success"
            /\ sent[h].uuid \notin successfulPayments
            /\ successfulPayments' = successfulPayments \cup {sent[h].uuid}
  BY ChainFrames
<1>2. PaymentFrame /\ TransactionFrame /\ TransactionCopies
  BY <1>1, UnchangedFrames DEF PaymentFrames, TransactionFrames
<1>3. CASE SentCopies
  BY <1>1, <1>2, <1>3, FramesKeepBatches DEF SentFrames
<1>4. CASE ~SentCopies
  <2>1. OneBatch'
    BY <1>2, FramesKeepOneBatch DEF Batches
  <2>2. WholeBatches'
    BY <1>1, <1>2, FramesKeepWholeBatches DEF Batches
  <2>3. sent'[h].uuid = sent[h].uuid
    BY <1>1 DEF SentFrame
  <2>4. \A g \in Hashes : sent[g].state = "success" => sent[g].uuid # sent[h].uuid
    BY <1>1, <1>4 DEF Batches, PaidUuids
  <2>5. PaidUuids'
    BY <1>1, <1>4, <2>3, <2>4 DEF Batches, PaidUuids
  <2> QED
    BY <2>1, <2>2, <2>5 DEF Batches
<1> QED
  BY <1>3, <1>4

(* Batches holds at the start, and every step keeps it. *)
LEMMA InitBatches == Init => Batches
<1> SUFFICES ASSUME Init PROVE Batches
  OBVIOUS
<1>1. TransactionIds = {} /\ Hashes = {}
  BY DEF Init, DataInit, TransactionInit, TransactionIds, Hashes
<1>2. OneBatch
  BY DEF Init, BalanceInit, IdleBatch, OneBatch
<1> QED
  BY <1>1, <1>2 DEF Batches, WholeBatches, PaidUuids

LEMMA NextBatches ==
    ASSUME TypeInvariant, Batches, [Next]_vars
    PROVE  Batches'
<1>1. CASE UNCHANGED vars
  BY <1>1, FramesKeepBatches, UnchangedFrames
     DEF vars, dataVars, balanceVars, transactionVars, PaymentFrames, TransactionFrames
<1>2. ASSUME UNCHANGED transactionVars,
             BalanceEnvironment \/ \E r \in BuildRuns : BuildStep(r) \/ FailBuild(r)
      PROVE  Batches'
  BY <1>2, BuildFrames, FramesKeepBatches, UnchangedFrames
     DEF transactionVars, PaymentFrames, TransactionFrames
<1>3. ASSUME UNCHANGED transactionVars, NEW r \in BatchRuns, BatchStep(r) \/ FailBatch(r)
      PROVE  Batches'
  <2>1. CASE FailBatch(r)
    <3>1. \A s \in BatchRuns : s # r => batch[s].pc = "idle"
      BY <2>1 DEF FailBatch, Batches, OneBatch
    <3>2. \A s \in BatchRuns : batch'[s].pc = "idle"
      BY <2>1, <3>1 DEF FailBatch, IdleBatch, TypeInvariant, TypeOK, BalanceTypeOK
    <3> QED
      BY <1>3, <2>1, <3>2, EndOfBatchKeepsBatches DEF FailBatch, dataVars, transactionVars
  <2> QED
    BY <1>3, <2>1, StartBatchKeepsBatches, StampKeepsBatches, QueueBatchKeepsBatches
       DEF BatchStep, transactionVars
<1>4. ASSUME UNCHANGED balanceVars, NEW r \in BroadcastRuns,
             BroadcastStep(r) \/ FailBroadcast(r)
      PROVE  Batches'
  BY <1>4, BroadcastFrames, FramesKeepBatches, UnchangedFrames
     DEF balanceVars, PaymentFrames
<1>5. ASSUME UNCHANGED balanceVars, NEW r \in CheckRuns,
             \/ r \in MonitorRuns /\ StartMonitor(r)
             \/ StartStuckCheck(r)
             \/ CheckStep(r)
             \/ FailCheck(r)
      PROVE  Batches'
  BY <1>5, CheckFrames, FramesKeepBatches, UnchangedFrames DEF balanceVars
<1>6. ASSUME UNCHANGED balanceVars, TaskStep \/ \E r \in ToolRuns : FailTool(r)
      PROVE  Batches'
  BY <1>6, TaskFrames, FramesKeepBatches, UnchangedFrames
     DEF balanceVars, PaymentFrames, TransactionFrames
<1>7. ASSUME UNCHANGED balanceVars, ChainStep
      PROVE  Batches'
  BY <1>7, ChainKeepsBatches DEF ChainStep, balanceVars
<1>8. CASE NewBlock /\ UNCHANGED <<balanceVars, transactionVars, faults>>
  BY <1>8, FramesKeepBatches, UnchangedFrames
     DEF NewBlock, balanceVars, transactionVars, PaymentFrames, TransactionFrames
<1>9. CASE Fault
  <2>1. CASE BalanceFault /\ UNCHANGED transactionVars
    BY <1>2, <1>3, <2>1 DEF BalanceFault
  <2>2. CASE TransactionFault /\ UNCHANGED balanceVars
    BY <1>4, <1>5, <1>6, <2>2 DEF TransactionFault
  <2>3. CASE BalanceCrash /\ TransactionCrash /\ UNCHANGED dataVars
    BY <2>3, EndOfBatchKeepsBatches
       DEF BalanceCrash, TransactionCrash, IdleBatch, dataVars, chainVars
  <2> QED
    BY <1>9, <2>1, <2>2, <2>3 DEF Fault
<1>10. CASE BalanceSide(BalanceEnvironment)
  BY <1>2, <1>10 DEF BalanceSide
<1>11. CASE \E r \in BuildRuns : BalanceSide(BuildStep(r))
  BY <1>2, <1>11 DEF BalanceSide
<1>12. CASE \E r \in BatchRuns : BalanceSide(BatchStep(r))
  BY <1>3, <1>12 DEF BalanceSide
<1>13. CASE \E r \in BroadcastRuns : TransactionSide(BroadcastStep(r))
  BY <1>4, <1>13 DEF TransactionSide
<1>14. CASE \/ \E r \in MonitorRuns : TransactionSide(StartMonitor(r))
            \/ \E r \in StuckRuns : TransactionSide(StartStuckCheck(r))
            \/ \E r \in CheckRuns : TransactionSide(CheckStep(r))
  BY <1>5, <1>14 DEF TransactionSide, CheckRuns
<1>15. CASE TransactionSide(TaskStep) \/ TransactionSide(ChainStep)
  BY <1>6, <1>7, <1>15 DEF TransactionSide
<1> QED
  BY <1>1, <1>8, <1>9, <1>10, <1>11, <1>12, <1>13, <1>14, <1>15 DEF Next

LEMMA BatchesAlways == Spec => [](TypeInvariant /\ Batches)
<1>1. TypeInvariant /\ Batches /\ [Next]_vars => Batches'
  BY NextBatches
<1> QED
  BY <1>1, InitBatches, TypeInvariance, PTL DEF Spec

(***************************************************************************)
(* The chain pays a balance payment at most once: two transactions that    *)
(* hold it hold all of one batch, under the uuid the contract knows.       *)
(***************************************************************************)
THEOREM PaysAtMostOnce == Spec => []PaidAtMostOnce
<1>1. TypeInvariant /\ Batches => PaidAtMostOnce
  <2> SUFFICES ASSUME TypeInvariant, Batches, NEW g \in Hashes, NEW h \in Hashes,
                      sent[g].state = "success", sent[h].state = "success",
                      NEW i \in sent[g].payments \cap sent[h].payments
               PROVE  g = h
    BY DEF PaidAtMostOnce
  <2>1. balance_payments[i].uuid = sent[g].uuid /\ balance_payments[i].uuid = sent[h].uuid
    BY DEF Batches, WholeBatches, PaymentsOf
  <2> QED
    BY <2>1 DEF Batches, PaidUuids
<1> QED
  BY <1>1, BatchesAlways, PTL

----------------------------------------------------------------------------
(* What every step keeps. *)

\* A payment that is in a batch stays in it.
BatchStays ==
    /\ PaymentIds \subseteq PaymentIds'
    /\ \A i \in PaymentIds :
        balance_payments[i].uuid # None =>
            balance_payments'[i].uuid = balance_payments[i].uuid

(* buildBatchedPaymentTransactions: only a payment without a uuid gets one. *)
LEMMA BatchFrames ==
    ASSUME TypeInvariant, Batches, NEW r \in BatchRuns, BatchStep(r) \/ FailBatch(r),
           UNCHANGED <<sent, successfulPayments>>
    PROVE  /\ BatchStays /\ ConfirmedStays /\ ConfirmedFrame
           /\ TransactionFrame /\ HashFrame /\ SuccessFrame
<1> USE DEF TypeInvariant, TypeOK
<1>1. CASE StampPayment(r)
  <2>1. PICK i \in batch[r].todo :
            balance_payments' = [balance_payments EXCEPT ![i].uuid = batch[r].uuid]
    BY <1>1 DEF StampPayment
  <2>2. i \in PaymentIds /\ balance_payments[i].uuid = None
    <3>1. batch[r].todo \subseteq Unbatched
      BY <1>1 DEF StampPayment, Batches, OneBatch
    <3> QED
      BY <3>1 DEF Unbatched
  <2> DEFINE new == [balance_payments[i] EXCEPT !.uuid = batch[r].uuid]
  <2>3. /\ new.confirmed = balance_payments[i].confirmed
        /\ new.txHash = balance_payments[i].txHash
    BY <2>2, DocumentTypes DEF BalancePayment
  <2>4. balance_payments' = [balance_payments EXCEPT ![i] = new]
    BY <2>1
  <2> HIDE DEF new
  <2>5. /\ PaymentIds' = PaymentIds
        /\ \A j \in PaymentIds :
            balance_payments'[j] = IF j = i THEN new ELSE balance_payments[j]
    BY <2>4, UpdatePayment
  <2>6. BatchStays
    BY <2>2, <2>5 DEF BatchStays
  <2>7. ConfirmedStays
    BY <2>3, <2>5 DEF ConfirmedStays
  <2>8. ConfirmedFrame
    <3>1. ASSUME NEW j \in PaymentIds
          PROVE  /\ balance_payments'[j].confirmed = balance_payments[j].confirmed
                 /\ balance_payments'[j].txHash = balance_payments[j].txHash
      BY <2>3, <2>5
    <3> QED
      BY <2>5, <3>1 DEF ConfirmedFrame
  <2>9. UNCHANGED transactions
    BY <1>1 DEF StampPayment
  <2> QED
    BY <2>6, <2>7, <2>8, <2>9, UnchangedFrames DEF TransactionFrames
<1>2. CASE UNCHANGED balance_payments
  <2>1. BatchStays /\ ConfirmedStays /\ ConfirmedFrame
    BY <1>2 DEF BatchStays, ConfirmedStays, ConfirmedFrame, PaymentIds
  <2>2. CASE QueueBatch(r)
    BY <2>1, <2>2, QueueBatchKeepsBatches
  <2>3. CASE UNCHANGED transactions
    BY <2>1, <2>3, UnchangedFrames DEF TransactionFrames
  <2> QED
    BY <1>2, <2>2, <2>3, <1>1 DEF BatchStep, StartBatch, BeginBatch, FailBatch, dataVars
<1> QED
  BY <1>1, <1>2 DEF BatchStep, StartBatch, BeginBatch, QueueBatch, QueuePayments,
     FailBatch, dataVars

(* The payments of a step that keeps PaymentFrames stay in their batches. *)
LEMMA PaymentFrameStays == PaymentFrame => BatchStays
BY DEF PaymentFrame, BatchStays

(* No step moves a payment to another batch or takes a confirmation back, and *)
(* no step changes what a transaction holds or undoes what was paid.          *)
LEMMA EveryStepKeeps ==
    ASSUME TypeInvariant, Batches, [Next]_vars
    PROVE  BatchStays /\ ConfirmedStays /\ TransactionFrame /\ SentFrame
<1> DEFINE Kept == BatchStays /\ ConfirmedStays /\ TransactionFrame /\ SentFrame
<1> USE UnchangedFrames, PaymentFrameStays DEF PaymentFrames, TransactionFrames, SentFrames
<1>1. CASE UNCHANGED vars
  BY <1>1 DEF vars, dataVars, transactionVars
<1>2. ASSUME UNCHANGED transactionVars,
             BalanceEnvironment \/ \E r \in BuildRuns : BuildStep(r) \/ FailBuild(r)
      PROVE  Kept
  BY <1>2, BuildFrames DEF transactionVars
<1>3. ASSUME UNCHANGED transactionVars, NEW r \in BatchRuns, BatchStep(r) \/ FailBatch(r)
      PROVE  Kept
  BY <1>3, BatchFrames DEF transactionVars
<1>4. ASSUME NEW r \in BroadcastRuns, BroadcastStep(r) \/ FailBroadcast(r)
      PROVE  Kept
  BY <1>4, BroadcastFrames
<1>5. ASSUME NEW r \in CheckRuns,
             \/ r \in MonitorRuns /\ StartMonitor(r)
             \/ StartStuckCheck(r)
             \/ CheckStep(r)
             \/ FailCheck(r)
      PROVE  Kept
  BY <1>5, CheckFrames
<1>6. ASSUME TaskStep \/ \E r \in ToolRuns : FailTool(r)
      PROVE  Kept
  BY <1>6, TaskFrames
<1>7. ASSUME ChainStep
      PROVE  Kept
  BY <1>7, ChainFrames DEF ChainStep
<1>8. CASE NewBlock /\ UNCHANGED <<balanceVars, transactionVars, faults>>
  BY <1>8 DEF NewBlock, transactionVars
<1>9. CASE Fault
  <2>1. CASE BalanceFault /\ UNCHANGED transactionVars
    BY <1>2, <1>3, <2>1 DEF BalanceFault
  <2>2. CASE TransactionFault /\ UNCHANGED balanceVars
    BY <1>4, <1>5, <1>6, <2>2 DEF TransactionFault
  <2>3. CASE BalanceCrash /\ TransactionCrash /\ UNCHANGED dataVars
    BY <2>3 DEF TransactionCrash, dataVars, chainVars
  <2> QED
    BY <1>9, <2>1, <2>2, <2>3 DEF Fault
<1>10. CASE BalanceSide(BalanceEnvironment)
  BY <1>2, <1>10 DEF BalanceSide
<1>11. CASE \E r \in BuildRuns : BalanceSide(BuildStep(r))
  BY <1>2, <1>11 DEF BalanceSide
<1>12. CASE \E r \in BatchRuns : BalanceSide(BatchStep(r))
  BY <1>3, <1>12 DEF BalanceSide
<1>13. CASE \E r \in BroadcastRuns : TransactionSide(BroadcastStep(r))
  BY <1>4, <1>13 DEF TransactionSide
<1>14. CASE \/ \E r \in MonitorRuns : TransactionSide(StartMonitor(r))
            \/ \E r \in StuckRuns : TransactionSide(StartStuckCheck(r))
            \/ \E r \in CheckRuns : TransactionSide(CheckStep(r))
  BY <1>5, <1>14 DEF TransactionSide, CheckRuns
<1>15. CASE TransactionSide(TaskStep) \/ TransactionSide(ChainStep)
  BY <1>6, <1>7, <1>15 DEF TransactionSide
<1> QED
  BY <1>1, <1>8, <1>9, <1>10, <1>11, <1>12, <1>13, <1>14, <1>15 DEF Next

(***************************************************************************)
(* A payment never leaves the batch it was put in, whichever calls overlap *)
(* or fail, and no write takes its confirmation back.                      *)
(***************************************************************************)
THEOREM BatchStaysFinal == Spec => BatchIsFinal
<1>1. ASSUME TypeInvariant, Batches, [Next]_vars
      PROVE  [\A i \in PaymentIds :
                /\ balance_payments[i].uuid # None =>
                        balance_payments'[i].uuid = balance_payments[i].uuid
                /\ balance_payments[i].confirmed => balance_payments'[i].confirmed]_vars
  BY <1>1, EveryStepKeeps DEF BatchStays, ConfirmedStays
<1> QED
  BY <1>1, BatchesAlways, PTL DEF Spec, BatchIsFinal

----------------------------------------------------------------------------
(* Confirmations is kept. *)

\* What a step that is no confirmation, settlement or broadcast keeps.
QuietFrames ==
    /\ BatchStays /\ ConfirmedFrame
    /\ TransactionFrame /\ HashFrame /\ SuccessFrame
    /\ SentFrame

(* A hash stays the hash of its transaction. *)
LEMMA HashStays ==
    ASSUME TransactionFrame, SentFrame
    PROVE  \A t, h : HashOf(t, h) =>
                /\ t \in TransactionIds' /\ h \in Hashes'
                /\ sent'[h].uuid = transactions'[t].uuid
                /\ transactions'[t].uuid = transactions[t].uuid
                /\ sent[h].state = "success" => sent'[h].state = "success"
BY DEF TransactionFrame, SentFrame, HashOf

(* A batch only grows. *)
LEMMA BatchGrows ==
    ASSUME BatchStays
    PROVE  \A u \in Uuids :
                PaymentsOf(u) \subseteq {i \in PaymentIds' : balance_payments'[i].uuid = u}
BY NoneAssumption DEF BatchStays, PaymentsOf

LEMMA StoredHashesKept ==
    ASSUME StoredHashes, HashFrame, TransactionFrame, SentFrame
    PROVE  StoredHashes'
BY HashStays DEF StoredHashes, HashFrame, HashOf

LEMMA SuccessKept ==
    ASSUME SuccessIsPaid, SuccessFrame, TransactionFrame, SentFrame
    PROVE  SuccessIsPaid'
<1>1. ASSUME NEW t \in TransactionIds', transactions'[t].status = "success"
      PROVE  transactions'[t].uuid \in successfulPayments'
  <2>1. t \in TransactionIds /\ transactions[t].status = "success"
    BY <1>1 DEF SuccessFrame
  <2>2. transactions[t].uuid \in successfulPayments
    BY <2>1 DEF SuccessIsPaid, WithStatus
  <2> QED
    BY <2>1, <2>2 DEF TransactionFrame, SentFrame
<1> QED
  BY <1>1 DEF SuccessIsPaid, WithStatus, TransactionIds

LEMMA ConfirmedKept ==
    ASSUME ConfirmedIsPaid, ConfirmedFrame, SentFrame
    PROVE  ConfirmedIsPaid'
BY DEF ConfirmedIsPaid, ConfirmedFrame, SentFrame

(* What a call knows stays true. *)
LEMMA KnowledgeKept ==
    ASSUME TypeInvariant, NEW call, CheckKnows(call),
           BatchStays, TransactionFrame, SentFrame
    PROVE  CheckKnows(call)'
<1>1. \A x \in call.list : HashOf(x[1], x[2])'
  BY HashStays DEF CheckKnows, HashOf
<1>2. ASSUME call.pc \in {"settle", "mark", "confirm", "credit"}
      PROVE  /\ HashOf(call.tx, call.hash)'
             /\ call.pc # "settle" => call.ok
             /\ call.ok => sent'[call.hash].state = "success"
  <2>1. /\ HashOf(call.tx, call.hash)
        /\ call.pc # "settle" => call.ok
        /\ call.ok => sent[call.hash].state = "success"
    BY <1>2 DEF CheckKnows
  <2> QED
    BY <2>1, HashStays DEF HashOf
<1>3. ASSUME call.pc \in {"confirm", "credit"}
      PROVE  call.todo \subseteq
                {i \in PaymentIds' :
                    balance_payments'[i].uuid = transactions'[call.tx].uuid}
  <2>1. /\ HashOf(call.tx, call.hash)
        /\ call.todo \subseteq PaymentsOf(transactions[call.tx].uuid)
    BY <1>3 DEF CheckKnows
  <2> QED
    BY <2>1, HashStays, BatchGrows, UuidTypes DEF HashOf
<1> QED
  BY <1>1, <1>2, <1>3 DEF CheckKnows, PaymentsOf, HashOf

(* A check knows what it knew, or what its step has made known. *)
LEMMA CheckKnowsKept ==
    ASSUME TypeInvariant, NEW r \in CheckRuns, CheckKnows(check'[r]),
           BatchStays, TransactionFrame, SentFrame
    PROVE  CheckKnows(check[r])'
<1>1. \A c : CheckKnows(c) => CheckKnows(c)'
  BY KnowledgeKept
<1> QED
  BY <1>1 DEF CheckKnows, HashOf, PaymentsOf

LEMMA QuietKeepsConfirmations ==
    ASSUME TypeInvariant, Confirmations, QuietFrames, UNCHANGED <<broadcast, check>>
    PROVE  Confirmations'
<1> USE DEF Confirmations, OwnHashes, QuietFrames
<1>1. StoredHashes'
  BY StoredHashesKept
<1>2. BroadcastHashes'
  BY HashStays DEF BroadcastHashes, HashOf
<1>3. \A r \in CheckRuns : CheckKnows(check[r])'
  BY CheckKnowsKept
<1>4. SuccessIsPaid' /\ ConfirmedIsPaid'
  BY SuccessKept, ConfirmedKept
<1> QED
  BY <1>1, <1>2, <1>3, <1>4

(* A recorded hash was remembered for its transaction, and a remembered one is *)
(* that of the copy that was just sent.                                       *)
LEMMA BroadcastKeepsConfirmations ==
    ASSUME TypeInvariant, Confirmations, NEW r \in BroadcastRuns,
           BroadcastStep(r) \/ FailBroadcast(r)
    PROVE  Confirmations'
<1> USE DEF Confirmations, OwnHashes
<1>1. /\ UNCHANGED balance_payments /\ TransactionFrame /\ SuccessFrame /\ SentFrame
      /\ RecordPending(r) \/ HashFrame
  BY BroadcastFrames DEF SentFrames
<1>2. BatchStays /\ ConfirmedFrame
  BY <1>1, UnchangedFrames, PaymentFrameStays DEF PaymentFrames
<1>3. StoredHashes'
  <2>1. CASE HashFrame
    BY <1>1, <2>1, StoredHashesKept
  <2>2. CASE RecordPending(r)
    <3> DEFINE d == transactions[broadcast[r].tx]
               new == IF d.status = "deleted" THEN d
                      ELSE [d EXCEPT !.status = "pending", !.txHash = broadcast[r].hash]
    <3>1. transactions' = [transactions EXCEPT ![broadcast[r].tx] = new]
      BY <2>2 DEF RecordPending
    <3>2. HashOf(broadcast[r].tx, broadcast[r].hash)
      BY <2>2 DEF RecordPending, BroadcastHashes
    <3>3. broadcast[r].tx \in TransactionIds =>
            /\ new.uuid = d.uuid /\ new.payments = d.payments
            /\ new.txHash \in {d.txHash, broadcast[r].hash}
      BY <3>2, DocumentTypes DEF Transaction, TypeInvariant, TypeOK
    <3> HIDE DEF new
    <3>4. /\ TransactionIds' = TransactionIds
          /\ \A u \in TransactionIds :
                transactions'[u] = IF u = broadcast[r].tx THEN new ELSE transactions[u]
          /\ TransactionFrame /\ TransactionCopies
      BY <3>1, <3>3, UpdateTransaction DEF TypeInvariant, TypeOK
    <3>5. \A t \in TransactionIds :
            transactions'[t].txHash # NoHash => HashOf(t, transactions'[t].txHash)
      BY <3>2, <3>3, <3>4 DEF StoredHashes
    <3> QED
      BY <1>1, <3>4, <3>5, HashStays DEF StoredHashes, HashOf
  <2> QED
    BY <1>1, <2>1, <2>2
<1>4. BroadcastHashes'
  <2>1. \A s \in BroadcastRuns \ {r} : broadcast'[s] = broadcast[s]
    BY DEF BroadcastStep, CheckPending, FindQueued, EstimateMultisend, AcceptMultisend,
       RejectMultisend, RecordPending, RecordSkipped, FailBroadcast, GoTo,
       TypeInvariant, TypeOK, TransactionTypeOK
  <2>2. broadcast'[r].pc = "pending" => HashOf(broadcast[r].tx, broadcast[r].hash)'
    <3>1. broadcast[r] \in BroadcastState /\ broadcast \in [BroadcastRuns -> BroadcastState]
      BY DEF TypeInvariant, TypeOK, TransactionTypeOK
    <3>2. CASE AcceptMultisend(r)
      <4>1. broadcast'[r].tx = broadcast[r].tx /\ broadcast'[r].hash = Len(sent) + 1
        BY <3>1, <3>2 DEF AcceptMultisend, BroadcastState
      <4>2. UNCHANGED transactions
        BY <3>2 DEF AcceptMultisend, dataVars
      <4> QED
        <5>1. /\ broadcast[r].tx \in TransactionIds
              /\ Len(sent) + 1 \in Hashes'
              /\ sent'[Len(sent) + 1].uuid = transactions[broadcast[r].tx].uuid
          BY <3>2, AcceptedTransaction
        <5> QED
          BY <4>1, <4>2, <5>1 DEF HashOf, TransactionIds
    <3>3. CASE ~AcceptMultisend(r)
      <4>1. ASSUME NEW pc, GoTo(r, pc) PROVE broadcast'[r].pc = pc
        <5>1. broadcast'[r] = [broadcast[r] EXCEPT !.pc = pc]
          BY <3>1, <4>1 DEF GoTo
        <5> QED
          BY <3>1, <5>1 DEF BroadcastState
      <4>2. broadcast' = [broadcast EXCEPT ![r] = IdleBroadcast] =>
                broadcast'[r].pc = "idle"
        BY <3>1 DEF IdleBroadcast
      <4>3. FindQueued(r) => broadcast'[r].pc \in {"idle", "estimate"}
        BY <3>1, <4>1 DEF FindQueued, BroadcastState
      <4>4. EstimateMultisend(r) => broadcast'[r].pc \in {"send", "skip"}
        BY <3>1, <4>1 DEF EstimateMultisend, BroadcastState
      <4>5. broadcast'[r].pc # "pending"
        BY <3>3, <4>1, <4>2, <4>3, <4>4 DEF BroadcastStep, CheckPending, RejectMultisend,
           RecordPending, RecordSkipped, FailBroadcast
      <4> QED
        BY <4>5
    <3> QED
      BY <3>2, <3>3
  <2>3. ASSUME NEW s \in BroadcastRuns, s # r, broadcast[s].pc = "pending"
        PROVE  HashOf(broadcast[s].tx, broadcast[s].hash)'
    <3>1. HashOf(broadcast[s].tx, broadcast[s].hash)
      BY <2>3 DEF BroadcastHashes
    <3>2. UNCHANGED broadcast[s]
      BY <2>1, <2>3
    <3> QED
      BY <1>1, <3>1, <3>2, HashStays DEF HashOf
  <2>4. \A s \in BroadcastRuns :
            broadcast'[s].pc = "pending" => HashOf(broadcast[s].tx, broadcast[s].hash)'
    BY <2>1, <2>2, <2>3 DEF HashOf
  <2> QED
    BY <2>4 DEF BroadcastHashes, HashOf
<1>5. UNCHANGED check
  BY DEF BroadcastStep, CheckPending, FindQueued, EstimateMultisend, AcceptMultisend,
     RejectMultisend, RecordPending, RecordSkipped, FailBroadcast, BroadcastOnly, checkVars
<1>6. \A s \in CheckRuns : CheckKnows(check[s])'
  BY <1>1, <1>2, <1>5, CheckKnowsKept
<1>7. SuccessIsPaid' /\ ConfirmedIsPaid'
  BY <1>1, <1>2, SuccessKept, ConfirmedKept
<1> QED
  BY <1>3, <1>4, <1>6, <1>7

(* What a step of a check adds to what the call knows: the hashes it has read, *)
(* the receipt, and the payments that carry the uuid of the transaction.       *)
LEMMA CheckLearns ==
    ASSUME TypeInvariant, Confirmations, NEW r \in CheckRuns,
           \/ r \in MonitorRuns /\ StartMonitor(r)
           \/ StartStuckCheck(r)
           \/ CheckStep(r)
           \/ FailCheck(r)
    PROVE  /\ CheckKnows(check'[r])
           /\ \A s \in CheckRuns : s # r => check'[s] = check[s]
<1>1. check \in [CheckRuns -> CheckState] /\ check[r] \in CheckState
  BY DEF TypeInvariant, TypeOK, TransactionTypeOK
<1>2. CheckKnows(check[r])
  BY DEF Confirmations, OwnHashes
<1>3. ASSUME NEW new, CheckKnows(new), check' = [check EXCEPT ![r] = new]
      PROVE  /\ CheckKnows(check'[r])
             /\ \A s \in CheckRuns : s # r => check'[s] = check[s]
  <2>1. check'[r] = new /\ \A s \in CheckRuns : s # r => check'[s] = check[s]
    BY <1>1, <1>3
  <2> QED
    BY <1>3, <2>1
<1>4. ASSUME NEW status, BeginCheck(r, status)
      PROVE  /\ CheckKnows(check'[r])
             /\ \A s \in CheckRuns : s # r => check'[s] = check[s]
  <2> DEFINE found == {t \in WithStatus(status) : transactions[t].txHash # NoHash}
             list == {<<t, transactions[t].txHash>> : t \in found}
             new == [IdleCheck EXCEPT !.pc = "next", !.list = list]
  <2>1. \A x \in list : HashOf(x[1], x[2])
    BY DEF Confirmations, OwnHashes, StoredHashes, WithStatus
  <2>2. new.pc = "next" /\ new.list = list
    BY DEF IdleCheck
  <2>3. check' = [check EXCEPT ![r] = new]
    BY <1>4 DEF BeginCheck
  <2> HIDE DEF new, list
  <2> QED
    BY <1>3, <2>1, <2>2, <2>3 DEF CheckKnows
<1>5. ASSUME NEW t \in TransactionIds, NEW h \in Hashes, GotReceipt(r, t, h)
      PROVE  /\ CheckKnows(check'[r])
             /\ \A s \in CheckRuns : s # r => check'[s] = check[s]
  <2> DEFINE new == [check[r] EXCEPT
                !.pc = "settle", !.tx = t, !.hash = h,
                !.ok = (sent[h].state = "success"), !.list = @ \ {<<t, h>>}]
  <2>1. /\ new.pc = "settle" /\ new.tx = t /\ new.hash = h
        /\ new.ok => sent[h].state = "success"
        /\ new.list \subseteq check[r].list
    BY <1>1 DEF CheckState
  <2>2. check' = [check EXCEPT ![r] = new]
    BY <1>1, <1>5 DEF GotReceipt, TakeReceipt
  <2>3. HashOf(t, h)
    BY <1>2, <1>5 DEF GotReceipt, TakeReceipt, CheckKnows
  <2> HIDE DEF new
  <2> QED
    BY <1>2, <1>3, <2>1, <2>2, <2>3 DEF CheckKnows
<1>6. ASSUME NEW t \in TransactionIds, NEW h \in Hashes, NoReceipt(r, t, h)
      PROVE  /\ CheckKnows(check'[r])
             /\ \A s \in CheckRuns : s # r => check'[s] = check[s]
  <2> DEFINE new == [check[r] EXCEPT !.list = @ \ {<<t, h>>}]
  <2>1. new.pc = "next" /\ new.list \subseteq check[r].list
    BY <1>1, <1>6 DEF CheckState, NoReceipt
  <2>2. check' = [check EXCEPT ![r] = new]
    BY <1>1, <1>6 DEF NoReceipt
  <2> HIDE DEF new
  <2> QED
    BY <1>2, <1>3, <2>1, <2>2 DEF CheckKnows
<1>7. CASE FinishCheck(r) \/ FailCheck(r)
  <2>1. CheckKnows(IdleCheck)
    BY DEF CheckKnows, IdleCheck
  <2> QED
    BY <1>3, <1>7, <2>1 DEF FinishCheck, FailCheck, EndCheck
<1>8. CASE SettleTransaction(r)
  <2> DEFINE new == [check[r] EXCEPT !.pc = IF check[r].ok THEN "mark" ELSE "next"]
  <2>1. /\ new.pc = (IF check[r].ok THEN "mark" ELSE "next")
        /\ new.list = check[r].list /\ new.tx = check[r].tx
        /\ new.hash = check[r].hash /\ new.ok = check[r].ok
    BY <1>1 DEF CheckState
  <2>2. check' = [check EXCEPT ![r] = new] /\ check[r].pc = "settle"
    BY <1>1, <1>8 DEF SettleTransaction
  <2> HIDE DEF new
  <2>3. CheckKnows(new)
    BY <1>2, <2>1, <2>2 DEF CheckKnows
  <2> QED
    BY <1>3, <2>2, <2>3
<1>9. CASE FindBatchPayments(r)
  <2> DEFINE found == {i \in PaymentIds :
                        /\ balance_payments[i].uuid = transactions[check[r].tx].uuid
                        /\ ~balance_payments[i].confirmed}
             new == [check[r] EXCEPT !.todo = found,
                                     !.pc = IF found = {} THEN "next" ELSE "confirm"]
  <2>1. found \subseteq PaymentsOf(transactions[check[r].tx].uuid)
    BY DEF PaymentsOf
  <2>2. check' = [check EXCEPT ![r] = new] /\ check[r].pc = "mark"
    BY <1>1, <1>9 DEF FindBatchPayments
  <2> HIDE DEF found
  <2>3. /\ new.pc \in {"next", "confirm"} /\ new.todo = found
        /\ new.list = check[r].list /\ new.tx = check[r].tx
        /\ new.hash = check[r].hash /\ new.ok = check[r].ok
    BY <1>1 DEF CheckState
  <2> HIDE DEF new
  <2>4. CheckKnows(new)
    BY <1>2, <2>1, <2>2, <2>3 DEF CheckKnows
  <2> QED
    BY <1>3, <2>2, <2>4
<1>10. CASE ConfirmPayment(r)
  <2> DEFINE new == [check[r] EXCEPT !.pc = "credit"]
  <2>1. /\ new.pc = "credit" /\ new.todo = check[r].todo
        /\ new.list = check[r].list /\ new.tx = check[r].tx
        /\ new.hash = check[r].hash /\ new.ok = check[r].ok
    BY <1>1 DEF CheckState
  <2>2. check' = [check EXCEPT ![r] = new] /\ check[r].pc = "confirm"
    BY <1>1, <1>10 DEF ConfirmPayment
  <2> HIDE DEF new
  <2>3. CheckKnows(new)
    BY <1>2, <2>1, <2>2 DEF CheckKnows
  <2> QED
    BY <1>3, <2>2, <2>3
<1>11. CASE CreditMiner(r)
  <2> DEFINE rest == check[r].todo \ {First(check[r].todo)}
             new == [check[r] EXCEPT !.todo = rest,
                                     !.pc = IF rest = {} THEN "next" ELSE "confirm"]
  <2>1. rest \subseteq check[r].todo
    OBVIOUS
  <2>2. check' = [check EXCEPT ![r] = new] /\ check[r].pc = "credit"
    BY <1>1, <1>11 DEF CreditMiner
  <2> HIDE DEF rest
  <2>3. /\ new.pc \in {"next", "confirm"} /\ new.todo = rest
        /\ new.list = check[r].list /\ new.tx = check[r].tx
        /\ new.hash = check[r].hash /\ new.ok = check[r].ok
    BY <1>1 DEF CheckState
  <2> HIDE DEF new
  <2>4. CheckKnows(new)
    BY <1>2, <2>1, <2>2, <2>3 DEF CheckKnows
  <2> QED
    BY <1>3, <2>2, <2>4
<1> QED
  BY <1>4, <1>5, <1>6, <1>7, <1>8, <1>9, <1>10, <1>11
     DEF StartMonitor, StartStuckCheck, CheckStep

(* A settled transaction has a hash that succeeded, so its uuid is paid; and a  *)
(* payment that is confirmed is in the transaction whose hash is written to it. *)
LEMMA CheckKeepsConfirmations ==
    ASSUME TypeInvariant, Batches, Confirmations, NEW r \in CheckRuns,
           \/ r \in MonitorRuns /\ StartMonitor(r)
           \/ StartStuckCheck(r)
           \/ CheckStep(r)
           \/ FailCheck(r)
    PROVE  Confirmations'
<1> USE DEF TypeInvariant, TypeOK
<1>1. /\ UNCHANGED <<sent, successfulPayments, broadcast>>
      /\ BatchStays /\ TransactionFrame /\ HashFrame
      /\ ConfirmPayment(r) \/ ConfirmedFrame
      /\ SettleTransaction(r) \/ SuccessFrame
  BY CheckFrames, PaymentFrameStays
<1>2. SentFrame
  BY <1>1, UnchangedFrames DEF SentFrames
<1>3. StoredHashes'
  BY <1>1, <1>2, StoredHashesKept DEF Confirmations, OwnHashes
<1>4. BroadcastHashes'
  BY <1>1, <1>2, HashStays DEF Confirmations, OwnHashes, BroadcastHashes, HashOf
<1>5. ASSUME NEW s \in CheckRuns
      PROVE  CheckKnows(check[s])'
  <2>1. CheckKnows(check[s])
    BY DEF Confirmations, OwnHashes
  <2>2. CheckKnows(check'[s])
    <3>1. CASE s = r
      BY <3>1, CheckLearns
    <3>2. CASE s # r
      <4>1. check'[s] = check[s]
        BY <3>2, CheckLearns
      <4> QED
        BY <2>1, <4>1
    <3> QED
      BY <3>1, <3>2
  <2> QED
    BY <1>1, <1>2, <2>2, CheckKnowsKept
<1>6. SuccessIsPaid'
  <2>1. CASE SuccessFrame
    BY <1>1, <1>2, <2>1, SuccessKept DEF Confirmations
  <2>2. CASE SettleTransaction(r)
    <3> DEFINE t == check[r].tx
               status == IF check[r].ok THEN "success" ELSE "reverted"
    <3>1. SetStatus(t, status) /\ check[r].pc = "settle"
      BY <2>2 DEF SettleTransaction
    <3>2. status = "success" => transactions[t].uuid \in successfulPayments
      <4>1. HashOf(t, check[r].hash) /\ (check[r].ok => sent[check[r].hash].state = "success")
        BY <3>1 DEF Confirmations, OwnHashes, CheckKnows
      <4> QED
        BY <4>1 DEF HashOf, Batches, PaidUuids
    <3> HIDE DEF t, status
    <3>3. /\ TransactionIds' = TransactionIds
          /\ \A u \in TransactionIds :
                transactions'[u].status = "success" =>
                    transactions[u].status = "success" \/ (u = t /\ status = "success")
      BY <3>1, SetStatusFrames
    <3>4. ASSUME NEW u \in TransactionIds, transactions'[u].status = "success"
          PROVE  transactions'[u].uuid \in successfulPayments'
      <4>1. transactions[u].uuid \in successfulPayments
        BY <3>2, <3>3, <3>4 DEF Confirmations, SuccessIsPaid, WithStatus
      <4> QED
        BY <1>1, <4>1 DEF TransactionFrame
    <3> QED
      BY <3>3, <3>4 DEF SuccessIsPaid, WithStatus
  <2> QED
    BY <1>1, <2>1, <2>2
<1>7. ConfirmedIsPaid'
  <2>1. CASE ConfirmedFrame
    BY <1>2, <2>1, ConfirmedKept DEF Confirmations
  <2>2. CASE ConfirmPayment(r)
    <3> DEFINE i == First(check[r].todo)
               h == check[r].hash
               new == [balance_payments[i] EXCEPT !.confirmed = TRUE, !.txHash = h]
    <3>1. balance_payments' = [balance_payments EXCEPT ![i] = new] /\ check[r].pc = "confirm"
      BY <2>2 DEF ConfirmPayment, DataTypeOK
    <3>2. /\ HashOf(check[r].tx, h) /\ sent[h].state = "success"
          /\ check[r].todo \subseteq PaymentsOf(transactions[check[r].tx].uuid)
      BY <3>1 DEF Confirmations, OwnHashes, CheckKnows
    <3>3. i \in check[r].todo
      <4>1. /\ check[r].todo # {} /\ check[r].todo \subseteq PaymentIds
            /\ PaymentIds \subseteq Nat
        BY <3>1, DocumentTypes DEF TransactionReferences
      <4> QED
        BY <4>1, FirstInSet
    <3>4. h \in Hashes /\ i \in PaymentIds /\ i \in sent[h].payments
      BY <3>2, <3>3 DEF HashOf, Batches, WholeBatches, PaymentsOf
    <3>5. new.txHash = h
      BY <3>4, DocumentTypes DEF BalancePayment
    <3> HIDE DEF i, h, new
    <3>6. /\ PaymentIds' = PaymentIds
          /\ \A j \in PaymentIds :
                balance_payments'[j] = IF j = i THEN new ELSE balance_payments[j]
      BY <3>1, UpdatePayment
    <3>7. ASSUME NEW j \in PaymentIds, balance_payments'[j].confirmed
          PROVE  LET g == balance_payments'[j].txHash IN
                 g \in Hashes /\ sent[g].state = "success" /\ j \in sent[g].payments
      <4>1. CASE j = i
        BY <3>2, <3>4, <3>5, <3>6, <4>1
      <4>2. CASE j # i
        <5>1. balance_payments'[j] = balance_payments[j]
          BY <3>6, <4>2
        <5> QED
          BY <3>7, <5>1 DEF Confirmations, ConfirmedIsPaid
      <4> QED
        BY <4>1, <4>2
    <3> QED
      BY <1>1, <3>6, <3>7 DEF ConfirmedIsPaid, Hashes
  <2> QED
    BY <1>1, <2>1, <2>2
<1> QED
  BY <1>3, <1>4, <1>5, <1>6, <1>7 DEF Confirmations, OwnHashes

(* The process dies: no call is left that knows anything. *)
LEMMA CrashKeepsConfirmations ==
    ASSUME TypeInvariant, Confirmations, TransactionCrash, UNCHANGED dataVars
    PROVE  Confirmations'
<1>1. UNCHANGED <<balance_payments, transactions, sent, successfulPayments>>
  BY DEF TransactionCrash, dataVars, chainVars
<1>2. PaymentFrames /\ TransactionFrames /\ SentFrame
  BY <1>1, UnchangedFrames DEF SentFrames
<1>3. StoredHashes'
  BY <1>2, StoredHashesKept DEF Confirmations, OwnHashes, TransactionFrames
<1>4. BroadcastHashes'
  BY DEF TransactionCrash, IdleBroadcast, BroadcastHashes
<1>5. ASSUME NEW r \in CheckRuns PROVE CheckKnows(check[r])'
  BY DEF TransactionCrash, IdleCheck, CheckKnows
<1>6. SuccessIsPaid' /\ ConfirmedIsPaid'
  BY <1>2, SuccessKept, ConfirmedKept DEF Confirmations, TransactionFrames, PaymentFrames
<1> QED
  BY <1>3, <1>4, <1>5, <1>6 DEF Confirmations, OwnHashes

(* Confirmations holds at the start, and every step keeps it. *)
LEMMA InitConfirmations == Init => Confirmations
<1> SUFFICES ASSUME Init PROVE Confirmations
  OBVIOUS
<1>1. PaymentIds = {} /\ TransactionIds = {}
  BY DEF Init, DataInit, PaymentIds, TransactionIds
<1>2. BroadcastHashes
  BY DEF Init, TransactionInit, IdleBroadcast, BroadcastHashes
<1>3. \A r \in CheckRuns : CheckKnows(check[r])
  BY DEF Init, TransactionInit, IdleCheck, CheckKnows
<1> QED
  BY <1>1, <1>2, <1>3 DEF Confirmations, OwnHashes, StoredHashes, SuccessIsPaid,
     ConfirmedIsPaid, WithStatus

LEMMA NextConfirmations ==
    ASSUME TypeInvariant, Batches, Confirmations, [Next]_vars
    PROVE  Confirmations'
<1>1. ASSUME QuietFrames, UNCHANGED <<broadcast, check>>
      PROVE  Confirmations'
  BY <1>1, QuietKeepsConfirmations
<1>2. BatchStays /\ TransactionFrame /\ SentFrame
  BY EveryStepKeeps
<1>3. CASE UNCHANGED vars
  <2>1. ConfirmedFrame /\ HashFrame /\ SuccessFrame
    BY <1>3, UnchangedFrames DEF vars, dataVars, PaymentFrames, TransactionFrames
  <2> QED
    BY <1>1, <1>2, <1>3, <2>1 DEF vars, transactionVars, QuietFrames
<1>4. ASSUME UNCHANGED transactionVars,
             BalanceEnvironment \/ \E r \in BuildRuns : BuildStep(r) \/ FailBuild(r)
      PROVE  Confirmations'
  <2>1. ConfirmedFrame /\ HashFrame /\ SuccessFrame
    BY <1>4, BuildFrames, UnchangedFrames DEF PaymentFrames, TransactionFrames
  <2> QED
    BY <1>1, <1>2, <1>4, <2>1 DEF transactionVars, QuietFrames
<1>5. ASSUME UNCHANGED transactionVars, NEW r \in BatchRuns, BatchStep(r) \/ FailBatch(r)
      PROVE  Confirmations'
  <2>1. ConfirmedFrame /\ HashFrame /\ SuccessFrame
    BY <1>5, BatchFrames DEF transactionVars
  <2> QED
    BY <1>1, <1>2, <1>5, <2>1 DEF transactionVars, QuietFrames
<1>6. ASSUME TaskStep \/ \E r \in ToolRuns : FailTool(r)
      PROVE  Confirmations'
  <2>1. ConfirmedFrame /\ HashFrame /\ SuccessFrame /\ UNCHANGED <<broadcast, check>>
    BY <1>6, TaskFrames, UnchangedFrames DEF PaymentFrames, TransactionFrames
  <2> QED
    BY <1>1, <1>2, <2>1 DEF QuietFrames
<1>7. ASSUME ChainStep
      PROVE  Confirmations'
  <2>1. ConfirmedFrame /\ HashFrame /\ SuccessFrame /\ UNCHANGED <<broadcast, check>>
    BY <1>7, ChainFrames, UnchangedFrames DEF ChainStep, PaymentFrames, TransactionFrames
  <2> QED
    BY <1>1, <1>2, <2>1 DEF QuietFrames
<1>8. CASE NewBlock /\ UNCHANGED <<balanceVars, transactionVars, faults>>
  <2>1. ConfirmedFrame /\ HashFrame /\ SuccessFrame
    BY <1>8, UnchangedFrames DEF NewBlock, PaymentFrames, TransactionFrames
  <2> QED
    BY <1>1, <1>2, <1>8, <2>1 DEF transactionVars, QuietFrames
<1>9. CASE Fault
  <2>1. CASE BalanceFault /\ UNCHANGED transactionVars
    BY <1>4, <1>5, <2>1 DEF BalanceFault
  <2>2. CASE TransactionFault /\ UNCHANGED balanceVars
    BY <1>6, <2>2, BroadcastKeepsConfirmations, CheckKeepsConfirmations
       DEF TransactionFault
  <2>3. CASE BalanceCrash /\ TransactionCrash /\ UNCHANGED dataVars
    BY <2>3, CrashKeepsConfirmations
  <2> QED
    BY <1>9, <2>1, <2>2, <2>3 DEF Fault
<1>10. CASE BalanceSide(BalanceEnvironment) \/ \E r \in BuildRuns : BalanceSide(BuildStep(r))
  BY <1>4, <1>10 DEF BalanceSide
<1>11. CASE \E r \in BatchRuns : BalanceSide(BatchStep(r))
  BY <1>5, <1>11 DEF BalanceSide
<1>12. CASE \E r \in BroadcastRuns : TransactionSide(BroadcastStep(r))
  BY <1>12, BroadcastKeepsConfirmations DEF TransactionSide
<1>13. CASE \/ \E r \in MonitorRuns : TransactionSide(StartMonitor(r))
            \/ \E r \in StuckRuns : TransactionSide(StartStuckCheck(r))
            \/ \E r \in CheckRuns : TransactionSide(CheckStep(r))
  BY <1>13, CheckKeepsConfirmations DEF TransactionSide, CheckRuns
<1>14. CASE TransactionSide(TaskStep) \/ TransactionSide(ChainStep)
  BY <1>6, <1>7, <1>14 DEF TransactionSide
<1> QED
  BY <1>3, <1>8, <1>9, <1>10, <1>11, <1>12, <1>13, <1>14 DEF Next

(* The invariant the claims about the chain follow from. *)
THEOREM ChainInvariance == Spec => []ChainInvariant
<1>1. TypeInvariant /\ Batches /\ Confirmations /\ [Next]_vars => Confirmations'
  BY NextConfirmations
<1>2. ChainInvariant <=> TypeInvariant /\ Batches /\ Confirmations
  BY DEF ChainInvariant
<1> QED
  BY <1>1, <1>2, InitConfirmations, BatchesAlways, PTL DEF Spec

(***************************************************************************)
(* A payment the pool shows as confirmed was paid by the transaction whose *)
(* hash it shows, however the two checks, the stale task, the requeue task *)
(* and the tool overwrite each other's statuses.                           *)
(***************************************************************************)
THEOREM ConfirmationsAreTrue == Spec => []ConfirmedIsPaid
<1>1. ChainInvariant => ConfirmedIsPaid
  BY DEF ChainInvariant, Confirmations
<1> QED
  BY <1>1, ChainInvariance, PTL

(***************************************************************************)
(* A transaction marked a success has paid its batch.                      *)
(***************************************************************************)
THEOREM SuccessesArePaid == Spec => []SuccessIsPaid
<1>1. ChainInvariant => SuccessIsPaid
  BY DEF ChainInvariant, Confirmations
<1> QED
  BY <1>1, ChainInvariance, PTL

----------------------------------------------------------------------------
(* The pipeline implements PayoutLedger: a reward is an Earn, the write of  *)
(* tokensAwarded is a Reserve, a transaction that succeeds is a Pay, and    *)
(* every other step changes nothing the ledger sees.                        *)

\* What the pipeline knows that the ledger's claims follow from.
LedgerInvariant == TypeInvariant /\ Books /\ Batches

LedgerStep == [Ledger!LedgerNext]_(Ledger!ledgerVars)

\* No payment that is there changes its miner or its amount.
PiecesStay ==
    /\ PaymentIds \subseteq PaymentIds'
    /\ \A i \in PaymentIds :
        /\ balance_payments'[i].miner = balance_payments[i].miner
        /\ balance_payments'[i].from = balance_payments[i].from
        /\ balance_payments'[i].upto = balance_payments[i].upto

LEMMA KeptAmountsStay == AmountsKept => PiecesStay
BY DEF AmountsKept, PiecesStay

(* The pieces that were paid, one by one. *)
LEMMA PieceOfPaid ==
    \A p : p \in PaidPieces <=>
        \E h \in Hashes : /\ sent[h].state = "success"
                          /\ \E i \in sent[h].payments : p = PieceOf(i, h)
BY DEF PaidPieces

(* What a transaction pays is there. *)
LEMMA PaidExist ==
    ASSUME Batches, NEW h \in Hashes
    PROVE  /\ sent[h].payments \subseteq PaymentIds
           /\ \A i \in sent[h].payments : balance_payments[i].uuid = sent[h].uuid
BY DEF Batches, WholeBatches, PaymentsOf

(* Without a new success nothing is paid. *)
LEMMA NothingPaid ==
    ASSUME TypeInvariant, Batches, PiecesStay, SentFrames
    PROVE  PaidPieces' = PaidPieces
<1>1. \A h \in Hashes : /\ h \in Hashes'
                        /\ sent'[h].payments = sent[h].payments
                        /\ sent'[h].state = "success" <=> sent[h].state = "success"
  BY DEF SentFrames, SentFrame, SentCopies
<1>2. \A h \in Hashes' : sent'[h].state = "success" => h \in Hashes
  BY DEF SentFrames, SentCopies
<1>3. ASSUME NEW h \in Hashes, NEW i \in sent[h].payments
      PROVE  PieceOf(i, h)' = PieceOf(i, h)
  BY <1>3, PaidExist DEF PiecesStay, PieceOf
<1>4. \A h \in Hashes : {PieceOf(i, h)' : i \in sent'[h].payments}
                            = {PieceOf(i, h) : i \in sent[h].payments}
  BY <1>1, <1>3
<1>5. {g \in Hashes' : sent'[g].state = "success"} = {g \in Hashes : sent[g].state = "success"}
  BY <1>1, <1>2
<1> QED
  BY <1>4, <1>5 DEF PaidPieces, PieceOf

(* Of two payments of a miner, one ends before the other begins. *)
LEMMA PiecesAreDisjoint ==
    ASSUME TypeInvariant, Books, NEW i \in PaymentIds, NEW j \in PaymentIds, i # j,
           NEW g, NEW h
    PROVE  Ledger!Disjoint(PieceOf(i, g), PieceOf(j, h))
<1>1. i < j \/ j < i
  BY DocumentTypes DEF TypeInvariant, TypeOK
<1>2. balance_payments[i].miner = balance_payments[j].miner =>
        \/ balance_payments[i].upto <= balance_payments[j].from
        \/ balance_payments[j].upto <= balance_payments[i].from
  BY <1>1 DEF Books, NeverOverpaid
<1> QED
  BY <1>2 DEF PieceOf, Ledger!Disjoint

(* What a transaction pays when it succeeds was set aside, and is disjoint     *)
(* from whatever else was paid: from the rest of its batch, as they are        *)
(* different payments, and from other payouts, as they have different uuids.   *)
LEMMA ChainPays ==
    ASSUME TypeInvariant, Books, Batches, Batches', ChainStep, UNCHANGED balanceVars
    PROVE  LedgerStep
<1> USE DEF TypeInvariant, TypeOK
<1>1. PICK h \in Hashes : Mine(h) \/ Evict(h)
  BY DEF ChainStep
<1>2. /\ UNCHANGED balance_payments /\ SentFrame /\ Hashes' = Hashes
  BY <1>1, ChainFrames
<1>3. UNCHANGED <<alltimeTokenBalance, tokensAwarded>>
  BY DEF balanceVars
<1>5. \A p : p \in PaidPieces' <=>
        \E g \in Hashes : /\ sent'[g].state = "success"
                          /\ \E i \in sent[g].payments : p = PieceOf(i, g)
  BY <1>2 DEF PaidPieces, PieceOf, SentFrame
<1>6. PaidPieces \subseteq PaidPieces'
  BY <1>2, <1>5, PieceOfPaid DEF SentFrame
<1>7. ASSUME NEW p \in PaidPieces' \ PaidPieces
      PROVE  /\ p \in Ledger!Piece
             /\ p.from < p.upto
             /\ p.upto <= tokensAwarded[p.miner]
             /\ \A q \in PaidPieces' \ {p} : Ledger!Disjoint(p, q)
  <2>0. PICK g \in Hashes : /\ sent'[g].state = "success"
                            /\ \E i \in sent[g].payments : p = PieceOf(i, g)
    BY <1>5
  <2>1. PICK i \in sent[g].payments : p = PieceOf(i, g)
    BY <2>0
  <2>2. i \in PaymentIds /\ balance_payments[i].uuid = sent[g].uuid
    BY PaidExist
  <2>3. balance_payments[i] \in BalancePayment /\ g \in Nat
    BY <2>2, DocumentTypes, LenProperties DEF Hashes, TransactionTypeOK
  <2>4. p \in Ledger!Piece
    BY <2>1, <2>3 DEF Ledger!Piece, PieceOf, BalancePayment
  <2>5. p.from < p.upto /\ p.upto <= tokensAwarded[p.miner]
    BY <2>1, <2>2 DEF PieceOf, Books, NeverOverpaid
  <2>6. ASSUME NEW q \in PaidPieces' \ {p}
        PROVE  Ledger!Disjoint(p, q)
    <3>0. PICK k \in Hashes : /\ sent'[k].state = "success"
                              /\ \E j \in sent[k].payments : q = PieceOf(j, k)
      BY <1>5, <2>6
    <3>1. PICK j \in sent[k].payments : q = PieceOf(j, k)
      BY <3>0
    <3>2. j \in PaymentIds /\ balance_payments[j].uuid = sent[k].uuid
      BY PaidExist
    <3>3. i # j
      <4>1. SUFFICES ASSUME i = j PROVE g = k
        BY <2>1, <2>6, <3>1
      <4>2. sent'[g].uuid = sent'[k].uuid
        BY <1>2, <2>2, <3>2, <4>1 DEF SentFrame
      <4> QED
        BY <1>2, <2>0, <3>0, <4>2 DEF Batches, PaidUuids
    <3> QED
      BY <2>1, <2>2, <3>1, <3>2, <3>3, PiecesAreDisjoint
  <2> QED
    BY <2>4, <2>5, <2>6
<1>8. Ledger!Pay
  BY <1>3, <1>6, <1>7 DEF Ledger!Pay
<1> QED
  BY <1>8 DEF LedgerStep, Ledger!LedgerNext

(* A reward, and the two writes of buildBalancePayments. *)
LEMMA BuildReserves ==
    ASSUME TypeInvariant, Books, Batches, UNCHANGED transactionVars,
           BalanceEnvironment \/ \E r \in BuildRuns : BuildStep(r) \/ FailBuild(r)
    PROVE  LedgerStep
<1> USE DEF TypeInvariant, TypeOK
<1>1. SentFrames
  BY UnchangedFrames DEF transactionVars
<1>2. ASSUME NEW m \in Miners, AwardTokens(m)
      PROVE  LedgerStep
  <2>1. PICK n \in 1..MaxEarned :
            alltimeTokenBalance' = [alltimeTokenBalance EXCEPT ![m] = @ + n]
    BY <1>2 DEF AwardTokens
  <2>2. UNCHANGED <<tokensAwarded, balance_payments>>
    BY <1>2 DEF AwardTokens, dataVars
  <2>3. PaidPieces' = PaidPieces
    BY <1>1, <2>2, NothingPaid DEF PiecesStay, PaymentIds
  <2>4. /\ alltimeTokenBalance'[m] > alltimeTokenBalance[m]
        /\ alltimeTokenBalance' =
                [alltimeTokenBalance EXCEPT ![m] = alltimeTokenBalance'[m]]
    BY <2>1, BalanceAssumption DEF BalanceTypeOK
  <2>5. Ledger!Earn(m)
    BY <2>2, <2>3, <2>4 DEF Ledger!Earn
  <2> QED
    BY <2>5 DEF LedgerStep, Ledger!LedgerNext
<1>3. ASSUME NEW r \in BuildRuns, NEW m \in Miners, SetTokensAwarded(r, m)
      PROVE  LedgerStep
  <2> DEFINE awarded == build[r].awarded[m] + Owed(r, m)
  <2>1. /\ build[r].pc = "pay" /\ m \in build[r].todo /\ ShouldPayout(r, m)
        /\ tokensAwarded' = [tokensAwarded EXCEPT ![m] = awarded]
        /\ UNCHANGED <<alltimeTokenBalance, balance_payments>>
    BY <1>3 DEF SetTokensAwarded, WriteAwarded, dataVars
  <2>2. /\ build[r].alltime[m] <= alltimeTokenBalance[m]
        /\ build[r].awarded[m] = tokensAwarded[m]
    BY <2>1 DEF Books, BuildSnapshot
  <2>3. /\ build[r].alltime[m] \in Nat /\ build[r].awarded[m] \in Nat
        /\ tokensAwarded \in [Miners -> Nat] /\ alltimeTokenBalance[m] \in Nat
    BY DEF BalanceTypeOK, BuildState
  <2>4. Owed(r, m) > 0
    BY <2>1, <2>3, BalanceAssumption DEF ShouldPayout, EffectiveThreshold, Owed
  <2>5. awarded > tokensAwarded[m] /\ awarded <= alltimeTokenBalance[m]
    BY <2>2, <2>3, <2>4 DEF Owed
  <2>6. PaidPieces' = PaidPieces
    BY <1>1, <2>1, NothingPaid DEF PiecesStay, PaymentIds
  <2>7. /\ tokensAwarded'[m] > tokensAwarded[m]
        /\ tokensAwarded'[m] <= alltimeTokenBalance[m]
        /\ tokensAwarded' = [tokensAwarded EXCEPT ![m] = tokensAwarded'[m]]
    BY <2>1, <2>3, <2>5
  <2>8. Ledger!Reserve(m)
    BY <2>1, <2>6, <2>7 DEF Ledger!Reserve
  <2> QED
    BY <2>8 DEF LedgerStep, Ledger!LedgerNext
<1>4. ASSUME PiecesStay, UNCHANGED <<alltimeTokenBalance, tokensAwarded>>
      PROVE  LedgerStep
  BY <1>1, <1>4, NothingPaid DEF LedgerStep, Ledger!ledgerVars
<1>5. ASSUME NEW r \in BuildRuns, InsertBalancePayment(r)
      PROVE  LedgerStep
  <2>1. PICK new : balance_payments' = Append(balance_payments, new)
    BY <1>5 DEF InsertBalancePayment
  <2>2. /\ PaymentIds \subseteq PaymentIds'
        /\ \A i \in PaymentIds : balance_payments'[i] = balance_payments[i]
    <3>1. balance_payments \in Seq(BalancePayment)
      BY DEF DataTypeOK
    <3> QED
      BY <2>1, <3>1 DEF PaymentIds
  <2> QED
    BY <1>4, <1>5, <2>2 DEF PiecesStay, InsertBalancePayment, minerVars
<1>6. CASE UNCHANGED <<balance_payments, alltimeTokenBalance, tokensAwarded>>
  BY <1>4, <1>6 DEF PiecesStay, PaymentIds
<1> QED
  BY <1>2, <1>3, <1>5, <1>6 DEF BalanceEnvironment, DayPasses, BuildStep, StartBuild,
     BeginBuild, FinishBuild, FailBuild, minerVars, dataVars

----------------------------------------------------------------------------

LEMMA InitLedger == Init => Ledger!LedgerInit
<1> SUFFICES ASSUME Init PROVE Ledger!LedgerInit
  OBVIOUS
<1>1. Hashes = {}
  BY DEF Init, TransactionInit, Hashes
<1>2. PaidPieces = {}
  BY <1>1 DEF PaidPieces
<1> QED
  BY <1>2 DEF Init, BalanceInit, NoMiners, Ledger!LedgerInit

(* Every step of the pipeline is a step of the ledger, or nothing to it. *)
LEMMA NextLedger ==
    ASSUME LedgerInvariant, LedgerInvariant', [Next]_vars
    PROVE  LedgerStep
<1> USE DEF LedgerInvariant
<1>1. ASSUME AmountsKept, SentFrames, UNCHANGED <<alltimeTokenBalance, tokensAwarded>>
      PROVE  LedgerStep
  BY <1>1, KeptAmountsStay, NothingPaid DEF LedgerStep, Ledger!ledgerVars
<1>2. ASSUME UNCHANGED transactionVars,
             BalanceEnvironment \/ \E r \in BuildRuns : BuildStep(r) \/ FailBuild(r)
      PROVE  LedgerStep
  BY <1>2, BuildReserves
<1>3. ASSUME UNCHANGED transactionVars, NEW r \in BatchRuns, BatchStep(r) \/ FailBatch(r)
      PROVE  LedgerStep
  <2>1. UNCHANGED <<alltimeTokenBalance, tokensAwarded>>
    BY <1>3 DEF BatchStep, StartBatch, BeginBatch, StampPayment, QueueBatch, QueuePayments,
           FailBatch, minerVars
  <2> QED
    BY <1>1, <1>3, <2>1, BatchKeepsAmounts, UnchangedFrames DEF transactionVars
<1>4. ASSUME UNCHANGED balanceVars, NEW r \in BroadcastRuns,
             BroadcastStep(r) \/ FailBroadcast(r)
      PROVE  LedgerStep
  BY <1>1, <1>4, BroadcastFrames DEF balanceVars, AmountsKept, PaymentIds
<1>5. ASSUME UNCHANGED balanceVars, NEW r \in CheckRuns,
             \/ r \in MonitorRuns /\ StartMonitor(r)
             \/ StartStuckCheck(r)
             \/ CheckStep(r)
             \/ FailCheck(r)
      PROVE  LedgerStep
  <2>1. AmountsKept
    <3>1. CASE CheckStep(r) \/ FailCheck(r)
      BY <3>1, CheckKeepsAmounts
    <3>2. CASE UNCHANGED balance_payments
      BY <3>2 DEF AmountsKept, PaymentIds
    <3> QED
      BY <1>5, <3>1, <3>2 DEF StartMonitor, StartStuckCheck, BeginCheck, dataVars
  <2>2. SentFrames
    BY <1>5, CheckFrames, UnchangedFrames
  <2> QED
    BY <1>1, <1>5, <2>1, <2>2 DEF balanceVars
<1>6. ASSUME UNCHANGED balanceVars, TaskStep \/ \E r \in ToolRuns : FailTool(r)
      PROVE  LedgerStep
  <2>1. UNCHANGED balance_payments /\ SentFrames
    BY <1>6, TaskFrames, UnchangedFrames
  <2> QED
    BY <1>1, <1>6, <2>1 DEF balanceVars, AmountsKept, PaymentIds
<1>7. ASSUME UNCHANGED <<balance_payments, alltimeTokenBalance, tokensAwarded, sent,
                         successfulPayments>>
      PROVE  LedgerStep
  BY <1>1, <1>7, UnchangedFrames DEF AmountsKept, PaymentIds
<1>8. CASE UNCHANGED vars
  BY <1>7, <1>8 DEF vars, dataVars, balanceVars, transactionVars
<1>9. CASE NewBlock /\ UNCHANGED <<balanceVars, transactionVars, faults>>
  BY <1>7, <1>9 DEF NewBlock, balanceVars, transactionVars
<1>10. CASE Fault
  <2>1. CASE BalanceFault /\ UNCHANGED transactionVars
    BY <1>2, <1>3, <2>1 DEF BalanceFault
  <2>2. CASE TransactionFault /\ UNCHANGED balanceVars
    BY <1>4, <1>5, <1>6, <2>2 DEF TransactionFault
  <2>3. CASE BalanceCrash /\ TransactionCrash /\ UNCHANGED dataVars
    BY <1>7, <2>3 DEF BalanceCrash, TransactionCrash, minerVars, chainVars, dataVars
  <2> QED
    BY <1>10, <2>1, <2>2, <2>3 DEF Fault
<1>11. CASE BalanceSide(BalanceEnvironment) \/ \E r \in BuildRuns : BalanceSide(BuildStep(r))
  BY <1>2, <1>11 DEF BalanceSide
<1>12. CASE \E r \in BatchRuns : BalanceSide(BatchStep(r))
  BY <1>3, <1>12 DEF BalanceSide
<1>13. CASE \E r \in BroadcastRuns : TransactionSide(BroadcastStep(r))
  BY <1>4, <1>13 DEF TransactionSide
<1>14. CASE \/ \E r \in MonitorRuns : TransactionSide(StartMonitor(r))
            \/ \E r \in StuckRuns : TransactionSide(StartStuckCheck(r))
            \/ \E r \in CheckRuns : TransactionSide(CheckStep(r))
  BY <1>5, <1>14 DEF TransactionSide, CheckRuns
<1>15. CASE TransactionSide(TaskStep)
  BY <1>6, <1>15 DEF TransactionSide
<1>16. CASE TransactionSide(ChainStep)
  BY <1>16, ChainPays DEF TransactionSide
<1> QED
  BY <1>8, <1>9, <1>10, <1>11, <1>12, <1>13, <1>14, <1>15, <1>16 DEF Next

(***************************************************************************)
(* The pipeline implements PayoutLedger: whatever overlaps, fails or is    *)
(* sent again, no token is paid that was not earned and set aside, and     *)
(* none is paid by two payouts.                                            *)
(***************************************************************************)
THEOREM ImplementsTheLedger == Spec => KeepsTheLedger
<1>1. Init => LedgerInvariant
  BY InitTypes, InitBooks, InitBatches DEF LedgerInvariant
<1>2. LedgerInvariant /\ [Next]_vars => LedgerInvariant'
  BY NextTypes, NextBooks, NextBatches DEF LedgerInvariant
<1>3. LedgerInvariant /\ LedgerInvariant' /\ [Next]_vars
        => [Ledger!LedgerNext]_(Ledger!ledgerVars)
  BY NextLedger DEF LedgerStep
<1> QED
  BY <1>1, <1>2, <1>3, InitLedger, PTL DEF Spec, KeepsTheLedger, Ledger!LedgerSpec

----------------------------------------------------------------------------
(* StampedIsQueued: as long as nothing fails, no payment is left behind. *)

(* A step that puts nothing in a batch and builds none leaves none behind. *)
LEMMA FramesKeepStamped ==
    ASSUME StampedHasBatch, PaymentFrame, TransactionFrame, UNCHANGED <<batch, faults>>
    PROVE  StampedHasBatch'
<1>1. ASSUME faults = 0, NEW i \in PaymentIds', balance_payments'[i].uuid # None
      PROVE  \/ \E t \in TransactionIds' :
                    transactions'[t].uuid = balance_payments'[i].uuid
             \/ \E r \in BatchRuns :
                    batch'[r].pc = "stamp" /\ batch'[r].uuid = balance_payments'[i].uuid
  <2>1. i \in PaymentIds /\ balance_payments'[i].uuid = balance_payments[i].uuid
    BY <1>1 DEF PaymentFrame
  <2>2. CASE \E t \in TransactionIds : transactions[t].uuid = balance_payments[i].uuid
    BY <2>1, <2>2 DEF TransactionFrame
  <2>3. CASE \E r \in BatchRuns :
                batch[r].pc = "stamp" /\ batch[r].uuid = balance_payments[i].uuid
    BY <2>1, <2>3
  <2> QED
    BY <1>1, <2>1, <2>2, <2>3 DEF StampedHasBatch
<1> QED
  BY <1>1 DEF StampedHasBatch

(* When a batch is begun no other is being built: all stamps are in transactions. *)
LEMMA StartBatchKeepsStamped ==
    ASSUME TypeInvariant, Batches, StampedHasBatch, NEW r \in BatchRuns, StartBatch(r),
           UNCHANGED faults
    PROVE  StampedHasBatch'
<1>1. UNCHANGED <<balance_payments, transactions>>
  BY DEF StartBatch, BeginBatch, dataVars
<1>2. \A s \in BatchRuns : batch[s].pc # "stamp"
  BY DEF StartBatch, Batches, OneBatch
<1> QED
  BY <1>1, <1>2 DEF StampedHasBatch, PaymentIds, TransactionIds

(* The payment that is stamped gets the uuid of the call, which goes on. *)
LEMMA StampKeepsStamped ==
    ASSUME TypeInvariant, StampedHasBatch, NEW r \in BatchRuns, StampPayment(r), UNCHANGED faults
    PROVE  StampedHasBatch'
<1> USE DEF TypeInvariant, TypeOK
<1> DEFINE u == batch[r].uuid
<1>1. PICK i \in batch[r].todo :
        /\ balance_payments' = [balance_payments EXCEPT ![i].uuid = u]
        /\ batch' = [batch EXCEPT ![r].todo = @ \ {i}, ![r].done = @ \cup {i}]
  BY DEF StampPayment
<1>2. batch[r].pc = "stamp" /\ UNCHANGED transactions
  BY DEF StampPayment
<1>3. \A s \in BatchRuns : batch'[s].pc = batch[s].pc /\ batch'[s].uuid = batch[s].uuid
  <2>1. batch[r] \in BatchState
    BY DEF BalanceTypeOK
  <2> QED
    BY <1>1, <2>1 DEF BalanceTypeOK, BatchState
<1>4. /\ PaymentIds' = PaymentIds
      /\ \A j \in PaymentIds :
            balance_payments'[j].uuid = IF j = i THEN u ELSE balance_payments[j].uuid
  <2> DEFINE new == [balance_payments[i] EXCEPT !.uuid = u]
  <2>1. /\ PaymentIds' = PaymentIds
        /\ \A j \in PaymentIds :
            balance_payments'[j] = IF j = i THEN new ELSE balance_payments[j]
    BY <1>1, UpdatePayment
  <2>2. i \in PaymentIds => new.uuid = u
    BY DocumentTypes DEF BalancePayment
  <2> HIDE DEF new
  <2> QED
    BY <2>1, <2>2
<1>5. ASSUME faults = 0, NEW j \in PaymentIds, balance_payments'[j].uuid # None
      PROVE  \/ \E t \in TransactionIds :
                    transactions[t].uuid = balance_payments'[j].uuid
             \/ \E s \in BatchRuns :
                    batch'[s].pc = "stamp" /\ batch'[s].uuid = balance_payments'[j].uuid
  <2>1. CASE j = i
    BY <1>2, <1>3, <1>4, <2>1
  <2>2. CASE j # i
    <3>1. balance_payments'[j].uuid = balance_payments[j].uuid
      BY <1>4, <2>2
    <3> HIDE DEF u
    <3> QED
      BY <1>3, <1>5, <3>1 DEF StampedHasBatch
  <2> QED
    BY <2>1, <2>2
<1> QED
  BY <1>2, <1>4, <1>5 DEF StampedHasBatch, TransactionIds

(* The uuid of the call becomes the uuid of the transaction it queues. *)
LEMMA QueueBatchKeepsStamped ==
    ASSUME TypeInvariant, Batches, StampedHasBatch, NEW r \in BatchRuns, QueueBatch(r),
           UNCHANGED faults
    PROVE  StampedHasBatch'
<1> USE DEF TypeInvariant, TypeOK
<1> DEFINE new == QueuedTransaction(batch[r].uuid, batch[r].done)
           n == Len(transactions) + 1
<1>1. /\ batch[r].pc = "stamp" /\ transactions' = Append(transactions, new)
      /\ UNCHANGED balance_payments
  BY DEF QueueBatch, QueuePayments
<1>2. new.uuid = batch[r].uuid
  BY DEF QueuedTransaction
<1> HIDE DEF new
<1>3. /\ TransactionIds' = TransactionIds \cup {n}
      /\ \A t \in TransactionIds : transactions'[t] = transactions[t]
      /\ transactions'[n] = new
  <2>1. transactions \in Seq(Transaction)
    BY DEF DataTypeOK
  <2> QED
    BY <1>1, <2>1 DEF TransactionIds
<1> HIDE DEF n
<1>4. \A s \in BatchRuns : batch[s].pc = "stamp" => s = r
  BY <1>1 DEF Batches, OneBatch
<1>5. ASSUME faults = 0, NEW i \in PaymentIds, balance_payments[i].uuid # None
      PROVE  \E t \in TransactionIds' : transactions'[t].uuid = balance_payments[i].uuid
  <2>1. CASE \E t \in TransactionIds : transactions[t].uuid = balance_payments[i].uuid
    BY <1>3, <2>1
  <2>2. CASE batch[r].uuid = balance_payments[i].uuid
    BY <1>2, <1>3, <2>2
  <2> QED
    BY <1>4, <1>5, <2>1, <2>2 DEF StampedHasBatch
<1> QED
  BY <1>1, <1>5 DEF StampedHasBatch, PaymentIds

(* Every step keeps StampedHasBatch; a failure ends the promise. *)
LEMMA NextStamped ==
    ASSUME TypeInvariant, Batches, StampedHasBatch, [Next]_vars
    PROVE  StampedHasBatch'
<1>1. CASE UNCHANGED vars
  BY <1>1, FramesKeepStamped, UnchangedFrames
     DEF vars, dataVars, balanceVars, PaymentFrames, TransactionFrames
<1>2. CASE \/ BalanceSide(BalanceEnvironment)
           \/ \E r \in BuildRuns : BalanceSide(BuildStep(r))
  BY <1>2, BuildFrames, FramesKeepStamped, UnchangedFrames
     DEF BalanceSide, PaymentFrames, TransactionFrames
<1>3. CASE \E r \in BatchRuns : BalanceSide(BatchStep(r))
  BY <1>3, StartBatchKeepsStamped, StampKeepsStamped, QueueBatchKeepsStamped
     DEF BalanceSide, BatchStep
<1>4. CASE \E r \in BroadcastRuns : TransactionSide(BroadcastStep(r))
  BY <1>4, BroadcastFrames, FramesKeepStamped, UnchangedFrames
     DEF TransactionSide, balanceVars, PaymentFrames
<1>5. CASE \/ \E r \in MonitorRuns : TransactionSide(StartMonitor(r))
           \/ \E r \in StuckRuns : TransactionSide(StartStuckCheck(r))
           \/ \E r \in CheckRuns : TransactionSide(CheckStep(r))
  <2>1. PaymentFrame /\ TransactionFrame
    BY <1>5, CheckFrames DEF TransactionSide, CheckRuns
  <2> QED
    BY <1>5, <2>1, FramesKeepStamped DEF TransactionSide, balanceVars
<1>6. CASE TransactionSide(TaskStep)
  BY <1>6, TaskFrames, FramesKeepStamped, UnchangedFrames
     DEF TransactionSide, balanceVars, PaymentFrames, TransactionFrames
<1>7. CASE TransactionSide(ChainStep)
  BY <1>7, ChainFrames, FramesKeepStamped, UnchangedFrames
     DEF TransactionSide, ChainStep, balanceVars, PaymentFrames, TransactionFrames
<1>8. CASE NewBlock /\ UNCHANGED <<balanceVars, transactionVars, faults>>
  BY <1>8, FramesKeepStamped, UnchangedFrames
     DEF NewBlock, balanceVars, PaymentFrames, TransactionFrames
<1>9. CASE Fault
  <2>1. faults' # 0
    BY <1>9 DEF Fault, TypeInvariant, TypeOK
  <2> QED
    BY <2>1 DEF StampedHasBatch
<1> QED
  BY <1>1, <1>2, <1>3, <1>4, <1>5, <1>6, <1>7, <1>8, <1>9 DEF Next

(***************************************************************************)
(* As long as nothing fails no payment is left behind by batching: one     *)
(* that carries a uuid is in the transaction of that uuid, or in the batch *)
(* a call of buildBatchedPaymentTransactions is still putting together.    *)
(***************************************************************************)
THEOREM NoPaymentIsLeftBehind == Spec => []StampedIsQueued
<1>1. Init => StampedHasBatch
  BY DEF Init, DataInit, StampedHasBatch, PaymentIds
<1>2. TypeInvariant /\ Batches /\ StampedHasBatch /\ [Next]_vars => StampedHasBatch'
  BY NextStamped
<1>3. TypeInvariant /\ Batches /\ StampedHasBatch => StampedIsQueued
  <2> SUFFICES ASSUME Batches, StampedHasBatch, faults = 0,
                      NEW i \in PaymentIds, balance_payments[i].uuid # None
               PROVE  \/ \E t \in TransactionIds :
                            /\ transactions[t].uuid = balance_payments[i].uuid
                            /\ i \in transactions[t].payments
                      \/ \E r \in BatchRuns :
                            /\ batch[r].uuid = balance_payments[i].uuid
                            /\ i \in batch[r].done
    BY DEF StampedIsQueued
  <2>1. ASSUME NEW t \in TransactionIds, transactions[t].uuid = balance_payments[i].uuid
        PROVE  i \in transactions[t].payments
    BY <2>1 DEF Batches, WholeBatches, PaymentsOf
  <2>2. ASSUME NEW r \in BatchRuns, batch[r].pc = "stamp",
               batch[r].uuid = balance_payments[i].uuid
        PROVE  i \in batch[r].done
    BY <2>2 DEF Batches, OneBatch, PaymentsOf
  <2> QED
    BY <2>1, <2>2 DEF StampedHasBatch
<1> QED
  BY <1>1, <1>2, <1>3, BatchesAlways, PTL DEF Spec

=============================================================================
