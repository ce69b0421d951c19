------------------------ MODULE PaymentTransactions ------------------------
(***************************************************************************)
(* TransactionCoordinator and TransactionHelper for transactions of type   *)
(* batched_payment: they are broadcast, watched until mined, given up as   *)
(* stale, queued again and at last confirmed to the miners; and the chain  *)
(* they are sent to, the pool's payment account and its BatchedPayments    *)
(* contract.                                                               *)
(*                                                                         *)
(* Every task is a timer callback of the token collector, and only         *)
(* monitorMinedPayments refuses to overlap itself.  A slot of ...Runs is   *)
(* one call that has not returned; what it read is in its local state, and *)
(* other calls run at each of its awaits.                                  *)
(***************************************************************************)
EXTENDS PaymentData

CONSTANTS
    BroadcastRuns,  \* calls of broadcastQueuedBatchedPaymentTransactions
    MonitorRuns,    \* calls of monitorMinedPayments
    StuckRuns,      \* calls of CheckStuckPaymentTransactions
    StaleRuns,      \* calls of monitorStalePaymentTransactions
    RequeueRuns,    \* calls of requeueSkippedBatchedPaymentTransactions
    ToolRuns,       \* calls of requeueRevertedBatchedPaymentTransactions
    StaleAfter,     \* blockDelayForStaleTx, 100
    RequeueAfter,   \* 500 blocks
    StrayMining,    \* whether a transaction our node has dropped can still be mined
    FundsMayRunOut, \* whether multisend can fail for want of tokens or gas
    MaxSent         \* bound on the transactions the account sends

ASSUME TransactionAssumption ==
    /\ MonitorRuns \cap StuckRuns = {}
    /\ StaleAfter \in Nat
    /\ RequeueAfter \in Nat
    /\ StrayMining \in BOOLEAN
    /\ FundsMayRunOut \in BOOLEAN
    /\ MaxSent \in Nat

VARIABLES
    tokensReceived,     \* minerData.tokensReceived
    sent,               \* transactions the account has signed and sent, by hash
    accountNonce,       \* getTransactionCount of the account, "latest"
    successfulPayments, \* the contract's mapping of the same name
    broadcast, monitorRunning, check, stale, requeue, tool

chainVars == <<sent, accountNonce, successfulPayments>>
checkVars == <<monitorRunning, check>>
transactionVars == <<tokensReceived, sent, accountNonce, successfulPayments,
                     broadcast, monitorRunning, check, stale, requeue, tool>>

CheckRuns == MonitorRuns \cup StuckRuns
Hashes == DOMAIN sent

SentTransaction ==
    [uuid: Uuids, payments: SUBSET Nat, nonce: Nat,
     state: {"pool", "dropped", "success", "reverted"}]

BroadcastState ==
    [pc: {"idle", "find", "estimate", "send", "pending", "skip"},
     tx: Nat, nonce: Nat, hash: Nat]

\* list: the transactions still to be looked up, each with the hash it was read
\* with; tx, hash and ok: the one in hand; todo: its payments still to confirm.
CheckState ==
    [pc: {"idle", "next", "settle", "mark", "confirm", "credit"},
     list: SUBSET (Nat \X Nat), tx: Nat, hash: Nat, ok: BOOLEAN, todo: SUBSET Nat]

RequeueState == [list: SUBSET Nat, block: Nat]
ToolState == [list: SUBSET Nat, pc: {"insert", "delete"}]

IdleBroadcast == [pc |-> "idle", tx |-> 0, nonce |-> 0, hash |-> NoHash]
IdleCheck == [pc |-> "idle", list |-> {}, tx |-> 0, hash |-> NoHash,
              ok |-> FALSE, todo |-> {}]
IdleRequeue == [list |-> {}, block |-> 0]
IdleTool == [list |-> {}, pc |-> "insert"]

TransactionInit ==
    /\ tokensReceived = [m \in Miners |-> 0]
    /\ sent = <<>>
    /\ accountNonce = 0
    /\ successfulPayments = {}
    /\ broadcast = [r \in BroadcastRuns |-> IdleBroadcast]
    /\ monitorRunning = FALSE
    /\ check = [r \in CheckRuns |-> IdleCheck]
    /\ stale = [r \in StaleRuns |-> {}]
    /\ requeue = [r \in RequeueRuns |-> IdleRequeue]
    /\ tool = [r \in ToolRuns |-> IdleTool]

TransactionTypeOK ==
    /\ tokensReceived \in [Miners -> Int]
    /\ sent \in Seq(SentTransaction)
    /\ accountNonce \in Nat
    /\ successfulPayments \subseteq Uuids
    /\ broadcast \in [BroadcastRuns -> BroadcastState]
    /\ monitorRunning \in BOOLEAN
    /\ check \in [CheckRuns -> CheckState]
    /\ stale \in [StaleRuns -> SUBSET Nat]
    /\ requeue \in [RequeueRuns -> RequeueState]
    /\ tool \in [ToolRuns -> ToolState]

WithStatus(status) == {t \in TransactionIds : transactions[t].status = status}

\* updateOneTransactionById(_id, ...): nothing happens to a document that is gone.
SetStatus(t, status) ==
    transactions' = [transactions EXCEPT
        ![t].status = IF @ = "deleted" THEN "deleted" ELSE status]

----------------------------------------------------------------------------
(* The chain.  The account only ever signs with its "latest" nonce, so at  *)
(* most one transaction of it waits in the pool of the pool's own node.    *)

Mined(h) == sent[h].state \in {"success", "reverted"}

InPool == {h \in Hashes : sent[h].state = "pool" /\ sent[h].nonce = accountNonce}

Mineable(h) ==
    /\ sent[h].nonce = accountNonce
    /\ \/ sent[h].state = "pool"
       \/ StrayMining /\ sent[h].state = "dropped"

\* Mutant: multisend without its require on successfulPayments.
NeverAlreadyPaid(uuid) == FALSE

\* What the require of multisend looks at, mined or only estimated.
AlreadyPaid(uuid) == uuid \in successfulPayments

\* multisend reverts on a paymentId already paid, or when a transfer fails.
MineWith(h, succeeds) ==
    /\ Mineable(h)
    /\ sent' = [sent EXCEPT ![h].state = IF succeeds THEN "success" ELSE "reverted"]
    /\ successfulPayments' =
            successfulPayments \cup (IF succeeds THEN {sent[h].uuid} ELSE {})
    /\ accountNonce' = accountNonce + 1
    /\ UNCHANGED <<tokensReceived, broadcast, checkVars, stale, requeue, tool>>
    /\ UNCHANGED dataVars

Mine(h) ==
    \E succeeds \in BOOLEAN :
        /\ succeeds => ~AlreadyPaid(sent[h].uuid)
        /\ ~succeeds => AlreadyPaid(sent[h].uuid) \/ FundsMayRunOut
        /\ MineWith(h, succeeds)

\* The node forgets a transaction that waits too long.
Evict(h) ==
    /\ h \in InPool
    /\ sent' = [sent EXCEPT ![h].state = "dropped"]
    /\ UNCHANGED <<tokensReceived, accountNonce, successfulPayments, broadcast,
                   checkVars, stale, requeue, tool>>
    /\ UNCHANGED dataVars

----------------------------------------------------------------------------
(* broadcastQueuedBatchedPaymentTransactions and broadcastTransaction *)

GoTo(r, pc) == broadcast' = [broadcast EXCEPT ![r].pc = pc]

BroadcastOnly ==
    UNCHANGED <<tokensReceived, chainVars, checkVars, stale, requeue, tool>>

\* The list of pending transactions is read first ...
CheckPending(r) ==
    /\ broadcast[r].pc = "idle"
    /\ WithStatus("pending") = {}
    /\ GoTo(r, "find")
    /\ BroadcastOnly /\ UNCHANGED dataVars

\* ... and the oldest queued one after it.
FindQueued(r) ==
    /\ broadcast[r].pc = "find"
    /\ IF WithStatus("queued") = {}
       THEN GoTo(r, "idle")
       ELSE \E t \in WithStatus("queued") :
                /\ \A u \in WithStatus("queued") : t <= u
                /\ broadcast' = [broadcast EXCEPT ![r].pc = "estimate", ![r].tx = t]
    /\ BroadcastOnly /\ UNCHANGED dataVars

\* getTransactionCount and estimateGas.  An error of either one, or a revert
\* predicted by the second, makes submitBatchedPayment return without a hash.
EstimateMultisend(r) ==
    /\ broadcast[r].pc = "estimate"
    /\ \/ /\ ~AlreadyPaid(transactions[broadcast[r].tx].uuid)
          /\ broadcast' = [broadcast EXCEPT ![r].pc = "send", ![r].nonce = accountNonce]
       \/ GoTo(r, "skip")
    /\ BroadcastOnly /\ UNCHANGED dataVars

\* The node takes the transaction, in place of one with the same nonce that
\* offered less gas, and the transactionHash event resolves the promise.
AcceptMultisend(r) ==
    LET t == transactions[broadcast[r].tx] IN
    /\ broadcast[r].pc = "send"
    /\ broadcast[r].nonce = accountNonce
    /\ Len(sent) < MaxSent
    /\ sent' = Append(
            [h \in Hashes |-> IF h \in InPool THEN [sent[h] EXCEPT !.state = "dropped"]
                                              ELSE sent[h]],
            [uuid |-> t.uuid, payments |-> t.payments, nonce |-> accountNonce,
             state |-> "pool"])
    /\ broadcast' = [broadcast EXCEPT ![r].pc = "pending", ![r].hash = Len(sent) + 1]
    /\ UNCHANGED <<tokensReceived, accountNonce, successfulPayments, checkVars,
                   stale, requeue, tool>>
    /\ UNCHANGED dataVars

\* Gas above the cap, a used nonce, a transaction already known, a replacement
\* underpriced: an exception, which the caller only logs.
RejectMultisend(r) ==
    /\ \/ broadcast[r].pc = "send"
       \/ /\ broadcast[r].pc = "estimate"
          /\ ~AlreadyPaid(transactions[broadcast[r].tx].uuid)
    /\ broadcast' = [broadcast EXCEPT ![r] = IdleBroadcast]
    /\ BroadcastOnly /\ UNCHANGED dataVars

RecordPending(r) ==
    /\ broadcast[r].pc = "pending"
    /\ transactions' = [transactions EXCEPT ![broadcast[r].tx] =
            IF @.status = "deleted" THEN @
            ELSE [@ EXCEPT !.status = "pending", !.txHash = broadcast[r].hash]]
    /\ broadcast' = [broadcast EXCEPT ![r] = IdleBroadcast]
    /\ BroadcastOnly /\ UNCHANGED <<balance_payments, block>>

RecordSkipped(r) ==
    /\ broadcast[r].pc = "skip"
    /\ SetStatus(broadcast[r].tx, "skipped")
    /\ broadcast' = [broadcast EXCEPT ![r] = IdleBroadcast]
    /\ BroadcastOnly /\ UNCHANGED <<balance_payments, block>>

\* A database call rejects, or the answer of the node is lost on its way.
FailBroadcast(r) ==
    /\ broadcast[r].pc # "idle"
    /\ broadcast' = [broadcast EXCEPT ![r] = IdleBroadcast]
    /\ BroadcastOnly /\ UNCHANGED dataVars

BroadcastStep(r) ==
    \/ CheckPending(r)
    \/ FindQueued(r)
    \/ EstimateMultisend(r)
    \/ AcceptMultisend(r)
    \/ RejectMultisend(r)
    \/ RecordPending(r)
    \/ RecordSkipped(r)

----------------------------------------------------------------------------
(* checkTransactionReceipts and markPaymentsCompleteForBatch, as called by *)
(* monitorMinedPayments and by CheckStuckPaymentTransactions.              *)

CheckOnly == UNCHANGED <<chainVars, broadcast, stale, requeue, tool>>

\* The call returns; only monitorMinedPayments has a flag to lower.
EndCheck(r) ==
    /\ check' = [check EXCEPT ![r] = IdleCheck]
    /\ monitorRunning' = (IF r \in MonitorRuns THEN FALSE ELSE monitorRunning)

\* A transaction without a hash is passed over by checkTransactionReceipts.
BeginCheck(r, status) ==
    LET found == {t \in WithStatus(status) : transactions[t].txHash # NoHash} IN
    /\ check[r].pc = "idle"
    /\ found # {}
    /\ check' = [check EXCEPT ![r] =
                    [IdleCheck EXCEPT !.pc = "next",
                                      !.list = {<<t, transactions[t].txHash>> : t \in found}]]
    /\ CheckOnly /\ UNCHANGED tokensReceived /\ UNCHANGED dataVars

StartMonitor(r) ==
    /\ ~monitorRunning
    /\ BeginCheck(r, "pending")
    /\ monitorRunning' = TRUE

\* Mutant: the stuck check looks at the transactions the monitor looks at.
StartStuckCheckOnPending(r) ==
    /\ BeginCheck(r, "pending")
    /\ UNCHANGED monitorRunning

StartStuckCheck(r) ==
    /\ BeginCheck(r, "skipped")
    /\ UNCHANGED monitorRunning

TakeReceipt(r, t, h, ok) ==
    /\ check[r].pc = "next"
    /\ <<t, h>> \in check[r].list
    /\ Mined(h)
    /\ check' = [check EXCEPT ![r].pc = "settle", ![r].tx = t, ![r].hash = h,
                              ![r].ok = ok, ![r].list = @ \ {<<t, h>>}]
    /\ CheckOnly /\ UNCHANGED <<tokensReceived, monitorRunning>> /\ UNCHANGED dataVars

\* Mutant: any receipt counts, whatever its status.
GotReceiptAnyStatus(r, t, h) == TakeReceipt(r, t, h, TRUE)

GotReceipt(r, t, h) == TakeReceipt(r, t, h, sent[h].state = "success")

\* Five attempts gave null: not mined, or the node did not answer.
NoReceipt(r, t, h) ==
    /\ check[r].pc = "next"
    /\ <<t, h>> \in check[r].list
    /\ check' = [check EXCEPT ![r].list = @ \ {<<t, h>>}]
    /\ CheckOnly /\ UNCHANGED <<tokensReceived, monitorRunning>> /\ UNCHANGED dataVars

FinishCheck(r) ==
    /\ check[r].pc = "next"
    /\ check[r].list = {}
    /\ EndCheck(r)
    /\ CheckOnly /\ UNCHANGED tokensReceived /\ UNCHANGED dataVars

\* Mutant: the word of the comment above monitorMinedPayments is stored.
SettleAsMined(r) ==
    /\ check[r].pc = "settle"
    /\ SetStatus(check[r].tx, IF check[r].ok THEN "mined" ELSE "reverted")
    /\ check' = [check EXCEPT ![r].pc = IF check[r].ok THEN "mark" ELSE "next"]
    /\ CheckOnly /\ UNCHANGED <<tokensReceived, monitorRunning, balance_payments, block>>

SettleTransaction(r) ==
    /\ check[r].pc = "settle"
    /\ SetStatus(check[r].tx, IF check[r].ok THEN "success" ELSE "reverted")
    /\ check' = [check EXCEPT ![r].pc = IF check[r].ok THEN "mark" ELSE "next"]
    /\ CheckOnly /\ UNCHANGED <<tokensReceived, monitorRunning, balance_payments, block>>

\* findAll by uuid: the confirmed flags are those of this moment.
FindBatchPayments(r) ==
    LET found == {i \in PaymentIds :
                    /\ balance_payments[i].uuid = transactions[check[r].tx].uuid
                    /\ ~balance_payments[i].confirmed}
    IN
    /\ check[r].pc = "mark"
    /\ check' = [check EXCEPT ![r].todo = found,
                              ![r].pc = IF found = {} THEN "next" ELSE "confirm"]
    /\ CheckOnly /\ UNCHANGED <<tokensReceived, monitorRunning>> /\ UNCHANGED dataVars

First(S) == CHOOSE i \in S : \A j \in S : i <= j

ConfirmPayment(r) ==
    /\ check[r].pc = "confirm"
    /\ balance_payments' = [balance_payments EXCEPT
            ![First(check[r].todo)].confirmed = TRUE,
            ![First(check[r].todo)].txHash = check[r].hash]
    /\ check' = [check EXCEPT ![r].pc = "credit"]
    /\ CheckOnly /\ UNCHANGED <<tokensReceived, monitorRunning, transactions, block>>

\* increaseTokensReceivedForMiner: a $inc.
CreditMiner(r) ==
    LET i == First(check[r].todo)
        rest == check[r].todo \ {i}
    IN
    /\ check[r].pc = "credit"
    /\ tokensReceived' =
            [tokensReceived EXCEPT ![balance_payments[i].miner] = @ + amountToPay(i)]
    /\ check' = [check EXCEPT ![r].todo = rest,
                              ![r].pc = IF rest = {} THEN "next" ELSE "confirm"]
    /\ CheckOnly /\ UNCHANGED monitorRunning /\ UNCHANGED dataVars

FailCheck(r) ==
    /\ check[r].pc # "idle"
    /\ EndCheck(r)
    /\ CheckOnly /\ UNCHANGED tokensReceived /\ UNCHANGED dataVars

CheckStep(r) ==
    \/ \E t \in TransactionIds, h \in Hashes : GotReceipt(r, t, h)
    \/ \E t \in TransactionIds, h \in Hashes : NoReceipt(r, t, h)
    \/ FinishCheck(r)
    \/ SettleTransaction(r)
    \/ FindBatchPayments(r)
    \/ ConfirmPayment(r)
    \/ CreditMiner(r)

----------------------------------------------------------------------------
(* monitorStalePaymentTransactions: a list is read, then written to. *)

StartStale(r) ==
    LET old == {t \in WithStatus("pending") : transactions[t].block < block - StaleAfter}
    IN
    /\ stale[r] = {}
    /\ old # {}
    /\ stale' = [stale EXCEPT ![r] = old]
    /\ UNCHANGED <<tokensReceived, chainVars, broadcast, checkVars, requeue, tool>>
    /\ UNCHANGED dataVars

MarkStale(r) ==
    /\ stale[r] # {}
    /\ SetStatus(First(stale[r]), "skipped")
    /\ stale' = [stale EXCEPT ![r] = @ \ {First(stale[r])}]
    /\ UNCHANGED <<tokensReceived, chainVars, broadcast, checkVars, requeue, tool>>
    /\ UNCHANGED <<balance_payments, block>>

----------------------------------------------------------------------------
(* requeueSkippedBatchedPaymentTransactions: the same, with the block read once. *)

StartRequeue(r) ==
    LET old == {t \in WithStatus("skipped") : transactions[t].block < block - RequeueAfter}
    IN
    /\ requeue[r].list = {}
    /\ old # {}
    /\ requeue' = [requeue EXCEPT ![r] = [list |-> old, block |-> block]]
    /\ UNCHANGED <<tokensReceived, chainVars, broadcast, checkVars, stale, tool>>
    /\ UNCHANGED dataVars

RequeueSkipped(r) ==
    LET t == First(requeue[r].list) IN
    /\ requeue[r].list # {}
    /\ transactions' = [transactions EXCEPT ![t] =
            IF @.status = "deleted" THEN @
            ELSE [@ EXCEPT !.status = "queued", !.block = requeue[r].block]]
    /\ requeue' = [requeue EXCEPT ![r].list = @ \ {t}]
    /\ UNCHANGED <<tokensReceived, chainVars, broadcast, checkVars, stale, tool>>
    /\ UNCHANGED <<balance_payments, block>>

----------------------------------------------------------------------------
(* The operator's tool, a process of its own: every reverted transaction is *)
(* queued as a new one with the same txData, and then deleted.              *)

StartTool(r) ==
    /\ tool[r].list = {}
    /\ WithStatus("reverted") # {}
    /\ tool' = [tool EXCEPT ![r] = [list |-> WithStatus("reverted"), pc |-> "insert"]]
    /\ UNCHANGED <<tokensReceived, chainVars, broadcast, checkVars, stale, requeue>>
    /\ UNCHANGED dataVars

QueueReverted(r) ==
    LET t == transactions[First(tool[r].list)] IN
    /\ tool[r].list # {}
    /\ tool[r].pc = "insert"
    /\ transactions' = Append(transactions, QueuedTransaction(t.uuid, t.payments))
    /\ tool' = [tool EXCEPT ![r].pc = "delete"]
    /\ UNCHANGED <<tokensReceived, chainVars, broadcast, checkVars, stale, requeue>>
    /\ UNCHANGED <<balance_payments, block>>

DeleteReverted(r) ==
    /\ tool[r].pc = "delete"
    /\ SetStatus(First(tool[r].list), "deleted")
    /\ tool' = [tool EXCEPT ![r].pc = "insert", ![r].list = @ \ {First(tool[r].list)}]
    /\ UNCHANGED <<tokensReceived, chainVars, broadcast, checkVars, stale, requeue>>
    /\ UNCHANGED <<balance_payments, block>>

FailTool(r) ==
    /\ tool[r].list # {}
    /\ tool' = [tool EXCEPT ![r] = IdleTool]
    /\ UNCHANGED <<tokensReceived, chainVars, broadcast, checkVars, stale, requeue>>
    /\ UNCHANGED dataVars

----------------------------------------------------------------------------

TaskStep ==
    \/ \E r \in StaleRuns : StartStale(r) \/ MarkStale(r)
    \/ \E r \in RequeueRuns : StartRequeue(r) \/ RequeueSkipped(r)
    \/ \E r \in ToolRuns : StartTool(r) \/ QueueReverted(r) \/ DeleteReverted(r)

ChainStep == \E h \in Hashes : Mine(h) \/ Evict(h)

TransactionFault ==
    \/ \E r \in BroadcastRuns : FailBroadcast(r)
    \/ \E r \in CheckRuns : FailCheck(r)
    \/ \E r \in ToolRuns : FailTool(r)

\* The token collector dies: its calls are gone, the chain and the tool are not.
TransactionCrash ==
    /\ broadcast' = [r \in BroadcastRuns |-> IdleBroadcast]
    /\ check' = [r \in CheckRuns |-> IdleCheck]
    /\ monitorRunning' = FALSE
    /\ stale' = [r \in StaleRuns |-> {}]
    /\ requeue' = [r \in RequeueRuns |-> IdleRequeue]
    /\ UNCHANGED <<tokensReceived, chainVars, tool>>

=============================================================================
