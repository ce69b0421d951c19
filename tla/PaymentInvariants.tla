------------------------- MODULE PaymentInvariants -------------------------
(***************************************************************************)
(* The inductive invariants behind the safety properties of PaymentSystem: *)
(* what each call in progress still knows to be true of what it has read.  *)
(***************************************************************************)
EXTENDS PaymentSystem

(***************************************************************************)
(* What a call in progress refers to exists: a found document stays in its *)
(* collection, a sent transaction keeps its hash.  This is what makes      *)
(* TypeOK inductive.                                                       *)
(***************************************************************************)
BalanceReferences ==
    /\ \A r \in BuildRuns : build[r].pc = "insert" => build[r].miner \in Miners
    /\ \A r \in BatchRuns : batch[r].pc = "stamp" => batch[r].uuid \in Uuids

TransactionReferences ==
    /\ \A r \in BroadcastRuns :
        broadcast[r].pc \notin {"idle", "find"} => broadcast[r].tx \in TransactionIds
    /\ \A r \in CheckRuns :
        check[r].pc \in {"confirm", "credit"} =>
            check[r].todo # {} /\ check[r].todo \subseteq PaymentIds
    /\ \A r \in ToolRuns : tool[r].list \subseteq TransactionIds

TypeInvariant == TypeOK /\ BalanceReferences /\ TransactionReferences

----------------------------------------------------------------------------
(* For NeverOverpaid. *)

\* The flag keeps the calls of buildBalancePayments apart.
OneBuild ==
    /\ \A r \in BuildRuns : build[r].pc # "idle" => buildRunning
    /\ \A r, s \in BuildRuns : build[r].pc # "idle" /\ build[s].pc # "idle" => r = s

\* What a call still has to do agrees with what it read, and the payment it is
\* about to insert comes after all the payments of its miner.
BuildSnapshot ==
    \A r \in BuildRuns :
        /\ build[r].pc # "idle" =>
            \A m \in Miners :
                /\ build[r].alltime[m] <= alltimeTokenBalance[m]
                /\ m \in build[r].todo => build[r].awarded[m] = tokensAwarded[m]
        /\ build[r].pc = "insert" =>
            LET m == build[r].miner IN
            /\ m \notin build[r].todo
            /\ build[r].awarded[m] < build[r].alltime[m]
            /\ tokensAwarded[m] = build[r].alltime[m]
            /\ \A i \in PaymentIds :
                balance_payments[i].miner = m =>
                    balance_payments[i].upto <= build[r].awarded[m]

Books == OneBuild /\ BuildSnapshot /\ NeverOverpaid

BooksInvariant == TypeInvariant /\ Books

----------------------------------------------------------------------------
(* For PaidAtMostOnce, ConfirmedIsPaid and SuccessIsPaid. *)

PaymentsOf(uuid) == {i \in PaymentIds : balance_payments[i].uuid = uuid}

\* The flag keeps the calls of buildBatchedPaymentTransactions apart, and the
\* uuid a call has drawn is on the payments it has stamped and nowhere else.
OneBatch ==
    /\ \A r \in BatchRuns : batch[r].pc # "idle" => batchRunning
    /\ \A r, s \in BatchRuns : batch[r].pc # "idle" /\ batch[s].pc # "idle" => r = s
    /\ \A r \in BatchRuns :
        batch[r].pc = "stamp" =>
            /\ batch[r].done = PaymentsOf(batch[r].uuid)
            /\ batch[r].todo \subseteq Unbatched
            /\ \A t \in TransactionIds : transactions[t].uuid # batch[r].uuid

\* A transaction, queued or sent, pays exactly the payments stamped with its uuid.
WholeBatches ==
    /\ \A t \in TransactionIds :
        transactions[t].payments = PaymentsOf(transactions[t].uuid)
    /\ \A h \in Hashes :
        /\ \E t \in TransactionIds : transactions[t].uuid = sent[h].uuid
        /\ sent[h].payments = PaymentsOf(sent[h].uuid)

\* The contract knows the uuids it has paid, and pays none of them again.
PaidUuids ==
    /\ \A h \in Hashes :
        sent[h].state = "success" => sent[h].uuid \in successfulPayments
    /\ \A g, h \in Hashes :
        /\ sent[g].state = "success"
        /\ sent[h].state = "success"
        /\ sent[g].uuid = sent[h].uuid
        => g = h

Batches == OneBatch /\ WholeBatches /\ PaidUuids

\* A hash that is stored or remembered for a transaction is of its batch.
HashOf(t, h) ==
    /\ t \in TransactionIds
    /\ h \in Hashes
    /\ sent[h].uuid = transactions[t].uuid

StoredHashes ==
    \A t \in TransactionIds :
        transactions[t].txHash # NoHash => HashOf(t, transactions[t].txHash)

BroadcastHashes ==
    \A r \in BroadcastRuns :
        broadcast[r].pc = "pending" => HashOf(broadcast[r].tx, broadcast[r].hash)

\* What a check has in hand it found with a hash of its own, which has succeeded
\* if the check says so, and the payments it confirms are of its batch.
CheckKnows(call) ==
    /\ \A x \in call.list : HashOf(x[1], x[2])
    /\ call.pc \in {"settle", "mark", "confirm", "credit"} =>
        /\ HashOf(call.tx, call.hash)
        /\ call.pc # "settle" => call.ok
        /\ call.ok => sent[call.hash].state = "success"
    /\ call.pc \in {"confirm", "credit"} =>
        call.todo \subseteq PaymentsOf(transactions[call.tx].uuid)

OwnHashes ==
    /\ StoredHashes
    /\ BroadcastHashes
    /\ \A r \in CheckRuns : CheckKnows(check[r])

Confirmations == OwnHashes /\ SuccessIsPaid /\ ConfirmedIsPaid

ChainInvariant == TypeInvariant /\ Batches /\ Confirmations

----------------------------------------------------------------------------
(* For StampedIsQueued. *)

\* As long as nothing has failed, a uuid on a payment is the uuid of a transaction
\* or of a call that is still stamping; Batches says which payments those hold.
StampedHasBatch ==
    faults = 0 =>
        \A i \in PaymentIds :
            balance_payments[i].uuid # None =>
                \/ \E t \in TransactionIds :
                    transactions[t].uuid = balance_payments[i].uuid
                \/ \E r \in BatchRuns :
                    batch[r].pc = "stamp" /\ batch[r].uuid = balance_payments[i].uuid

=============================================================================
