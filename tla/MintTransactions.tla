-------------------------- MODULE MintTransactions --------------------------
(***************************************************************************)
(* TransactionCoordinator and TransactionHelper for transactions of type   *)
(* solution: a solution waits in the collection "transactions" until the   *)
(* minting account has sent it to the token contract.                      *)
(*                                                                         *)
(* The same account sends the tokens it was given to the payment contract, *)
(* so that the two compete for a nonce: of two transactions with the same  *)
(* nonce the node keeps the one it has, unless the other pays ten percent  *)
(* more.  broadcastQueuedMintTransactions is called every five seconds and *)
(* nothing keeps two calls apart: a slot of BroadcastRuns is a call.       *)
(***************************************************************************)
EXTENDS Integers, Sequences, FiniteSets

CONSTANTS
    Solutions,      \* the shares that meet the mining target
    ChallengeOf,    \* the epoch whose challenge each of them solves
    BroadcastRuns,
    None,           \* null
    MaxEpoch        \* bound on the epochs of the contract

ASSUME MintAssumption ==
    /\ MaxEpoch \in Nat \ {0}
    /\ ChallengeOf \in [Solutions -> 1..(MaxEpoch - 1)]
    /\ None \notin Solutions

VARIABLES
    contractEpoch,      \* the epoch of the token contract
    challengeNumber,    \* the one the pool knows of
    txCount,            \* how many transactions of the minting account were mined
    mempool,            \* the one that waits to be mined, or NoTx
    receipts,           \* the mined ones, and whether they succeeded
    hasTokens,          \* whether the minting account holds tokens
    transactions,       \* collection "transactions", type solution
    broadcast,          \* the local state of each broadcastQueuedMintTransactions
    monitor,            \* that of monitorMinedSolutions
    stale,              \* the documents monitorStaleMintTransactions is about to skip
    transfer            \* that of SendEtiToBatchContractCrawl

chainVars == <<contractEpoch, txCount, mempool, receipts, hasTokens>>
callVars == <<monitor, stale, transfer>>
mintTxVars == <<chainVars, challengeNumber, transactions, broadcast, callVars>>

\* Gas prices in tenths of a gwei.
MintPrice == 2000
MintRetryPrice == 15
TransferPrice == 10
TransferRetryPrice == 19

\* A hash stands for the signed transaction: what is sent, with which nonce and price.
\* A transfer sends no solution.
Tx == [solution: Solutions \cup {None}, nonce: Nat, price: Nat]
NoTx == [solution |-> None, nonce |-> 0, price |-> 0]
MintTx(s, nonce, price) == [solution |-> s, nonce |-> nonce, price |-> price]
TransferTx(nonce, price) == [solution |-> None, nonce |-> nonce, price |-> price]

Status == {"queued", "pending", "success", "reverted", "skipped", "outdated"}

\* A document keeps its place when it is deleted.
Transaction ==
    [solution: Solutions, status: Status \cup {"deleted"}, txHash: Tx]
Docs == DOMAIN transactions
WithStatus(status) == {i \in Docs : transactions[i].status = status}
OfChallenge(i) == ChallengeOf[transactions[i].solution]
FirstOf(docs) == CHOOSE i \in docs : \A j \in docs : i <= j

\* hash and status are the outcome it is about to write.
BroadcastState ==
    [pc: {"idle", "challenge", "pick", "compare", "check", "count", "send", "estimate",
          "resend", "write", "outdate", "delete"},
     challenge: 0..MaxEpoch, doc: Nat, nonce: Nat, status: Status, hash: Tx,
     deleted: 0..4]

IdleBroadcast ==
    [pc |-> "idle", challenge |-> 0, doc |-> 0, nonce |-> 0, status |-> "skipped",
     hash |-> NoTx, deleted |-> 0]

\* The documents it has yet to look up, as it has listed them, and the receipt it has found
\* for the first of them.
Listed == [doc: Nat, txHash: Tx]
MonitorState == [docs: SUBSET Listed, found: {"none", "success", "reverted"}]
IdleMonitor == [docs |-> {}, found |-> "none"]

TransferState == [pc: {"idle", "estimate", "send", "again", "resend"}, nonce: Nat]
IdleTransfer == [pc |-> "idle", nonce |-> 0]

MintInit ==
    /\ contractEpoch = 1
    /\ challengeNumber = 1
    /\ txCount = 0
    /\ mempool = NoTx
    /\ receipts = {}
    /\ hasTokens \in BOOLEAN   \* from blocks mined before
    /\ transactions = <<>>
    /\ broadcast = [r \in BroadcastRuns |-> IdleBroadcast]
    /\ monitor = IdleMonitor
    /\ stale = {}
    /\ transfer = IdleTransfer

MintTypeOK ==
    /\ contractEpoch \in 1..MaxEpoch
    /\ challengeNumber \in 1..MaxEpoch
    /\ txCount \in Nat
    /\ mempool \in Tx
    /\ receipts \subseteq [tx: Tx, succeeded: BOOLEAN]
    /\ hasTokens \in BOOLEAN
    /\ transactions \in Seq(Transaction)
    /\ broadcast \in [BroadcastRuns -> BroadcastState]
    /\ monitor \in MonitorState
    /\ stale \subseteq Nat
    /\ transfer \in TransferState

----------------------------------------------------------------------------
(* The chain *)

\* What the node does with a transaction it is sent.
Accepts(tx) ==
    /\ tx.nonce = txCount
    /\ mempool = NoTx \/ 10 * tx.price >= 11 * mempool.price

\* Our transaction is mined: a mint counts for the challenge of the contract only, a
\* transfer if there is something to transfer.
MineTx ==
    LET s == mempool.solution
        succeeds == IF s = None THEN hasTokens ELSE ChallengeOf[s] = contractEpoch
    IN  /\ mempool # NoTx
        /\ txCount' = txCount + 1
        /\ mempool' = NoTx
        /\ receipts' = receipts \cup {[tx |-> mempool, succeeded |-> succeeds]}
        /\ hasTokens' = (s # None /\ (succeeds \/ hasTokens))
        /\ contractEpoch' = IF s # None /\ succeeds THEN contractEpoch + 1 ELSE contractEpoch
        /\ UNCHANGED <<challengeNumber, transactions, broadcast, callVars>>

OthersMine ==
    /\ contractEpoch < MaxEpoch
    /\ contractEpoch' = contractEpoch + 1
    /\ UNCHANGED <<txCount, mempool, receipts, hasTokens>>
    /\ UNCHANGED <<challengeNumber, transactions, broadcast, callVars>>

DropTx ==
    /\ mempool # NoTx
    /\ mempool' = NoTx
    /\ UNCHANGED <<contractEpoch, txCount, receipts, hasTokens>>
    /\ UNCHANGED <<challengeNumber, transactions, broadcast, callVars>>

\* The collector reads the challenge of the contract.
ReadChallengeNumber ==
    /\ challengeNumber' = contractEpoch
    /\ UNCHANGED <<chainVars, transactions, broadcast, callVars>>

----------------------------------------------------------------------------
(* queueMiningSolution and broadcastQueuedMintTransactions *)

QueueMiningSolution(s) ==
    /\ \A i \in Docs : transactions[i].solution # s
    /\ ChallengeOf[s] <= challengeNumber
    /\ transactions' = Append(transactions,
            [solution |-> s, status |-> "queued", txHash |-> NoTx])
    /\ UNCHANGED <<chainVars, challengeNumber, broadcast, callVars>>

SetBroadcast(r, state) ==
    /\ broadcast' = [broadcast EXCEPT ![r] = state]
    /\ UNCHANGED <<chainVars, challengeNumber, callVars>>

Step(r, from, state) ==
    /\ broadcast[r].pc = from
    /\ SetBroadcast(r, state)
    /\ UNCHANGED transactions

\* On to write this status, and this hash if the transaction was sent.
WriteNext(r, status, hash) ==
    [broadcast[r] EXCEPT !.pc = "write", !.status = status, !.hash = hash]

BeginBroadcast(r, waits) ==
    Step(r, "idle", IF waits THEN IdleBroadcast
                    ELSE [IdleBroadcast EXCEPT !.pc = "challenge"])

\* Mutant: the call does not wait for what is pending.
StartBroadcastAnyway(r) == BeginBroadcast(r, FALSE)

\* A pending transaction keeps the others waiting.
StartBroadcast(r) == BeginBroadcast(r, WithStatus("pending") # {})

ReadChallenge(r) ==
    Step(r, "challenge", [broadcast[r] EXCEPT !.pc = "pick", !.challenge = challengeNumber])

Pick(r, queued) ==
    Step(r, "pick", IF queued = {} THEN IdleBroadcast
                    ELSE [broadcast[r] EXCEPT !.pc = "compare", !.doc = FirstOf(queued)])

Current(r) == {i \in WithStatus("queued") : OfChallenge(i) = broadcast[r].challenge}

\* Mutant: a solution of an older challenge is not looked for.
PickCurrent(r) == Pick(r, Current(r))

\* The first solution of the current challenge, or the first that there is.
PickQueued(r) == Pick(r, IF Current(r) = {} THEN WithStatus("queued") ELSE Current(r))

\* broadcastTransaction: the challenge is read anew.
CompareChallengeNumber(r) ==
    Step(r, "compare", [broadcast[r] EXCEPT
            !.pc = IF OfChallenge(broadcast[r].doc) = challengeNumber THEN "check" ELSE "outdate"])

\* checkMintRandomxInputs, a call of the contract.
CheckMintInputs(r) ==
    Step(r, "check", IF OfChallenge(broadcast[r].doc) = contractEpoch
                     THEN [broadcast[r] EXCEPT !.pc = "count"]
                     ELSE WriteNext(r, "skipped", NoTx))

GetTransactionCount(r) ==
    Step(r, "count", [broadcast[r] EXCEPT !.pc = "send", !.nonce = txCount])

SolutionTx(r, price) ==
    MintTx(transactions[broadcast[r].doc].solution, broadcast[r].nonce, price)

\* The node answers with the hash or refuses the transaction.
Send(r, tx, accepted, refused) ==
    /\ mempool' = IF Accepts(tx) THEN tx ELSE mempool
    /\ broadcast' = [broadcast EXCEPT ![r] = IF Accepts(tx) THEN accepted ELSE refused]
    /\ UNCHANGED <<contractEpoch, txCount, receipts, hasTokens>>
    /\ UNCHANGED <<challengeNumber, transactions, callVars>>

SendMint(r) ==
    LET tx == SolutionTx(r, MintPrice) IN
    /\ broadcast[r].pc = "send"
    /\ Send(r, tx, WriteNext(r, "pending", tx), [broadcast[r] EXCEPT !.pc = "estimate"])

EstimateRetry(r) ==
    Step(r, "estimate", IF OfChallenge(broadcast[r].doc) = contractEpoch
                        THEN [broadcast[r] EXCEPT !.pc = "resend"]
                        ELSE WriteNext(r, "skipped", NoTx))

ResendAs(r, accepted) ==
    /\ broadcast[r].pc = "resend"
    /\ Send(r, SolutionTx(r, MintRetryPrice), accepted, IdleBroadcast)

\* Mutant: the hash of the second attempt is found and written.
ResendAndWait(r) == ResendAs(r, WriteNext(r, "pending", SolutionTx(r, MintRetryPrice)))

\* The second attempt returns txResult2, and the caller, who looks for txResult.txHash,
\* throws: sent or not, the solution stays queued.
ResendMint(r) == ResendAs(r, IdleBroadcast)

\* An update finds no document that was deleted.
SetDoc(i, status, hash) ==
    LET old == transactions[i]
        new == [old EXCEPT !.status = status,
                           !.txHash = IF hash = NoTx THEN old.txHash ELSE hash]
    IN  transactions' =
            [transactions EXCEPT ![i] = IF old.status = "deleted" THEN old ELSE new]

WriteStatus(r) ==
    /\ broadcast[r].pc = "write"
    /\ SetDoc(broadcast[r].doc, broadcast[r].status, broadcast[r].hash)
    /\ SetBroadcast(r, IdleBroadcast)

MarkOutdated(r) ==
    /\ broadcast[r].pc = "outdate"
    /\ SetDoc(broadcast[r].doc, "outdated", NoTx)
    /\ SetBroadcast(r, [broadcast[r] EXCEPT !.pc = "delete"])

\* OutdateMintTransactions: four deleteMany, one after the other.
DeletedStatus == <<"pending", "queued", "skipped", "outdated">>

DeleteOutdated(r) ==
    LET k == broadcast[r].deleted + 1
        challenge == OfChallenge(broadcast[r].doc)
    IN  /\ broadcast[r].pc = "delete"
        /\ transactions' = [i \in Docs |->
                IF OfChallenge(i) = challenge /\ transactions[i].status = DeletedStatus[k]
                THEN [transactions[i] EXCEPT !.status = "deleted"] ELSE transactions[i]]
        /\ SetBroadcast(r, IF k = Len(DeletedStatus) THEN IdleBroadcast
                           ELSE [broadcast[r] EXCEPT !.deleted = k])

----------------------------------------------------------------------------
(* monitorMinedSolutions and monitorStaleMintTransactions *)

SetMonitor(docs, found) ==
    /\ monitor' = [docs |-> docs, found |-> found]
    /\ UNCHANGED <<chainVars, challengeNumber, broadcast, stale, transfer>>

ListPending ==
    /\ monitor = IdleMonitor
    /\ SetMonitor({[doc |-> i, txHash |-> transactions[i].txHash] : i \in WithStatus("pending")},
                  "none")
    /\ UNCHANGED transactions

FirstListed == CHOOSE d \in monitor.docs : \A f \in monitor.docs : d.doc <= f.doc

RequestReceipt ==
    LET mined == {receipt \in receipts : receipt.tx = FirstListed.txHash}
    IN  /\ monitor.docs # {}
        /\ monitor.found = "none"
        /\ IF mined = {} THEN SetMonitor(monitor.docs \ {FirstListed}, "none")
           ELSE SetMonitor(monitor.docs,
                    IF \E receipt \in mined : receipt.succeeded THEN "success" ELSE "reverted")
        /\ UNCHANGED transactions

WriteFound ==
    /\ SetDoc(FirstListed.doc, monitor.found, NoTx)
    /\ SetMonitor(monitor.docs \ {FirstListed}, "none")

\* Mutant: the answer that there is no receipt is written as well.
WriteAnyReceipt ==
    /\ monitor.docs # {}
    /\ WriteFound

WriteReceipt ==
    /\ monitor.found # "none"
    /\ WriteFound

SetStale(docs) ==
    /\ stale' = docs
    /\ UNCHANGED <<chainVars, challengeNumber, broadcast, monitor, transfer>>

\* Thirty blocks have passed since these were queued.
ListStale(docs) ==
    /\ stale = {}
    /\ docs # {}
    /\ SetStale(docs)
    /\ UNCHANGED transactions

SkipStale ==
    /\ stale # {}
    /\ SetDoc(FirstOf(stale), "skipped", NoTx)
    /\ SetStale(stale \ {FirstOf(stale)})

----------------------------------------------------------------------------
(* SendEtiToBatchContractCrawl; its calls are eighty seconds apart *)

SetTransfer(state) ==
    /\ transfer' = state
    /\ UNCHANGED <<contractEpoch, txCount, receipts, hasTokens>>
    /\ UNCHANGED <<challengeNumber, transactions, broadcast, monitor, stale>>

StartTransfer ==
    /\ transfer.pc = "idle"
    /\ hasTokens
    /\ SetTransfer([pc |-> "estimate", nonce |-> txCount])
    /\ UNCHANGED mempool

\* The estimate fails if the tokens have gone meanwhile.
EstimateTransfer ==
    /\ transfer.pc \in {"estimate", "again"}
    /\ SetTransfer(IF ~hasTokens THEN IdleTransfer
                   ELSE [transfer EXCEPT !.pc = IF @ = "estimate" THEN "send" ELSE "resend"])
    /\ UNCHANGED mempool

SendTransfer ==
    LET tx == TransferTx(transfer.nonce,
                    IF transfer.pc = "send" THEN TransferPrice ELSE TransferRetryPrice)
    IN  /\ transfer.pc \in {"send", "resend"}
        /\ mempool' = IF Accepts(tx) THEN tx ELSE mempool
        /\ SetTransfer(IF transfer.pc = "send" /\ ~Accepts(tx)
                       THEN [transfer EXCEPT !.pc = "again"] ELSE IdleTransfer)

----------------------------------------------------------------------------
(* What goes wrong *)

\* A request rejects.  What the node was sent it may have taken all the same.
FailStep(r) ==
    LET state == broadcast[r]
        price == IF state.pc = "send" THEN MintPrice ELSE MintRetryPrice
    IN  /\ state.pc # "idle"
        /\ broadcast' = [broadcast EXCEPT ![r] =
                CASE state.pc \in {"check", "count", "estimate"} -> WriteNext(r, "skipped", NoTx)
                  [] state.pc = "send" -> [state EXCEPT !.pc = "estimate"]
                  [] OTHER -> IdleBroadcast]
        /\ \/ UNCHANGED mempool
           \/ /\ state.pc \in {"send", "resend"}
              /\ Accepts(SolutionTx(r, price))
              /\ mempool' = SolutionTx(r, price)
        /\ UNCHANGED <<contractEpoch, txCount, receipts, hasTokens>>
        /\ UNCHANGED <<challengeNumber, transactions, callVars>>

\* The process is started again: what its calls were at is lost.
CrashBroadcasts ==
    /\ broadcast' = [r \in BroadcastRuns |-> IdleBroadcast]
    /\ monitor' = IdleMonitor
    /\ stale' = {}
    /\ transfer' = IdleTransfer
    /\ UNCHANGED <<chainVars, challengeNumber, transactions>>

BroadcastStep(r) ==
    \/ ReadChallenge(r)
    \/ PickQueued(r)
    \/ CompareChallengeNumber(r)
    \/ CheckMintInputs(r)
    \/ GetTransactionCount(r)
    \/ SendMint(r)
    \/ EstimateRetry(r)
    \/ ResendMint(r)
    \/ WriteStatus(r)
    \/ MarkOutdated(r)
    \/ DeleteOutdated(r)

MonitorStep ==
    \/ ListPending
    \/ RequestReceipt
    \/ WriteReceipt

TransferStep ==
    \/ StartTransfer
    \/ EstimateTransfer
    \/ SendTransfer

=============================================================================
