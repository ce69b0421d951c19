----------------------------- MODULE MintProofs -----------------------------
(***************************************************************************)
(* For every value of the constants, of MintSystem: its types, that a      *)
(* transfer of tokens displaces no solution that is awaited, and that the  *)
(* document of a solution the chain has accepted is kept.                  *)
(***************************************************************************)
EXTENDS MintSystem, CollectionFacts

\* A hash that is remembered is that of a solution, sent at the price of the first attempt.
FullPrice(tx) == tx = NoTx \/ tx.price = MintPrice

\* A call that has picked a document has one that is there.
CallOK(state) ==
    /\ state \in BroadcastState
    /\ state.pc \notin {"idle", "challenge", "pick"} => state.doc \in Docs
    /\ state.deleted <= 3
    /\ FullPrice(state.hash)

CallsOK == \A r \in BroadcastRuns : CallOK(broadcast[r])

DocsOK == \A i \in Docs : FullPrice(transactions[i].txHash)

MintInvariant ==
    /\ TypeOK
    /\ CallsOK
    /\ DocsOK

\* The collection after a write or an insert: every document keeps its place.
DocsKept ==
    /\ transactions' \in Seq(Transaction)
    /\ Docs \subseteq Docs'
    /\ DocsOK'

(* The first of a nonempty set of documents is in the set. *)
LEMMA FirstOfInSet ==
    ASSUME NEW S \in SUBSET Nat, S # {}
    PROVE  FirstOf(S) \in S
BY MinExists DEF FirstOf

(* The state of a call that is not running, and the absent hash, are well-typed. *)
LEMMA IdleTypes ==
    /\ NoTx \in Tx /\ FullPrice(NoTx)
    /\ CallOK(IdleBroadcast)
    /\ IdleMonitor \in MonitorState
    /\ IdleTransfer \in TransferState
<1>1. NoTx \in Tx /\ FullPrice(NoTx)
  BY DEF NoTx, Tx, FullPrice
<1>2. IdleBroadcast \in BroadcastState
  BY <1>1, MintAssumption DEF IdleBroadcast, BroadcastState, Status
<1>3. /\ IdleBroadcast.pc = "idle" /\ IdleBroadcast.deleted = 0
      /\ IdleBroadcast.hash = NoTx
  BY DEF IdleBroadcast
<1>4. CallOK(IdleBroadcast)
  BY <1>1, <1>2, <1>3 DEF CallOK
<1>5. IdleMonitor \in MonitorState /\ IdleTransfer \in TransferState
  BY DEF IdleMonitor, MonitorState, IdleTransfer, TransferState
<1> QED
  BY <1>1, <1>4, <1>5

(* The documents of the collection are well-typed. *)
LEMMA DocumentTypes ==
    ASSUME transactions \in Seq(Transaction)
    PROVE  /\ Docs \subseteq Nat
           /\ \A i \in Docs : transactions[i] \in Transaction
           /\ \A status : WithStatus(status) \subseteq Docs
BY ElementOfSeq, LenProperties DEF Docs, WithStatus

(* A write to one document keeps the collection. *)
LEMMA SetDocKept ==
    ASSUME transactions \in Seq(Transaction), DocsOK,
           NEW i, NEW status \in Status, NEW hash \in Tx, FullPrice(hash),
           SetDoc(i, status, hash)
    PROVE  DocsKept
<1> DEFINE old == transactions[i]
           new == IF old.status = "deleted" THEN old
                  ELSE [old EXCEPT !.status = status,
                                   !.txHash = IF hash = NoTx THEN @ ELSE hash]
<1>1. transactions' = [transactions EXCEPT ![i] = new]
  BY DEF SetDoc
<1>2. i \in Docs => new \in Transaction /\ FullPrice(new.txHash)
  <2> SUFFICES ASSUME i \in Docs
               PROVE  new \in Transaction /\ FullPrice(new.txHash)
    OBVIOUS
  <2>1. old \in Transaction /\ FullPrice(old.txHash)
    BY DocumentTypes DEF DocsOK
  <2>2. CASE old.status = "deleted"
    BY <2>1, <2>2
  <2>3. CASE old.status # "deleted"
    <3> DEFINE h == IF hash = NoTx THEN old.txHash ELSE hash
    <3>1. h \in Tx /\ FullPrice(h)
      BY <2>1 DEF Transaction
    <3>2. new = [old EXCEPT !.status = status, !.txHash = h]
      BY <2>3
    <3> HIDE DEF new, h, old
    <3> QED
      BY <2>1, <3>1, <3>2 DEF Transaction
  <2> QED
    BY <2>2, <2>3
<1> HIDE DEF new
<1>3. /\ transactions' \in Seq(Transaction)
      /\ DOMAIN transactions' = DOMAIN transactions
      /\ \A j \in DOMAIN transactions :
            transactions'[j] = IF j = i THEN new ELSE transactions[j]
  BY <1>1, <1>2, SeqExcept DEF Docs
<1> QED
  BY <1>2, <1>3 DEF DocsKept, DocsOK, Docs

(* What is kept of the calls when the collection is. *)
LEMMA CallsKept ==
    ASSUME Docs \subseteq Docs', CallsOK, UNCHANGED broadcast
    PROVE  CallsOK'
BY DEF CallsOK, CallOK

(* The queue and the chain start well-typed. *)
LEMMA InitTypes == Init => MintInvariant
<1> SUFFICES ASSUME Init PROVE MintInvariant
  OBVIOUS
<1> USE IdleTypes, MintAssumption DEF Init, MintInit
<1>1. TypeOK
  BY DEF TypeOK, MintTypeOK, CallOK
<1>2. CallsOK
  BY DEF CallsOK
<1>3. DocsOK
  BY DEF DocsOK, Docs
<1> QED
  BY <1>1, <1>2, <1>3 DEF MintInvariant

----------------------------------------------------------------------------

(* What the chain does, and the collector's read of it, keep the types. *)
LEMMA ChainTypes ==
    ASSUME MintInvariant, faults' \in Nat,
           MineTx \/ OthersMine \/ DropTx \/ ReadChallengeNumber
    PROVE  MintInvariant'
<1> USE DEF MintInvariant, TypeOK, MintTypeOK
<1>1. UNCHANGED <<transactions, broadcast, callVars>>
  BY DEF MineTx, OthersMine, DropTx, ReadChallengeNumber
<1>2. CallsOK' /\ DocsOK'
  BY <1>1 DEF CallsOK, CallOK, DocsOK, Docs
<1>3. CASE MineTx
  <2> DEFINE s == mempool.solution
             succeeds == IF s = None THEN hasTokens ELSE ChallengeOf[s] = contractEpoch
  <2>1. /\ txCount' = txCount + 1
        /\ mempool' = NoTx
        /\ receipts' = receipts \cup {[tx |-> mempool, succeeded |-> succeeds]}
        /\ hasTokens' = (s # None /\ (succeeds \/ hasTokens))
        /\ contractEpoch' = IF s # None /\ succeeds THEN contractEpoch + 1
                            ELSE contractEpoch
        /\ challengeNumber' = challengeNumber
    BY <1>3 DEF MineTx
  <2>2. s \in Solutions \cup {None}
    BY DEF Tx
  <2>3. succeeds \in BOOLEAN
    OBVIOUS
  <2>4. receipts' \subseteq [tx: Tx, succeeded: BOOLEAN] /\ hasTokens' \in BOOLEAN
    BY <2>1, <2>3
  <2>5. contractEpoch' \in 1..MaxEpoch
    <3>1. s # None /\ succeeds => contractEpoch \in 1..(MaxEpoch - 1)
      BY <2>2, MintAssumption
    <3> QED
      BY <2>1, <3>1, MintAssumption
  <2> HIDE DEF s, succeeds
  <2> QED
    BY <1>1, <1>2, <2>1, <2>4, <2>5, IdleTypes DEF callVars
<1>4. CASE OthersMine
  BY <1>1, <1>2, <1>4, MintAssumption DEF OthersMine, callVars
<1>5. CASE DropTx
  BY <1>1, <1>2, <1>5, IdleTypes DEF DropTx, callVars
<1>6. CASE ReadChallengeNumber
  BY <1>1, <1>2, <1>6 DEF ReadChallengeNumber, chainVars, callVars
<1> QED
  BY <1>3, <1>4, <1>5, <1>6

(* A solution that is queued leaves the others where they are. *)
LEMMA QueueTypes ==
    ASSUME MintInvariant, faults' \in Nat, NEW s \in Solutions, QueueMiningSolution(s)
    PROVE  MintInvariant'
<1> USE DEF MintInvariant, TypeOK, MintTypeOK
<1> DEFINE new == [solution |-> s, status |-> "queued", txHash |-> NoTx]
<1>1. new \in Transaction /\ FullPrice(new.txHash)
  BY IdleTypes DEF Transaction, Status
<1>2. transactions' = Append(transactions, new)
  BY DEF QueueMiningSolution
<1> HIDE DEF new
<1>3. DocsKept
  BY <1>1, <1>2, SeqAppend DEF DocsKept, DocsOK, Docs
<1>4. UNCHANGED <<chainVars, challengeNumber, broadcast, callVars>>
  BY DEF QueueMiningSolution
<1> QED
  BY <1>3, <1>4, CallsKept DEF DocsKept, chainVars, callVars

----------------------------------------------------------------------------

(* A step of a call that keeps the collection, changes only its own state    *)
(* and may hand a transaction to the node keeps the types.                   *)
LEMMA CallFrame ==
    ASSUME MintInvariant, faults' \in Nat, NEW r \in BroadcastRuns, NEW new,
           broadcast' = [broadcast EXCEPT ![r] = new],
           CallOK(new), DocsKept, mempool' \in Tx,
           UNCHANGED <<contractEpoch, txCount, receipts, hasTokens, challengeNumber, callVars>>
    PROVE  MintInvariant'
<1> USE DEF MintInvariant, TypeOK, MintTypeOK
<1>1. Docs \subseteq Docs' /\ transactions' \in Seq(Transaction) /\ DocsOK'
  BY DEF DocsKept
<1>2. broadcast' \in [BroadcastRuns -> BroadcastState]
  BY DEF CallOK
<1>3. CallsOK'
  <2>1. \A q \in BroadcastRuns : broadcast'[q] = IF q = r THEN new ELSE broadcast[q]
    OBVIOUS
  <2>2. \A q \in BroadcastRuns : CallOK(broadcast'[q])
    BY <2>1 DEF CallsOK
  <2> QED
    BY <1>1, <2>2 DEF CallsOK, CallOK
<1> QED
  BY <1>1, <1>2, <1>3 DEF callVars

(* A step that leaves the collection alone keeps it. *)
LEMMA SameDocs ==
    ASSUME MintInvariant, UNCHANGED transactions
    PROVE  DocsKept
BY DEF MintInvariant, TypeOK, MintTypeOK, DocsKept, DocsOK, Docs

(* A call that goes on to write has a status and a hash to write. *)
LEMMA WriteTypes ==
    ASSUME MintInvariant, NEW r \in BroadcastRuns,
           broadcast[r].pc \notin {"idle", "challenge", "pick"},
           NEW status \in Status, NEW hash \in Tx, FullPrice(hash)
    PROVE  CallOK(WriteNext(r, status, hash))
<1>1. CallOK(broadcast[r])
  BY DEF MintInvariant, CallsOK
<1> QED
  BY <1>1 DEF WriteNext, CallOK, BroadcastState

(* The transaction of a call is well-typed, and is that of a solution. *)
LEMMA SolutionTxTypes ==
    ASSUME MintInvariant, NEW r \in BroadcastRuns, broadcast[r].pc \in {"send", "resend"},
           NEW price \in Nat
    PROVE  /\ SolutionTx(r, price) \in Tx
           /\ SolutionTx(r, price).solution # None
           /\ SolutionTx(r, price).price = price
<1>1. broadcast[r].doc \in Docs /\ broadcast[r].nonce \in Nat
  BY DEF MintInvariant, CallsOK, CallOK, BroadcastState
<1>2. transactions[broadcast[r].doc].solution \in Solutions
  BY <1>1, DocumentTypes DEF MintInvariant, TypeOK, MintTypeOK, Transaction
<1> QED
  BY <1>1, <1>2, MintAssumption DEF SolutionTx, MintTx, Tx

(* A call of broadcastQueuedMintTransactions keeps the types. *)
LEMMA BroadcastTypes ==
    ASSUME MintInvariant, faults' \in Nat, NEW r \in BroadcastRuns,
           StartBroadcast(r) \/ BroadcastStep(r) \/ FailStep(r)
    PROVE  MintInvariant'
<1> DEFINE state == broadcast[r]
<1>1. /\ CallOK(state) /\ state \in BroadcastState
      /\ transactions \in Seq(Transaction) /\ DocsOK
      /\ mempool \in Tx /\ txCount \in Nat
      /\ challengeNumber \in 0..MaxEpoch
  BY MintAssumption DEF MintInvariant, TypeOK, MintTypeOK, CallsOK, CallOK
\* The steps that only change the state of the call.
<1>2. ASSUME NEW from, NEW new, Step(r, from, new), CallOK(new)
      PROVE  MintInvariant'
  <2>1. UNCHANGED <<chainVars, challengeNumber, callVars, transactions>>
    BY <1>2 DEF Step, SetBroadcast
  <2>2. DocsKept
    BY <2>1, SameDocs
  <2>3. broadcast' = [broadcast EXCEPT ![r] = new]
    BY <1>2 DEF Step, SetBroadcast
  <2> QED
    BY <1>1, <1>2, <2>1, <2>2, <2>3, CallFrame DEF chainVars
\* The steps that write to the collection.
<1>3. ASSUME NEW new, SetBroadcast(r, new), CallOK(new), DocsKept
      PROVE  MintInvariant'
  BY <1>1, <1>3, CallFrame DEF SetBroadcast, chainVars
\* The steps that hand a transaction to the node.
<1>4. ASSUME NEW new, CallOK(new), broadcast' = [broadcast EXCEPT ![r] = new],
             mempool' \in Tx, UNCHANGED <<contractEpoch, txCount, receipts, hasTokens>>,
             UNCHANGED <<challengeNumber, transactions, callVars>>
      PROVE  MintInvariant'
  BY <1>4, SameDocs, CallFrame
<1>5. CASE StartBroadcast(r)
  <2> DEFINE new == IF WithStatus("pending") # {} THEN IdleBroadcast
                    ELSE [IdleBroadcast EXCEPT !.pc = "challenge"]
  <2>1. Step(r, "idle", new)
    BY <1>5 DEF StartBroadcast, BeginBroadcast
  <2>2. CallOK(new)
    BY IdleTypes DEF CallOK, BroadcastState, IdleBroadcast
  <2> QED
    BY <1>2, <2>1, <2>2
<1>6. CASE ReadChallenge(r)
  <2> DEFINE new == [state EXCEPT !.pc = "pick", !.challenge = challengeNumber]
  <2>1. CallOK(new)
    BY <1>1 DEF CallOK, BroadcastState
  <2> QED
    BY <1>2, <1>6, <2>1 DEF ReadChallenge
<1>7. CASE PickQueued(r)
  <2> DEFINE queued == IF Current(r) = {} THEN WithStatus("queued") ELSE Current(r)
             new == IF queued = {} THEN IdleBroadcast
                    ELSE [state EXCEPT !.pc = "compare", !.doc = FirstOf(queued)]
  <2>1. Step(r, "pick", new)
    BY <1>7 DEF PickQueued, Pick
  <2>2. queued \subseteq Docs /\ Docs \subseteq Nat
    BY <1>1, DocumentTypes DEF Current
  <2>3. queued # {} => FirstOf(queued) \in Docs /\ FirstOf(queued) \in Nat
    <3> HIDE DEF queued
    <3> QED
      BY <2>2, FirstOfInSet
  <2>4. CallOK(new)
    <3> HIDE DEF queued
    <3> QED
      BY <1>1, <2>3, IdleTypes DEF CallOK, BroadcastState
  <2> QED
    BY <1>2, <2>1, <2>4
<1>8. CASE CompareChallengeNumber(r)
  <2> DEFINE new == [state EXCEPT
                !.pc = IF OfChallenge(state.doc) = challengeNumber THEN "check" ELSE "outdate"]
  <2>1. Step(r, "compare", new)
    BY <1>8 DEF CompareChallengeNumber
  <2>2. state.pc = "compare"
    BY <2>1 DEF Step
  <2>3. CallOK(new)
    BY <1>1, <2>2 DEF CallOK, BroadcastState
  <2> QED
    BY <1>2, <2>1, <2>3
<1>9. CASE CheckMintInputs(r) \/ EstimateRetry(r)
  <2>1. state.pc \in {"check", "estimate"}
    BY <1>9 DEF CheckMintInputs, EstimateRetry, Step
  <2>2. CallOK(WriteNext(r, "skipped", NoTx))
    BY <2>1, WriteTypes, IdleTypes DEF Status
  <2>3. CallOK([state EXCEPT !.pc = "count"]) /\ CallOK([state EXCEPT !.pc = "resend"])
    BY <1>1, <2>1 DEF CallOK, BroadcastState
  <2> QED
    BY <1>2, <1>9, <2>2, <2>3 DEF CheckMintInputs, EstimateRetry
<1>10. CASE GetTransactionCount(r)
  <2> DEFINE new == [state EXCEPT !.pc = "send", !.nonce = txCount]
  <2>1. Step(r, "count", new)
    BY <1>10 DEF GetTransactionCount
  <2>2. state.pc = "count"
    BY <2>1 DEF Step
  <2>3. CallOK(new)
    BY <1>1, <2>2 DEF CallOK, BroadcastState
  <2> QED
    BY <1>2, <2>1, <2>3
<1>11. CASE SendMint(r)
  <2> DEFINE tx == SolutionTx(r, MintPrice)
             accepted == WriteNext(r, "pending", tx)
             refused == [state EXCEPT !.pc = "estimate"]
  <2>1. state.pc = "send" /\ Send(r, tx, accepted, refused)
    BY <1>11 DEF SendMint
  <2>2. tx \in Tx /\ tx.price = MintPrice
    BY <2>1, SolutionTxTypes DEF MintPrice
  <2>3. CallOK(accepted)
    BY <2>1, <2>2, WriteTypes DEF Status, FullPrice
  <2>4. CallOK(refused)
    BY <1>1, <2>1 DEF CallOK, BroadcastState
  <2> HIDE DEF tx, accepted, refused
  <2> QED
    BY <1>1, <1>4, <2>1, <2>2, <2>3, <2>4 DEF Send
<1>12. CASE ResendMint(r)
  <2> DEFINE tx == SolutionTx(r, MintRetryPrice)
  <2>1. state.pc = "resend" /\ Send(r, tx, IdleBroadcast, IdleBroadcast)
    BY <1>12 DEF ResendMint, ResendAs
  <2>2. tx \in Tx
    BY <2>1, SolutionTxTypes DEF MintRetryPrice
  <2> HIDE DEF tx
  <2> QED
    BY <1>1, <1>4, <2>1, <2>2, IdleTypes DEF Send
<1>13. CASE WriteStatus(r)
  <2>1. /\ SetDoc(state.doc, state.status, state.hash)
        /\ SetBroadcast(r, IdleBroadcast)
    BY <1>13 DEF WriteStatus
  <2>2. DocsKept
    BY <1>1, <2>1, SetDocKept DEF CallOK, BroadcastState
  <2> QED
    BY <1>3, <2>1, <2>2, IdleTypes
<1>14. CASE MarkOutdated(r)
  <2>1. /\ state.pc = "outdate"
        /\ SetDoc(state.doc, "outdated", NoTx)
        /\ SetBroadcast(r, [state EXCEPT !.pc = "delete"])
    BY <1>14 DEF MarkOutdated
  <2>2. DocsKept
    BY <1>1, <2>1, SetDocKept, IdleTypes DEF Status
  <2>3. CallOK([state EXCEPT !.pc = "delete"])
    BY <1>1, <2>1 DEF CallOK, BroadcastState
  <2> QED
    BY <1>3, <2>1, <2>2, <2>3
<1>15. CASE DeleteOutdated(r)
  <2> DEFINE k == state.deleted + 1
             gone(i) == /\ OfChallenge(i) = OfChallenge(state.doc)
                        /\ transactions[i].status = DeletedStatus[k]
             new(i) == IF gone(i) THEN [transactions[i] EXCEPT !.status = "deleted"]
                       ELSE transactions[i]
             next == IF k = Len(DeletedStatus) THEN IdleBroadcast
                     ELSE [state EXCEPT !.deleted = k]
  <2>1. /\ state.pc = "delete"
        /\ transactions' = [i \in Docs |-> new(i)]
        /\ SetBroadcast(r, next)
    BY <1>15 DEF DeleteOutdated
  <2>2. \A i \in Docs : new(i) \in Transaction /\ FullPrice(new(i).txHash)
    <3> SUFFICES ASSUME NEW i \in Docs
                 PROVE  new(i) \in Transaction /\ FullPrice(new(i).txHash)
      OBVIOUS
    <3>1. transactions[i] \in Transaction /\ FullPrice(transactions[i].txHash)
      BY <1>1, DocumentTypes DEF DocsOK
    <3>2. CASE gone(i)
      <4>1. new(i) = [transactions[i] EXCEPT !.status = "deleted"]
        BY <3>2
      <4> QED
        BY <3>1, <4>1 DEF Transaction
    <3>3. CASE ~gone(i)
      BY <3>1, <3>3
    <3> QED
      BY <3>2, <3>3
  <2>3. DocsKept
    <3> HIDE DEF new
    <3>1. Docs = 1..Len(transactions) /\ Len(transactions) \in Nat
      BY <1>1, LenProperties DEF Docs
    <3>2. transactions' \in [1..Len(transactions) -> Transaction]
      BY <2>1, <2>2, <3>1
    <3>3. transactions' \in Seq(Transaction)
      BY <3>1, <3>2, FunctionIsSeq
    <3>4. DOMAIN transactions' = Docs
      BY <2>1
    <3> QED
      BY <2>1, <2>2, <3>3, <3>4 DEF DocsKept, DocsOK, Docs
  <2>4. CallOK(next)
    <3>1. Len(DeletedStatus) = 4
      BY DEF DeletedStatus
    <3>2. k # 4 => CallOK([state EXCEPT !.deleted = k])
      BY <1>1 DEF CallOK, BroadcastState
    <3> QED
      BY <3>1, <3>2, IdleTypes
  <2> QED
    BY <1>3, <2>1, <2>3, <2>4
<1>16. CASE FailStep(r)
  <2> DEFINE price == IF state.pc = "send" THEN MintPrice ELSE MintRetryPrice
             new == CASE state.pc \in {"check", "count", "estimate"} ->
                                    WriteNext(r, "skipped", NoTx)
                      [] state.pc = "send" -> [state EXCEPT !.pc = "estimate"]
                      [] OTHER -> IdleBroadcast
  <2>1. /\ broadcast' = [broadcast EXCEPT ![r] = new]
        /\ \/ mempool' = mempool
           \/ state.pc \in {"send", "resend"} /\ mempool' = SolutionTx(r, price)
        /\ UNCHANGED <<contractEpoch, txCount, receipts, hasTokens>>
        /\ UNCHANGED <<challengeNumber, transactions, callVars>>
    BY <1>16 DEF FailStep
  <2>2. CallOK(new)
    <3>1. CASE state.pc \in {"check", "count", "estimate"}
      <4>1. CallOK(WriteNext(r, "skipped", NoTx))
        BY <3>1, WriteTypes, IdleTypes DEF Status
      <4> QED
        BY <3>1, <4>1
    <3>2. CASE state.pc = "send"
      <4>1. CallOK([state EXCEPT !.pc = "estimate"])
        BY <1>1, <3>2 DEF CallOK, BroadcastState
      <4> QED
        BY <3>2, <4>1
    <3>3. CASE state.pc \notin {"check", "count", "estimate", "send"}
      BY <3>3, IdleTypes
    <3> QED
      BY <3>1, <3>2, <3>3
  <2>3. mempool' \in Tx
    BY <1>1, <2>1, SolutionTxTypes DEF MintPrice, MintRetryPrice
  <2> HIDE DEF new, price
  <2> QED
    BY <1>4, <2>1, <2>2, <2>3
<1> QED
  BY <1>5, <1>6, <1>7, <1>8, <1>9, <1>10, <1>11, <1>12, <1>13, <1>14, <1>15, <1>16
     DEF BroadcastStep

----------------------------------------------------------------------------

(* The calls of the monitors, of the transfer, and a restart keep the types. *)
LEMMA TaskTypes ==
    ASSUME MintInvariant, faults' \in Nat,
           \/ MonitorStep \/ SkipStale \/ TransferStep \/ CrashBroadcasts
           \/ \E docs \in SUBSET WithStatus("pending") : ListStale(docs)
    PROVE  MintInvariant'
<1>1. /\ transactions \in Seq(Transaction) /\ DocsOK /\ CallsOK
      /\ monitor \in MonitorState /\ stale \subseteq Nat /\ transfer \in TransferState
      /\ mempool \in Tx /\ txCount \in Nat
      /\ broadcast \in [BroadcastRuns -> BroadcastState]
  BY DEF MintInvariant, TypeOK, MintTypeOK
<1>2. ASSUME DocsKept, CallsOK', broadcast' \in [BroadcastRuns -> BroadcastState],
             mempool' \in Tx, monitor' \in MonitorState, stale' \subseteq Nat,
             transfer' \in TransferState,
             UNCHANGED <<contractEpoch, txCount, receipts, hasTokens, challengeNumber>>
      PROVE  MintInvariant'
  BY <1>2 DEF MintInvariant, TypeOK, MintTypeOK, DocsKept
<1>3. ASSUME DocsKept, UNCHANGED broadcast
      PROVE  CallsOK' /\ broadcast' \in [BroadcastRuns -> BroadcastState]
  BY <1>1, <1>3, CallsKept DEF DocsKept
<1>4. ASSUME NEW docs \in SUBSET Listed, NEW found \in {"none", "success", "reverted"},
             SetMonitor(docs, found), DocsKept
      PROVE  MintInvariant'
  <2>1. monitor' \in MonitorState
    BY <1>4 DEF SetMonitor, MonitorState
  <2> QED
    BY <1>1, <1>2, <1>3, <1>4, <2>1 DEF SetMonitor, chainVars
<1>5. CASE ListPending
  <2> DEFINE docs == {[doc |-> i, txHash |-> transactions[i].txHash] :
                        i \in WithStatus("pending")}
  <2>1. docs \subseteq Listed
    BY <1>1, DocumentTypes DEF Listed, Transaction
  <2>2. SetMonitor(docs, "none") /\ UNCHANGED transactions
    BY <1>5 DEF ListPending
  <2> HIDE DEF docs
  <2> QED
    BY <1>4, <2>1, <2>2, SameDocs
<1>6. CASE RequestReceipt
  <2>1. UNCHANGED transactions
    BY <1>6 DEF RequestReceipt
  <2>2. monitor.docs \in SUBSET Listed /\ monitor.docs \ {FirstListed} \in SUBSET Listed
    BY <1>1 DEF MonitorState
  <2>3. \/ SetMonitor(monitor.docs \ {FirstListed}, "none")
        \/ SetMonitor(monitor.docs, "success")
        \/ SetMonitor(monitor.docs, "reverted")
    BY <1>6 DEF RequestReceipt
  <2> QED
    BY <1>4, <2>1, <2>2, <2>3, SameDocs
<1>7. CASE WriteReceipt
  <2>1. monitor.found \in Status
    BY <1>1, <1>7 DEF WriteReceipt, MonitorState, Status
  <2>2. /\ SetDoc(FirstListed.doc, monitor.found, NoTx)
        /\ SetMonitor(monitor.docs \ {FirstListed}, "none")
    BY <1>7 DEF WriteReceipt, WriteFound
  <2>3. monitor.docs \ {FirstListed} \in SUBSET Listed
    BY <1>1 DEF MonitorState
  <2>4. DocsKept
    BY <1>1, <2>1, <2>2, SetDocKept, IdleTypes
  <2> QED
    BY <1>4, <2>2, <2>3, <2>4
<1>8. ASSUME NEW docs \in SUBSET Nat, SetStale(docs), DocsKept
      PROVE  MintInvariant'
  BY <1>1, <1>2, <1>3, <1>8 DEF SetStale, chainVars
<1>9. ASSUME NEW docs \in SUBSET WithStatus("pending"), ListStale(docs)
      PROVE  MintInvariant'
  <2>1. docs \in SUBSET Nat
    BY <1>1, DocumentTypes
  <2> QED
    BY <1>8, <1>9, <2>1, SameDocs DEF ListStale
<1>10. CASE SkipStale
  <2>1. stale \ {FirstOf(stale)} \in SUBSET Nat
    BY <1>1
  <2>2. DocsKept
    BY <1>1, <1>10, SetDocKept, IdleTypes DEF SkipStale, Status
  <2> QED
    BY <1>8, <1>10, <2>1, <2>2 DEF SkipStale
<1>11. ASSUME NEW state \in TransferState, SetTransfer(state), mempool' \in Tx
      PROVE  MintInvariant'
  <2>1. DocsKept
    BY <1>11, SameDocs DEF SetTransfer
  <2> QED
    BY <1>1, <1>2, <1>3, <1>11, <2>1 DEF SetTransfer
<1>12. CASE StartTransfer
  <2>1. [pc |-> "estimate", nonce |-> txCount] \in TransferState
    BY <1>1 DEF TransferState
  <2> QED
    BY <1>1, <1>11, <1>12, <2>1 DEF StartTransfer
<1>13. CASE EstimateTransfer
  <2>1. /\ [transfer EXCEPT !.pc = "send"] \in TransferState
        /\ [transfer EXCEPT !.pc = "resend"] \in TransferState
    BY <1>1 DEF TransferState
  <2>2. \/ SetTransfer(IdleTransfer)
        \/ SetTransfer([transfer EXCEPT !.pc = "send"])
        \/ SetTransfer([transfer EXCEPT !.pc = "resend"])
    BY <1>13 DEF EstimateTransfer
  <2> QED
    BY <1>1, <1>11, <1>13, <2>1, <2>2, IdleTypes DEF EstimateTransfer
<1>14. CASE SendTransfer
  <2> DEFINE tx == TransferTx(transfer.nonce,
                      IF transfer.pc = "send" THEN TransferPrice ELSE TransferRetryPrice)
  <2>1. tx \in Tx
    BY <1>1 DEF TransferTx, Tx, TransferState, TransferPrice, TransferRetryPrice
  <2>2. [transfer EXCEPT !.pc = "again"] \in TransferState
    BY <1>1 DEF TransferState
  <2>3. mempool' \in Tx
    BY <1>1, <1>14, <2>1 DEF SendTransfer
  <2>4. SetTransfer(IdleTransfer) \/ SetTransfer([transfer EXCEPT !.pc = "again"])
    BY <1>14 DEF SendTransfer
  <2> QED
    BY <1>11, <2>2, <2>3, <2>4, IdleTypes
<1>15. CASE CrashBroadcasts
  <2>1. /\ broadcast' = [r \in BroadcastRuns |-> IdleBroadcast]
        /\ monitor' = IdleMonitor /\ stale' = {} /\ transfer' = IdleTransfer
        /\ UNCHANGED <<chainVars, challengeNumber, transactions>>
    BY <1>15 DEF CrashBroadcasts
  <2>2. DocsKept
    BY <2>1, SameDocs
  <2>3. CallsOK' /\ broadcast' \in [BroadcastRuns -> BroadcastState]
    <3>1. Docs' = Docs
      BY <2>1 DEF Docs
    <3> QED
      BY <2>1, <3>1, IdleTypes DEF CallsOK, CallOK
  <2> QED
    BY <1>1, <1>2, <2>1, <2>2, <2>3, IdleTypes DEF chainVars
<1> QED
  BY <1>5, <1>6, <1>7, <1>9, <1>10, <1>12, <1>13, <1>14, <1>15
     DEF MonitorStep, TransferStep

(* Every step of the system keeps the types. *)
LEMMA NextTypes ==
    ASSUME MintInvariant, [Next]_vars
    PROVE  MintInvariant'
<1>1. faults' \in Nat
  BY DEF MintInvariant, TypeOK, Next, NextBroadcast, Fault, vars
<1>2. CASE UNCHANGED vars
  BY <1>2 DEF vars, mintTxVars, chainVars, callVars, MintInvariant, TypeOK, MintTypeOK,
         CallsOK, CallOK, DocsOK, Docs
<1>3. CASE MineTx \/ OthersMine \/ ReadChallengeNumber \/ DropTx
  BY <1>1, <1>3, ChainTypes
<1>4. ASSUME NEW s \in Solutions, QueueMiningSolution(s)
      PROVE  MintInvariant'
  BY <1>1, <1>4, QueueTypes
<1>5. ASSUME NEW r \in BroadcastRuns, StartBroadcast(r) \/ BroadcastStep(r) \/ FailStep(r)
      PROVE  MintInvariant'
  BY <1>1, <1>5, BroadcastTypes
<1>6. CASE \/ MonitorStep \/ SkipStale \/ TransferStep \/ CrashBroadcasts
           \/ \E docs \in SUBSET WithStatus("pending") : ListStale(docs)
  BY <1>1, <1>6, TaskTypes
<1>7. LostDocs \in SUBSET WithStatus("pending")
  BY DEF LostDocs
<1> QED
  BY <1>2, <1>3, <1>4, <1>5, <1>6, <1>7 DEF Next, NextBroadcast, Fault

(* The types, the references and the prices, together, are an invariant. *)
THEOREM MintInvariance == Spec => []MintInvariant
<1>1. Init => MintInvariant
  BY InitTypes
<1>2. MintInvariant /\ [Next]_vars => MintInvariant'
  BY NextTypes
<1> QED
  BY <1>1, <1>2, PTL DEF Spec

(***************************************************************************)
(* Every document, every call and every transaction of the minting account *)
(* stays well-typed, whatever fails, overlaps or is started again.         *)
(***************************************************************************)
THEOREM TypeCorrect == Spec => []TypeOK
<1>1. MintInvariant => TypeOK
  BY DEF MintInvariant
<1> QED
  BY <1>1, MintInvariance, PTL

----------------------------------------------------------------------------

(* What the node is given that sends no solution is a transfer, and a        *)
(* transfer does not pay enough to displace a transaction at full price.     *)
LEMMA TransferIsCheap ==
    ASSUME mempool # NoTx, mempool.price = MintPrice, SendTransfer
    PROVE  mempool' = mempool
<1> DEFINE price == IF transfer.pc = "send" THEN TransferPrice ELSE TransferRetryPrice
           tx == TransferTx(transfer.nonce, price)
<1>1. tx.price = price /\ (price = 10 \/ price = 19)
  BY DEF TransferTx, TransferPrice, TransferRetryPrice
<1>2. ~Accepts(tx)
  <2> HIDE DEF price, tx
  <2> QED
    BY <1>1 DEF Accepts, MintPrice
<1> QED
  BY <1>2 DEF SendTransfer

(* A broadcast hands the node nothing but solutions. *)
LEMMA BroadcastSendsSolutions ==
    ASSUME MintInvariant, NEW r \in BroadcastRuns,
           StartBroadcast(r) \/ BroadcastStep(r) \/ FailStep(r), mempool' # mempool
    PROVE  mempool'.solution # None
<1>1. CASE SendMint(r)
  BY <1>1, SolutionTxTypes DEF SendMint, Send, MintPrice
<1>2. CASE ResendMint(r)
  BY <1>2, SolutionTxTypes DEF ResendMint, ResendAs, Send, MintRetryPrice
<1>3. CASE FailStep(r)
  BY <1>3, SolutionTxTypes DEF FailStep, MintPrice, MintRetryPrice
<1>4. CASE \/ StartBroadcast(r) \/ ReadChallenge(r) \/ PickQueued(r)
           \/ CompareChallengeNumber(r) \/ CheckMintInputs(r) \/ GetTransactionCount(r)
           \/ EstimateRetry(r)
  BY <1>4 DEF StartBroadcast, BeginBroadcast, ReadChallenge, PickQueued, Pick,
         CompareChallengeNumber, CheckMintInputs, GetTransactionCount, EstimateRetry,
         Step, SetBroadcast, chainVars
<1>5. CASE WriteStatus(r) \/ MarkOutdated(r) \/ DeleteOutdated(r)
  BY <1>5 DEF WriteStatus, MarkOutdated, DeleteOutdated, SetBroadcast, chainVars
<1> QED
  BY <1>1, <1>2, <1>3, <1>4, <1>5 DEF BroadcastStep

(* No step displaces an awaited solution by a transfer. *)
LEMMA StepDisplacesNothing ==
    ASSUME MintInvariant, Next, Awaited(mempool), mempool' # mempool, mempool' # NoTx
    PROVE  mempool'.solution # None
<1>1. mempool # NoTx /\ mempool.price = MintPrice
  BY DEF Awaited, MintInvariant, DocsOK, FullPrice, WithStatus
<1>2. CASE MineTx \/ OthersMine \/ ReadChallengeNumber \/ DropTx
  BY <1>2 DEF MineTx, OthersMine, ReadChallengeNumber, DropTx, chainVars
<1>3. ASSUME NEW s \in Solutions, QueueMiningSolution(s)
      PROVE  FALSE
  BY <1>3 DEF QueueMiningSolution, chainVars
<1>4. ASSUME NEW r \in BroadcastRuns, StartBroadcast(r) \/ BroadcastStep(r) \/ FailStep(r)
      PROVE  mempool'.solution # None
  BY <1>4, BroadcastSendsSolutions
<1>5. CASE MonitorStep \/ SkipStale \/ CrashBroadcasts
  BY <1>5 DEF MonitorStep, ListPending, RequestReceipt, WriteReceipt, WriteFound, SetMonitor,
         SkipStale, SetStale, CrashBroadcasts, chainVars
<1>6. ASSUME NEW docs, ListStale(docs)
      PROVE  FALSE
  BY <1>6 DEF ListStale, SetStale, chainVars
<1>7. CASE TransferStep
  BY <1>1, <1>7, TransferIsCheap DEF TransferStep, StartTransfer, EstimateTransfer
<1> QED
  BY <1>2, <1>3, <1>4, <1>5, <1>6, <1>7 DEF Next, NextBroadcast, Fault

(***************************************************************************)
(* A solution the queue waits for keeps its place in the node: a transfer  *)
(* of the tokens, which has the same account and may have the same nonce,  *)
(* never pays enough to displace it.                                       *)
(***************************************************************************)
THEOREM SolutionKeepsItsPlace == Spec => PendingNotDisplaced
<1>1. ASSUME MintInvariant, [Next]_vars
      PROVE  [Awaited(mempool) /\ mempool' # mempool /\ mempool' # NoTx
                => mempool'.solution # None]_vars
  BY <1>1, StepDisplacesNothing
<1> QED
  BY <1>1, MintInvariance, PTL DEF Spec, PendingNotDisplaced

----------------------------------------------------------------------------
(* What holds as long as nothing has gone wrong. *)

\* The node was never sent the solution of this document.
Clean(i) ==
    /\ mempool.solution # transactions[i].solution
    /\ \A receipt \in receipts : receipt.tx.solution # transactions[i].solution

\* The solution of this document was sent once, with this hash, and is mined or will be.
Sent(i, hash) ==
    /\ hash # NoTx
    /\ ~Lost(hash)
    /\ mempool.solution = transactions[i].solution => mempool = hash
    /\ \A receipt \in receipts :
        receipt.tx.solution = transactions[i].solution => receipt.tx = hash

Unsent == {"queued", "skipped", "outdated", "deleted"}

DocKept(i) ==
    /\ transactions[i].status \in Unsent => Clean(i) \/ Recording(i)
    /\ transactions[i].status = "pending" => Sent(i, transactions[i].txHash)
    /\ transactions[i].status = "reverted" =>
        ~Minted(i) /\ mempool.solution # transactions[i].solution

DocsKeptWhole == \A i \in Docs : DocKept(i)

\* A call works on a queued document, and what the node has refused once it refuses again.
CallKept(r) ==
    LET state == broadcast[r] IN
    /\ state.pc # "idle" => WithStatus("pending") = {}
    /\ state.pc \notin {"idle", "challenge", "pick", "delete"} =>
        transactions[state.doc].status = "queued"
    /\ state.pc \in {"send", "estimate", "resend"} => state.nonce <= txCount
    /\ state.pc \in {"estimate", "resend"} => ~Accepts(SolutionTx(r, MintPrice))
    /\ state.pc = "write" => state.status \in {"pending", "skipped"}
    /\ state.pc = "write" /\ state.status = "pending" => Sent(state.doc, state.hash)

CallsKeptWhole == \A r \in BroadcastRuns : CallKept(r)

OneCall == \A r, q \in BroadcastRuns : broadcast[r].pc # "idle" /\ broadcast[q].pc # "idle" => r = q

\* What the monitor is about to write is still true of what it has listed.
MonitorKept ==
    /\ \A d \in monitor.docs :
        d.doc \in WithStatus("pending") /\ transactions[d.doc].txHash = d.txHash
    /\ monitor.found # "none" => monitor.docs # {}
    /\ monitor.found = "reverted" =>
        /\ \E receipt \in receipts : receipt.tx = FirstListed.txHash
        /\ \A receipt \in receipts : receipt.tx = FirstListed.txHash => ~receipt.succeeded

NoncesKept ==
    /\ mempool # NoTx => mempool.nonce = txCount
    /\ \A receipt \in receipts : receipt.tx.nonce < txCount

\* Every solution has one document, and the node was sent none that has not.
SolutionsKept ==
    /\ \A i, j \in Docs : transactions[i].solution = transactions[j].solution => i = j
    /\ mempool.solution # None =>
        \E i \in Docs : transactions[i].solution = mempool.solution
    /\ \A receipt \in receipts :
        receipt.tx.solution # None =>
            \E i \in Docs : transactions[i].solution = receipt.tx.solution

Whole ==
    /\ DocsKeptWhole
    /\ CallsKeptWhole
    /\ OneCall
    /\ MonitorKept
    /\ NoncesKept
    /\ SolutionsKept
    /\ stale = {}

KeptInvariant == MintInvariant /\ (faults = 0 => Whole)

(* The documents, the transactions and the calls are typed, one by one. *)
LEMMA ElementTypes ==
    ASSUME MintInvariant
    PROVE  /\ \A i \in Docs : /\ i \in Nat /\ transactions[i] \in Transaction
                              /\ transactions[i].solution \in Solutions
                              /\ transactions[i].solution # None
           /\ \A receipt \in receipts : /\ receipt.tx \in Tx /\ receipt.tx.nonce \in Nat
                                        /\ receipt.succeeded \in BOOLEAN
           /\ mempool \in Tx /\ mempool.nonce \in Nat /\ mempool.price \in Nat
           /\ txCount \in Nat
           /\ \A r \in BroadcastRuns :
                /\ broadcast[r] \in BroadcastState /\ CallOK(broadcast[r])
                /\ broadcast[r].nonce \in Nat
<1> USE DEF MintInvariant, TypeOK, MintTypeOK
<1>1. \A i \in Docs : i \in Nat /\ transactions[i] \in Transaction
  BY DocumentTypes
<1>2. \A i \in Docs : /\ transactions[i].solution \in Solutions
                      /\ transactions[i].solution # None
  BY <1>1, MintAssumption DEF Transaction
<1>3. \A receipt \in receipts : /\ receipt.tx \in Tx /\ receipt.tx.nonce \in Nat
                                /\ receipt.succeeded \in BOOLEAN
  BY DEF Tx
<1>4. /\ mempool \in Tx /\ mempool.nonce \in Nat /\ mempool.price \in Nat
      /\ txCount \in Nat
  BY DEF Tx
<1>5. \A r \in BroadcastRuns :
        /\ broadcast[r] \in BroadcastState /\ CallOK(broadcast[r])
        /\ broadcast[r].nonce \in Nat
  BY DEF CallsOK, CallOK, BroadcastState
<1> QED
  BY <1>1, <1>2, <1>3, <1>4, <1>5

(* A step that only changes the state of one call, which has nothing to write. *)
LEMMA LocalStepKeeps ==
    ASSUME MintInvariant, Whole, NEW r \in BroadcastRuns, NEW new,
           broadcast' = [broadcast EXCEPT ![r] = new],
           UNCHANGED <<transactions, mempool, receipts, txCount, monitor, stale>>,
           broadcast[r].pc # "write",
           CallKept(r)',
           new.pc # "idle" => \A q \in BroadcastRuns \ {r} : broadcast[q].pc = "idle"
    PROVE  Whole'
<1> USE DEF Whole
<1>1. \A q \in BroadcastRuns : broadcast'[q] = IF q = r THEN new ELSE broadcast[q]
  BY DEF MintInvariant, TypeOK, MintTypeOK
<1>2. DocsKeptWhole'
  <2>1. Docs' = Docs
    BY DEF Docs
  <2> SUFFICES ASSUME NEW i \in Docs PROVE DocKept(i)'
    BY <2>1 DEF DocsKeptWhole
  <2>2. DocKept(i)
    BY DEF DocsKeptWhole
  <2>3. Recording(i) => Recording(i)'
    BY <1>1 DEF Recording
  <2>4. Clean(i) => Clean(i)'
    BY DEF Clean
  <2> QED
    BY <2>2, <2>3, <2>4 DEF DocKept, Sent, Lost, Minted
<1>3. CallsKeptWhole'
  <2> SUFFICES ASSUME NEW q \in BroadcastRuns, q # r PROVE CallKept(q)'
    BY DEF CallsKeptWhole
  <2>1. CallKept(q) /\ broadcast'[q] = broadcast[q]
    BY <1>1 DEF CallsKeptWhole
  <2> QED
    BY <2>1 DEF CallKept, WithStatus, Docs, Sent, Lost, Accepts, SolutionTx
<1>4. OneCall'
  BY <1>1 DEF OneCall
<1>5. MonitorKept'
  BY DEF MonitorKept, FirstListed, WithStatus, Docs
<1>6. NoncesKept'
  BY DEF NoncesKept
<1>7. SolutionsKept'
  BY DEF SolutionsKept, Docs
<1> QED
  BY <1>2, <1>3, <1>4, <1>5, <1>6, <1>7

(* The steps of a call up to the first attempt, and the estimate for the second. *)
LEMMA LocalStepsKeep ==
    ASSUME MintInvariant, Whole, NEW r \in BroadcastRuns,
           \/ StartBroadcast(r) /\ Alone
           \/ ReadChallenge(r) \/ PickQueued(r) \/ CompareChallengeNumber(r)
           \/ CheckMintInputs(r) \/ GetTransactionCount(r) \/ EstimateRetry(r)
    PROVE  Whole'
<1> DEFINE state == broadcast[r]
<1>1. /\ CallKept(r) /\ CallOK(state) /\ state \in BroadcastState /\ txCount \in Nat
      /\ broadcast \in [BroadcastRuns -> BroadcastState]
  BY ElementTypes DEF Whole, CallsKeptWhole, MintInvariant, TypeOK, MintTypeOK
<1>2. ASSUME NEW from, NEW new, Step(r, from, new), from # "write", CallKept(r)',
             new.pc # "idle" => from # "idle" \/ Alone
      PROVE  Whole'
  <2>1. /\ broadcast' = [broadcast EXCEPT ![r] = new] /\ state.pc = from
        /\ UNCHANGED <<transactions, mempool, receipts, txCount, monitor, stale>>
    BY <1>2 DEF Step, SetBroadcast, chainVars, callVars
  <2>2. new.pc # "idle" => \A q \in BroadcastRuns \ {r} : broadcast[q].pc = "idle"
    BY <1>2, <2>1 DEF Alone, Whole, OneCall
  <2> QED
    BY <1>2, <2>1, <2>2, LocalStepKeeps
<1>3. ASSUME NEW from, NEW new, Step(r, from, new)
      PROVE  /\ broadcast'[r] = new /\ state.pc = from
             /\ Docs' = Docs /\ WithStatus("pending")' = WithStatus("pending")
             /\ UNCHANGED <<transactions, mempool, receipts, txCount>>
  BY <1>1, <1>3 DEF Step, SetBroadcast, chainVars, callVars, Docs, WithStatus
<1>4. CASE StartBroadcast(r) /\ Alone
  <2> DEFINE new == IF WithStatus("pending") # {} THEN IdleBroadcast
                    ELSE [IdleBroadcast EXCEPT !.pc = "challenge"]
  <2>1. Step(r, "idle", new)
    BY <1>4 DEF StartBroadcast, BeginBroadcast
  <2>2. \/ new.pc = "idle"
        \/ new.pc = "challenge" /\ WithStatus("pending") = {}
    BY DEF IdleBroadcast
  <2> HIDE DEF new
  <2>3. CallKept(r)'
    BY <1>3, <2>1, <2>2 DEF CallKept
  <2> QED
    BY <1>2, <1>4, <2>1, <2>3
<1>5. CASE ReadChallenge(r)
  <2> DEFINE new == [state EXCEPT !.pc = "pick", !.challenge = challengeNumber]
  <2>1. Step(r, "challenge", new) /\ new.pc = "pick"
    BY <1>1, <1>5 DEF ReadChallenge, BroadcastState
  <2> HIDE DEF new
  <2>2. CallKept(r)'
    BY <1>1, <1>3, <2>1 DEF CallKept
  <2> QED
    BY <1>2, <2>1, <2>2
<1>6. CASE PickQueued(r)
  <2> DEFINE queued == IF Current(r) = {} THEN WithStatus("queued") ELSE Current(r)
             new == IF queued = {} THEN IdleBroadcast
                    ELSE [state EXCEPT !.pc = "compare", !.doc = FirstOf(queued)]
  <2>1. Step(r, "pick", new)
    BY <1>6 DEF PickQueued, Pick
  <2>2. queued \subseteq WithStatus("queued") /\ WithStatus("queued") \subseteq Nat
    BY ElementTypes DEF Current, WithStatus
  <2>3. queued # {} => FirstOf(queued) \in WithStatus("queued")
    <3> HIDE DEF queued
    <3> QED
      BY <2>2, FirstOfInSet
  <2>4. \/ new.pc = "idle"
        \/ new.pc = "compare" /\ transactions[new.doc].status = "queued"
    <3> HIDE DEF queued
    <3>1. CASE queued = {}
      BY <3>1 DEF IdleBroadcast
    <3>2. CASE queued # {}
      <4>1. new = [state EXCEPT !.pc = "compare", !.doc = FirstOf(queued)]
        BY <3>2
      <4>2. new.pc = "compare" /\ new.doc = FirstOf(queued)
        BY <1>1, <4>1 DEF BroadcastState
      <4> QED
        BY <2>3, <3>2, <4>2 DEF WithStatus
    <3> QED
      BY <3>1, <3>2
  <2> HIDE DEF new
  <2>5. CallKept(r)'
    BY <1>1, <1>3, <2>1, <2>4 DEF CallKept
  <2> QED
    BY <1>2, <2>1, <2>5
<1>7. CASE CompareChallengeNumber(r)
  <2> DEFINE new == [state EXCEPT
                !.pc = IF OfChallenge(state.doc) = challengeNumber THEN "check" ELSE "outdate"]
  <2>1. Step(r, "compare", new) /\ new.pc \in {"check", "outdate"} /\ new.doc = state.doc
    BY <1>1, <1>7 DEF CompareChallengeNumber, BroadcastState
  <2> HIDE DEF new
  <2>2. CallKept(r)'
    BY <1>1, <1>3, <2>1 DEF CallKept
  <2> QED
    BY <1>2, <2>1, <2>2
<1>8. ASSUME NEW from \in {"check", "estimate"}, Step(r, from, WriteNext(r, "skipped", NoTx))
      PROVE  Whole'
  <2> DEFINE new == WriteNext(r, "skipped", NoTx)
  <2>1. new.pc = "write" /\ new.status = "skipped" /\ new.doc = state.doc
    BY <1>1 DEF WriteNext, BroadcastState
  <2> HIDE DEF new
  <2>2. CallKept(r)'
    BY <1>1, <1>3, <1>8, <2>1 DEF CallKept, new
  <2> QED
    BY <1>2, <1>8, <2>2
<1>9. CASE CheckMintInputs(r)
  <2> DEFINE new == [state EXCEPT !.pc = "count"]
  <2>1. Step(r, "check", WriteNext(r, "skipped", NoTx)) \/ Step(r, "check", new)
    BY <1>9 DEF CheckMintInputs
  <2>2. new.pc = "count" /\ new.doc = state.doc
    BY <1>1 DEF BroadcastState
  <2> HIDE DEF new
  <2>3. Step(r, "check", new) => CallKept(r)'
    BY <1>1, <1>3, <2>2 DEF CallKept
  <2> QED
    BY <1>2, <1>8, <2>1, <2>3
<1>10. CASE GetTransactionCount(r)
  <2> DEFINE new == [state EXCEPT !.pc = "send", !.nonce = txCount]
  <2>1. Step(r, "count", new)
    BY <1>10 DEF GetTransactionCount
  <2>2. new.pc = "send" /\ new.doc = state.doc /\ new.nonce = txCount
    BY <1>1 DEF BroadcastState
  <2> HIDE DEF new
  <2>3. CallKept(r)'
    BY <1>1, <1>3, <2>1, <2>2 DEF CallKept
  <2> QED
    BY <1>2, <2>1, <2>3
<1>11. CASE EstimateRetry(r)
  <2> DEFINE new == [state EXCEPT !.pc = "resend"]
  <2>1. Step(r, "estimate", WriteNext(r, "skipped", NoTx)) \/ Step(r, "estimate", new)
    BY <1>11 DEF EstimateRetry
  <2>2. new.pc = "resend" /\ new.doc = state.doc /\ new.nonce = state.nonce
    BY <1>1 DEF BroadcastState
  <2> HIDE DEF new
  <2>3. Step(r, "estimate", new) => CallKept(r)'
    BY <1>1, <1>3, <2>2 DEF CallKept, Accepts, SolutionTx
  <2> QED
    BY <1>2, <1>8, <2>1, <2>3
<1> QED
  BY <1>4, <1>5, <1>6, <1>7, <1>9, <1>10, <1>11

(* The price of a first attempt that was refused is never that of a second. *)
LEMMA ResendRefused ==
    ASSUME MintInvariant, Whole, NEW r \in BroadcastRuns, broadcast[r].pc = "resend"
    PROVE  ~Accepts(SolutionTx(r, MintRetryPrice))
<1>1. ~Accepts(SolutionTx(r, MintPrice))
  BY DEF Whole, CallsKeptWhole, CallKept
<1>2. /\ SolutionTx(r, MintPrice).nonce = SolutionTx(r, MintRetryPrice).nonce
      /\ SolutionTx(r, MintPrice).price = 2000 /\ SolutionTx(r, MintRetryPrice).price = 15
  BY DEF SolutionTx, MintTx, MintPrice, MintRetryPrice
<1>3. mempool.price \in Nat
  BY ElementTypes
<1> HIDE DEF SolutionTx
<1> QED
  BY <1>1, <1>2, <1>3 DEF Accepts

(* The first attempt that the node takes is remembered to be written; one that it *)
(* refuses it will refuse at a lower price as well.                               *)
LEMMA SendKeeps ==
    ASSUME MintInvariant, Whole, NEW r \in BroadcastRuns, SendMint(r) \/ ResendMint(r)
    PROVE  Whole'
<1> DEFINE state == broadcast[r]
           tx == SolutionTx(r, MintPrice)
<1>1. /\ CallKept(r) /\ CallOK(state) /\ state \in BroadcastState
      /\ broadcast \in [BroadcastRuns -> BroadcastState]
      /\ \A q \in BroadcastRuns \ {r} : broadcast[q].pc = "idle"
      /\ WithStatus("pending") = {} /\ state.doc \in Docs
      /\ state.pc \in {"send", "resend"}
      /\ transactions[state.doc].status = "queued"
  BY ElementTypes DEF Whole, CallsKeptWhole, OneCall, MintInvariant, TypeOK, MintTypeOK, CallKept,
        SendMint, ResendMint, ResendAs, CallOK
<1>2. CASE ResendMint(r)
  <2>1. /\ broadcast' = [broadcast EXCEPT ![r] = IdleBroadcast]
        /\ UNCHANGED <<transactions, mempool, receipts, txCount, monitor, stale>>
        /\ state.pc = "resend"
    BY <1>2, ResendRefused DEF ResendMint, ResendAs, Send, callVars
  <2>2. IdleBroadcast.pc = "idle"
    BY DEF IdleBroadcast
  <2>3. CallKept(r)'
    BY <1>1, <2>1, <2>2 DEF CallKept
  <2> QED
    BY <2>1, <2>2, <2>3, LocalStepKeeps
<1>3. CASE SendMint(r) /\ ~Accepts(tx)
  <2> DEFINE new == [state EXCEPT !.pc = "estimate"]
  <2>1. /\ broadcast' = [broadcast EXCEPT ![r] = new]
        /\ UNCHANGED <<transactions, mempool, receipts, txCount, monitor, stale>>
        /\ state.pc = "send"
    BY <1>3 DEF SendMint, Send, callVars
  <2>2. new.pc = "estimate" /\ new.doc = state.doc /\ new.nonce = state.nonce
    BY <1>1 DEF BroadcastState
  <2> HIDE DEF new
  <2>3. broadcast'[r] = new /\ WithStatus("pending")' = {}
    BY <1>1, <2>1 DEF WithStatus, Docs
  <2>4. tx' = tx
    BY <2>1, <2>2, <2>3 DEF SolutionTx
  <2>5. CallKept(r)'
    BY <1>1, <1>3, <2>1, <2>2, <2>3, <2>4 DEF CallKept, Accepts
  <2> QED
    BY <1>1, <2>1, <2>5, LocalStepKeeps
<1>4. CASE SendMint(r) /\ Accepts(tx)
  <2>0. PICK i, h, new : i = state.doc /\ h = tx /\ new = WriteNext(r, "pending", tx)
    OBVIOUS
  <2> DEFINE s == transactions[i].solution
  <2>1. /\ broadcast' = [broadcast EXCEPT ![r] = new] /\ mempool' = h
        /\ UNCHANGED <<transactions, receipts, txCount, monitor, stale>>
        /\ state.pc = "send"
    BY <1>4, <2>0 DEF SendMint, Send, callVars
  <2>2. h.solution = s /\ h.nonce = txCount /\ h # NoTx /\ s # None /\ s \in Solutions
    BY <1>1, <1>4, <2>0, ElementTypes DEF SolutionTx, MintTx, Accepts, NoTx
  <2>3. new.pc = "write" /\ new.status = "pending" /\ new.doc = i /\ new.hash = h
    BY <1>1, <2>0 DEF WriteNext, BroadcastState
  <2>4. Clean(i)
    <3>1. ~Recording(i)
      BY <1>1, <2>1 DEF Recording
    <3> QED
      BY <1>1, <2>0, <3>1 DEF Whole, DocsKeptWhole, DocKept, Unsent
  <2>5. \A q \in BroadcastRuns : broadcast'[q] = IF q = r THEN new ELSE broadcast[q]
    BY <1>1, <2>1
  <2>6. /\ Docs' = Docs /\ WithStatus("pending")' = {}
        /\ i \in Docs /\ transactions[i].status = "queued"
    BY <1>1, <2>0, <2>1 DEF WithStatus, Docs
  <2>7. DocsKeptWhole'
    <3> SUFFICES ASSUME NEW j \in Docs PROVE DocKept(j)'
      BY <2>6 DEF DocsKeptWhole
    <3>1. CASE j = i
      <4>1. Recording(i)'
        BY <2>3, <2>5 DEF Recording
      <4> QED
        BY <2>1, <2>6, <3>1, <4>1 DEF DocKept, Unsent
    <3>2. CASE j # i
      <4>1. transactions[j].solution # s
        BY <2>6, <3>2 DEF Whole, SolutionsKept
      <4>2. ~Recording(j)
        BY <1>1, <2>1 DEF Recording
      <4>3. DocKept(j)
        BY DEF Whole, DocsKeptWhole
      <4>4. transactions[j].status # "pending"
        BY <1>1 DEF WithStatus
      <4> QED
        BY <2>1, <2>2, <4>1, <4>2, <4>3, <4>4 DEF DocKept, Clean, Minted
    <3> QED
      BY <3>1, <3>2
  <2>8. CallsKeptWhole'
    <3> SUFFICES ASSUME NEW q \in BroadcastRuns PROVE CallKept(q)'
      BY DEF CallsKeptWhole
    <3>1. CASE q = r
      <4>1. Sent(i, h)'
        BY <2>1, <2>2, <2>4 DEF Sent, Lost, Clean
      <4>2. broadcast'[q] = new /\ transactions'[i].status = "queued"
        BY <2>1, <2>5, <2>6, <3>1
      <4> QED
        BY <2>3, <2>6, <4>1, <4>2 DEF CallKept
    <3>2. CASE q # r
      BY <1>1, <2>5, <3>2 DEF CallKept
    <3> QED
      BY <3>1, <3>2
  <2>9. OneCall'
    BY <1>1, <2>5 DEF OneCall
  <2>10. MonitorKept'
    BY <2>1 DEF Whole, MonitorKept, FirstListed, WithStatus, Docs
  <2>11. NoncesKept'
    BY <2>1, <2>2 DEF Whole, NoncesKept
  <2>12. SolutionsKept'
    BY <2>1, <2>2, <2>6 DEF Whole, SolutionsKept, Docs
  <2> QED
    BY <2>1, <2>7, <2>8, <2>9, <2>10, <2>11, <2>12 DEF Whole
<1> QED
  BY <1>2, <1>3, <1>4

(* What a write to a document that is there does. *)
LEMMA SetDocResult ==
    ASSUME transactions \in Seq(Transaction), NEW i \in Docs, NEW status, NEW hash,
           transactions[i].status # "deleted", SetDoc(i, status, hash)
    PROVE  /\ Docs' = Docs
           /\ \A j \in Docs : transactions'[j].solution = transactions[j].solution
           /\ \A j \in Docs : j # i => transactions'[j] = transactions[j]
           /\ transactions'[i].status = status
           /\ transactions'[i].txHash = IF hash = NoTx THEN transactions[i].txHash ELSE hash
<1> DEFINE h == IF hash = NoTx THEN transactions[i].txHash ELSE hash
           new == [transactions[i] EXCEPT !.status = status, !.txHash = h]
<1>1. transactions' = [transactions EXCEPT ![i] = new]
  BY DEF SetDoc
<1>2. transactions[i] \in Transaction
  BY DocumentTypes
<1> HIDE DEF h
<1>3. /\ new.solution = transactions[i].solution
      /\ new.status = status /\ new.txHash = h
  BY <1>2 DEF Transaction
<1> HIDE DEF new
<1>4. /\ Docs' = Docs
      /\ \A j \in Docs : transactions'[j] = IF j = i THEN new ELSE transactions[j]
  BY <1>1 DEF Docs
<1> QED
  BY <1>3, <1>4 DEF h

(* A step that writes to the collection while no other call is at work. *)
LEMMA WriteFrame ==
    ASSUME MintInvariant, Whole, NEW r \in BroadcastRuns, broadcast[r].pc # "idle",
           broadcast'[r].pc \in {"idle", "delete"},
           \A q \in BroadcastRuns \ {r} : broadcast'[q] = broadcast[q],
           UNCHANGED <<mempool, receipts, txCount, monitor, stale>>,
           Docs' = Docs,
           \A j \in Docs : transactions'[j].solution = transactions[j].solution,
           DocsKeptWhole',
           broadcast'[r].pc = "delete" => WithStatus("pending")' = {}
    PROVE  Whole'
<1> USE DEF Whole
<1>1. /\ \A q \in BroadcastRuns \ {r} : broadcast[q].pc = "idle"
      /\ WithStatus("pending") = {}
  BY DEF MintInvariant, TypeOK, MintTypeOK, OneCall, CallsKeptWhole, CallKept
<1>3. CallsKeptWhole'
  BY <1>1 DEF CallsKeptWhole, CallKept
<1>4. OneCall'
  BY <1>1 DEF OneCall
<1>5. MonitorKept'
  <2>1. monitor.docs = {} /\ monitor.found = "none"
    BY <1>1 DEF MonitorKept
  <2> QED
    BY <2>1 DEF MonitorKept
<1>6. NoncesKept'
  BY DEF NoncesKept
<1>7. SolutionsKept'
  BY DEF SolutionsKept
<1> QED
  BY <1>3, <1>4, <1>5, <1>6, <1>7

(* The writes of a call. *)
LEMMA WritesKeep ==
    ASSUME MintInvariant, Whole, NEW r \in BroadcastRuns,
           WriteStatus(r) \/ MarkOutdated(r) \/ DeleteOutdated(r)
    PROVE  Whole'
<1>0. PICK state, i : state = broadcast[r] /\ i = state.doc
  OBVIOUS
<1>1. /\ broadcast[r] = state /\ state.pc \in {"write", "outdate", "delete"}
      /\ state \in BroadcastState /\ i \in Docs
      /\ CallKept(r) /\ WithStatus("pending") = {}
      /\ \A q \in BroadcastRuns \ {r} : broadcast[q].pc = "idle"
      /\ transactions \in Seq(Transaction)
  BY <1>0, ElementTypes
     DEF Whole, CallsKeptWhole, CallKept, OneCall, WriteStatus, MarkOutdated, DeleteOutdated,
         CallOK, MintInvariant, TypeOK, MintTypeOK
<1>2. ASSUME NEW j \in Docs
      PROVE  DocKept(j) /\ transactions[j].status # "pending"
  BY <1>1 DEF Whole, DocsKeptWhole, WithStatus
<1>3. ASSUME NEW j \in Docs, state.pc = "write" => j # i \/ state.status # "pending"
      PROVE  ~Recording(j)
  BY <1>0, <1>1, <1>3 DEF Recording
<1>4. /\ IdleBroadcast.pc = "idle"
      /\ broadcast \in [BroadcastRuns -> BroadcastState]
  BY DEF IdleBroadcast, MintInvariant, TypeOK, MintTypeOK
<1>5. CASE WriteStatus(r)
  <2>0. PICK status, hash : status = state.status /\ hash = state.hash
    OBVIOUS
  <2>1. /\ state.pc = "write" /\ SetDoc(i, status, hash)
        /\ broadcast' = [broadcast EXCEPT ![r] = IdleBroadcast]
        /\ UNCHANGED <<mempool, receipts, txCount, monitor, stale>>
    BY <1>0, <1>5, <2>0 DEF WriteStatus, SetBroadcast, chainVars, callVars
  <2>2. /\ transactions[i].status = "queued" /\ status \in {"pending", "skipped"}
        /\ status = "pending" => Sent(i, hash)
    BY <1>0, <1>1, <2>0, <2>1 DEF CallKept
  <2>3. /\ Docs' = Docs
        /\ \A j \in Docs : transactions'[j].solution = transactions[j].solution
        /\ \A j \in Docs : j # i => transactions'[j] = transactions[j]
        /\ transactions'[i].status = status
        /\ transactions'[i].txHash = IF hash = NoTx THEN transactions[i].txHash ELSE hash
    BY <1>1, <2>1, <2>2, SetDocResult
  <2>4. ASSUME NEW j \in Docs PROVE DocKept(j)'
    <3>1. CASE j # i
      BY <1>2, <1>3, <2>1, <2>3, <3>1 DEF DocKept, Clean, Minted
    <3>2. CASE j = i /\ status = "pending"
      <4>1. transactions'[i].txHash = hash /\ Sent(i, hash)
        BY <2>2, <2>3, <3>2 DEF Sent
      <4>2. Sent(i, transactions[i].txHash)'
        BY <1>1, <2>1, <2>3, <4>1 DEF Sent, Lost
      <4> QED
        BY <2>3, <3>2, <4>2 DEF DocKept, Unsent
    <3>3. CASE j = i /\ status = "skipped"
      <4>1. ~Recording(i)
        BY <1>1, <1>3, <2>0, <3>3
      <4>2. Clean(i)
        BY <1>1, <1>2, <2>2, <4>1 DEF DocKept, Unsent
      <4>3. Clean(i)'
        BY <1>1, <2>1, <2>3, <4>2 DEF Clean
      <4> QED
        BY <2>3, <3>3, <4>3 DEF DocKept, Unsent
    <3> QED
      BY <2>2, <3>1, <3>2, <3>3
  <2>5. DocsKeptWhole'
    BY <2>3, <2>4 DEF DocsKeptWhole
  <2>6. /\ broadcast'[r].pc = "idle" /\ broadcast[r].pc # "idle"
        /\ \A q \in BroadcastRuns \ {r} : broadcast'[q] = broadcast[q]
    BY <1>1, <1>4, <2>1
  <2> QED
    BY <2>1, <2>3, <2>5, <2>6, WriteFrame
<1>6. CASE MarkOutdated(r)
  <2>0. PICK new : new = [state EXCEPT !.pc = "delete"]
    OBVIOUS
  <2>1. /\ state.pc = "outdate" /\ SetDoc(i, "outdated", NoTx)
        /\ broadcast' = [broadcast EXCEPT ![r] = new]
        /\ UNCHANGED <<mempool, receipts, txCount, monitor, stale>>
        /\ new.pc = "delete"
    BY <1>0, <1>1, <1>6, <2>0
       DEF MarkOutdated, SetBroadcast, chainVars, callVars, BroadcastState
  <2>2. transactions[i].status = "queued" /\ Clean(i)
    <3>1. transactions[i].status = "queued"
      BY <1>0, <1>1, <2>1 DEF CallKept
    <3> QED
      BY <1>1, <1>2, <1>3, <2>1, <3>1 DEF DocKept, Unsent
  <2>3. /\ Docs' = Docs
        /\ \A j \in Docs : transactions'[j].solution = transactions[j].solution
        /\ \A j \in Docs : j # i => transactions'[j] = transactions[j]
        /\ transactions'[i].status = "outdated"
    BY <1>1, <2>1, <2>2, SetDocResult
  <2>4. ASSUME NEW j \in Docs PROVE DocKept(j)'
    <3>1. CASE j # i
      BY <1>2, <1>3, <2>1, <2>3, <3>1 DEF DocKept, Clean, Minted
    <3>2. CASE j = i
      <4>1. Clean(i)'
        BY <1>1, <2>1, <2>2, <2>3 DEF Clean
      <4> QED
        BY <2>3, <3>2, <4>1 DEF DocKept, Unsent
    <3> QED
      BY <3>1, <3>2
  <2>5. WithStatus("pending")' = {}
    BY <1>2, <2>3 DEF WithStatus
  <2>6. DocsKeptWhole'
    BY <2>3, <2>4 DEF DocsKeptWhole
  <2>7. /\ broadcast'[r].pc = "delete" /\ broadcast[r].pc # "idle"
        /\ \A q \in BroadcastRuns \ {r} : broadcast'[q] = broadcast[q]
    BY <1>1, <1>4, <2>1
  <2> QED
    BY <2>1, <2>3, <2>5, <2>6, <2>7, WriteFrame
<1>7. CASE DeleteOutdated(r)
  <2> DEFINE k == state.deleted + 1
  <2>0. PICK new : new = IF k = Len(DeletedStatus) THEN IdleBroadcast
                         ELSE [state EXCEPT !.deleted = k]
    OBVIOUS
  <2>1. /\ state.pc = "delete"
        /\ broadcast' = [broadcast EXCEPT ![r] = new]
        /\ UNCHANGED <<mempool, receipts, txCount, monitor, stale>>
    BY <1>0, <1>7, <2>0 DEF DeleteOutdated, SetBroadcast, chainVars, callVars
  <2>2. new.pc \in {"idle", "delete"}
    BY <1>1, <1>4, <2>0, <2>1 DEF BroadcastState
  <2>3. DeletedStatus[k] \in Unsent \cup {"pending"}
    <3>1. k \in 1..4
      <4>1. state.deleted \in 0..3
        BY <1>1, ElementTypes DEF CallOK, BroadcastState
      <4> QED
        BY <4>1
    <3> QED
      BY <3>1 DEF DeletedStatus, Unsent
  <2>4. /\ Docs' = Docs
        /\ \A j \in Docs :
            \/ transactions'[j] = transactions[j]
            \/ /\ transactions[j].status = DeletedStatus[k]
               /\ transactions'[j] = [transactions[j] EXCEPT !.status = "deleted"]
    BY <1>0, <1>7 DEF DeleteOutdated, Docs
  <2>5. ASSUME NEW j \in Docs
        PROVE  /\ transactions'[j].solution = transactions[j].solution
               /\ \/ transactions'[j] = transactions[j]
                  \/ transactions[j].status \in Unsent /\ transactions'[j].status = "deleted"
    <3>1. transactions[j] \in Transaction
      BY ElementTypes
    <3>2. CASE transactions[j].status = DeletedStatus[k]
                /\ transactions'[j] = [transactions[j] EXCEPT !.status = "deleted"]
      BY <1>2, <2>3, <3>1, <3>2 DEF Transaction
    <3> QED
      BY <2>4, <3>2
  <2>6. ASSUME NEW j \in Docs PROVE DocKept(j)'
    <3>1. ~Recording(j) /\ DocKept(j)
      BY <1>2, <1>3, <2>1
    <3>2. CASE transactions'[j] = transactions[j]
      BY <2>1, <3>1, <3>2 DEF DocKept, Clean, Minted, Sent, Lost
    <3>3. CASE transactions[j].status \in Unsent /\ transactions'[j].status = "deleted"
      <4>1. Clean(j)
        BY <3>1, <3>3 DEF DocKept
      <4>2. Clean(j)'
        BY <2>1, <2>5, <4>1 DEF Clean
      <4> QED
        BY <3>3, <4>2 DEF DocKept, Unsent
    <3> QED
      BY <2>5, <3>2, <3>3
  <2>7. WithStatus("pending")' = {}
    BY <1>2, <2>4, <2>5 DEF WithStatus
  <2>8. DocsKeptWhole'
    BY <2>4, <2>6 DEF DocsKeptWhole
  <2>9. /\ broadcast'[r].pc \in {"idle", "delete"} /\ broadcast[r].pc # "idle"
        /\ \A q \in BroadcastRuns \ {r} : broadcast'[q] = broadcast[q]
    BY <1>1, <1>4, <2>1, <2>2
  <2> QED
    BY <2>1, <2>4, <2>5, <2>7, <2>8, <2>9, WriteFrame
<1> QED
  BY <1>5, <1>6, <1>7

(* A step that changes neither the collection nor the calls, and of the chain only what *)
(* waits to be mined, keeps what is known of each document and call.                    *)
LEMMA ChainFrame ==
    ASSUME MintInvariant, Whole,
           UNCHANGED <<transactions, broadcast, monitor, stale>>,
           \A i \in Docs : DocKept(i)',
           \A r \in BroadcastRuns : CallKept(r)',
           MonitorKept', NoncesKept', SolutionsKept'
    PROVE  Whole'
<1>1. DocsKeptWhole'
  BY DEF DocsKeptWhole, Docs
<1>2. CallsKeptWhole'
  BY DEF CallsKeptWhole
<1>3. OneCall'
  BY DEF Whole, OneCall
<1> QED
  BY <1>1, <1>2, <1>3 DEF Whole

(* What was sent stays the one transaction of its solution when the block is mined. *)
LEMMA MineTxKeeps ==
    ASSUME MintInvariant, Whole, MineTx
    PROVE  Whole'
<1> USE DEF Whole
<1>0. PICK ok : receipts' = receipts \cup {[tx |-> mempool, succeeded |-> ok]}
  BY DEF MineTx
<1>1. /\ mempool # NoTx /\ mempool.nonce = txCount
      /\ txCount' = txCount + 1 /\ mempool' = NoTx /\ NoTx.solution = None
      /\ UNCHANGED <<transactions, broadcast, monitor, stale>>
  BY DEF MineTx, callVars, NoncesKept, NoTx
<1>2. /\ txCount \in Nat /\ mempool.nonce \in Nat
      /\ \A receipt \in receipts : receipt.tx.nonce \in Nat /\ receipt.tx.nonce < txCount
  BY ElementTypes DEF NoncesKept
<1>3. \A receipt \in receipts' :
        \/ receipt \in receipts
        \/ receipt.tx = mempool
  BY <1>0
<1>4. receipts \subseteq receipts' /\ \E receipt \in receipts' : receipt.tx = mempool
  <2> DEFINE new == [tx |-> mempool, succeeded |-> ok]
  <2>1. new \in receipts' /\ new.tx = mempool
    BY <1>0
  <2> HIDE DEF new
  <2> QED
    BY <1>0, <2>1
<1>5. Docs' = Docs /\ WithStatus("pending")' = WithStatus("pending")
  BY <1>1 DEF Docs, WithStatus
<1>6. ASSUME NEW i \in Docs PROVE Clean(i) => Clean(i)'
  BY <1>1, <1>3, <1>6, ElementTypes DEF Clean
<1>7. ASSUME NEW i \in Docs, NEW hash, Sent(i, hash) PROVE Sent(i, hash)'
  BY <1>1, <1>3, <1>4, <1>7, ElementTypes DEF Sent, Lost
<1>8. ASSUME NEW i \in Docs PROVE DocKept(i)'
  <2>1. DocKept(i)
    BY DEF DocsKeptWhole
  <2>2. Recording(i) => Recording(i)'
    BY <1>1 DEF Recording
  <2>3. transactions[i].status \in Unsent => Clean(i)' \/ Recording(i)'
    BY <1>6, <2>1, <2>2 DEF DocKept
  <2>4. transactions[i].status = "pending" => Sent(i, transactions[i].txHash)'
    <3>1. PICK hash : hash = transactions[i].txHash
      OBVIOUS
    <3>2. transactions[i].status = "pending" => Sent(i, hash)'
      BY <1>7, <2>1, <3>1 DEF DocKept
    <3> QED
      BY <1>1, <3>1, <3>2 DEF Sent, Lost
  <2>5. transactions[i].status = "reverted" =>
            ~Minted(i)' /\ mempool'.solution # transactions[i].solution
    BY <1>1, <1>3, <2>1, ElementTypes DEF DocKept, Minted
  <2> QED
    BY <1>1, <2>3, <2>4, <2>5 DEF DocKept
<1>9. ASSUME NEW r \in BroadcastRuns PROVE CallKept(r)'
  <2>0. PICK state : state = broadcast[r]
    OBVIOUS
  <2>1. CallKept(r) /\ state.nonce \in Nat /\ CallOK(broadcast[r])
    BY <2>0, ElementTypes DEF CallsKeptWhole
  <2>2. state.pc \in {"estimate", "resend"} => ~Accepts(SolutionTx(r, MintPrice))'
    <3>1. SolutionTx(r, MintPrice)'.nonce = state.nonce
      BY <1>1, <2>0 DEF SolutionTx, MintTx
    <3> QED
      BY <1>1, <1>2, <2>0, <2>1, <3>1 DEF Accepts, CallKept
  <2>3. state.pc = "write" /\ state.status = "pending" => Sent(state.doc, state.hash)'
    <3>1. state.pc = "write" => state.doc \in Docs
      BY <2>0, <2>1 DEF CallOK
    <3> QED
      BY <1>7, <2>0, <2>1, <3>1 DEF CallKept
  <2>4. state.nonce <= txCount => state.nonce <= txCount'
    BY <1>1, <1>2, <2>1
  <2>5. broadcast'[r] = state
    BY <1>1, <2>0
  <2> QED
    BY <1>1, <1>5, <2>0, <2>1, <2>2, <2>3, <2>4, <2>5 DEF CallKept
<1>10. MonitorKept'
  <2>1. FirstListed' = FirstListed
    BY <1>1 DEF FirstListed
  <2> HIDE DEF FirstListed
  <2>2. \A d \in monitor'.docs : d.doc \in WithStatus("pending")' /\ transactions'[d.doc].txHash = d.txHash
    BY <1>1, <1>5 DEF MonitorKept
  <2>3. ASSUME monitor.found = "reverted"
        PROVE  /\ \E receipt \in receipts' : receipt.tx = FirstListed.txHash
               /\ \A receipt \in receipts' : receipt.tx = FirstListed.txHash => ~receipt.succeeded
    <3>1. mempool # FirstListed.txHash
      BY <1>1, <1>2, <2>3 DEF MonitorKept
    <3> QED
      BY <1>3, <1>4, <2>3, <3>1 DEF MonitorKept
  <2> QED
    BY <1>1, <2>1, <2>2, <2>3 DEF MonitorKept
<1>11. NoncesKept'
  BY <1>1, <1>2, <1>3 DEF NoncesKept
<1>12. SolutionsKept'
  BY <1>1, <1>3, <1>5 DEF SolutionsKept
<1> QED
  BY <1>1, <1>8, <1>9, <1>10, <1>11, <1>12, ChainFrame

(* A transfer that the node takes is none of a solution, and it does not outbid one. *)
LEMMA SendTransferKeeps ==
    ASSUME MintInvariant, Whole, SendTransfer
    PROVE  Whole'
<1> USE DEF Whole
<1>0. PICK tx : /\ tx = TransferTx(transfer.nonce,
                       IF transfer.pc = "send" THEN TransferPrice ELSE TransferRetryPrice)
                /\ mempool' = IF Accepts(tx) THEN tx ELSE mempool
  BY DEF SendTransfer
<1>1. /\ tx.solution = None /\ (tx.price = 10 \/ tx.price = 19)
      /\ UNCHANGED <<transactions, broadcast, monitor, stale, receipts, txCount>>
  BY <1>0 DEF SendTransfer, SetTransfer, TransferTx, TransferPrice, TransferRetryPrice
<1>2. mempool.price \in Nat /\ mempool.nonce \in Nat /\ txCount \in Nat
  BY ElementTypes
<1>3. mempool' = mempool \/ (mempool' = tx /\ Accepts(tx))
  BY <1>0
<1>4. ASSUME NEW hash, hash # NoTx, FullPrice(hash), mempool = hash
      PROVE  mempool' = hash
  BY <1>1, <1>2, <1>3, <1>4 DEF FullPrice, Accepts, MintPrice
<1>5. Docs' = Docs /\ WithStatus("pending")' = WithStatus("pending")
  BY <1>1 DEF Docs, WithStatus
<1>6. ASSUME NEW i \in Docs, NEW hash, FullPrice(hash), Sent(i, hash)
      PROVE  Sent(i, hash)'
  BY <1>1, <1>3, <1>4, <1>6, ElementTypes DEF Sent, Lost
<1>7. ASSUME NEW i \in Docs PROVE DocKept(i)'
  <2>1. DocKept(i) /\ FullPrice(transactions[i].txHash)
    BY DEF DocsKeptWhole, MintInvariant, DocsOK
  <2>2. Recording(i) => Recording(i)'
    BY <1>1 DEF Recording
  <2>3. Clean(i) => Clean(i)'
    BY <1>1, <1>3, ElementTypes DEF Clean
  <2>4. transactions[i].status = "pending" => Sent(i, transactions[i].txHash)'
    <3>1. PICK hash : hash = transactions[i].txHash
      OBVIOUS
    <3>2. transactions[i].status = "pending" => Sent(i, hash)'
      BY <1>6, <2>1, <3>1 DEF DocKept
    <3> QED
      BY <1>1, <3>1, <3>2 DEF Sent, Lost
  <2>5. transactions[i].status = "reverted" =>
            ~Minted(i)' /\ mempool'.solution # transactions[i].solution
    BY <1>1, <1>3, <2>1, ElementTypes DEF DocKept, Minted
  <2> QED
    BY <1>1, <2>1, <2>2, <2>3, <2>4, <2>5 DEF DocKept
<1>8. ASSUME NEW r \in BroadcastRuns PROVE CallKept(r)'
  <2>0. PICK state : state = broadcast[r]
    OBVIOUS
  <2>1. CallKept(r) /\ state.nonce \in Nat /\ CallOK(broadcast[r])
    BY <2>0, ElementTypes DEF CallsKeptWhole
  <2>2. state.pc \in {"estimate", "resend"} => ~Accepts(SolutionTx(r, MintPrice))'
    <3>1. PICK mint : mint = SolutionTx(r, MintPrice)
      OBVIOUS
    <3>2. /\ SolutionTx(r, MintPrice)' = mint /\ mint.price = 2000
          /\ mint.nonce = state.nonce
      BY <1>1, <2>0, <3>1 DEF SolutionTx, MintTx, MintPrice
    <3>3. state.pc \in {"estimate", "resend"} => ~Accepts(mint)
      BY <2>0, <2>1, <3>1 DEF CallKept
    <3>4. ~Accepts(mint) => ~Accepts(mint)'
      BY <1>1, <1>2, <1>3, <3>2 DEF Accepts, NoTx
    <3> QED
      BY <1>1, <3>2, <3>3, <3>4 DEF Accepts
  <2>3. state.pc = "write" /\ state.status = "pending" => Sent(state.doc, state.hash)'
    <3>1. state.pc = "write" => state.doc \in Docs /\ FullPrice(state.hash)
      BY <2>0, <2>1 DEF CallOK
    <3> QED
      BY <1>6, <2>0, <2>1, <3>1 DEF CallKept
  <2>4. broadcast'[r] = state
    BY <1>1, <2>0
  <2> QED
    BY <1>1, <1>5, <2>0, <2>1, <2>2, <2>3, <2>4 DEF CallKept
<1>9. MonitorKept'
  BY <1>1, <1>5 DEF MonitorKept, FirstListed
<1>10. NoncesKept'
  BY <1>1, <1>3 DEF NoncesKept, Accepts
<1>11. SolutionsKept'
  BY <1>1, <1>3, <1>5 DEF SolutionsKept
<1> QED
  BY <1>1, <1>7, <1>8, <1>9, <1>10, <1>11, ChainFrame

(* What else the chain, the collector and the transfer do concerns none of it. *)
LEMMA OtherStepsKeep ==
    ASSUME MintInvariant, Whole,
           OthersMine \/ ReadChallengeNumber \/ StartTransfer \/ EstimateTransfer
    PROVE  Whole'
<1>1. UNCHANGED <<transactions, broadcast, monitor, stale, mempool, receipts, txCount>>
  BY DEF OthersMine, ReadChallengeNumber, StartTransfer, EstimateTransfer, SetTransfer,
         chainVars, callVars
<1> QED
  BY <1>1 DEF Whole, DocsKeptWhole, DocKept, CallsKeptWhole, CallKept, OneCall, MonitorKept,
     NoncesKept, SolutionsKept, Docs, WithStatus, Clean, Sent, Lost, Recording, Minted,
     Accepts, SolutionTx, FirstListed

(* A new solution is one the node knows nothing of. *)
LEMMA QueueKeeps ==
    ASSUME MintInvariant, Whole, NEW s \in Solutions, QueueMiningSolution(s)
    PROVE  Whole'
<1> USE DEF Whole
<1>0. PICK doc : doc = [solution |-> s, status |-> "queued", txHash |-> NoTx]
  OBVIOUS
<1>1. /\ transactions' = Append(transactions, doc)
      /\ doc.solution = s /\ doc.status = "queued" /\ s # None
      /\ \A i \in Docs : transactions[i].solution # s
      /\ UNCHANGED <<broadcast, monitor, stale, mempool, receipts, txCount>>
      /\ transactions \in Seq(Transaction) /\ doc \in Transaction
  BY <1>0, IdleTypes, MintAssumption
     DEF QueueMiningSolution, chainVars, callVars, MintInvariant, TypeOK, MintTypeOK,
         Transaction, Status
<1>2. PICK n : n = Len(transactions) + 1
  OBVIOUS
<1>3. /\ Docs' = Docs \cup {n} /\ n \notin Docs
      /\ \A i \in Docs : transactions'[i] = transactions[i]
      /\ transactions'[n] = doc
  BY <1>1, <1>2, SeqAppend, LenProperties DEF Docs
<1>4. WithStatus("pending")' = WithStatus("pending")
  BY <1>1, <1>3 DEF WithStatus
<1>5. DocsKeptWhole'
  <2>1. ASSUME NEW i \in Docs PROVE DocKept(i)'
    <3>1. DocKept(i)
      BY DEF DocsKeptWhole
    <3> QED
      BY <1>1, <1>3, <3>1 DEF DocKept, Clean, Sent, Lost, Recording, Minted
  <2>2. DocKept(n)'
    <3>1. Clean(n)'
      BY <1>1, <1>3 DEF SolutionsKept, Clean
    <3> QED
      BY <1>1, <1>3, <3>1 DEF DocKept, Unsent
  <2> QED
    BY <1>3, <2>1, <2>2 DEF DocsKeptWhole
<1>6. CallsKeptWhole'
  <2> SUFFICES ASSUME NEW r \in BroadcastRuns PROVE CallKept(r)'
    BY DEF CallsKeptWhole
  <2>0. PICK state : state = broadcast[r] /\ broadcast'[r] = state
    BY <1>1
  <2>1. CallKept(r) /\ (state.pc \notin {"idle", "challenge", "pick"} => state.doc \in Docs)
    BY <2>0, ElementTypes DEF CallsKeptWhole, CallOK
  <2>2. state.pc \in {"estimate", "resend"} =>
            SolutionTx(r, MintPrice)' = SolutionTx(r, MintPrice)
    BY <1>3, <2>0, <2>1 DEF SolutionTx
  <2>3. state.pc = "write" /\ state.status = "pending" => Sent(state.doc, state.hash)'
    BY <1>1, <1>3, <2>0, <2>1 DEF CallKept, Sent, Lost
  <2> QED
    BY <1>1, <1>3, <1>4, <2>0, <2>1, <2>2, <2>3 DEF CallKept, Accepts
<1>7. OneCall'
  BY <1>1 DEF OneCall
<1>8. MonitorKept'
  <2>1. \A d \in monitor.docs : d.doc \in Docs
    BY DEF MonitorKept, WithStatus
  <2> QED
    BY <1>1, <1>3, <1>4, <2>1 DEF MonitorKept, FirstListed
<1>9. NoncesKept'
  BY <1>1 DEF NoncesKept
<1>10. SolutionsKept'
  <2>1. \A i \in Docs : transactions'[i].solution = transactions[i].solution
    BY <1>3
  <2>2. \A i, j \in Docs' : transactions'[i].solution = transactions'[j].solution => i = j
    <3> SUFFICES ASSUME NEW i \in Docs', NEW j \in Docs',
                        transactions'[i].solution = transactions'[j].solution
                 PROVE  i = j
      OBVIOUS
    <3>1. CASE i \in Docs /\ j \in Docs
      BY <2>1, <3>1 DEF SolutionsKept
    <3>2. CASE i = n \/ j = n
      BY <1>1, <1>3, <2>1, <3>2
    <3> QED
      BY <1>3, <3>1, <3>2
  <2>3. \A t : (\E i \in Docs : transactions[i].solution = t)
                => (\E i \in Docs' : transactions'[i].solution = t)
    BY <1>3, <2>1
  <2> QED
    BY <1>1, <2>2, <2>3 DEF SolutionsKept
<1> QED
  BY <1>1, <1>5, <1>6, <1>7, <1>8, <1>9, <1>10

(* The document the monitor comes to first is one that it has listed. *)
LEMMA FirstListedIsListed ==
    ASSUME MintInvariant, monitor.docs # {}
    PROVE  FirstListed \in monitor.docs
<1> DEFINE docs == {d.doc : d \in monitor.docs}
<1>1. docs \in SUBSET Nat /\ docs # {}
  BY DEF MintInvariant, TypeOK, MintTypeOK, MonitorState, Listed
<1>2. PICK m \in docs : \A n \in docs : m <= n
  BY <1>1, MinExists
<1>3. PICK d \in monitor.docs : d.doc = m
  OBVIOUS
<1>4. \A f \in monitor.docs : d.doc <= f.doc
  BY <1>2, <1>3
<1> QED
  BY <1>4 DEF FirstListed

(* What the monitor lists is pending, and what it has found it writes to a document *)
(* that still is.                                                                   *)
LEMMA MonitorKeeps ==
    ASSUME MintInvariant, Whole, MonitorStep
    PROVE  Whole'
<1> USE DEF Whole
<1>1. UNCHANGED <<broadcast, stale, mempool, receipts, txCount>>
  BY DEF MonitorStep, ListPending, RequestReceipt, WriteReceipt, WriteFound, SetMonitor, chainVars
<1>2. CASE ListPending \/ RequestReceipt
  <2>1. UNCHANGED transactions
    BY <1>2 DEF ListPending, RequestReceipt
  <2>2. \A i \in Docs : DocKept(i)'
    BY <1>1, <2>1 DEF DocsKeptWhole, DocKept, Clean, Sent, Lost, Recording, Minted
  <2>3. CallsKeptWhole'
    BY <1>1, <2>1 DEF CallsKeptWhole, CallKept, WithStatus, Docs, Sent, Lost, Accepts, SolutionTx
  <2>4. MonitorKept'
    <3>1. CASE ListPending
      <4>1. /\ monitor'.docs = {[doc |-> i, txHash |-> transactions[i].txHash] :
                                    i \in WithStatus("pending")}
            /\ monitor'.found = "none"
        BY <3>1 DEF ListPending, SetMonitor
      <4> QED
        BY <2>1, <4>1 DEF MonitorKept, WithStatus, Docs
    <3>2. CASE RequestReceipt
      <4> DEFINE mined == {receipt \in receipts : receipt.tx = FirstListed.txHash}
      <4>1. /\ monitor.docs # {} /\ monitor.found = "none"
            /\ \A d \in monitor'.docs : d \in monitor.docs
        BY <3>2 DEF RequestReceipt, SetMonitor
      <4>2. \A d \in monitor'.docs :
                d.doc \in WithStatus("pending")' /\ transactions'[d.doc].txHash = d.txHash
        BY <2>1, <4>1 DEF MonitorKept, WithStatus, Docs
      <4>3. CASE mined = {}
        <5>1. monitor'.found = "none"
          BY <3>2, <4>3 DEF RequestReceipt, SetMonitor
        <5> QED
          BY <4>2, <5>1 DEF MonitorKept
      <4>4. CASE mined # {}
        <5>1. /\ monitor'.docs = monitor.docs
              /\ monitor'.found =
                    IF \E receipt \in mined : receipt.succeeded THEN "success" ELSE "reverted"
          BY <3>2, <4>4 DEF RequestReceipt, SetMonitor
        <5>2. FirstListed' = FirstListed
          BY <5>1 DEF FirstListed
        <5>3. monitor'.found = "reverted" =>
                /\ \E receipt \in receipts : receipt.tx = FirstListed.txHash
                /\ \A receipt \in receipts :
                    receipt.tx = FirstListed.txHash => ~receipt.succeeded
          BY <4>4, <5>1
        <5> QED
          BY <1>1, <4>1, <4>2, <5>1, <5>2, <5>3 DEF MonitorKept
      <4> QED
        BY <4>3, <4>4
    <3> QED
      BY <1>2, <3>1, <3>2
  <2>5. OneCall' /\ NoncesKept' /\ SolutionsKept' /\ DocsKeptWhole'
    BY <1>1, <2>1, <2>2 DEF OneCall, NoncesKept, SolutionsKept, DocsKeptWhole, Docs
  <2> QED
    BY <1>1, <2>3, <2>4, <2>5
<1>3. CASE WriteReceipt
  <2>0. PICK first, i, found : first = FirstListed /\ i = first.doc /\ found = monitor.found
    OBVIOUS
  <2>1. /\ found # "none" /\ SetDoc(i, found, NoTx)
        /\ monitor'.docs = monitor.docs \ {first} /\ monitor'.found = "none"
    BY <1>3, <2>0 DEF WriteReceipt, WriteFound, SetMonitor
  <2>2. /\ first \in monitor.docs /\ found \in {"success", "reverted"}
        /\ monitor.docs \subseteq Listed
    BY <2>0, <2>1, FirstListedIsListed
       DEF MonitorKept, MintInvariant, TypeOK, MintTypeOK, MonitorState
  <2>3. /\ i \in Docs /\ transactions[i].status = "pending"
        /\ transactions[i].txHash = first.txHash
    BY <2>0, <2>2 DEF MonitorKept, WithStatus
  <2>4. /\ Docs' = Docs
        /\ \A j \in Docs : transactions'[j].solution = transactions[j].solution
        /\ \A j \in Docs : j # i => transactions'[j] = transactions[j]
        /\ transactions'[i].status = found
    BY <2>1, <2>3, SetDocResult DEF MintInvariant, TypeOK, MintTypeOK
  <2>5. Sent(i, first.txHash)
    <3>1. DocKept(i)
      BY <2>3 DEF DocsKeptWhole
    <3> QED
      BY <2>3, <3>1 DEF DocKept
  <2>6. DocsKeptWhole'
    <3> SUFFICES ASSUME NEW j \in Docs PROVE DocKept(j)'
      BY <2>4 DEF DocsKeptWhole
    <3>1. CASE j # i
      <4>1. DocKept(j) /\ transactions'[j] = transactions[j]
        BY <2>4, <3>1 DEF DocsKeptWhole
      <4> QED
        BY <1>1, <4>1 DEF DocKept, Clean, Sent, Lost, Recording, Minted
    <3>2. CASE j = i /\ found = "success"
      BY <2>4, <3>2 DEF DocKept, Unsent
    <3>3. CASE j = i /\ found = "reverted"
      <4>1. /\ \E receipt \in receipts : receipt.tx = first.txHash
            /\ \A receipt \in receipts : receipt.tx = first.txHash => ~receipt.succeeded
        BY <2>0, <3>3 DEF MonitorKept
      <4>2. mempool # first.txHash
        <5>1. first.txHash.nonce < txCount /\ first.txHash.nonce \in Nat
          BY <4>1, ElementTypes DEF NoncesKept
        <5> QED
          BY <2>5, <5>1, ElementTypes DEF NoncesKept, Sent
      <4>3. ~Minted(i) /\ mempool.solution # transactions[i].solution
        BY <2>5, <4>1, <4>2 DEF Minted, Sent
      <4> QED
        BY <1>1, <2>4, <3>3, <4>3 DEF DocKept, Minted, Unsent
    <3> QED
      BY <2>2, <3>1, <3>2, <3>3
  <2>7. CallsKeptWhole'
    <3>1. \A r \in BroadcastRuns : broadcast'[r].pc = "idle"
      BY <1>1, <2>3 DEF CallsKeptWhole, CallKept, WithStatus
    <3> QED
      BY <3>1 DEF CallsKeptWhole, CallKept
  <2>8. MonitorKept'
    <3> SUFFICES ASSUME NEW d \in monitor.docs, d # first
                 PROVE  /\ d.doc \in WithStatus("pending")'
                        /\ transactions'[d.doc].txHash = d.txHash
      BY <2>1 DEF MonitorKept
    <3>1. d.doc \in WithStatus("pending") /\ transactions[d.doc].txHash = d.txHash
      BY DEF MonitorKept
    <3>2. d.doc # i
      BY <2>0, <2>2, <2>3, <3>1 DEF Listed
    <3> QED
      BY <2>4, <3>1, <3>2 DEF WithStatus
  <2>9. OneCall' /\ NoncesKept' /\ SolutionsKept'
    BY <1>1, <2>4 DEF OneCall, NoncesKept, SolutionsKept
  <2> QED
    BY <1>1, <2>6, <2>7, <2>8, <2>9
<1> QED
  BY <1>2, <1>3 DEF MonitorStep

(* No pending transaction is lost, so that none is skipped. *)
LEMMA NothingLost ==
    ASSUME Whole
    PROVE  LostDocs = {} /\ ~SkipStale /\ ~ListStale(LostDocs)
<1>1. LostDocs = {}
  BY DEF Whole, DocsKeptWhole, DocKept, Sent, LostDocs, WithStatus
<1> QED
  BY <1>1 DEF Whole, SkipStale, ListStale

(* The queue and the chain start with nothing sent. *)
LEMMA InitWhole == Init => Whole
<1> SUFFICES ASSUME Init PROVE Whole
  OBVIOUS
<1> USE DEF Init, MintInit
<1>1. Docs = {} /\ receipts = {} /\ mempool = NoTx /\ stale = {}
  BY DEF Docs
<1>2. \A r \in BroadcastRuns : broadcast[r].pc = "idle"
  BY DEF IdleBroadcast
<1>3. DocsKeptWhole /\ OneCall
  BY <1>1, <1>2 DEF DocsKeptWhole, OneCall
<1>4. CallsKeptWhole
  BY <1>2 DEF CallsKeptWhole, CallKept
<1>5. MonitorKept
  BY <1>1 DEF MonitorKept, IdleMonitor
<1>6. NoncesKept /\ SolutionsKept
  BY <1>1 DEF NoncesKept, SolutionsKept, NoTx
<1> QED
  BY <1>1, <1>3, <1>4, <1>5, <1>6 DEF Whole

(* A step in which nothing goes wrong keeps the books whole. *)
LEMMA NextWhole ==
    ASSUME MintInvariant, Whole, [Next]_vars, faults' = faults
    PROVE  Whole'
<1>1. CASE UNCHANGED vars
  BY <1>1 DEF vars, mintTxVars, chainVars, callVars, Whole, DocsKeptWhole, DocKept,
     CallsKeptWhole, CallKept, OneCall, MonitorKept, NoncesKept, SolutionsKept, Docs,
     WithStatus, Clean, Sent, Lost, Recording, Minted, Accepts, SolutionTx, FirstListed
<1>2. CASE \/ MineTx \/ OthersMine \/ ReadChallengeNumber \/ TransferStep
  BY <1>2, MineTxKeeps, OtherStepsKeep, SendTransferKeeps DEF TransferStep
<1>3. ASSUME NEW s \in Solutions, QueueMiningSolution(s) PROVE Whole'
  BY <1>3, QueueKeeps
<1>4. ASSUME NEW r \in BroadcastRuns, NextBroadcast(r) \/ BroadcastStep(r) PROVE Whole'
  BY <1>4, LocalStepsKeep, SendKeeps, WritesKeep DEF NextBroadcast, BroadcastStep
<1>5. CASE MonitorStep \/ ListStale(LostDocs) \/ SkipStale
  BY <1>5, MonitorKeeps, NothingLost
<1>6. faults' # faults + 1
  BY DEF MintInvariant, TypeOK
<1> QED
  BY <1>1, <1>2, <1>3, <1>4, <1>5, <1>6 DEF Next, Fault

(***************************************************************************)
(* As long as nothing has gone wrong, the solution of a block the pool has *)
(* mined stays in the books until it is marked as a success: no second     *)
(* call, no monitor and no delete of the others of its challenge comes     *)
(* upon it in between.                                                     *)
(***************************************************************************)
THEOREM SolutionStaysInBooks == Spec => []MinedSolutionIsKept
<1>1. Init => KeptInvariant
  BY InitTypes, InitWhole DEF KeptInvariant
<1>2. ASSUME KeptInvariant, [Next]_vars
      PROVE  KeptInvariant'
  <2>1. MintInvariant'
    BY <1>2, NextTypes DEF KeptInvariant
  <2>2. faults \in Nat /\ (faults' = faults \/ faults' = faults + 1)
    BY <1>2 DEF KeptInvariant, MintInvariant, TypeOK, Next, NextBroadcast, Fault, vars
  <2>3. faults' = 0 => Whole'
    BY <1>2, <2>2, NextWhole DEF KeptInvariant
  <2> QED
    BY <2>1, <2>3 DEF KeptInvariant
<1>3. ASSUME KeptInvariant, faults = 0, NEW i \in Docs, Minted(i)
      PROVE  transactions[i].status \in {"pending", "success"} \/ Recording(i)
  <2>1. DocKept(i) /\ ~Clean(i) /\ transactions[i] \in Transaction
    BY <1>3, ElementTypes DEF KeptInvariant, Whole, DocsKeptWhole, Minted, Clean
  <2> QED
    BY <1>3, <2>1 DEF DocKept, Unsent, Transaction, Status
<1>4. KeptInvariant => MinedSolutionIsKept
  BY <1>3 DEF MinedSolutionIsKept
<1> QED
  BY <1>1, <1>2, <1>4, PTL DEF Spec

=============================================================================
