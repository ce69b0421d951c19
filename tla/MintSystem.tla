----------------------------- MODULE MintSystem -----------------------------
(***************************************************************************)
(* MintTransactions with what goes wrong: requests that reject, a process  *)
(* that is started again, a transaction the node drops, a call of          *)
(* broadcastQueuedMintTransactions that lasts until the next one, and a    *)
(* transaction that is thirty blocks old although it may still be mined.   *)
(***************************************************************************)
EXTENDS MintTransactions

CONSTANT MaxFaults      \* bound on these in a behaviour

ASSUME FaultAssumption == MaxFaults \in Nat

VARIABLE faults

vars == <<mintTxVars, faults>>

Init ==
    /\ MintInit
    /\ faults = 0

Fault(A) ==
    /\ faults < MaxFaults
    /\ faults' = faults + 1
    /\ A

Alone == \A r \in BroadcastRuns : broadcast[r].pc = "idle"

NextBroadcast(r) == StartBroadcast(r) /\ Alone /\ UNCHANGED faults

\* No longer in the pool of the node, and never mined: it will not be.
Lost(tx) == tx # mempool /\ \A receipt \in receipts : receipt.tx # tx

LostDocs == {i \in WithStatus("pending") : Lost(transactions[i].txHash)}

Next ==
    \/ (MineTx \/ OthersMine \/ ReadChallengeNumber) /\ UNCHANGED faults
    \/ (\E s \in Solutions : QueueMiningSolution(s)) /\ UNCHANGED faults
    \/ \E r \in BroadcastRuns : NextBroadcast(r)
    \/ (\E r \in BroadcastRuns : BroadcastStep(r)) /\ UNCHANGED faults
    \/ MonitorStep /\ UNCHANGED faults
    \/ (ListStale(LostDocs) \/ SkipStale) /\ UNCHANGED faults
    \/ TransferStep /\ UNCHANGED faults
    \/ Fault(\E r \in BroadcastRuns : StartBroadcast(r) /\ ~Alone)
    \/ Fault(\E docs \in SUBSET WithStatus("pending") : ListStale(docs))
    \/ Fault(DropTx)
    \/ Fault(\E r \in BroadcastRuns : FailStep(r))
    \/ Fault(CrashBroadcasts)

Spec == Init /\ [][Next]_vars

TypeOK == MintTypeOK /\ faults \in Nat

Minted(i) ==
    \E receipt \in receipts :
        receipt.succeeded /\ receipt.tx.solution = transactions[i].solution

(***************************************************************************)
(* "Waits for pending TX to be mined before sending another": a solution   *)
(* that the queue waits for keeps its place in the node.  A transfer of    *)
(* tokens, of the same account and nonce, does not outbid it.              *)
(***************************************************************************)
Awaited(tx) ==
    \E i \in WithStatus("pending") : tx # NoTx /\ transactions[i].txHash = tx

PendingNotDisplaced ==
    [][Awaited(mempool) /\ mempool' # mempool /\ mempool' # NoTx => mempool'.solution # None]_vars

(***************************************************************************)
(* As long as nothing has gone wrong, the solution of a block the pool has *)
(* mined stays in the books until it is marked as a success: it is not     *)
(* removed together with the others of its challenge.                      *)
(***************************************************************************)
Recording(i) ==
    \E r \in BroadcastRuns :
        /\ broadcast[r].pc = "write"
        /\ broadcast[r].doc = i
        /\ broadcast[r].status = "pending"

MinedSolutionIsKept ==
    faults = 0 =>
        \A i \in Docs :
            Minted(i) => transactions[i].status \in {"pending", "success"} \/ Recording(i)

(***************************************************************************)
(* However many solutions there were, the minting queue gets empty: each   *)
(* is in the end mined, refused or given up, and whatever is rejected,     *)
(* dropped or outdated, none keeps the others waiting for good.            *)
(***************************************************************************)
QueueMovesOn == []<>(WithStatus("queued") \cup WithStatus("pending") = {})

(***************************************************************************)
(* The timers keep firing and a call that was made goes on.  A transaction *)
(* in the pool of the node is mined, and one that is lost gets old.        *)
(***************************************************************************)
Fairness ==
    /\ WF_vars(MineTx /\ UNCHANGED faults)
    /\ WF_vars(ReadChallengeNumber /\ UNCHANGED faults)
    /\ WF_vars(\E r \in BroadcastRuns : NextBroadcast(r))
    /\ \A r \in BroadcastRuns : WF_vars(BroadcastStep(r) /\ UNCHANGED faults)
    /\ WF_vars(MonitorStep /\ UNCHANGED faults)
    /\ WF_vars((ListStale(LostDocs) \/ SkipStale) /\ UNCHANGED faults)
    /\ WF_vars(TransferStep /\ UNCHANGED faults)

FairSpec == Spec /\ Fairness

=============================================================================
