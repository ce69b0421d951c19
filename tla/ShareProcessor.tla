--------------------------- MODULE ShareProcessor ---------------------------
(***************************************************************************)
(* PeerInterface and RedisInterface: the shares wait in a Redis stream, a  *)
(* consumer group hands each to one share processor, and the processor     *)
(* counts it for the pool and for its miner and acknowledges it.           *)
(*                                                                         *)
(* The stream is the log of all entries; an entry is known by its index.   *)
(* Delivered entries a consumer has not acknowledged are its pending       *)
(* entries: it reads them again when it starts and once a minute, together *)
(* with those it claims from consumers that hold theirs for too long.      *)
(*                                                                         *)
(* A process that finds no Redis when it starts takes its shares from the  *)
(* collection "queued_shares_list" instead, where the stratum workers put  *)
(* what Redis refuses.                                                     *)
(***************************************************************************)
EXTENDS ChallengeCollector

CONSTANTS
    Processors,         \* the consumer names a process can have: processor-<pid>
    Together,           \* how many processes run at once; one in both deployments
    Solvers,            \* the shares whose hash also meets the mining target
    RedisMayBeDown,     \* whether Redis may refuse a share or be absent at a start
    BatchSize,          \* COUNT of readShares and readPendingShares, 10
    EpochCountDelay,    \* EpochCountDelayForOldPendingShare, 1000 in the code
    MaxSubmitted        \* bound on the shares that wait in or went through the queues

ASSUME ShareAssumption ==
    /\ Together \in Nat \ {0}
    /\ Solvers \subseteq Shares
    /\ RedisMayBeDown \in BOOLEAN
    /\ BatchSize \in Nat \ {0}
    /\ EpochCountDelay \in Nat
    /\ MaxSubmitted \in Nat

VARIABLES
    stream,                 \* stream "eticapool:shares"
    acked,                  \* the entries that were acknowledged
    pending,                \* per consumer its pending entries
    miner_pendingshares,    \* collection "miner_pendingshares": digests and challenges
    lastSubmitted,          \* the miners that have a lastSubmittedSolutionTime
    solutions,              \* the shares queued as transactions of type solution
    proc                    \* the local state of each process

queueVars == <<stream, acked, pending>>
storeVars == <<miner_pendingshares, lastSubmitted, solutions>>
shareVars == <<queueVars, storeVars, proc>>

Entries == DOMAIN stream

PendingShare == [share: Shares, challenge: Epochs]

\* A process works off a batch: its own pending entries ("drain"), entries new to the
\* group ("read"), or one document of the list ("list").  share and entry are at hand;
\* challenge, total, row and mine are what it has read to count it.
ProcessState ==
    [pc: {"down", "claim", "drain", "read", "list", "check", "find", "pace", "total",
          "write", "both", "insert", "row", "credit", "queue", "ack"},
     mode: {"drain", "read", "list"}, batch: SUBSET Nat, entry: Nat,
     share: Shares \cup {None}, challenge: 0..MaxEpoch, total: Tally, row: Nat, mine: Tally]

NoEntry == 0    \* the share was taken from the list

Waiting(pc, mode, batch) ==
    [pc |-> pc, mode |-> mode, batch |-> batch, entry |-> NoEntry, share |-> None,
     challenge |-> 0, total |-> NoShares, row |-> 0, mine |-> NoShares]

Down == Waiting("down", "read", {})

\* On to the first entry of the batch, or back to the loop that got it.
Handle(mode, batch) ==
    IF batch = {} THEN Waiting(mode, mode, {})
    ELSE [Waiting("check", mode, batch \ {FirstOf(batch)})
            EXCEPT !.entry = FirstOf(batch), !.share = stream[FirstOf(batch)]]

ShareInit ==
    /\ stream = <<>>
    /\ acked = {}
    /\ pending = [p \in Processors |-> {}]
    /\ miner_pendingshares = {}
    /\ lastSubmitted = {}
    /\ solutions = <<>>
    /\ proc = [p \in Processors |-> Down]

ShareTypeOK ==
    /\ stream \in Seq(Shares)
    /\ acked \subseteq Entries
    /\ pending \in [Processors -> SUBSET Entries]
    /\ miner_pendingshares \subseteq PendingShare
    /\ lastSubmitted \subseteq Miners
    /\ solutions \in Seq(Shares)
    /\ proc \in [Processors -> ProcessState]

Running == {p \in Processors : proc[p].pc # "down"}

\* Up to the group's last-delivered-id every entry is pending or was acknowledged.
Delivered == UNION {pending[p] : p \in Processors} \cup acked

FirstBatch(entries) == {i \in entries : Cardinality({j \in entries : j < i}) < BatchSize}

----------------------------------------------------------------------------
(* The stratum worker hands in a share whose blob was the pool's when it    *)
(* came; a miner may send the same one again.                               *)

Submittable(s) ==
    /\ Len(stream) + Len(queued_shares_list) < MaxSubmitted
    /\ EpochOf[s] <= miningContractData.blob

AddShare(s) ==
    /\ Submittable(s)
    /\ stream' = Append(stream, s)
    /\ UNCHANGED <<acked, pending, storeVars, proc>>
    /\ UNCHANGED <<collectVars, miningVars>>

\* Redis does not take the share, or takes it and its answer is lost.
AddShareToList(s) ==
    /\ RedisMayBeDown
    /\ Submittable(s)
    /\ queued_shares_list' = Append(queued_shares_list, s)
    /\ stream' \in {stream, Append(stream, s)}
    /\ UNCHANGED <<acked, pending, storeVars, proc>>
    /\ UNCHANGED <<collect, miningVars>>

----------------------------------------------------------------------------
(* The loops of processQueuedSharesRedis and processQueuedSharesMongo *)

SetProcess(p, state) ==
    /\ proc' = [proc EXCEPT ![p] = state]
    /\ UNCHANGED <<collectVars, miningVars>>

Start(p) ==
    /\ p \notin Running
    /\ Cardinality(Running) < Together
    /\ SetProcess(p, Waiting("claim", "drain", {}))
    /\ UNCHANGED <<queueVars, storeVars>>

StartWithoutRedis(p) ==
    /\ RedisMayBeDown
    /\ p \notin Running
    /\ Cardinality(Running) < Together
    /\ SetProcess(p, Waiting("list", "list", {}))
    /\ UNCHANGED <<queueVars, storeVars>>

HeldByOthers(p) == UNION {pending[q] : q \in Processors \ {p}}

Claim(p, entries) ==
    /\ proc[p].pc = "claim"
    /\ pending' = [q \in Processors |->
                        IF q = p THEN pending[q] \cup entries ELSE pending[q] \ entries]
    /\ SetProcess(p, Waiting("drain", "drain", {}))
    /\ UNCHANGED <<stream, acked, storeVars>>

\* Which entries others have held for 30 seconds is a matter of time.
ClaimStaleShares(p) == \E entries \in SUBSET HeldByOthers(p) : Claim(p, entries)

\* Mutant: what was claimed, or had failed before, is not read again.
DrainNothing(p) ==
    /\ proc[p].pc = "drain"
    /\ SetProcess(p, Waiting("read", "read", {}))
    /\ UNCHANGED <<queueVars, storeVars>>

ReadPendingShares(p) ==
    /\ proc[p].pc = "drain"
    /\ SetProcess(p, IF pending[p] = {} THEN Waiting("read", "read", {})
                     ELSE Handle("drain", FirstBatch(pending[p])))
    /\ UNCHANGED <<queueVars, storeVars>>

\* Once a minute, before the next read.
Reclaim(p) ==
    /\ proc[p].pc = "read"
    /\ SetProcess(p, Waiting("claim", "drain", {}))
    /\ UNCHANGED <<queueVars, storeVars>>

ReadShares(p) ==
    LET new == FirstBatch(Entries \ Delivered) IN
    /\ proc[p].pc = "read"
    /\ new # {}
    /\ pending' = [pending EXCEPT ![p] = @ \cup new]
    /\ SetProcess(p, Handle("read", new))
    /\ UNCHANGED <<stream, acked, storeVars>>

\* The first document of the list is found and deleted.
TakeFromList(p) ==
    /\ proc[p].pc = "list"
    /\ queued_shares_list # <<>>
    /\ queued_shares_list' = Tail(queued_shares_list)
    /\ proc' = [proc EXCEPT ![p].pc = "check", ![p].share = Head(queued_shares_list)]
    /\ UNCHANGED <<queueVars, storeVars, collect, miningVars>>

----------------------------------------------------------------------------
(* handlePeerShareSubmit and prehandleValidShare, for the share at hand *)

Goto(p, pc) == SetProcess(p, [proc[p] EXCEPT !.pc = pc])

Accept(p, good) ==
    /\ proc[p].pc = "check"
    /\ SetProcess(p, IF good THEN [proc[p] EXCEPT !.pc = "find",
                                          !.challenge = miningContractData.challenge]
                     ELSE [proc[p] EXCEPT !.pc = "ack"])
    /\ UNCHANGED <<queueVars, storeVars>>

\* Mutant: the blob is not compared, the worker has done that.
AcceptAnyBlob(p) == Accept(p, TRUE)

\* The share is only worth something for the blob the pool has now.  Its hash was checked
\* by the stratum worker.
CheckShare(p) == Accept(p, EpochOf[proc[p].share] = miningContractData.blob)

\* Mutant: the digest is looked up among the shares of the current challenge only.
FindDigestOfChallenge(p) ==
    /\ proc[p].pc = "find"
    /\ Goto(p, IF [share |-> proc[p].share, challenge |-> proc[p].challenge]
                    \in miner_pendingshares THEN "ack" ELSE "pace")
    /\ UNCHANGED <<queueVars, storeVars>>

FindDigest(p) ==
    /\ proc[p].pc = "find"
    /\ Goto(p, IF \E q \in miner_pendingshares : q.share = proc[p].share
               THEN "ack" ELSE "pace")
    /\ UNCHANGED <<queueVars, storeVars>>

\* A miner's first share, and any that comes five seconds after the one before it.
InPace(p) ==
    /\ proc[p].pc = "pace"
    /\ lastSubmitted' = lastSubmitted \cup {MinerOf[proc[p].share]}
    /\ Goto(p, "total")
    /\ UNCHANGED <<queueVars, miner_pendingshares, solutions>>

TooFast(p) ==
    /\ proc[p].pc = "pace"
    /\ MinerOf[proc[p].share] \in lastSubmitted
    /\ Goto(p, "ack")
    /\ UNCHANGED <<queueVars, storeVars>>

\* Mutant: a challenge without a total does not stop the share.
ReadTotalOrGoOn(p) ==
    LET total == totaldiff_challengenumber[proc[p].challenge] IN
    /\ proc[p].pc = "total"
    /\ SetProcess(p, IF total = None THEN [proc[p] EXCEPT !.pc = "both"]
                     ELSE [proc[p] EXCEPT !.pc = "write", !.total = total])
    /\ UNCHANGED <<queueVars, storeVars>>

ReadTotal(p) ==
    LET total == totaldiff_challengenumber[proc[p].challenge] IN
    /\ proc[p].pc = "total"
    /\ SetProcess(p, IF total = None THEN [proc[p] EXCEPT !.pc = "ack"]
                     ELSE [proc[p] EXCEPT !.pc = "write", !.total = total])
    /\ UNCHANGED <<queueVars, storeVars>>

WriteTotal(p) ==
    /\ proc[p].pc = "write"
    /\ totaldiff_challengenumber' = [totaldiff_challengenumber EXCEPT
            ![proc[p].challenge] = PlusShare(proc[p].total, proc[p].share)]
    /\ proc' = [proc EXCEPT ![p].pc = "both"]
    /\ UNCHANGED <<contractEpoch, miningContractData, allminingContracts,
                   miner_challengediff>>
    /\ UNCHANGED <<collectVars, queueVars, storeVars>>

\* The insert of the pending share and the look for the miner's row run side by side.
InsertPendingShare(p) ==
    /\ proc[p].pc \in {"both", "insert"}
    /\ miner_pendingshares' = miner_pendingshares \cup
            {[share |-> proc[p].share, challenge |-> proc[p].challenge]}
    /\ Goto(p, IF proc[p].pc = "both" THEN "row" ELSE "credit")
    /\ UNCHANGED <<queueVars, lastSubmitted, solutions>>

FindRow(p) ==
    LET rows == RowsOf(MinerOf[proc[p].share], proc[p].challenge) IN
    /\ proc[p].pc \in {"both", "row"}
    /\ SetProcess(p, [proc[p] EXCEPT
            !.pc = IF @ = "both" THEN "insert" ELSE "credit",
            !.row = IF rows = {} THEN 0 ELSE FirstOf(rows),
            !.mine = IF rows = {} THEN NoShares
                     ELSE miner_challengediff[FirstOf(rows)].totaldiff])
    /\ UNCHANGED <<queueVars, storeVars>>

WriteRow(p, tally) ==
    LET m == MinerOf[proc[p].share]
        c == proc[p].challenge
    IN  /\ proc[p].pc = "credit"
        /\ miner_challengediff' =
                IF proc[p].row = 0 THEN Append(miner_challengediff, NewRow(m, c, tally))
                ELSE [miner_challengediff EXCEPT ![FirstOf(RowsOf(m, c))].totaldiff = tally]
        /\ proc' = [proc EXCEPT
                ![p].pc = IF proc[p].share \in Solvers THEN "queue" ELSE "ack"]
        /\ UNCHANGED <<contractEpoch, miningContractData, allminingContracts,
                       totaldiff_challengenumber>>
        /\ UNCHANGED <<collectVars, queueVars, storeVars>>

\* Mutant: the row is written without what was in it.
CreditMinerAnew(p) == WriteRow(p, PlusShare(NoShares, proc[p].share))

CreditMiner(p) == WriteRow(p, PlusShare(proc[p].mine, proc[p].share))

\* queueMiningSolution reads the target anew; the block it is queued with is left out.
QueueSolution(p) ==
    /\ proc[p].pc = "queue"
    /\ solutions' = Append(solutions, proc[p].share)
    /\ Goto(p, "ack")
    /\ UNCHANGED <<queueVars, miner_pendingshares, lastSubmitted>>

\* XACK takes the entries from whatever consumer holds them.
Ack(p, entries) ==
    /\ proc[p].pc = "ack"
    /\ acked' = acked \cup entries
    /\ pending' = [q \in Processors |-> pending[q] \ entries]
    /\ SetProcess(p, Handle(proc[p].mode, proc[p].batch))
    /\ UNCHANGED <<stream, storeVars>>

\* Mutant: a share from the list is acknowledged like one from the stream.
AckAnyShare(p) == Ack(p, {proc[p].entry})

AckShare(p) == Ack(p, {proc[p].entry} \ {NoEntry})

----------------------------------------------------------------------------
(* What goes wrong *)

\* A call to the database or to Redis rejects.  The share stays pending: a drain ends, a
\* read goes on with the next entry; a share from the list is gone.
FailShare(p) ==
    /\ proc[p].pc \notin {"down", "read", "list"}
    /\ SetProcess(p, IF proc[p].mode = "drain" THEN Waiting("read", "read", {})
                     ELSE Handle(proc[p].mode, proc[p].batch))
    /\ UNCHANGED <<queueVars, storeVars>>

CrashProcess(p) ==
    /\ p \in Running
    /\ SetProcess(p, Down)
    /\ UNCHANGED <<queueVars, storeVars>>

\* What is cleaned is a thousand epochs old, and no process is still at a share of it.
NotAtWork(c) == \A p \in Processors : proc[p].challenge # c

\* cleanOldPendingShares: the pool's last rewarded mint decides which epochs are old; only
\* an epoch the collector has recorded is rewarded.
CleanPendingShares ==
    \E last \in 1..(contractEpoch - 1), e \in Epochs :
        LET c == allminingContracts[e].challenge IN
        /\ allminingContracts[last].epoch = last
        /\ allminingContracts[e].epoch = e
        /\ e < last - EpochCountDelay
        /\ NotAtWork(c)
        /\ miner_pendingshares' = {q \in miner_pendingshares : q.challenge # c}
        /\ UNCHANGED <<queueVars, lastSubmitted, solutions, proc>>
        /\ UNCHANGED <<collectVars, miningVars>>

----------------------------------------------------------------------------

LoopStep(p) ==
    \/ ClaimStaleShares(p)
    \/ ReadPendingShares(p)
    \/ ReadShares(p)
    \/ TakeFromList(p)

HandleStep(p) ==
    \/ CheckShare(p)
    \/ FindDigest(p)
    \/ InPace(p)
    \/ TooFast(p)
    \/ ReadTotal(p)
    \/ WriteTotal(p)
    \/ InsertPendingShare(p)
    \/ FindRow(p)
    \/ CreditMiner(p)
    \/ QueueSolution(p)
    \/ AckShare(p)

ProcessStep(p) ==
    \/ Start(p)
    \/ StartWithoutRedis(p)
    \/ Reclaim(p)
    \/ LoopStep(p)
    \/ HandleStep(p)

WorkerStep == \E s \in Shares : AddShare(s) \/ AddShareToList(s)

=============================================================================
