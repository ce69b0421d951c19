---------------------------- MODULE StratumWorker ----------------------------
(***************************************************************************)
(* The stratum server and its workers, one for each connection of a miner: *)
(* how the challenge of the pool gets to the miners and how their shares   *)
(* come back.                                                              *)
(*                                                                         *)
(* A job is a challenge, a blob, the height, and the blob as it is sent,   *)
(* with a hash of blob and challenge in its reserved bytes.  As in         *)
(* MiningData the parameters of an epoch are its number; seed hash, target *)
(* and difficulty of a job are left out.                                   *)
(*                                                                         *)
(* A read of the database is one step with the code that waits for it: the *)
(* notice of a new challenge leaves the collector three requests after the *)
(* data were written, and does not overtake an older answer.               *)
(***************************************************************************)
EXTENDS Integers, Sequences

CONSTANTS
    Workers,    \* the connections of miners
    Calls,      \* the messages of miners that are handled at once
    MaxEpoch,   \* bound on the epochs
    MaxLogins   \* bound on the logins of a connection

ASSUME StratumAssumption ==
    /\ Workers # {}
    /\ MaxEpoch \in Nat \ {0}
    /\ MaxLogins \in Nat

VARIABLES
    miningContractData,     \* the epoch of the one document
    notice,                 \* the newChallenge event of that epoch
    server,                 \* the stratum server as it starts, and challengeNumber
    workers,                \* the Set of workers that get updates
    worker,                 \* the fields of each Worker
    sent,                   \* the job each miner was sent last
    call,                   \* the local state of each _processInteraction
    handed                  \* the last share handed in: what was hashed, and its randomx_blob

Epochs == 0..MaxEpoch
Reserved == [blob: Epochs, challenge: Epochs]
NoJob == [blob |-> 0, challenge |-> 0]

Share == [hash: Reserved, blob: Epochs]
NoShare == [hash |-> NoJob, blob |-> 0]

ReservedHash(blob, challenge) == [blob |-> blob, challenge |-> challenge]

\* The fields of a job in the order in which they are read.
Fields == <<"challengeNumber", "randomxBlob", "epochCount">>

ServerState ==
    [at: 1..Len(Fields) + 1, challengeNumber: Epochs, randomxBlob: Epochs,
     epochCount: Epochs, announced: Epochs, listening: BOOLEAN]

\* retargetTimer is whether the handle is set, intervals counts what setInterval started
\* and nobody cleared, timeouts the delayed starts, due is a sendNewJob under way.
WorkerState ==
    [challengeNumber: Epochs, randomxBlob: Epochs, epochCount: Epochs, reserved: Reserved,
     logins: 0..MaxLogins, socketClosed: BOOLEAN, retargetTimer: BOOLEAN,
     intervals: Nat, timeouts: Nat, due: BOOLEAN]

NewWorker ==
    [challengeNumber |-> 0, randomxBlob |-> 0, epochCount |-> 0, reserved |-> NoJob,
     logins |-> 0, socketClosed |-> TRUE, retargetTimer |-> FALSE,
     intervals |-> 0, timeouts |-> 0, due |-> FALSE]

\* A call of worker w: the field it reloads, and the share it is about.
CallState ==
    [pc: {"idle", "height", "blob", "submit", "reload", "hand"}, w: Workers,
     first: BOOLEAN, at: 1..Len(Fields) + 1, height: Epochs, share: Reserved]

IdleCall ==
    [pc |-> "idle", w |-> CHOOSE w \in Workers : TRUE, first |-> FALSE, at |-> 1,
     height |-> 0, share |-> NoJob]

StratumInit ==
    /\ miningContractData = 1
    /\ notice = "none"
    /\ server = [at |-> 1, challengeNumber |-> 0, randomxBlob |-> 0, epochCount |-> 0,
                 announced |-> 0, listening |-> FALSE]
    /\ workers = {}
    /\ worker = [w \in Workers |-> NewWorker]
    /\ sent = [w \in Workers |-> NoJob]
    /\ call = [k \in Calls |-> IdleCall]
    /\ handed = NoShare

StratumTypeOK ==
    /\ miningContractData \in Epochs
    /\ notice \in {"none", "due", "sent"}
    /\ server \in ServerState
    /\ workers \subseteq Workers
    /\ worker \in [Workers -> WorkerState]
    /\ sent \in [Workers -> Reserved]
    /\ call \in [Calls -> CallState]
    /\ handed \in Share

dataVars == <<miningContractData, notice>>

----------------------------------------------------------------------------
(* The collector: the data of the new challenge, then the event *)

\* Epochs are minutes apart, a notice takes moments.
NewChallenge ==
    /\ notice = "none"
    /\ miningContractData < MaxEpoch
    /\ miningContractData' = miningContractData + 1
    /\ notice' = "due"
    /\ UNCHANGED <<server, workers, worker, sent, call, handed>>

EmitNewChallenge ==
    /\ notice = "due"
    /\ notice' = "sent"
    /\ UNCHANGED <<miningContractData, server, workers, worker, sent, call, handed>>

----------------------------------------------------------------------------
(* WebServer: initStratumOnly and startSratumServer *)

\* One of the fields every new worker starts with.
ReadPoolConfig ==
    /\ server.at <= Len(Fields)
    /\ server' = [server EXCEPT !.at = @ + 1, ![Fields[server.at]] = miningContractData]
    /\ UNCHANGED <<dataVars, workers, worker, sent, call, handed>>

ReadAnnounced ==
    /\ server.announced = 0
    /\ server' = [server EXCEPT !.announced = miningContractData]
    /\ UNCHANGED <<dataVars, workers, worker, sent, call, handed>>

\* Fifteen seconds later: the notices of that time have come and gone.
Listen ==
    /\ server.at > Len(Fields)
    /\ server.announced # 0
    /\ ~server.listening
    /\ notice = "none"
    /\ server' = [server EXCEPT !.listening = TRUE]
    /\ UNCHANGED <<dataVars, workers, worker, sent, call, handed>>

Connect(w) ==
    /\ server.at > Len(Fields)
    /\ worker[w] = NewWorker
    /\ worker' = [worker EXCEPT ![w] =
            [@ EXCEPT !.challengeNumber = server.challengeNumber,
                      !.randomxBlob = server.randomxBlob,
                      !.epochCount = server.epochCount,
                      !.reserved = ReservedHash(server.randomxBlob, server.challengeNumber),
                      !.socketClosed = FALSE]]
    /\ workers' = workers \cup {w}
    /\ UNCHANGED <<dataVars, server, sent, call, handed>>

----------------------------------------------------------------------------
(* The retarget timer of a worker *)

StartRetargetTimer(state) ==
    [state EXCEPT !.timeouts = IF state.retargetTimer THEN @ ELSE @ + 1]

\* Mutant: the interval is cleared but its handle kept.
StopKeepingHandle(state) ==
    [state EXCEPT !.intervals = IF state.retargetTimer /\ @ > 0 THEN @ - 1 ELSE @]

\* Mutant: nobody looks whether there is an interval to clear.
StopUnchecked(state) == [state EXCEPT !.intervals = @ - 1, !.retargetTimer = FALSE]

StopRetargetTimer(state) ==
    IF state.retargetTimer
    THEN [state EXCEPT !.intervals = @ - 1, !.retargetTimer = FALSE]
    ELSE state

\* setInterval, after retargetDelay.
StartInterval(w) ==
    /\ worker[w].timeouts > 0
    /\ worker' = [worker EXCEPT ![w].timeouts = @ - 1,
                                ![w].intervals = @ + 1,
                                ![w].retargetTimer = TRUE]
    /\ UNCHANGED <<dataVars, server, workers, sent, call, handed>>

Tick(w) ==
    /\ worker[w].intervals > 0
    /\ worker' = [worker EXCEPT ![w].due = TRUE]
    /\ UNCHANGED <<dataVars, server, workers, sent, call, handed>>

\* sendNewJob, when it has set the target of the miner.
SendNewJob(w) ==
    /\ worker[w].due
    /\ worker' = [worker EXCEPT ![w].due = FALSE]
    /\ sent' = IF worker[w].socketClosed THEN sent
               ELSE [sent EXCEPT ![w] = worker[w].reserved]
    /\ UNCHANGED <<dataVars, server, workers, call, handed>>

----------------------------------------------------------------------------
(* The newChallenge listener, and handleUpdate of every worker *)

Updated(state, c) ==
    StartRetargetTimer(
        [StopRetargetTimer(state) EXCEPT
            !.challengeNumber = c, !.epochCount = c, !.randomxBlob = c,
            !.reserved = ReservedHash(c, c), !.due = TRUE])

HandleUpdate(c) ==
    [w \in Workers |->
        IF w \in workers /\ worker[w].challengeNumber # c /\ worker[w].logins > 0
        THEN Updated(worker[w], c)
        ELSE worker[w]]

OnNewChallenge ==
    /\ notice = "sent"
    /\ server.listening
    /\ notice' = "none"
    /\ server' = [server EXCEPT !.announced = miningContractData]
    /\ worker' = IF server.announced = miningContractData THEN worker
                 ELSE HandleUpdate(miningContractData)
    /\ UNCHANGED <<miningContractData, workers, sent, call, handed>>

\* Nobody listens yet.
NobodyListens ==
    /\ notice = "sent"
    /\ ~server.listening
    /\ notice' = "none"
    /\ UNCHANGED <<miningContractData, server, workers, worker, sent, call, handed>>

----------------------------------------------------------------------------
(* The messages of a miner: _processInteraction *)

\* One idle slot is as good as another.
FirstIdle == CHOOSE k \in Calls : call[k].pc = "idle"

Login(w, k) ==
    LET counted == [worker[w] EXCEPT !.logins = @ + 1] IN
    /\ call[k].pc = "idle"
    /\ k = FirstIdle
    /\ w \in workers
    /\ worker[w].logins < MaxLogins
    /\ worker' = [worker EXCEPT ![w] = StartRetargetTimer(counted)]
    /\ call' = [call EXCEPT ![k] = [IdleCall EXCEPT !.pc = "height", !.w = w, !.first = TRUE]]
    /\ UNCHANGED <<dataVars, server, workers, sent, handed>>

\* sendFirstJob, after the target of the miner is set.
ReadHeight(k) ==
    /\ call[k].pc = "height"
    /\ call' = [call EXCEPT ![k].pc = "blob", ![k].height = miningContractData]
    /\ UNCHANGED <<dataVars, server, workers, worker, sent, handed>>

\* AskFirstJob.
SendFirst(w, job) ==
    sent' = IF worker[w].socketClosed THEN sent ELSE [sent EXCEPT ![w] = job]

CompareFirst(k) ==
    LET w == call[k].w IN
    /\ call[k].pc = "blob"
    /\ IF worker[w].epochCount # call[k].height \/ worker[w].randomxBlob # miningContractData
       THEN call' = [call EXCEPT ![k].pc = "reload"] /\ UNCHANGED sent
       ELSE call' = [call EXCEPT ![k] = IdleCall] /\ SendFirst(w, worker[w].reserved)
    /\ UNCHANGED <<dataVars, server, workers, worker, handed>>

\* The miner submits a share of the job it was sent last.
Submit(w, k) ==
    /\ call[k].pc = "idle"
    /\ k = FirstIdle
    /\ w \in workers
    /\ worker[w].logins > 0
    /\ sent[w] # NoJob
    /\ call' = [call EXCEPT ![k] =
            [IdleCall EXCEPT !.pc = "submit", !.w = w, !.share = sent[w]]]
    /\ UNCHANGED <<dataVars, server, workers, worker, sent, handed>>

Compare(k, fresh) ==
    LET w == call[k].w IN
    /\ call[k].pc = "submit"
    /\ call' = [call EXCEPT ![k] =
            IF ~fresh THEN [@ EXCEPT !.pc = "reload"]
            ELSE IF @.share = worker[w].reserved THEN [@ EXCEPT !.pc = "hand"]
            ELSE IdleCall]
    /\ UNCHANGED <<dataVars, server, workers, worker, sent, handed>>

\* Mutant: the blob is not compared with the pool's.
AnyBlob(k) == Compare(k, TRUE)

\* The blob the pool has now, then the hash of the share under the worker's job.
CompareBlob(k) == Compare(k, worker[call[k].w].randomxBlob = miningContractData)

\* After the wait for the block number: the share names the blob the worker has then.
HandIn(k) ==
    /\ call[k].pc = "hand"
    /\ handed' = [hash |-> call[k].share, blob |-> worker[call[k].w].randomxBlob]
    /\ call' = [call EXCEPT ![k] = IdleCall]
    /\ UNCHANGED <<dataVars, server, workers, worker, sent>>

\* reloadWorkerJob, a field at a time; the blob to be sent is made with the last.
ReloadFrom(k, value) ==
    LET w == call[k].w
        i == call[k].at
        next == [worker[w] EXCEPT ![Fields[i]] = value]
        last == i = Len(Fields)
        job == ReservedHash(next.randomxBlob, next.challengeNumber)
    IN
    /\ call[k].pc = "reload"
    /\ worker' = [worker EXCEPT ![w] =
            IF ~last THEN next
            ELSE [next EXCEPT !.reserved = job, !.due = @ \/ ~call[k].first]]
    /\ call' = [call EXCEPT ![k] = IF last THEN IdleCall ELSE [@ EXCEPT !.at = i + 1]]
    /\ IF last /\ call[k].first THEN SendFirst(w, job) ELSE UNCHANGED sent
    /\ UNCHANGED <<dataVars, server, workers, handed>>

\* Mutant: the first job is made of the epoch that was read to compare.
ReloadAsCompared(k) ==
    ReloadFrom(k, IF call[k].first THEN call[k].height ELSE miningContractData)

ReloadWorkerJob(k) == ReloadFrom(k, miningContractData)

----------------------------------------------------------------------------
(* The end of a connection *)

\* The 'end' event, or an EPIPE or ECONNRESET error.
End(w) ==
    /\ w \in workers
    /\ worker' = [worker EXCEPT ![w] = [StopRetargetTimer(@) EXCEPT !.socketClosed = TRUE]]
    /\ workers' = workers \ {w}
    /\ UNCHANGED <<dataVars, server, sent, call, handed>>

\* Another error, then 'close': socketClosed is set before _handleEnd looks at it.
ErrorThenClose(w) ==
    /\ w \in workers
    /\ worker' = [worker EXCEPT ![w].socketClosed = TRUE]
    /\ workers' = workers \ {w}
    /\ UNCHANGED <<dataVars, server, sent, call, handed>>

----------------------------------------------------------------------------
(* A request to the database rejects: the call ends where it is. *)

FailCall(k) ==
    /\ call[k].pc # "idle"
    /\ call' = [call EXCEPT ![k] = IdleCall]
    /\ UNCHANGED <<dataVars, server, workers, worker, sent, handed>>

ServerStep == ReadPoolConfig \/ ReadAnnounced \/ Listen

CallStep(k) ==
    \/ ReadHeight(k)
    \/ CompareFirst(k)
    \/ CompareBlob(k)
    \/ HandIn(k)
    \/ ReloadWorkerJob(k)

=============================================================================
