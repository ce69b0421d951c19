------------------------------ MODULE JobProofs ------------------------------
(***************************************************************************)
(* The types of JobSystem, and that the blob of a miner's job and of its   *)
(* shares never goes back, for every value of the constants.               *)
(***************************************************************************)
EXTENDS JobSystem, TLAPS

\* The handle of an interval is set while one runs, and the blob a worker sends is not
\* newer than the one it has, which is not newer than the pool's.
WorkerOK(state) ==
    /\ state \in WorkerState
    /\ state.retargetTimer => state.intervals > 0
    /\ state.reserved.blob <= state.randomxBlob
    /\ state.randomxBlob <= miningContractData

WorkersOK == \A w \in Workers : WorkerOK(worker[w])

\* What a miner was sent last is not newer than what its worker would send it now.
SentOK == \A w \in Workers : sent[w].blob <= worker[w].reserved.blob

\* A reload has a field to come to, and a share about to be handed in was found for the
\* blob its worker had, or an older one.
CallOK(state) ==
    /\ state \in CallState
    /\ state.at <= Len(Fields)
    /\ state.pc = "hand" => state.share.blob <= worker[state.w].randomxBlob

CallsOK == \A k \in Calls : CallOK(call[k])

ServerOK == server.randomxBlob <= miningContractData

JobInvariant ==
    /\ TypeOK
    /\ ServerOK
    /\ WorkersOK
    /\ SentOK
    /\ CallsOK
    /\ WorkIsNotLost

LEMMA FieldsOf ==
    /\ Len(Fields) = 3
    /\ Fields[1] = "challengeNumber"
    /\ Fields[2] = "randomxBlob"
    /\ Fields[3] = "epochCount"
BY DEF Fields

(* A connection nobody has made, a job nobody has and a call that is not running. *)
LEMMA IdleTypes ==
    /\ NoJob \in Reserved /\ NoJob.blob = 0
    /\ NewWorker \in WorkerState /\ ~NewWorker.retargetTimer
    /\ NewWorker.randomxBlob = 0 /\ NewWorker.reserved = NoJob
    /\ IdleCall \in CallState /\ IdleCall.at = 1 /\ IdleCall.pc = "idle"
<1>1. NoJob \in Reserved /\ NoJob.blob = 0
  BY StratumAssumption DEF NoJob, Reserved, Epochs
<1>2. /\ NewWorker \in WorkerState /\ ~NewWorker.retargetTimer
      /\ NewWorker.randomxBlob = 0 /\ NewWorker.reserved = NoJob
  BY <1>1, StratumAssumption DEF NewWorker, WorkerState, Epochs
<1>3. (CHOOSE w \in Workers : TRUE) \in Workers
  BY StratumAssumption
<1>4. IdleCall \in CallState /\ IdleCall.at = 1 /\ IdleCall.pc = "idle"
  BY <1>1, <1>3, StratumAssumption, FieldsOf DEF IdleCall, CallState, Epochs
<1> QED
  BY <1>1, <1>2, <1>4

(* Blobs of zero are in order. *)
LEMMA NoJobSent ==
    ASSUME \A w \in Workers : sent[w].blob = 0 /\ worker[w].reserved.blob = 0
    PROVE  SentOK
<1>1. ASSUME NEW w \in Workers PROVE sent[w].blob <= worker[w].reserved.blob
  <2>1. sent[w].blob = 0 /\ worker[w].reserved.blob = 0
    OBVIOUS
  <2> QED
    BY <2>1
<1> QED
  BY <1>1 DEF SentOK

(* The server starts with a whole state. *)
LEMMA InitTypes == Init => JobInvariant
<1> SUFFICES ASSUME Init PROVE JobInvariant
  OBVIOUS
<1> USE IdleTypes, FieldsOf, StratumAssumption DEF Init, StratumInit
<1>1. TypeOK
  <2>1. server \in ServerState
    BY DEF ServerState, Epochs
  <2>2. worker \in [Workers -> WorkerState] /\ call \in [Calls -> CallState]
    BY IdleTypes
  <2>3. sent \in [Workers -> Reserved] /\ handed \in Share
    BY IdleTypes, StratumAssumption DEF Share, NoShare, Epochs
  <2>4. miningContractData \in Epochs
    BY DEF Epochs
  <2>5. /\ notice \in {"none", "due", "sent"} /\ workers \subseteq Workers
        /\ faults \in Nat /\ unheard \in BOOLEAN
    OBVIOUS
  <2> QED
    BY <2>1, <2>2, <2>3, <2>4, <2>5 DEF TypeOK, StratumTypeOK
<1>2. ServerOK
  BY DEF ServerOK
<1>3. WorkersOK
  <2>1. WorkerOK(NewWorker)
    BY IdleTypes DEF WorkerOK
  <2> QED
    BY <2>1 DEF WorkersOK
<1>4. SentOK
  <2>1. \A w \in Workers : sent[w].blob = 0 /\ worker[w].reserved.blob = 0
    OBVIOUS
  <2> QED
    BY <2>1, NoJobSent
<1>5. CallsOK
  BY DEF CallsOK, CallOK
<1>6. WorkIsNotLost
  BY DEF WorkIsNotLost, NoShare
<1> QED
  BY <1>1, <1>2, <1>3, <1>4, <1>5, <1>6 DEF JobInvariant

----------------------------------------------------------------------------
(* What a step does to one worker. *)

\* The blobs of a worker only grow.
Grows(old, new) ==
    /\ old.randomxBlob <= new.randomxBlob
    /\ old.reserved.blob <= new.reserved.blob

(* The timer of a worker touches none of its blobs. *)
LEMMA TimerTypes ==
    ASSUME NEW state, WorkerOK(state)
    PROVE  /\ WorkerOK(StartRetargetTimer(state)) /\ WorkerOK(StopRetargetTimer(state))
           /\ Grows(state, StartRetargetTimer(state))
           /\ Grows(state, StopRetargetTimer(state))
<1>1. state \in WorkerState /\ state.randomxBlob \in Nat /\ state.reserved.blob \in Nat
  BY StratumAssumption DEF WorkerOK, WorkerState, Reserved, Epochs
<1>2. ASSUME NEW n \in Nat
      PROVE  /\ WorkerOK([state EXCEPT !.timeouts = n])
             /\ Grows(state, [state EXCEPT !.timeouts = n])
  BY <1>1, <1>2 DEF WorkerOK, WorkerState, Grows
<1>3. WorkerOK(StartRetargetTimer(state)) /\ Grows(state, StartRetargetTimer(state))
  <2> DEFINE n == IF state.retargetTimer THEN state.timeouts ELSE state.timeouts + 1
  <2>1. n \in Nat
    BY <1>1 DEF WorkerState
  <2>2. StartRetargetTimer(state) = [state EXCEPT !.timeouts = n]
    BY DEF StartRetargetTimer
  <2> HIDE DEF n
  <2> QED
    BY <1>2, <2>1, <2>2
<1>4. WorkerOK(StopRetargetTimer(state)) /\ Grows(state, StopRetargetTimer(state))
  <2>1. CASE state.retargetTimer
    <3> DEFINE new == [state EXCEPT !.intervals = state.intervals - 1,
                                    !.retargetTimer = FALSE]
    <3>1. StopRetargetTimer(state) = new
      BY <2>1 DEF StopRetargetTimer
    <3>2. state.intervals - 1 \in Nat
      BY <1>1, <2>1 DEF WorkerOK, WorkerState
    <3>3. /\ new \in WorkerState /\ new.retargetTimer = FALSE
          /\ new.reserved = state.reserved /\ new.randomxBlob = state.randomxBlob
      BY <1>1, <3>2 DEF WorkerState
    <3>4. WorkerOK(new) /\ Grows(state, new)
      BY <1>1, <3>3 DEF WorkerOK, Grows
    <3> QED
      BY <3>1, <3>4
  <2>2. CASE ~state.retargetTimer
    BY <1>1, <2>2 DEF StopRetargetTimer, Grows
  <2> QED
    BY <2>1, <2>2
<1> QED
  BY <1>3, <1>4

(* The update of a notice gives a worker the pool's blob. *)
LEMMA UpdatedTypes ==
    ASSUME JobInvariant, NEW w \in Workers
    PROVE  /\ WorkerOK(Updated(worker[w], miningContractData))
           /\ Grows(worker[w], Updated(worker[w], miningContractData))
<1> DEFINE c == miningContractData
           stopped == StopRetargetTimer(worker[w])
           new == [stopped EXCEPT !.challengeNumber = c, !.epochCount = c,
                                  !.randomxBlob = c, !.reserved = ReservedHash(c, c),
                                  !.due = TRUE]
<1>1. WorkerOK(worker[w]) /\ WorkerOK(stopped) /\ Grows(worker[w], stopped)
  BY TimerTypes DEF JobInvariant, WorkersOK
<1>2. c \in Epochs /\ c \in Nat
  BY StratumAssumption DEF JobInvariant, TypeOK, StratumTypeOK, Epochs
<1>3. ReservedHash(c, c) \in Reserved /\ ReservedHash(c, c).blob = c
  BY <1>2 DEF ReservedHash, Reserved
<1>4. /\ worker[w].randomxBlob \in Nat /\ stopped.randomxBlob \in Nat
      /\ worker[w].reserved.blob \in Nat /\ stopped.reserved.blob \in Nat
  BY <1>1, StratumAssumption DEF WorkerOK, WorkerState, Reserved, Epochs
<1>5. WorkerOK(new) /\ Grows(worker[w], new)
  <2> HIDE DEF stopped
  <2>1. new \in WorkerState
    BY <1>1, <1>2, <1>3 DEF WorkerOK, WorkerState
  <2>2. /\ new.retargetTimer = stopped.retargetTimer
        /\ new.intervals = stopped.intervals
        /\ new.randomxBlob = c /\ new.reserved.blob = c
    BY <1>1, <1>2, <1>3 DEF WorkerOK, WorkerState
  <2> QED
    BY <1>1, <1>2, <1>4, <2>1, <2>2 DEF WorkerOK, Grows
<1>6. Updated(worker[w], c) = StartRetargetTimer(new)
  BY DEF Updated
<1>7. WorkerOK(StartRetargetTimer(new)) /\ Grows(new, StartRetargetTimer(new))
  <2> HIDE DEF new
  <2> QED
    BY <1>5, TimerTypes
<1>8. Grows(worker[w], StartRetargetTimer(new))
  <2>1. /\ new.randomxBlob \in Nat /\ new.reserved.blob \in Nat
        /\ StartRetargetTimer(new).randomxBlob \in Nat
        /\ StartRetargetTimer(new).reserved.blob \in Nat
    <3> HIDE DEF new
    <3> QED
      BY <1>5, <1>7, StratumAssumption DEF WorkerOK, WorkerState, Reserved, Epochs
  <2> HIDE DEF new
  <2> QED
    BY <1>4, <1>5, <1>7, <2>1 DEF Grows
<1> QED
  BY <1>6, <1>7, <1>8

----------------------------------------------------------------------------
(* What every step does to each variable. *)

DataMoves ==
    /\ miningContractData' \in Epochs /\ miningContractData <= miningContractData'
    /\ notice' \in {"none", "due", "sent"}

ServerMoves ==
    /\ server' \in ServerState
    /\ workers' \subseteq Workers
    /\ server'.randomxBlob <= miningContractData

WorkerMoves ==
    /\ worker' \in [Workers -> WorkerState]
    /\ \A w \in Workers : WorkerOK(worker'[w]) /\ Grows(worker[w], worker'[w])

\* A miner is only sent the blob its worker has ready.
SentMoves ==
    /\ sent' \in [Workers -> Reserved]
    /\ \A w \in Workers : sent'[w] = sent[w] \/ sent'[w] = worker'[w].reserved

CallMoves ==
    /\ call' \in [Calls -> CallState]
    /\ \A k \in Calls :
        \/ call'[k] = call[k]
        \/ /\ call'[k].at <= Len(Fields)
           /\ call'[k].pc = "hand" => call'[k].share.blob <= worker[call'[k].w].randomxBlob

HandedMoves == handed' \in Share /\ handed'.hash.blob <= handed'.blob

Orderly ==
    /\ DataMoves
    /\ ServerMoves
    /\ WorkerMoves
    /\ SentMoves
    /\ CallMoves
    /\ HandedMoves

Forward == \A w \in Workers : sent[w].blob <= sent'[w].blob

(* The blobs are numbers. *)
LEMMA BlobTypes ==
    ASSUME JobInvariant
    PROVE  /\ miningContractData \in Nat /\ miningContractData \in Epochs
           /\ \A w \in Workers :
               /\ worker[w] \in WorkerState
               /\ worker[w].randomxBlob \in Nat
               /\ worker[w].reserved \in Reserved
               /\ worker[w].reserved.blob \in Nat
               /\ sent[w] \in Reserved
               /\ sent[w].blob \in Nat
           /\ \A k \in Calls : /\ call[k] \in CallState /\ call[k].w \in Workers
                               /\ call[k].share.blob \in Nat
<1> USE StratumAssumption DEF JobInvariant, TypeOK, StratumTypeOK, Epochs
<1>1. miningContractData \in Nat /\ miningContractData \in Epochs
  OBVIOUS
<1>2. \A w \in Workers :
        /\ worker[w] \in WorkerState
        /\ worker[w].randomxBlob \in Nat
        /\ worker[w].reserved \in Reserved
        /\ worker[w].reserved.blob \in Nat
  BY DEF WorkerState, Reserved
<1>3. \A w \in Workers : sent[w] \in Reserved /\ sent[w].blob \in Nat
  BY DEF Reserved
<1>4. \A k \in Calls : /\ call[k] \in CallState /\ call[k].w \in Workers
                       /\ call[k].share.blob \in Nat
  BY DEF CallState, Reserved
<1> QED
  BY <1>1, <1>2, <1>3, <1>4

(* Such a step keeps the invariant, and the blobs of the miners grow. *)
LEMMA OrderlyKeeps ==
    ASSUME JobInvariant, Orderly, faults' \in Nat, unheard' \in BOOLEAN
    PROVE  JobInvariant' /\ Forward
<1> USE DEF Orderly
<1>1. TypeOK'
  BY DEF TypeOK, StratumTypeOK, DataMoves, ServerMoves, WorkerMoves, SentMoves, CallMoves,
         HandedMoves
<1>2. /\ miningContractData \in Nat /\ miningContractData' \in Nat
      /\ miningContractData <= miningContractData'
  BY BlobTypes, StratumAssumption DEF DataMoves, Epochs
<1>3. ServerOK'
  <2>1. server'.randomxBlob \in Nat
    BY StratumAssumption DEF ServerMoves, ServerState, Epochs
  <2> QED
    BY <1>2, <2>1 DEF ServerMoves, ServerOK
<1>4. \A w \in Workers :
        /\ worker'[w].randomxBlob \in Nat /\ worker'[w].reserved.blob \in Nat
        /\ worker[w].randomxBlob <= worker'[w].randomxBlob
        /\ worker[w].reserved.blob <= worker'[w].reserved.blob
  BY StratumAssumption DEF WorkerMoves, Grows, WorkerOK, WorkerState, Reserved, Epochs
<1>5. WorkersOK'
  <2> SUFFICES ASSUME NEW w \in Workers PROVE WorkerOK(worker[w])'
    BY DEF WorkersOK
  <2>1. WorkerOK(worker'[w])
    BY DEF WorkerMoves
  <2> QED
    BY <1>2, <1>4, <2>1 DEF WorkerOK
<1>6. SentOK' /\ Forward
  <2> SUFFICES ASSUME NEW w \in Workers
               PROVE  /\ sent'[w].blob <= worker'[w].reserved.blob
                      /\ sent[w].blob <= sent'[w].blob
    BY DEF SentOK, Forward
  <2>1. sent[w].blob <= worker[w].reserved.blob
    BY DEF JobInvariant, SentOK
  <2>2. /\ sent[w].blob \in Nat /\ worker[w].reserved.blob \in Nat
        /\ worker'[w].reserved.blob \in Nat
        /\ worker[w].reserved.blob <= worker'[w].reserved.blob
    BY <1>4, BlobTypes
  <2>3. CASE sent'[w] = sent[w]
    BY <2>1, <2>2, <2>3
  <2>4. CASE sent'[w] = worker'[w].reserved
    BY <2>1, <2>2, <2>4
  <2> QED
    BY <2>3, <2>4 DEF SentMoves
<1>7. CallsOK'
  <2> SUFFICES ASSUME NEW k \in Calls PROVE CallOK(call[k])'
    BY DEF CallsOK
  <2>1. call'[k] \in CallState /\ call'[k].w \in Workers /\ call'[k].share.blob \in Nat
    BY StratumAssumption DEF CallMoves, CallState, Reserved, Epochs
  <2>2. /\ call'[k].at <= Len(Fields)
        /\ call'[k].pc = "hand" => call'[k].share.blob <= worker[call'[k].w].randomxBlob
    BY DEF CallMoves, JobInvariant, CallsOK, CallOK
  <2>3. call'[k].pc = "hand" => call'[k].share.blob <= worker'[call'[k].w].randomxBlob
    BY <1>4, <2>1, <2>2, BlobTypes
  <2> QED
    BY <2>1, <2>2, <2>3 DEF CallOK
<1>8. WorkIsNotLost'
  BY DEF HandedMoves, WorkIsNotLost
<1> QED
  BY <1>1, <1>3, <1>5, <1>6, <1>7, <1>8 DEF JobInvariant

(* What a step leaves alone is in order. *)
LEMMA LeftAlone ==
    ASSUME JobInvariant
    PROVE  /\ UNCHANGED dataVars => DataMoves
           /\ UNCHANGED <<server, workers>> => ServerMoves
           /\ UNCHANGED worker => WorkerMoves
           /\ UNCHANGED sent => SentMoves
           /\ UNCHANGED call => CallMoves
           /\ UNCHANGED handed => HandedMoves
<1> USE DEF JobInvariant, TypeOK, StratumTypeOK
<1>1. UNCHANGED dataVars => DataMoves
  BY BlobTypes DEF dataVars, DataMoves
<1>2. UNCHANGED <<server, workers>> => ServerMoves
  BY DEF ServerMoves, ServerOK
<1>3. UNCHANGED worker => WorkerMoves
  <2> SUFFICES ASSUME UNCHANGED worker, NEW w \in Workers PROVE Grows(worker[w], worker[w])
    BY DEF WorkerMoves, WorkersOK
  <2> QED
    BY BlobTypes DEF Grows
<1>4. UNCHANGED sent => SentMoves
  BY DEF SentMoves
<1>5. UNCHANGED call => CallMoves
  BY DEF CallMoves
<1>6. UNCHANGED handed => HandedMoves
  BY DEF HandedMoves, WorkIsNotLost
<1> QED
  BY <1>1, <1>2, <1>3, <1>4, <1>5, <1>6

(* One worker moves. *)
LEMMA OneWorker ==
    ASSUME JobInvariant, NEW w \in Workers, NEW new, WorkerOK(new), Grows(worker[w], new),
           worker' = [worker EXCEPT ![w] = new]
    PROVE  WorkerMoves
<1>1. new \in WorkerState /\ worker \in [Workers -> WorkerState]
  BY DEF WorkerOK, JobInvariant, TypeOK, StratumTypeOK
<1>2. worker' \in [Workers -> WorkerState] /\ worker'[w] = new
  BY <1>1
<1>3. ASSUME NEW v \in Workers PROVE WorkerOK(worker'[v]) /\ Grows(worker[v], worker'[v])
  <2>1. CASE v = w
    BY <1>2, <2>1
  <2>2. CASE v # w
    <3>1. worker'[v] = worker[v]
      BY <1>1, <2>2
    <3>2. WorkerOK(worker[v])
      BY DEF JobInvariant, WorkersOK
    <3>3. Grows(worker[v], worker[v])
      BY BlobTypes DEF Grows
    <3> QED
      BY <3>1, <3>2, <3>3
  <2> QED
    BY <2>1, <2>2
<1> QED
  BY <1>2, <1>3 DEF WorkerMoves

(* One call moves. *)
LEMMA OneCall ==
    ASSUME JobInvariant, NEW k \in Calls, NEW new \in CallState,
           new.at <= Len(Fields),
           new.pc = "hand" => new.share.blob <= worker[new.w].randomxBlob,
           call' = [call EXCEPT ![k] = new]
    PROVE  CallMoves
<1>1. call \in [Calls -> CallState]
  BY DEF JobInvariant, TypeOK, StratumTypeOK
<1> QED
  BY <1>1 DEF CallMoves

(* A call ends. *)
LEMMA CallEnds ==
    ASSUME JobInvariant, NEW k \in Calls, call' = [call EXCEPT ![k] = IdleCall]
    PROVE  CallMoves
<1>1. /\ IdleCall \in CallState /\ IdleCall.at <= Len(Fields)
      /\ IdleCall.pc = "hand" => IdleCall.share.blob <= worker[IdleCall.w].randomxBlob
  BY IdleTypes, FieldsOf
<1> HIDE DEF IdleCall
<1> QED
  BY <1>1, OneCall

(* A worker is sent the blob it has ready. *)
LEMMA OneSent ==
    ASSUME JobInvariant, WorkerMoves, NEW w \in Workers,
           \/ UNCHANGED sent
           \/ sent' = [sent EXCEPT ![w] = worker'[w].reserved]
    PROVE  SentMoves
<1>1. sent \in [Workers -> Reserved] /\ worker'[w].reserved \in Reserved
  BY DEF JobInvariant, TypeOK, StratumTypeOK, WorkerMoves, WorkerState
<1> QED
  BY <1>1 DEF SentMoves

----------------------------------------------------------------------------
(* The steps. *)

(* The collector and the events. *)
LEMMA DataStepKeeps ==
    ASSUME JobInvariant, NewChallenge \/ EmitNewChallenge \/ LoseNotice \/ NobodyListens
    PROVE  Orderly
<1>1. DataMoves
  BY BlobTypes, StratumAssumption
     DEF DataMoves, NewChallenge, EmitNewChallenge, LoseNotice, NobodyListens, Epochs
<1>2. UNCHANGED <<server, workers, worker, sent, call, handed>>
  BY DEF NewChallenge, EmitNewChallenge, LoseNotice, NobodyListens
<1> QED
  BY <1>1, <1>2, LeftAlone DEF Orderly

(* The server reads what its workers start with. *)
LEMMA ServerStepKeeps ==
    ASSUME JobInvariant, ServerStep
    PROVE  Orderly
<1>1. UNCHANGED <<dataVars, workers, worker, sent, call, handed>>
  BY DEF ServerStep, ReadPoolConfig, ReadAnnounced, Listen
<1>2. /\ server \in ServerState /\ server.randomxBlob <= miningContractData
      /\ workers \subseteq Workers /\ miningContractData \in Epochs
      /\ miningContractData <= miningContractData
  BY BlobTypes DEF JobInvariant, TypeOK, StratumTypeOK, ServerOK
<1>3. ServerMoves
  <2>1. CASE ReadPoolConfig
    <3>1. /\ server.at \in 1..3 /\ server.at + 1 \in 1..Len(Fields) + 1
      BY <1>2, <2>1, FieldsOf DEF ReadPoolConfig, ServerState
    <3>2. Fields[server.at] \in {"challengeNumber", "randomxBlob", "epochCount"}
      BY <3>1, FieldsOf
    <3> DEFINE f == Fields[server.at]
    <3>3. server' = [[server EXCEPT !.at = server.at + 1] EXCEPT ![f] = miningContractData]
      BY <1>2, <2>1, <3>2 DEF ReadPoolConfig, ServerState
    <3> HIDE DEF f
    <3>4. CASE f = "challengeNumber"
      <4>1. server' = [server EXCEPT !.at = server.at + 1, !.challengeNumber = miningContractData]
        BY <3>3, <3>4
      <4>2. server' \in ServerState
        BY <1>2, <3>1, <4>1 DEF ServerState
      <4>3. server'.randomxBlob \in {server.randomxBlob, miningContractData}
        BY <1>2, <4>1 DEF ServerState
      <4> QED
        BY <1>1, <1>2, <4>2, <4>3 DEF ServerMoves
    <3>5. CASE f = "randomxBlob"
      <4>1. server' = [server EXCEPT !.at = server.at + 1, !.randomxBlob = miningContractData]
        BY <3>3, <3>5
      <4>2. server' \in ServerState
        BY <1>2, <3>1, <4>1 DEF ServerState
      <4>3. server'.randomxBlob \in {server.randomxBlob, miningContractData}
        BY <1>2, <4>1 DEF ServerState
      <4> QED
        BY <1>1, <1>2, <4>2, <4>3 DEF ServerMoves
    <3>6. CASE f = "epochCount"
      <4>1. server' = [server EXCEPT !.at = server.at + 1, !.epochCount = miningContractData]
        BY <3>3, <3>6
      <4>2. server' \in ServerState
        BY <1>2, <3>1, <4>1 DEF ServerState
      <4>3. server'.randomxBlob \in {server.randomxBlob, miningContractData}
        BY <1>2, <4>1 DEF ServerState
      <4> QED
        BY <1>1, <1>2, <4>2, <4>3 DEF ServerMoves
    <3> QED
      BY <3>2, <3>4, <3>5, <3>6 DEF f
  <2>2. CASE ReadAnnounced
    BY <1>1, <1>2, <2>2 DEF ReadAnnounced, ServerMoves, ServerState
  <2>3. CASE Listen
    BY <1>1, <1>2, <2>3 DEF Listen, ServerMoves, ServerState
  <2> QED
    BY <2>1, <2>2, <2>3 DEF ServerStep
<1> QED
  BY <1>1, <1>3, LeftAlone DEF Orderly

(* A new connection has the blob of the server, which nothing was sent for yet. *)
LEMMA ConnectKeeps ==
    ASSUME JobInvariant, NEW w \in Workers, Connect(w)
    PROVE  Orderly
<1> DEFINE new == [NewWorker EXCEPT
                      !.challengeNumber = server.challengeNumber,
                      !.randomxBlob = server.randomxBlob,
                      !.epochCount = server.epochCount,
                      !.reserved = ReservedHash(server.randomxBlob, server.challengeNumber),
                      !.socketClosed = FALSE]
<1>1. /\ server.challengeNumber \in Epochs /\ server.randomxBlob \in Epochs
      /\ server.epochCount \in Epochs /\ server.randomxBlob \in Nat
      /\ server.randomxBlob <= miningContractData
      /\ server \in ServerState /\ workers \subseteq Workers
  BY StratumAssumption DEF JobInvariant, TypeOK, StratumTypeOK, ServerOK, ServerState, Epochs
<1>2. /\ ReservedHash(server.randomxBlob, server.challengeNumber) \in Reserved
      /\ ReservedHash(server.randomxBlob, server.challengeNumber).blob = server.randomxBlob
  BY <1>1 DEF ReservedHash, Reserved
<1>3. /\ new \in WorkerState /\ ~new.retargetTimer
      /\ new.randomxBlob = server.randomxBlob /\ new.reserved.blob = server.randomxBlob
  <2> HIDE DEF NewWorker
  <2> QED
    BY <1>1, <1>2, IdleTypes DEF WorkerState
<1>4. worker[w] = NewWorker /\ worker' = [worker EXCEPT ![w] = new]
  BY DEF Connect
<1>5. worker[w].randomxBlob = 0 /\ worker[w].reserved.blob = 0
  BY <1>4, IdleTypes
<1> HIDE DEF new
<1>6. WorkerOK(new) /\ Grows(worker[w], new)
  BY <1>1, <1>3, <1>5 DEF WorkerOK, Grows
<1>7. WorkerMoves
  BY <1>4, <1>6, OneWorker
<1>8. ServerMoves
  BY <1>1 DEF ServerMoves, Connect
<1> QED
  BY <1>7, <1>8, LeftAlone DEF Orderly, Connect

(* The end of a connection. *)
LEMMA EndKeeps ==
    ASSUME JobInvariant, NEW w \in Workers, End(w) \/ ErrorThenClose(w)
    PROVE  Orderly
<1>1. WorkerOK(worker[w]) /\ worker[w] \in WorkerState
  BY BlobTypes DEF JobInvariant, WorkersOK
<1>2. ASSUME NEW state, WorkerOK(state)
      PROVE  /\ WorkerOK([state EXCEPT !.socketClosed = TRUE])
             /\ [state EXCEPT !.socketClosed = TRUE].randomxBlob = state.randomxBlob
             /\ [state EXCEPT !.socketClosed = TRUE].reserved = state.reserved
  BY <1>2 DEF WorkerOK, WorkerState
<1>3. WorkerMoves
  <2>1. CASE End(w)
    <3> DEFINE stopped == StopRetargetTimer(worker[w])
               new == [stopped EXCEPT !.socketClosed = TRUE]
    <3>1. WorkerOK(stopped) /\ Grows(worker[w], stopped)
      BY <1>1, TimerTypes
    <3>2. worker' = [worker EXCEPT ![w] = new]
      BY <2>1 DEF End
    <3> HIDE DEF stopped
    <3>3. WorkerOK(new) /\ Grows(worker[w], new)
      BY <1>2, <3>1 DEF Grows
    <3> HIDE DEF new
    <3> QED
      BY <3>2, <3>3, OneWorker
  <2>2. CASE ErrorThenClose(w)
    <3> DEFINE new == [worker[w] EXCEPT !.socketClosed = TRUE]
    <3>1. worker' = [worker EXCEPT ![w] = new]
      BY <2>2 DEF ErrorThenClose
    <3>2. WorkerOK(new) /\ Grows(worker[w], new)
      BY <1>1, <1>2, BlobTypes DEF Grows
    <3> HIDE DEF new
    <3> QED
      BY <3>1, <3>2, OneWorker
  <2> QED
    BY <2>1, <2>2
<1>4. ServerMoves
  BY DEF ServerMoves, End, ErrorThenClose, JobInvariant, TypeOK, StratumTypeOK, ServerOK
<1> QED
  BY <1>3, <1>4, LeftAlone DEF Orderly, End, ErrorThenClose

(* The timer of a worker, and the job it sends. *)
LEMMA TimerStepKeeps ==
    ASSUME JobInvariant, NEW w \in Workers, StartInterval(w) \/ Tick(w) \/ SendNewJob(w)
    PROVE  Orderly
<1>1. WorkerOK(worker[w]) /\ worker[w] \in WorkerState /\ worker[w].reserved.blob \in Nat
      /\ worker[w].randomxBlob \in Nat /\ worker \in [Workers -> WorkerState]
  BY BlobTypes DEF JobInvariant, WorkersOK, TypeOK, StratumTypeOK
<1>2. WorkerMoves
  <2>1. CASE StartInterval(w)
    <3> DEFINE new == [worker[w] EXCEPT !.timeouts = worker[w].timeouts - 1,
                                        !.intervals = worker[w].intervals + 1,
                                        !.retargetTimer = TRUE]
    <3>1. worker' = [worker EXCEPT ![w] = new]
      BY <1>1, <2>1 DEF StartInterval, WorkerState
    <3>2. worker[w].timeouts - 1 \in Nat /\ worker[w].intervals + 1 \in Nat
          /\ worker[w].intervals + 1 > 0
      BY <1>1, <2>1 DEF StartInterval, WorkerState
    <3>3. /\ new \in WorkerState /\ new.intervals > 0
          /\ new.reserved = worker[w].reserved /\ new.randomxBlob = worker[w].randomxBlob
      BY <1>1, <3>2 DEF WorkerState
    <3> HIDE DEF new
    <3>4. WorkerOK(new) /\ Grows(worker[w], new)
      BY <1>1, <3>3 DEF WorkerOK, Grows
    <3> QED
      BY <3>1, <3>4, OneWorker
  <2>2. ASSUME NEW d \in BOOLEAN, worker' = [worker EXCEPT ![w].due = d]
        PROVE  WorkerMoves
    <3> DEFINE new == [worker[w] EXCEPT !.due = d]
    <3>1. worker' = [worker EXCEPT ![w] = new]
      BY <1>1, <2>2
    <3>2. WorkerOK(new) /\ Grows(worker[w], new)
      BY <1>1 DEF WorkerOK, WorkerState, Grows
    <3> HIDE DEF new
    <3> QED
      BY <3>1, <3>2, OneWorker
  <2> QED
    BY <2>1, <2>2 DEF Tick, SendNewJob
<1>3. SentMoves
  <2>1. CASE UNCHANGED sent
    BY <2>1, LeftAlone
  <2>2. CASE SendNewJob(w) /\ sent' = [sent EXCEPT ![w] = worker[w].reserved]
    <3>1. worker'[w].reserved = worker[w].reserved
      BY <1>1, <2>2 DEF SendNewJob, WorkerState
    <3> QED
      BY <1>2, <2>2, <3>1, OneSent
  <2> QED
    BY <2>1, <2>2 DEF StartInterval, Tick, SendNewJob
<1>4. UNCHANGED <<dataVars, server, workers, call, handed>>
  BY DEF StartInterval, Tick, SendNewJob
<1> QED
  BY <1>2, <1>3, <1>4, LeftAlone DEF Orderly

(* A call that starts. *)
LEMMA CallStarts ==
    ASSUME JobInvariant, NEW w \in Workers, NEW k \in Calls, Login(w, k) \/ Submit(w, k)
    PROVE  Orderly
<1>1. /\ worker[w] \in WorkerState /\ worker[w].reserved \in Reserved
      /\ sent[w] \in Reserved /\ WorkerOK(worker[w])
  BY BlobTypes DEF JobInvariant, WorkersOK
<1>2. CASE Login(w, k)
  <2> DEFINE in == [worker[w] EXCEPT !.logins = worker[w].logins + 1]
             new == StartRetargetTimer(in)
             started == [IdleCall EXCEPT !.pc = "height", !.w = w, !.first = TRUE]
  <2>1. WorkerOK(in) /\ Grows(worker[w], in)
    <3>1. worker[w].logins + 1 \in 0..MaxLogins
      BY <1>1, <1>2, StratumAssumption DEF Login, WorkerState
    <3> QED
      BY <1>1, <3>1, BlobTypes DEF WorkerOK, WorkerState, Grows
  <2>2. worker' = [worker EXCEPT ![w] = new]
    BY <1>1, <1>2 DEF Login, WorkerState, JobInvariant, TypeOK, StratumTypeOK
  <2>3. WorkerOK(new) /\ Grows(worker[w], new)
    <3> HIDE DEF in
    <3>1. WorkerOK(new) /\ Grows(in, new)
      BY <2>1, TimerTypes
    <3>2. /\ in.randomxBlob \in Nat /\ in.reserved.blob \in Nat
          /\ new.randomxBlob \in Nat /\ new.reserved.blob \in Nat
      <4> HIDE DEF new
      <4> QED
        BY <2>1, <3>1, StratumAssumption DEF WorkerOK, WorkerState, Reserved, Epochs
    <3> HIDE DEF new
    <3> QED
      BY <2>1, <3>1, <3>2, BlobTypes DEF Grows
  <2>4. WorkerMoves
    <3> HIDE DEF new
    <3> QED
      BY <2>2, <2>3, OneWorker
  <2>5. call' = [call EXCEPT ![k] = started]
    BY <1>2 DEF Login
  <2>6. started \in CallState /\ started.at <= Len(Fields) /\ started.pc = "height"
    <3> HIDE DEF IdleCall
    <3>1. IdleCall \in CallState /\ IdleCall.at <= Len(Fields)
      BY IdleTypes, FieldsOf
    <3>2. started \in CallState
      BY <1>1, <3>1 DEF CallState
    <3>3. started.at = IdleCall.at /\ started.pc = "height"
      BY <3>1 DEF CallState
    <3> HIDE DEF started
    <3> QED
      BY <3>1, <3>2, <3>3
  <2>7. CallMoves
    <3> HIDE DEF started
    <3>1. started.pc = "hand" => started.share.blob <= worker[started.w].randomxBlob
      BY <2>6
    <3> QED
      BY <2>5, <2>6, <3>1, OneCall
  <2> QED
    BY <1>2, <2>4, <2>7, LeftAlone DEF Orderly, Login
<1>3. CASE Submit(w, k)
  <2> DEFINE started == [IdleCall EXCEPT !.pc = "submit", !.w = w, !.share = sent[w]]
  <2>1. call' = [call EXCEPT ![k] = started]
    BY <1>3 DEF Submit
  <2>2. started \in CallState /\ started.at <= Len(Fields) /\ started.pc = "submit"
    <3> HIDE DEF IdleCall
    <3>1. IdleCall \in CallState /\ IdleCall.at <= Len(Fields)
      BY IdleTypes, FieldsOf
    <3>2. started \in CallState
      BY <1>1, <3>1 DEF CallState
    <3>3. started.at = IdleCall.at /\ started.pc = "submit"
      BY <3>1 DEF CallState
    <3> HIDE DEF started
    <3> QED
      BY <3>1, <3>2, <3>3
  <2>3. CallMoves
    <3> HIDE DEF started
    <3>1. started.pc = "hand" => started.share.blob <= worker[started.w].randomxBlob
      BY <2>2
    <3> QED
      BY <2>1, <2>2, <3>1, OneCall
  <2> QED
    BY <1>3, <2>3, LeftAlone DEF Orderly, Submit
<1> QED
  BY <1>2, <1>3

(* A share is handed on only if it is the job its worker has. *)
LEMMA CompareKeeps ==
    ASSUME JobInvariant, NEW k \in Calls, CompareBlob(k)
    PROVE  Orderly
<1> DEFINE w == call[k].w
           fresh == worker[w].randomxBlob = miningContractData
           new == IF ~fresh THEN [call[k] EXCEPT !.pc = "reload"]
                  ELSE IF call[k].share = worker[w].reserved
                       THEN [call[k] EXCEPT !.pc = "hand"]
                       ELSE IdleCall
<1>1. /\ call[k] \in CallState /\ w \in Workers /\ call[k].at <= Len(Fields)
      /\ worker[w].reserved.blob <= worker[w].randomxBlob
  BY BlobTypes DEF JobInvariant, CallsOK, CallOK, WorkersOK, WorkerOK
<1>2. call' = [call EXCEPT ![k] = new]
  BY <1>1 DEF CompareBlob, Compare, JobInvariant, TypeOK, StratumTypeOK
<1>3. ASSUME NEW pc \in {"reload", "hand"}
      PROVE  /\ [call[k] EXCEPT !.pc = pc] \in CallState
             /\ [call[k] EXCEPT !.pc = pc].pc = pc
             /\ [call[k] EXCEPT !.pc = pc].at = call[k].at
             /\ [call[k] EXCEPT !.pc = pc].w = call[k].w
             /\ [call[k] EXCEPT !.pc = pc].share = call[k].share
  BY <1>1, <1>3 DEF CallState
<1> HIDE DEF fresh
<1>4. CASE ~fresh
  <2>1. new = [call[k] EXCEPT !.pc = "reload"]
    BY <1>4
  <2> HIDE DEF new
  <2>2. /\ new \in CallState /\ new.at <= Len(Fields) /\ new.pc = "reload"
    BY <1>1, <1>3, <2>1
  <2>3. new.pc = "hand" => new.share.blob <= worker[new.w].randomxBlob
    BY <2>2
  <2> QED
    BY <1>2, <2>2, <2>3, OneCall, LeftAlone DEF Orderly, CompareBlob, Compare
<1>5. CASE fresh /\ call[k].share = worker[w].reserved
  <2>1. new = [call[k] EXCEPT !.pc = "hand"]
    BY <1>5
  <2> HIDE DEF new
  <2>2. /\ new \in CallState /\ new.at <= Len(Fields)
        /\ new.w = w /\ new.share = worker[w].reserved
    BY <1>1, <1>3, <1>5, <2>1
  <2>3. new.share.blob <= worker[new.w].randomxBlob
    BY <1>1, <2>2
  <2> QED
    BY <1>2, <2>2, <2>3, OneCall, LeftAlone DEF Orderly, CompareBlob, Compare
<1>6. CASE fresh /\ call[k].share # worker[w].reserved
  <2>1. call' = [call EXCEPT ![k] = IdleCall]
    BY <1>2, <1>6
  <2> QED
    BY <2>1, CallEnds, LeftAlone DEF Orderly, CompareBlob, Compare
<1> QED
  BY <1>4, <1>5, <1>6

(* The steps of a first job before a reload. *)
LEMMA FirstJobKeeps ==
    ASSUME JobInvariant, NEW k \in Calls, ReadHeight(k) \/ CompareFirst(k)
    PROVE  Orderly
<1>1. /\ call[k] \in CallState /\ call[k].w \in Workers /\ call[k].at <= Len(Fields)
      /\ call \in [Calls -> CallState] /\ miningContractData \in Epochs
  BY BlobTypes DEF JobInvariant, CallsOK, CallOK, TypeOK, StratumTypeOK
<1>2. UNCHANGED <<dataVars, server, workers, worker, handed>>
  BY DEF ReadHeight, CompareFirst
<1>3. WorkerMoves
  BY <1>2, LeftAlone
<1>4. CallMoves
  <2>1. CASE ReadHeight(k)
    <3> DEFINE new == [call[k] EXCEPT !.pc = "blob", !.height = miningContractData]
    <3>1. call' = [call EXCEPT ![k] = new]
      BY <1>1, <2>1 DEF ReadHeight, CallState
    <3>2. new \in CallState /\ new.at <= Len(Fields) /\ new.pc = "blob"
      BY <1>1 DEF CallState
    <3> HIDE DEF new
    <3>3. new.pc = "hand" => new.share.blob <= worker[new.w].randomxBlob
      BY <3>2
    <3> QED
      BY <3>1, <3>2, <3>3, OneCall
  <2>2. CASE call' = [call EXCEPT ![k].pc = "reload"]
    <3> DEFINE new == [call[k] EXCEPT !.pc = "reload"]
    <3>1. call' = [call EXCEPT ![k] = new]
      BY <1>1, <2>2
    <3>2. new \in CallState /\ new.at <= Len(Fields) /\ new.pc = "reload"
      BY <1>1 DEF CallState
    <3> HIDE DEF new
    <3>3. new.pc = "hand" => new.share.blob <= worker[new.w].randomxBlob
      BY <3>2
    <3> QED
      BY <3>1, <3>2, <3>3, OneCall
  <2>3. CASE call' = [call EXCEPT ![k] = IdleCall]
    BY <2>3, CallEnds
  <2> QED
    BY <2>1, <2>2, <2>3 DEF CompareFirst
<1>5. SentMoves
  <2>1. \/ UNCHANGED sent
        \/ sent' = [sent EXCEPT ![call[k].w] = worker'[call[k].w].reserved]
    BY <1>2 DEF ReadHeight, CompareFirst, SendFirst
  <2> QED
    BY <1>1, <1>3, <2>1, OneSent
<1> QED
  BY <1>2, <1>3, <1>4, <1>5, LeftAlone DEF Orderly

(* A share is handed in with the blob its worker has, which is not older. *)
LEMMA HandInKeeps ==
    ASSUME JobInvariant, NEW k \in Calls, HandIn(k)
    PROVE  Orderly
<1>1. /\ call[k] \in CallState /\ call[k].w \in Workers
      /\ call[k].share.blob <= worker[call[k].w].randomxBlob
      /\ worker[call[k].w] \in WorkerState
  BY BlobTypes DEF JobInvariant, CallsOK, CallOK, HandIn
<1>2. HandedMoves
  BY <1>1 DEF HandIn, HandedMoves, Share, CallState, WorkerState
<1> QED
  BY <1>2, CallEnds, LeftAlone DEF Orderly, HandIn

(* A call that fails. *)
LEMMA FailKeeps ==
    ASSUME JobInvariant, NEW k \in Calls, FailCall(k)
    PROVE  Orderly
BY CallEnds, LeftAlone DEF Orderly, FailCall

(* A field that is read again is not older than it was. *)
LEMMA ReloadKeeps ==
    ASSUME JobInvariant, NEW k \in Calls, ReloadWorkerJob(k)
    PROVE  Orderly
<1> DEFINE w == call[k].w
           i == call[k].at
           c == miningContractData
           next == [worker[w] EXCEPT ![Fields[i]] = c]
           job == ReservedHash(next.randomxBlob, next.challengeNumber)
           new == IF i # Len(Fields) THEN next
                  ELSE [next EXCEPT !.reserved = job, !.due = next.due \/ ~call[k].first]
<1>1. /\ call[k] \in CallState /\ w \in Workers /\ i \in 1..3
      /\ call \in [Calls -> CallState] /\ c \in Epochs /\ c \in Nat
      /\ worker[w] \in WorkerState /\ worker[w].randomxBlob \in Nat
      /\ worker[w].reserved.blob \in Nat /\ worker[w].randomxBlob \in Epochs
      /\ WorkerOK(worker[w]) /\ call[k].first \in BOOLEAN
  BY BlobTypes, FieldsOf
     DEF JobInvariant, CallsOK, CallOK, TypeOK, StratumTypeOK, CallState, WorkersOK, WorkerState
<1>2. WorkerOK(next) /\ Grows(worker[w], next) /\ next \in WorkerState
  <2>1. CASE i = 1
    <3>1. next = [worker[w] EXCEPT !.challengeNumber = c]
      BY <2>1, FieldsOf
    <3> HIDE DEF next
    <3> QED
      BY <1>1, <3>1 DEF WorkerOK, WorkerState, Grows
  <2>2. CASE i = 2
    <3>1. next = [worker[w] EXCEPT !.randomxBlob = c]
      BY <2>2, FieldsOf
    <3> HIDE DEF next
    <3>2. /\ next \in WorkerState /\ next.randomxBlob = c
          /\ next.reserved = worker[w].reserved
          /\ next.retargetTimer = worker[w].retargetTimer
          /\ next.intervals = worker[w].intervals
      BY <1>1, <3>1 DEF WorkerState
    <3> QED
      BY <1>1, <3>2 DEF WorkerOK, Grows
  <2>3. CASE i = 3
    <3>1. next = [worker[w] EXCEPT !.epochCount = c]
      BY <2>3, FieldsOf
    <3> HIDE DEF next
    <3> QED
      BY <1>1, <3>1 DEF WorkerOK, WorkerState, Grows
  <2> QED
    BY <1>1, <2>1, <2>2, <2>3
<1>3. job \in Reserved /\ job.blob = next.randomxBlob
  BY <1>2 DEF ReservedHash, Reserved, WorkerState
<1>4. WorkerOK(new) /\ Grows(worker[w], new)
  <2> HIDE DEF next, job
  <2>1. CASE i # Len(Fields)
    BY <1>2, <2>1
  <2>2. CASE i = Len(Fields)
    <3> DEFINE whole == [next EXCEPT !.reserved = job, !.due = next.due \/ ~call[k].first]
    <3>1. /\ whole \in WorkerState /\ whole.randomxBlob = next.randomxBlob
          /\ whole.reserved = job
          /\ whole.retargetTimer = next.retargetTimer
          /\ whole.intervals = next.intervals
      BY <1>1, <1>2, <1>3 DEF WorkerState
    <3>2. next.randomxBlob \in Nat
      BY <1>2, StratumAssumption DEF WorkerState, Epochs
    <3> HIDE DEF whole
    <3>3. WorkerOK(whole) /\ Grows(worker[w], whole)
      BY <1>1, <1>2, <1>3, <3>1, <3>2 DEF WorkerOK, Grows
    <3>4. new = whole
      BY <2>2 DEF whole
    <3> HIDE DEF new
    <3> QED
      BY <3>3, <3>4
  <2> QED
    BY <2>1, <2>2
<1>5. worker' = [worker EXCEPT ![w] = new]
  BY <1>1 DEF ReloadWorkerJob, ReloadFrom, WorkerState
<1>6. WorkerMoves
  <2> HIDE DEF new
  <2> QED
    BY <1>1, <1>4, <1>5, OneWorker
<1>7. CallMoves
  <2>1. CASE i = Len(Fields)
    <3>1. call' = [call EXCEPT ![k] = IdleCall]
      BY <2>1 DEF ReloadWorkerJob, ReloadFrom
    <3> QED
      BY <3>1, CallEnds
  <2>2. CASE i # Len(Fields)
    <3> DEFINE on == [call[k] EXCEPT !.at = i + 1]
    <3>1. call' = [call EXCEPT ![k] = on]
      BY <1>1, <2>2 DEF ReloadWorkerJob, ReloadFrom
    <3>2. i + 1 \in 1..Len(Fields) + 1 /\ i + 1 <= Len(Fields) /\ call[k].pc = "reload"
      <4>1. call[k].pc = "reload"
        BY DEF ReloadWorkerJob, ReloadFrom
      <4>2. i + 1 \in 1..Len(Fields) + 1 /\ i + 1 <= Len(Fields)
        BY <1>1, <2>2, FieldsOf
      <4> QED
        BY <4>1, <4>2
    <3>3. on \in CallState /\ on.at <= Len(Fields) /\ on.pc = "reload"
      BY <1>1, <3>2 DEF CallState
    <3> HIDE DEF on
    <3>4. on.pc = "hand" => on.share.blob <= worker[on.w].randomxBlob
      BY <3>3
    <3> QED
      BY <3>1, <3>3, <3>4, OneCall
  <2> QED
    BY <2>1, <2>2
<1>8. SentMoves
  <2>1. \/ UNCHANGED sent
        \/ i = Len(Fields) /\ sent' = [sent EXCEPT ![w] = job]
    BY DEF ReloadWorkerJob, ReloadFrom, SendFirst
  <2>2. CASE i = Len(Fields)
    <3>1. worker'[w] = new
      BY <1>1, <1>5 DEF JobInvariant, TypeOK, StratumTypeOK
    <3>2. new = [next EXCEPT !.reserved = job, !.due = next.due \/ ~call[k].first]
      BY <2>2
    <3> HIDE DEF new, next, job
    <3>3. new.reserved = job
      BY <1>2, <3>2 DEF WorkerState
    <3> QED
      BY <1>1, <1>6, <2>1, <3>1, <3>3, OneSent
  <2> QED
    BY <1>6, <2>1, <2>2, LeftAlone
<1> QED
  BY <1>6, <1>7, <1>8, LeftAlone DEF Orderly, ReloadWorkerJob, ReloadFrom

(* The update of every worker gives it the pool's blob. *)
LEMMA OnNewChallengeKeeps ==
    ASSUME JobInvariant, OnNewChallenge
    PROVE  Orderly
<1>1. /\ server \in ServerState /\ server.randomxBlob <= miningContractData
      /\ workers \subseteq Workers /\ miningContractData \in Epochs
      /\ miningContractData <= miningContractData
      /\ worker \in [Workers -> WorkerState]
  BY BlobTypes DEF JobInvariant, TypeOK, StratumTypeOK, ServerOK
<1>2. DataMoves
  BY <1>1 DEF DataMoves, OnNewChallenge
<1>3. ServerMoves
  BY <1>1 DEF ServerMoves, ServerState, OnNewChallenge
<1>4. WorkerMoves
  <2>1. CASE UNCHANGED worker
    BY <2>1, LeftAlone
  <2>2. CASE worker' = HandleUpdate(miningContractData)
    <3>1. ASSUME NEW w \in Workers
          PROVE  WorkerOK(worker'[w]) /\ Grows(worker[w], worker'[w])
      <4>1. worker'[w] \in {worker[w], Updated(worker[w], miningContractData)}
        BY <2>2 DEF HandleUpdate
      <4>2. WorkerOK(worker[w]) /\ Grows(worker[w], worker[w])
        BY BlobTypes DEF JobInvariant, WorkersOK, Grows
      <4> QED
        BY <4>1, <4>2, UpdatedTypes
    <3>2. worker' \in [Workers -> WorkerState]
      <4>1. \A w \in Workers : worker'[w] \in WorkerState
        BY <3>1 DEF WorkerOK
      <4> QED
        BY <2>2, <4>1 DEF HandleUpdate
    <3> QED
      BY <3>1, <3>2 DEF WorkerMoves
  <2> QED
    BY <2>1, <2>2 DEF OnNewChallenge
<1> QED
  BY <1>2, <1>3, <1>4, LeftAlone DEF Orderly, OnNewChallenge

----------------------------------------------------------------------------

(* Every step keeps the invariant, and the blobs of the miners grow. *)
LEMMA NextKeeps ==
    ASSUME JobInvariant, Next
    PROVE  JobInvariant' /\ Forward
<1>1. faults \in Nat /\ unheard \in BOOLEAN
  BY DEF JobInvariant, TypeOK
<1>2. faults' \in Nat /\ unheard' \in BOOLEAN
  <2>1. /\ faults' = faults \/ faults' = faults + 1
        /\ unheard' = unheard \/ unheard' = TRUE
    BY DEF Next, Well, Fault, Unheard
  <2>2. faults' \in Nat
    BY <1>1, <2>1
  <2>3. unheard' \in BOOLEAN
    BY <1>1, <2>1
  <2> QED
    BY <2>2, <2>3
<1>3. Orderly
  <2>1. CASE NewChallenge \/ EmitNewChallenge \/ LoseNotice \/ NobodyListens
    BY <2>1, DataStepKeeps
  <2>2. CASE OnNewChallenge
    BY <2>2, OnNewChallengeKeeps
  <2>3. CASE ServerStep
    BY <2>3, ServerStepKeeps
  <2>4. CASE \E w \in Workers : Connect(w) \/ End(w) \/ ErrorThenClose(w)
    BY <2>4, ConnectKeeps, EndKeeps
  <2>5. CASE \E w \in Workers : StartInterval(w) \/ Tick(w) \/ SendNewJob(w)
    BY <2>5, TimerStepKeeps
  <2>6. CASE \E w \in Workers, k \in Calls : Login(w, k) \/ Submit(w, k)
    BY <2>6, CallStarts
  <2>7. CASE \E k \in Calls : CallStep(k)
    BY <2>7, FirstJobKeeps, CompareKeeps, HandInKeeps, ReloadKeeps DEF CallStep
  <2>8. CASE \E k \in Calls : FailCall(k)
    BY <2>8, FailKeeps
  <2> QED
    BY <2>1, <2>2, <2>3, <2>4, <2>5, <2>6, <2>7, <2>8 DEF Next, Well, Fault, Unheard
<1> QED
  BY <1>2, <1>3, OrderlyKeeps

LEMMA StepKeeps ==
    ASSUME JobInvariant, [Next]_vars
    PROVE  JobInvariant' /\ Forward
<1>1. CASE Next
  BY <1>1, NextKeeps
<1>2. CASE UNCHANGED vars
  <2>1. Orderly
    BY <1>2, LeftAlone DEF vars, dataVars, Orderly
  <2> QED
    BY <1>2, <2>1, OrderlyKeeps DEF vars, JobInvariant, TypeOK
<1> QED
  BY <1>1, <1>2

(***************************************************************************)
(* The variables keep their types: a call never reads past the last field  *)
(* of a job, and a worker never has fewer than no intervals, however       *)
(* logins, updates, timers and the end of the connection mix.              *)
(***************************************************************************)
THEOREM TypeCorrect == Spec => []TypeOK
<1>1. Init => JobInvariant
  BY InitTypes
<1>2. JobInvariant /\ [Next]_vars => JobInvariant'
  BY StepKeeps
<1>3. JobInvariant => TypeOK
  BY DEF JobInvariant
<1> QED
  BY <1>1, <1>2, <1>3, PTL DEF Spec

(***************************************************************************)
(* However many reloads, updates and submits of a worker overlap, a share  *)
(* is never handed in under an older blob than the one it was found for.   *)
(***************************************************************************)
THEOREM WorkNotLost == Spec => []WorkIsNotLost
<1>1. Init => JobInvariant
  BY InitTypes
<1>2. JobInvariant /\ [Next]_vars => JobInvariant'
  BY StepKeeps
<1>3. JobInvariant => WorkIsNotLost
  BY DEF JobInvariant
<1> QED
  BY <1>1, <1>2, <1>3, PTL DEF Spec

(***************************************************************************)
(* A miner's job never goes back to an older blob.                         *)
(***************************************************************************)
THEOREM JobGoesForward == Spec => JobNeverGoesBack
<1>1. Init => JobInvariant
  BY InitTypes
<1>2. JobInvariant /\ [Next]_vars => JobInvariant'
  BY StepKeeps
<1>3. JobInvariant /\ [Next]_vars => [\A w \in Workers : sent[w].blob <= sent'[w].blob]_vars
  BY StepKeeps DEF Forward
<1> QED
  BY <1>1, <1>2, <1>3, PTL DEF Spec, JobNeverGoesBack

=============================================================================
