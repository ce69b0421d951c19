------------------------------ MODULE JobSystem ------------------------------
(***************************************************************************)
(* The stratum server with what goes wrong: a notice that Redis loses, and *)
(* requests to the database that reject.                                   *)
(***************************************************************************)
EXTENDS StratumWorker

CONSTANT MaxFaults      \* bound on these in a behaviour

ASSUME FaultAssumption == MaxFaults \in Nat

VARIABLES
    faults,
    unheard     \* whether a notice came before the server listened

vars == <<miningContractData, notice, server, workers, worker, sent, call, handed,
          faults, unheard>>

Init ==
    /\ StratumInit
    /\ faults = 0
    /\ unheard = FALSE

Fault(A) ==
    /\ faults < MaxFaults
    /\ faults' = faults + 1
    /\ A
    /\ UNCHANGED unheard

\* A publish that fails, or comes while the subscriber is not connected.
LoseNotice ==
    /\ notice = "sent"
    /\ notice' = "none"
    /\ UNCHANGED <<miningContractData, server, workers, worker, sent, call, handed>>

Well(A) == A /\ UNCHANGED <<faults, unheard>>

Unheard == NobodyListens /\ unheard' = TRUE /\ UNCHANGED faults

Next ==
    \/ Well(NewChallenge \/ EmitNewChallenge \/ OnNewChallenge)
    \/ Unheard
    \/ Well(ServerStep)
    \/ Well(\E w \in Workers : Connect(w) \/ End(w) \/ ErrorThenClose(w))
    \/ Well(\E w \in Workers : StartInterval(w) \/ Tick(w) \/ SendNewJob(w))
    \/ Well(\E w \in Workers, k \in Calls : Login(w, k) \/ Submit(w, k))
    \/ Well(\E k \in Calls : CallStep(k))
    \/ Fault(LoseNotice)
    \/ Fault(\E k \in Calls : FailCall(k))

Spec == Init /\ [][Next]_vars

TypeOK == StratumTypeOK /\ faults \in Nat /\ unheard \in BOOLEAN

(***************************************************************************)
(* A share that was found for a newer blob is not handed in under an older *)
(* one, which the share processor would refuse: the work is not lost.      *)
(***************************************************************************)
WorkIsNotLost == handed.hash.blob <= handed.blob

(***************************************************************************)
(* A miner's job never goes back to an older blob, whichever of the update *)
(* of a notice, the reload of a submit and the first job is slower.        *)
(***************************************************************************)
JobNeverGoesBack == [][\A w \in Workers : sent[w].blob <= sent'[w].blob]_vars

Mining(w) == worker[w].logins > 0 /\ ~worker[w].socketClosed

(***************************************************************************)
(* Every miner gets the last challenge: its worker has the blob, so that   *)
(* shares are not refused for ever, even if the notice was lost.  If it    *)
(* was not, and no request failed, the job it has is also a whole one.     *)
(***************************************************************************)
HasLastJob(w) ==
    /\ worker[w].randomxBlob = MaxEpoch
    /\ (faults = 0 /\ ~unheard) => sent[w] = ReservedHash(MaxEpoch, MaxEpoch)

WorkerCatchesUp ==
    (miningContractData = MaxEpoch) ~> [](\A w \in Workers : Mining(w) => HasLastJob(w))

(***************************************************************************)
(* The difficulty of a miner keeps being adjusted: however logins, new     *)
(* challenges and the delay of the timer mix, an interval runs again.      *)
(***************************************************************************)
RetargetLives == []<>(\A w \in Workers : Mining(w) => worker[w].intervals > 0)

(***************************************************************************)
(* The server starts, notices arrive, calls and timers go on, and a miner  *)
(* that has a job goes on finding shares.                                  *)
(***************************************************************************)
Fairness ==
    /\ WF_vars(Well(EmitNewChallenge))
    /\ WF_vars(Well(OnNewChallenge) \/ Unheard)
    /\ WF_vars(Well(ServerStep))
    /\ \A w \in Workers :
        /\ WF_vars(Well(StartInterval(w)))
        /\ WF_vars(Well(Tick(w)))
        /\ WF_vars(Well(SendNewJob(w)))
        /\ WF_vars(Well(\E k \in Calls : Submit(w, k)))
    /\ \A k \in Calls : WF_vars(Well(CallStep(k)))

FairSpec == Spec /\ Fairness

=============================================================================
