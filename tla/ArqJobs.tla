------------------------------- MODULE ArqJobs -------------------------------
(***************************************************************************)
(* services/arq_service.py with routers/arq_router.py, tasks/arq_tasks.py  *)
(* and core/arq_app.py: requests share one lazily created connection pool, *)
(* enqueue webhook and broadcast jobs, and poll their status, which is put *)
(* together from several reads.  ARQ itself is external.                   *)
(***************************************************************************)
EXTENDS Naturals, FiniteSets

CONSTANTS
    ArqCalls,     \* requests that may overlap
    ArqJobIds,    \* jobs
    NoPool,       \* _pool is None
    MaxPools      \* a bound on the pools ever created

ASSUME ArqAssumption == MaxPools \in Nat /\ NoPool \notin Nat

VARIABLES
    pool,         \* _pool: the number of the cached pool, or NoPool
    openPools,    \* pools created and not closed
    nPools,       \* pools created so far
    aqPc, aqJob,  \* per request: where it is, and the job it is about
    saw,          \* per poll: the answer put together so far
    jobState,     \* per job: "absent", "queued", "in_progress", "succeeded", "failed", "expired"
    creationsOverlap \* two requests were creating the pool at the same time
arqVars == <<pool, openPools, nPools, aqPc, aqJob, saw, jobState, creationsOverlap>>

NoAnswer == [status |-> "none", success |-> "none"]

ArqInit ==
    /\ pool = NoPool
    /\ openPools = {}
    /\ nPools = 0
    /\ aqPc = [c \in ArqCalls |-> "idle"]
    /\ aqJob \in [ArqCalls -> ArqJobIds]
    /\ saw = [c \in ArqCalls |-> NoAnswer]
    /\ jobState = [j \in ArqJobIds |-> "absent"]
    /\ creationsOverlap = FALSE

AqGo(c, pc) == aqPc' = [aqPc EXCEPT ![c] = pc]
Connecting == {c \in ArqCalls : aqPc[c] \in {"connect enqueue", "connect poll"}}

-----------------------------------------------------------------------------
(* get_pool: the cached pool, or else one is created, which suspends. *)
GetPool(c, next, wait) ==
    /\ AqGo(c, IF pool = NoPool THEN wait ELSE next)
    /\ creationsOverlap' = (creationsOverlap \/ (pool = NoPool /\ Connecting # {}))

(* A request starts: an enqueue of a job, or a poll. *)
StartEnqueue(c) ==
    /\ aqPc[c] = "idle"
    /\ jobState[aqJob[c]] = "absent"
    /\ \A d \in ArqCalls : aqPc[d] \in {"connect enqueue", "enqueue"} => aqJob[d] # aqJob[c]
    /\ GetPool(c, "enqueue", "connect enqueue")
    /\ UNCHANGED <<pool, openPools, nPools, aqJob, saw, jobState>>
StartPoll(c) ==
    /\ aqPc[c] = "idle"
    /\ GetPool(c, "poll", "connect poll")
    /\ UNCHANGED <<pool, openPools, nPools, aqJob, saw, jobState>>

(* create_pool returns, and its pool becomes the cached one whatever is     *)
(* cached by now.                                                          *)
PoolCreated(c) ==
    /\ c \in Connecting
    /\ nPools < MaxPools
    /\ nPools' = nPools + 1
    /\ pool' = nPools'
    /\ openPools' = openPools \cup {nPools'}
    /\ AqGo(c, IF aqPc[c] = "connect enqueue" THEN "enqueue" ELSE "poll")
    /\ UNCHANGED <<aqJob, saw, jobState, creationsOverlap>>

(* enqueue_webhook_task, enqueue_broadcast_task: enqueue_job stores the job *)
(* (or raises), and the route answers 202.                                 *)
EnqueueTask(c) ==
    /\ aqPc[c] = "enqueue"
    /\ \/ jobState' = [jobState EXCEPT ![aqJob[c]] = "queued"]
       \/ UNCHANGED jobState
    /\ AqGo(c, "idle")
    /\ UNCHANGED <<pool, openPools, nPools, aqJob, saw, creationsOverlap>>

(* get_job_status: status() first; a complete job goes on to result_info(). *)
StatusOf(s) ==
    IF s \in {"succeeded", "failed"} THEN "complete"
    ELSE IF s \in {"absent", "expired"} THEN "not_found" ELSE s
PollStatus(c) ==
    LET status == StatusOf(jobState[aqJob[c]])
    IN  /\ aqPc[c] = "poll"
        /\ saw' = [saw EXCEPT ![c].status = status]
        /\ AqGo(c, IF status = "complete" THEN "result" ELSE "answered")
        /\ UNCHANGED <<pool, openPools, nPools, aqJob, jobState, creationsOverlap>>

(* Mutation of PollResult: the worker is trusted to have succeeded. *)
MutPollResult(c) ==
    /\ aqPc[c] = "result"
    /\ saw' = [saw EXCEPT ![c].success = "succeeded"]
    /\ AqGo(c, "answered")
    /\ UNCHANGED <<pool, openPools, nPools, aqJob, jobState, creationsOverlap>>

(* The outcome, or none when the result expired since or reading it raised. *)
PollResult(c) ==
    /\ aqPc[c] = "result"
    /\ \/ saw' = [saw EXCEPT ![c].success =
              IF jobState[aqJob[c]] = "expired" THEN "none" ELSE jobState[aqJob[c]]]
       \/ UNCHANGED saw
    /\ AqGo(c, "answered")
    /\ UNCHANGED <<pool, openPools, nPools, aqJob, jobState, creationsOverlap>>
EndPoll(c) ==
    /\ aqPc[c] = "answered"
    /\ saw' = [saw EXCEPT ![c] = NoAnswer]
    /\ AqGo(c, "idle")
    /\ UNCHANGED <<pool, openPools, nPools, aqJob, jobState, creationsOverlap>>

(* A worker takes the job; sync_webhook_notification raises only a simulated*)
(* error and broadcast_push_notification never; a worker that shuts down    *)
(* puts the job back; results are dropped after keep_result.               *)
ArqWorker(j) ==
    /\ \/ jobState[j] = "queued" /\ jobState' = [jobState EXCEPT ![j] = "in_progress"]
       \/ jobState[j] = "in_progress" /\ \E s \in {"succeeded", "failed", "queued"} :
             jobState' = [jobState EXCEPT ![j] = s]
       \/ /\ jobState[j] \in {"succeeded", "failed"}
          /\ jobState' = [jobState EXCEPT ![j] = "expired"]
    /\ UNCHANGED <<pool, openPools, nPools, aqPc, aqJob, saw, creationsOverlap>>

(* close_pool: aclose of the cached pool, which is then forgotten. *)
ClosePool ==
    /\ pool # NoPool
    /\ openPools' = openPools \ {pool}
    /\ pool' = NoPool
    /\ UNCHANGED <<nPools, aqPc, aqJob, saw, jobState, creationsOverlap>>

ArqNext ==
    \/ \E c \in ArqCalls : \/ StartEnqueue(c) \/ StartPoll(c) \/ PoolCreated(c)
                           \/ EnqueueTask(c) \/ PollStatus(c) \/ PollResult(c) \/ EndPoll(c)
    \/ \E j \in ArqJobIds : ArqWorker(j)
    \/ ClosePool
ArqSpec == ArqInit /\ [][ArqNext]_arqVars

-----------------------------------------------------------------------------
(* The cached pool is the only open one, so close_pool leaves none behind,  *)
(* unless two first requests created one each and the later overwrote the   *)
(* earlier (arq_service.py:27-33).                                          *)
OnePoolUnlessOverlap == creationsOverlap \/ openPools \subseteq {pool}

(* A poll that reports an outcome reports the job's own, although status    *)
(* and outcome are read apart and the result may expire in between          *)
(* (arq_service.py:73-108): it then answers complete without an outcome.    *)
PollTellsOutcome ==
    \A c \in ArqCalls : saw[c].success # "none" =>
       jobState[aqJob[c]] \in {saw[c].success, "expired"}

(* Requests that share the pool and poll their jobs are told the truth and *)
(* leave one pool behind.                                                  *)
PollsAndPoolHold == OnePoolUnlessOverlap /\ PollTellsOutcome
=============================================================================
