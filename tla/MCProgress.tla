----------------------------- MODULE MCProgress -----------------------------
(*****************************************************************************)
(* The components that promise that something eventually happens, each       *)
(* with the fairness its scheduling justifies.  The components share no      *)
(* state, so a behaviour runs one of them, chosen in the initial state;      *)
(* the reachable states are the sum of the components' own, and a property   *)
(* of one holds trivially where another runs.                                *)
(*****************************************************************************)
EXTENDS
    AsyncDistributedLock, JobQueue, CircuitBreaker, Bulkhead,
    FallbackEngine, ShutdownManager, CompactHashMap, LedgerApi, Inventory,
    DeadLetter, BackgroundTasks

VARIABLE part   \* the component that this behaviour runs

(* A currency's clearing accounts, opened by two batches in opposite orders. *)
MCUser == <<"SETTLEMENT-USER", "usd">>
MCItem(ref, n, cur) == [ref |-> <<ref>>, amount |-> n, cur |-> cur]
MCBatch(ref, feed) == [op |-> "batch", ref |-> <<ref>>, auto |-> TRUE, feed |-> feed]
MCApiRequests ==
    {[op |-> "account", number |-> MCUser],
     MCBatch("b1", <<MCItem("r1", 2, "usd"), MCItem("r2", 1, "eur")>>),
     MCBatch("b2", <<MCItem("r2", 1, "eur"), MCItem("r1", 1, "usd")>>)}

Parts ==
    {"lock", "jobs", "breaker", "bulkhead", "fallback", "shutdown",
     "hashmap", "api", "inventory", "deadletter", "tasks"}

SumInit ==
    /\ part \in Parts
    /\ LockInit
    /\ JobInit
    /\ BreakerInit
    /\ BulkheadInit
    /\ FallbackInit
    /\ ShutdownInit
    /\ HashInit
    /\ ApiInit
    /\ InventoryInit
    /\ DlInit
    /\ BackgroundInit
    /\ part # "bulkhead" => maxQueue = CHOOSE q \in MaxQueues : TRUE
    /\ part # "inventory" => rowLocks
    /\ part # "inventory" => quantity = CHOOSE q \in [Checkouts -> Quantities] : TRUE

(* Component p runs; every other one stays in its initial state. *)
Running(p) ==
    /\ part = p
    /\ UNCHANGED part
    /\ IF p = "lock" THEN TRUE ELSE UNCHANGED lockVars
    /\ IF p = "jobs" THEN TRUE ELSE UNCHANGED jobVars
    /\ IF p = "breaker" THEN TRUE ELSE UNCHANGED breakerVars
    /\ IF p = "bulkhead" THEN TRUE ELSE UNCHANGED bulkheadVars
    /\ IF p = "fallback" THEN TRUE ELSE UNCHANGED fallbackVars
    /\ IF p = "shutdown" THEN TRUE ELSE UNCHANGED shutdownVars
    /\ IF p = "hashmap" THEN TRUE ELSE UNCHANGED hashVars
    /\ IF p = "api" THEN TRUE ELSE UNCHANGED apiVars
    /\ IF p = "inventory" THEN TRUE ELSE UNCHANGED inventoryVars
    /\ IF p = "deadletter" THEN TRUE ELSE UNCHANGED dlVars
    /\ IF p = "tasks" THEN TRUE ELSE UNCHANGED backgroundVars

SumNext ==
    \/ Running("lock") /\ LockNext
    \/ Running("jobs") /\ JobNext
    \/ Running("breaker") /\ BreakerNext
    \/ Running("bulkhead") /\ BulkheadNext
    \/ Running("fallback") /\ FallbackNext
    \/ Running("shutdown") /\ ShutdownNext
    \/ Running("hashmap") /\ HashNext
    \/ Running("api") /\ ApiNext
    \/ Running("inventory") /\ InventoryNext
    \/ Running("deadletter") /\ DlNext
    \/ Running("tasks") /\ BackgroundNext

(* The fairness of each component, while it runs. *)
SumFairness ==
    /\ \A w \in Workers : WF_lockVars(part = "lock" /\ WorkerStep(w))
    /\ \A k \in Keys : WF_lockVars(part = "lock" /\ Expire(k))
    /\ WF_jobVars(part = "jobs" /\ JqTick)
    /\ \A w \in JqWorkers : WF_jobVars(part = "jobs" /\ StartBatch(w))
    /\ \A w \in JqWorkers : WF_jobVars(part = "jobs" /\ ProcessDueJob(w))
    /\ WF_breakerVars(part = "breaker" /\ BreakerTick)
    /\ \A c \in CbCalls : WF_breakerVars(part = "breaker" /\ ExecuteAsync(c))
    /\ \A c \in CbCalls : WF_breakerVars(part = "breaker" /\ ExecuteExternalCharge(c))
    /\ \A c \in BhCalls : WF_bulkheadVars(part = "bulkhead" /\ ResumeWaiter(c))
    /\ \A c \in BhCalls : WF_bulkheadVars(part = "bulkhead" /\ AExit(c))
    /\ \A c \in FbCalls : WF_fallbackVars(part = "fallback" /\ FallbackStep(c))
    /\ WF_shutdownVars(part = "shutdown" /\ WaitForDrain)
    /\ WF_shutdownVars(part = "shutdown" /\ DisposePools)
    /\ WF_hashVars(part = "hashmap" /\ HashStep)
    /\ \A c \in ApiCalls : WF_apiVars(part = "api" /\ ApiStep(c))
    /\ \A c \in Checkouts : WF_inventoryVars(part = "inventory" /\ InventoryStep(c))
    /\ \A m \in DlMessages : WF_dlVars(part = "deadletter" /\ DlStep(m))
    /\ \A w \in TaskWorkers : WF_backgroundVars(part = "tasks" /\ TaskWorkerStep(w))

sumVars ==
    <<part, lockVars, jobVars, breakerVars, bulkheadVars, fallbackVars,
      shutdownVars, hashVars, apiVars, inventoryVars, dlVars,
      backgroundVars>>

SumSpec == SumInit /\ [][SumNext]_sumVars /\ SumFairness

(* Whatever is started ends: every lock attempt, due job, search, API       *)
(* call, checkout, task and shutdown does, an open breaker is tried again,  *)
(* a waiter of the bulkhead gets its turn, a request gets an answer from    *)
(* some level of the fallback, and a failing message leaves its queue.      *)
WorkEnds ==
    /\ EveryLockEnds
    /\ EveryJobRuns
    /\ Recovers
    /\ EveryWaiterServed
    /\ EveryRequestAnswered
    /\ ShutdownCompletes
    /\ EverySearchEnds
    /\ EveryApiCallEnds
    /\ EveryCheckoutEnds
    /\ QueueUnblocked
    /\ EveryTaskEnds
=============================================================================
