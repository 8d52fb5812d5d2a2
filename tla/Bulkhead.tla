------------------------------ MODULE Bulkhead ------------------------------
(***************************************************************************)
(* A compartment of core/resilience/bulkhead.py: at most MaxConcurrent     *)
(* callers inside and, by intention, at most maxQueue waiting.  The slot   *)
(* itself is an asyncio.Semaphore: release() hands it to the first waiter, *)
(* who only runs later, while _active_count is lowered at once.  A caller  *)
(* arriving in between sees a free slot, skips the queue's bound and waits *)
(* on the semaphore uncounted.                                             *)
(***************************************************************************)
EXTENDS Naturals, FiniteSets, Sequences, SequencesExt

CONSTANTS
  BhCalls,         \* callers
  MaxConcurrent,   \* max_concurrent
  MaxQueues        \* the max_queue a compartment may be built with

ASSUME BulkheadAssumption == MaxConcurrent \in Nat \ {0} /\ MaxQueues \subseteq Nat

VARIABLES
  maxQueue,      \* max_queue
  activeCount,   \* _active_count
  waitingCount,  \* _waiting_count
  semValue,      \* Semaphore._value
  semWaiters,    \* Semaphore._waiters: callers in order of arrival
  granted,       \* waiters whose future is set and that have not run yet
  bhPc           \* where a caller is

bulkheadVars ==
  <<maxQueue, activeCount, waitingCount, semValue, semWaiters, granted, bhPc>>

BulkheadInit ==
  /\ maxQueue \in MaxQueues
  /\ activeCount = 0 /\ waitingCount = 0
  /\ semValue = MaxConcurrent /\ semWaiters = <<>> /\ granted = {}
  /\ bhPc = [c \in BhCalls |-> "out"]

BhGo(c, l) == bhPc' = [bhPc EXCEPT ![c] = l]

(* Semaphore._wake_up_next() with v slots and the waiters q: the first one *)
(* without a result gets a slot.                                           *)
WakeUpNext(v, q) ==
  LET asleep == SelectSeq(q, LAMBDA c : c \notin granted)
  IN  IF v > 0 /\ asleep # <<>>
      THEN semValue' = v - 1 /\ granted' = (granted \cap ToSet(q)) \cup {Head(asleep)}
      ELSE semValue' = v /\ granted' = granted \cap ToSet(q)

(* Semaphore.acquire() without waiting, or as a new last waiter; queued    *)
(* tells whether the caller raised _waiting_count first.                   *)
AcquireSlot(c, queued) ==
  IF semValue > 0 /\ semWaiters = <<>>
  THEN /\ semValue' = semValue - 1
       /\ activeCount' = activeCount + 1
       /\ BhGo(c, "inside")
       /\ UNCHANGED <<waitingCount, semWaiters, granted>>
  ELSE /\ semWaiters' = Append(semWaiters, c)
       /\ waitingCount' = IF queued THEN waitingCount + 1 ELSE waitingCount
       /\ BhGo(c, IF queued THEN "queued" ELSE "waiting")
       /\ UNCHANGED <<semValue, granted, activeCount>>

(* __aenter__() up to its await; a full queue refuses the caller, which    *)
(* changes the counters of the telemetry only.                             *)
AEnter(c) ==
  /\ bhPc[c] = "out"
  /\ \/ activeCount >= MaxConcurrent /\ waitingCount < maxQueue /\ AcquireSlot(c, TRUE)
     \/ activeCount < MaxConcurrent /\ AcquireSlot(c, FALSE)
  /\ UNCHANGED maxQueue

Waits(c) == bhPc[c] \in {"queued", "waiting"}

LeaveQueue(c) ==
  waitingCount' = IF bhPc[c] = "queued" THEN waitingCount - 1 ELSE waitingCount

(* A woken waiter runs: it leaves the queue and enters; a slot freed while *)
(* it had not run yet goes to the next one.                                *)
ResumeWaiter(c) ==
  /\ Waits(c) /\ c \in granted
  /\ semWaiters' = Remove(semWaiters, c)
  /\ WakeUpNext(semValue, semWaiters')
  /\ LeaveQueue(c)
  /\ activeCount' = activeCount + 1
  /\ BhGo(c, "inside")
  /\ UNCHANGED maxQueue

(* Mutation of CancelWaiter: without the finally of __aenter__. *)
MutCancelWaiter(c) ==
  /\ Waits(c)
  /\ semWaiters' = Remove(semWaiters, c)
  /\ WakeUpNext(IF c \in granted THEN semValue + 1 ELSE semValue, semWaiters')
  /\ BhGo(c, "out")
  /\ UNCHANGED <<maxQueue, activeCount, waitingCount>>

(* The client of a waiting caller goes away: acquire() raises, giving back *)
(* a slot it had already been handed, and the finally counts it out.       *)
CancelWaiter(c) ==
  /\ Waits(c)
  /\ semWaiters' = Remove(semWaiters, c)
  /\ WakeUpNext(IF c \in granted THEN semValue + 1 ELSE semValue, semWaiters')
  /\ LeaveQueue(c)
  /\ BhGo(c, "out")
  /\ UNCHANGED <<maxQueue, activeCount>>

(* Mutation of AExit: the slot is counted free and no waiter is woken. *)
MutAExit(c) ==
  /\ bhPc[c] = "inside"
  /\ activeCount' = activeCount - 1
  /\ semValue' = semValue + 1
  /\ BhGo(c, "out")
  /\ UNCHANGED <<maxQueue, waitingCount, semWaiters, granted>>

(* __aexit__(), after a result, an exception or a cancellation alike. *)
AExit(c) ==
  /\ bhPc[c] = "inside"
  /\ activeCount' = activeCount - 1
  /\ WakeUpNext(semValue + 1, semWaiters)
  /\ BhGo(c, "out")
  /\ UNCHANGED <<maxQueue, waitingCount, semWaiters>>

(* generate_heavy_report() and get_critical_status() run inside async with *)
(* of their own compartment: any caller of this module.                    *)
BulkheadNext ==
  \E c \in BhCalls : AEnter(c) \/ ResumeWaiter(c) \/ CancelWaiter(c) \/ AExit(c)

(* The event loop runs a woken task, and a report ends. *)
BulkheadFairness ==
  \A c \in BhCalls : WF_bulkheadVars(ResumeWaiter(c)) /\ WF_bulkheadVars(AExit(c))

BulkheadSpec == BulkheadInit /\ [][BulkheadNext]_bulkheadVars /\ BulkheadFairness

Inside == {c \in BhCalls : bhPc[c] = "inside"}

(* The counters tell the truth at every await: no more callers inside than *)
(* max_concurrent, every slot is free, handed over or held, and the queue  *)
(* counter is the number of counted waiters.                               *)
SlotsAccounted ==
  /\ activeCount = Cardinality(Inside)
  /\ semValue + Cardinality(granted) + activeCount = MaxConcurrent
  /\ waitingCount = Cardinality({c \in BhCalls : bhPc[c] = "queued"})
  /\ waitingCount <= maxQueue

(* A compartment built with max_queue = 0, as the two of the report        *)
(* service are, never makes a caller wait: it enters or is refused.        *)
FailsFastWithoutQueue == maxQueue = 0 => \A c \in BhCalls : ~Waits(c)

(* A waiting caller gets in or is cancelled: no slot is lost on the way.   *)
EveryWaiterServed == \A c \in BhCalls : Waits(c) ~> ~Waits(c)

(* A compartment keeps its two limits, and one without a queue fails fast. *)
CompartmentHolds == SlotsAccounted /\ FailsFastWithoutQueue
=============================================================================
