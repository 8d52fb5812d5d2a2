-------------------------- MODULE ShutdownManager ---------------------------
(***************************************************************************)
(* Graceful shutdown of the process: the middleware counts requests in     *)
(* flight, SIGTERM trips the readiness probe, the lifespan waits for the   *)
(* count to reach zero for at most shutdown_timeout and then disposes of   *)
(* the pools.  Nothing in the application refuses a request that arrives   *)
(* while draining.                                                         *)
(***************************************************************************)
EXTENDS Naturals, FiniteSets

CONSTANTS ShRequests, ShutdownTimeout

ASSUME ShutdownAssumption == ShutdownTimeout \in Nat

VARIABLES
  isShuttingDown,   \* is_shutting_down
  inFlight,         \* in_flight_requests
  drainWait,        \* polls made by wait_for_drain(), each one tick
  lifePhase,        \* of the lifespan
  shPc,             \* where a request is
  probe,            \* the readiness probe in progress
  arrivedAfter      \* history: the probe in progress began after the signal

shutdownVars ==
  <<isShuttingDown, inFlight, drainWait, lifePhase, shPc, probe, arrivedAfter>>

ShutdownInit ==
  /\ isShuttingDown = FALSE /\ inFlight = 0 /\ drainWait = 0
  /\ lifePhase = "serving"
  /\ shPc = [r \in ShRequests |-> "out"]
  /\ probe = "none" /\ arrivedAfter = FALSE

(* increment_in_flight() and decrement_in_flight(). *)
IncrementInFlight == inFlight' = inFlight + 1
DecrementInFlight == inFlight' = IF inFlight = 0 THEN 0 ELSE inFlight - 1

Serving == lifePhase \in {"serving", "draining"}

(* dispatch() up to call_next(): the request counts itself in. *)
DispatchBegins(r) ==
  /\ Serving /\ shPc[r] = "out"
  /\ IncrementInFlight
  /\ shPc' = [shPc EXCEPT ![r] = "in"]
  /\ UNCHANGED <<isShuttingDown, drainWait, lifePhase, probe, arrivedAfter>>

(* The finally of dispatch(): a response, an error or a cancellation. *)
DispatchEnds(r) ==
  /\ shPc[r] = "in"
  /\ DecrementInFlight
  /\ shPc' = [shPc EXCEPT ![r] = "out"]
  /\ UNCHANGED <<isShuttingDown, drainWait, lifePhase, probe, arrivedAfter>>

(* initiate_shutdown(), the handler of SIGTERM and SIGINT. *)
InitiateShutdown ==
  /\ Serving /\ ~isShuttingDown
  /\ isShuttingDown' = TRUE
  /\ UNCHANGED <<inFlight, drainWait, lifePhase, shPc, probe, arrivedAfter>>

(* Mutation of LifespanEnds: the pools are disposed of without the wait. *)
MutLifespanEnds ==
  /\ lifePhase = "serving"
  /\ isShuttingDown' = TRUE
  /\ lifePhase' = "disposing"
  /\ UNCHANGED <<inFlight, drainWait, shPc, probe, arrivedAfter>>

(* The server ends the lifespan: wait_for_drain() trips the flag itself    *)
(* and returns at once when nothing is in flight.                          *)
LifespanEnds ==
  /\ lifePhase = "serving"
  /\ isShuttingDown' = TRUE
  /\ lifePhase' = IF inFlight = 0 THEN "disposing" ELSE "draining"
  /\ UNCHANGED <<inFlight, drainWait, shPc, probe, arrivedAfter>>

(* One poll of wait_for_drain(): drained, timed out, or asleep again. *)
WaitForDrain ==
  /\ lifePhase = "draining"
  /\ \/ inFlight = 0 /\ lifePhase' = "disposing" /\ UNCHANGED drainWait
     \/ inFlight > 0 /\ drainWait >= ShutdownTimeout
        /\ lifePhase' = "disposing" /\ UNCHANGED drainWait
     \/ inFlight > 0 /\ drainWait < ShutdownTimeout
        /\ drainWait' = drainWait + 1 /\ UNCHANGED lifePhase
  /\ UNCHANGED <<isShuttingDown, inFlight, shPc, probe, arrivedAfter>>

(* The rest of the lifespan: tracer, Kafka, RabbitMQ, Redis, engines. *)
DisposePools ==
  /\ lifePhase = "disposing"
  /\ lifePhase' = "disposed"
  /\ UNCHANGED <<isShuttingDown, inFlight, drainWait, shPc, probe, arrivedAfter>>

(* readiness_probe(): the flag is read before the dependency checks are    *)
(* awaited.                                                                *)
ReadinessProbe ==
  /\ Serving /\ probe = "none"
  /\ probe' = IF isShuttingDown THEN "unready" ELSE "checking"
  /\ arrivedAfter' = isShuttingDown
  /\ UNCHANGED <<isShuttingDown, inFlight, drainWait, lifePhase, shPc>>

(* check_readiness(): database and Redis answer in time, or one does not. *)
CheckReadiness ==
  /\ probe = "checking"
  /\ probe' \in {"ready", "unready"}
  /\ UNCHANGED <<isShuttingDown, inFlight, drainWait, lifePhase, shPc, arrivedAfter>>

ProbeAnswered ==
  /\ probe \in {"ready", "unready"}
  /\ probe' = "none" /\ arrivedAfter' = FALSE
  /\ UNCHANGED <<isShuttingDown, inFlight, drainWait, lifePhase, shPc>>

ShutdownNext ==
  \/ \E r \in ShRequests : DispatchBegins(r) \/ DispatchEnds(r)
  \/ InitiateShutdown \/ LifespanEnds \/ WaitForDrain \/ DisposePools
  \/ ReadinessProbe \/ CheckReadiness \/ ProbeAnswered

(* The lifespan coroutine runs; requests may hang for ever. *)
ShutdownFairness == WF_shutdownVars(WaitForDrain) /\ WF_shutdownVars(DisposePools)

ShutdownSpec == ShutdownInit /\ [][ShutdownNext]_shutdownVars /\ ShutdownFairness

(* The counter is the number of requests between the two halves of         *)
(* dispatch(), so that zero means drained, also after errors and after the *)
(* pools are gone.                                                         *)
CounterIsRequestsInFlight == inFlight = Cardinality({r \in ShRequests : shPc[r] = "in"})

(* The pools go under a running request only when the drain timed out.     *)
DisposedUnderRequestOnlyLate ==
  [][Serving /\ lifePhase' = "disposing" =>
       \/ \A r \in ShRequests : shPc[r] = "out"
       \/ lifePhase = "draining" /\ drainWait = ShutdownTimeout]_shutdownVars

(* A probe that arrives once shutdown has begun is never answered ready;   *)
(* one that had passed the flag before the signal may still be.            *)
CutoffHoldsForNewProbes == probe = "ready" => ~arrivedAfter

(* Draining ends, however many requests hang and however many arrive.      *)
ShutdownCompletes == lifePhase = "draining" ~> lifePhase = "disposed"

(* Draining protects the requests in flight: they are counted truly, new   *)
(* probes are turned away, and the pools go under none of them before the  *)
(* timeout.                                                                *)
DrainProtects ==
  /\ []CounterIsRequestsInFlight
  /\ []CutoffHoldsForNewProbes
  /\ DisposedUnderRequestOnlyLate
=============================================================================
