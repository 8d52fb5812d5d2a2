--------------------------- MODULE CircuitBreaker ---------------------------
(***************************************************************************)
(* The circuit breaker of core/resilience around the external payment      *)
(* gateway.  Calls overlap: a call admitted in one state may finish in     *)
(* another, and _on_success / _on_failure judge it by the state they find  *)
(* then.  HALF_OPEN admits every call, not one probe.  cbAge is the time   *)
(* since _last_state_change_time, capped at recovery_timeout, past which   *)
(* the code tells no ages apart.                                           *)
(***************************************************************************)
EXTENDS Naturals, Sequences

CONSTANTS
  CbCalls,            \* concurrent callers
  FailureThreshold,   \* failure_threshold
  RecoveryTimeout,    \* recovery_timeout, in clock ticks
  ProbeThreshold      \* half_open_success_threshold

ASSUME BreakerAssumption ==
  /\ FailureThreshold \in Nat \ {0}
  /\ RecoveryTimeout \in Nat \ {0}
  /\ ProbeThreshold \in Nat \ {0}

VARIABLES
  cbState,     \* _state
  cbFails,     \* _consecutive_failures
  cbSuccs,     \* _consecutive_successes
  cbAge,       \* now - _last_state_change_time, capped
  cbPc,        \* where a caller is
  healthy,     \* the gateway answers and nobody cancels
  outcomes     \* history: results since the last state change, newest last

breakerVars == <<cbState, cbFails, cbSuccs, cbAge, cbPc, healthy, outcomes>>

BreakerInit ==
  /\ cbState = "CLOSED" /\ cbFails = 0 /\ cbSuccs = 0 /\ cbAge = 0
  /\ cbPc = [c \in CbCalls |-> "idle"]
  /\ healthy = TRUE
  /\ outcomes = <<>>

Due == cbState = "OPEN" /\ cbAge >= RecoveryTimeout

(* _evaluate_state(): an OPEN circuit whose timeout has passed is probed. *)
EvaluateState ==
  IF Due
  THEN /\ cbState' = "HALF_OPEN" /\ cbFails' = 0 /\ cbSuccs' = 0
       /\ cbAge' = 0 /\ outcomes' = <<>>
  ELSE UNCHANGED <<cbState, cbFails, cbSuccs, cbAge, outcomes>>

(* _before_call(): an OPEN circuit short-circuits, every other state admits. *)
BeforeCall(c) ==
  /\ EvaluateState
  /\ cbPc' = [cbPc EXCEPT ![c] = IF cbState' = "OPEN" THEN "idle" ELSE "calling"]

(* The state after a change, _last_state_change_time being now. *)
MovesTo(s) == cbState' = s /\ cbAge' = 0 /\ outcomes' = <<>>

(* What the history keeps: the last results, as many as decide a change. *)
Remember(ok) ==
  LET all == Append(outcomes, ok)
      k == IF FailureThreshold > ProbeThreshold THEN FailureThreshold ELSE ProbeThreshold
  IN  outcomes' = SubSeq(all, IF Len(all) > k THEN Len(all) - k + 1 ELSE 1, Len(all))

(* Mutation of OnSuccess: a success leaves the failures counted. *)
MutOnSuccess ==
  \/ /\ cbState = "HALF_OPEN" /\ cbSuccs + 1 >= ProbeThreshold
     /\ cbFails' = 0 /\ cbSuccs' = 0 /\ MovesTo("CLOSED")
  \/ /\ cbState = "HALF_OPEN" /\ cbSuccs + 1 < ProbeThreshold
     /\ cbSuccs' = cbSuccs + 1
     /\ Remember(TRUE) /\ UNCHANGED <<cbState, cbFails, cbAge>>
  \/ /\ cbState \in {"CLOSED", "OPEN"}
     /\ Remember(TRUE) /\ UNCHANGED <<cbState, cbFails, cbSuccs, cbAge>>

(* _on_success(), by the state found when the call returns. *)
OnSuccess ==
  \/ /\ cbState = "HALF_OPEN" /\ cbSuccs + 1 >= ProbeThreshold
     /\ cbFails' = 0 /\ cbSuccs' = 0 /\ MovesTo("CLOSED")
  \/ /\ cbState = "HALF_OPEN" /\ cbSuccs + 1 < ProbeThreshold
     /\ cbSuccs' = cbSuccs + 1
     /\ Remember(TRUE) /\ UNCHANGED <<cbState, cbFails, cbAge>>
  \/ /\ cbState = "CLOSED"
     /\ cbFails' = 0
     /\ Remember(TRUE) /\ UNCHANGED <<cbState, cbSuccs, cbAge>>
  \/ /\ cbState = "OPEN"
     /\ Remember(TRUE) /\ UNCHANGED <<cbState, cbFails, cbSuccs, cbAge>>

(* _on_failure(): one failure re-trips a probing circuit, the threshold    *)
(* trips a closed one, and an open one only counts it.                     *)
OnFailure ==
  \/ /\ cbState = "HALF_OPEN"
     /\ cbFails' = 1 /\ cbSuccs' = 0 /\ MovesTo("OPEN")
  \/ /\ cbState = "CLOSED" /\ cbFails + 1 >= FailureThreshold
     /\ cbFails' = cbFails + 1 /\ cbSuccs' = 0 /\ MovesTo("OPEN")
  \/ /\ cbState = "CLOSED" /\ cbFails + 1 < FailureThreshold
     /\ cbFails' = cbFails + 1
     /\ Remember(FALSE) /\ UNCHANGED <<cbState, cbSuccs, cbAge>>
  \/ /\ cbState = "OPEN"
     /\ Remember(FALSE) /\ UNCHANGED <<cbState, cbFails, cbSuccs, cbAge>>

(* execute_external_charge(): the breaker lets the call through or not. *)
ExecuteExternalCharge(c) ==
  /\ cbPc[c] = "idle"
  /\ BeforeCall(c)
  /\ UNCHANGED healthy

(* execute_async() after the await: the gateway answered, or the call      *)
(* failed or was cancelled (except BaseException).                         *)
ExecuteAsync(c) ==
  /\ cbPc[c] = "calling"
  /\ cbPc' = [cbPc EXCEPT ![c] = "idle"]
  /\ OnSuccess \/ (~healthy /\ OnFailure)
  /\ UNCHANGED healthy

(* get_metrics() evaluates the state too: reading the telemetry may turn   *)
(* an OPEN circuit into a probing one.                                     *)
GetMetrics ==
  /\ Due
  /\ EvaluateState
  /\ UNCHANGED <<cbPc, healthy>>

(* Time passes, up to the recovery timeout. *)
BreakerTick ==
  /\ cbAge < RecoveryTimeout
  /\ cbAge' = cbAge + 1
  /\ UNCHANGED <<cbState, cbFails, cbSuccs, cbPc, healthy, outcomes>>

(* The gateway goes down or comes back. *)
GatewayFlips ==
  /\ healthy' = ~healthy
  /\ UNCHANGED <<cbState, cbFails, cbSuccs, cbAge, cbPc, outcomes>>

BreakerNext ==
  \/ \E c \in CbCalls : ExecuteExternalCharge(c) \/ ExecuteAsync(c)
  \/ GetMetrics \/ BreakerTick \/ GatewayFlips

(* Time passes, an awaited call returns, and clients keep calling. *)
BreakerFairness ==
  /\ WF_breakerVars(BreakerTick)
  /\ \A c \in CbCalls : /\ WF_breakerVars(ExecuteAsync(c))
                        /\ WF_breakerVars(ExecuteExternalCharge(c))

BreakerSpec == BreakerInit /\ [][BreakerNext]_breakerVars /\ BreakerFairness

AllFailed(s) == \A i \in DOMAIN s : ~s[i]

(* What trips and what closes the circuit, told by the results themselves  *)
(* and not by the counters: a closed circuit opens only on a failure that  *)
(* ends a run of failure_threshold failures, an open one never closes      *)
(* without having probed, and a probing one closes only after exactly the  *)
(* successes of its threshold and no failure since it was probed.          *)
OutcomesDecide ==
  [][/\ cbState = "CLOSED" /\ cbState' = "OPEN" =>
          /\ ~healthy
          /\ Len(outcomes) >= FailureThreshold - 1
          /\ AllFailed(SubSeq(outcomes, Len(outcomes) - FailureThreshold + 2, Len(outcomes)))
     /\ cbState = "HALF_OPEN" /\ cbState' = "CLOSED" =>
          /\ Len(outcomes) = ProbeThreshold - 1
          /\ \A i \in DOMAIN outcomes : outcomes[i]
     /\ cbState = "OPEN" => cbState' # "CLOSED"]_breakerVars

(* Once the gateway stays healthy the circuit ends up closed for good.     *)
Recovers == <>[]healthy => <>[](cbState = "CLOSED")
=============================================================================
