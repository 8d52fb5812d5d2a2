---------------------------- MODULE RetryBackoff ----------------------------
(***************************************************************************)
(* retry_with_backoff() and calculate_backoff() around the simulated       *)
(* third-party service, whose per-target call counter every request for    *)
(* the target resets and shares.  A request only yields to the event loop  *)
(* in asyncio.sleep(), and a delay of zero does not sleep.  Delays are     *)
(* whole ticks, base_delay an even number of them.                         *)
(***************************************************************************)
EXTENDS Naturals

CONSTANTS
  RtCalls,      \* requests for one target
  NoRtCall,
  MaxRetries,   \* max_retries
  BaseDelay,    \* base_delay
  MaxDelay,     \* max_delay
  Outages,      \* failures_before_success a request may ask for
  Strategies    \* jitter strategies a request may ask for

ASSUME BackoffAssumption ==
  /\ NoRtCall \notin RtCalls /\ MaxRetries \in Nat /\ Outages \subseteq Nat
  /\ BaseDelay \in Nat \ {0} /\ BaseDelay % 2 = 0
  /\ MaxDelay \in Nat /\ MaxDelay >= BaseDelay /\ MaxDelay % 2 = 0
  /\ Strategies \subseteq {"full_jitter", "equal_jitter", "decorrelated_jitter", "no_jitter"}

VARIABLES
  rtPc,          \* where a request is
  outage,        \* its failures_before_success
  strategy,      \* its strategy
  attempt,       \* attempts it has made
  lastDelay,     \* last_delay, 0 before the first
  callCounter,   \* _call_counters[target_id]
  onLoop,        \* the request that has not yielded yet
  disturbed      \* history: another request used the counter meanwhile

retryVars ==
  <<rtPc, outage, strategy, attempt, lastDelay, callCounter, onLoop, disturbed>>

RetryInit ==
  /\ rtPc = [c \in RtCalls |-> "idle"]
  /\ outage = [c \in RtCalls |-> 0]
  /\ strategy = [c \in RtCalls |-> "none"]
  /\ attempt = [c \in RtCalls |-> 0]
  /\ lastDelay = [c \in RtCalls |-> 0]
  /\ callCounter = 0
  /\ onLoop = NoRtCall
  /\ disturbed = [c \in RtCalls |-> FALSE]

Least(a, b) == IF a <= b THEN a ELSE b

(* calculate_backoff(): the delays the draw may give for attempt n. *)
CalculateBackoff(s, n, prev) ==
  LET temp == Least(MaxDelay, BaseDelay * 2^Least(n, 30))
      from == IF prev >= BaseDelay THEN prev ELSE BaseDelay
  IN  CASE s = "full_jitter" -> 0 .. temp
        [] s = "equal_jitter" -> (temp \div 2) .. temp
        [] s = "decorrelated_jitter" ->
             {Least(MaxDelay, d) : d \in BaseDelay .. (3 * from)}
        [] s = "no_jitter" -> {temp}

(* The POST of simulate-retry: execute_simulated_call() sets the target's  *)
(* counter to zero, also under requests that are asleep.                   *)
SimulateRetry(c) ==
  /\ rtPc[c] = "idle" /\ onLoop = NoRtCall
  /\ \E f \in Outages, s \in Strategies :
       /\ outage' = [outage EXCEPT ![c] = f]
       /\ strategy' = [strategy EXCEPT ![c] = s]
  /\ callCounter' = 0
  /\ onLoop' = c
  /\ LET others == {d \in RtCalls : rtPc[d] = "trying"}
     IN  disturbed' = [d \in RtCalls |->
                         disturbed[d] \/ d \in others \/ (d = c /\ others # {})]
  /\ rtPc' = [rtPc EXCEPT ![c] = "trying"]
  /\ UNCHANGED <<attempt, lastDelay>>

(* downstream_call(): the call counts itself and fails while the outage    *)
(* lasts.                                                                  *)
DownstreamFails(c) == callCounter + 1 <= outage[c]

(* Mutation of MayRetry: the last retry is given away. *)
MutMayRetry(c) == attempt[c] + 1 < MaxRetries

(* attempt < max_retries, the attempts being counted from zero. *)
MayRetry(c) == attempt[c] < MaxRetries

(* One turn of the retry loop: the attempt, then the sleep before the next *)
(* one; a delay of zero keeps the event loop.                              *)
Retry(c) ==
  /\ rtPc[c] = "trying" /\ onLoop \in {c, NoRtCall}
  /\ callCounter' = callCounter + 1
  /\ attempt' = [attempt EXCEPT ![c] = @ + 1]
  /\ \/ ~DownstreamFails(c) /\ rtPc' = [rtPc EXCEPT ![c] = "success"]
        /\ onLoop' = NoRtCall /\ UNCHANGED lastDelay
     \/ DownstreamFails(c) /\ ~MayRetry(c) /\ rtPc' = [rtPc EXCEPT ![c] = "raised"]
        /\ onLoop' = NoRtCall /\ UNCHANGED lastDelay
     \/ /\ DownstreamFails(c) /\ MayRetry(c)
        /\ \E d \in CalculateBackoff(strategy[c], attempt[c], lastDelay[c]) :
             /\ lastDelay' = [lastDelay EXCEPT ![c] = d]
             /\ onLoop' = IF d > 0 THEN NoRtCall ELSE c
        /\ UNCHANGED rtPc
  /\ UNCHANGED <<outage, strategy, disturbed>>

RetryNext == \E c \in RtCalls : SimulateRetry(c) \/ Retry(c)

RetrySpec == RetryInit /\ [][RetryNext]_retryVars

(* A request whose target nobody else calls meanwhile succeeds exactly     *)
(* when the outage is within its retries, on the first attempt after it;   *)
(* otherwise it gives up after max_retries + 1 attempts.                   *)
RetriesOutlastOutage ==
  \A c \in RtCalls : ~disturbed[c] =>
    /\ rtPc[c] = "success" => outage[c] <= MaxRetries /\ attempt[c] = outage[c] + 1
    /\ rtPc[c] = "raised" => outage[c] > MaxRetries /\ attempt[c] = MaxRetries + 1

(* No sleep exceeds max_delay, and the strategies that promise a least     *)
(* sleep keep it on every attempt of the chain.                            *)
DelaysWithinBounds ==
  \A c \in RtCalls : lastDelay[c] > 0 =>
    /\ lastDelay[c] <= MaxDelay
    /\ strategy[c] = "decorrelated_jitter" => lastDelay[c] >= BaseDelay
    /\ strategy[c] = "equal_jitter" => 2 * lastDelay[c] >= BaseDelay

(* A retried call outlasts exactly the outages its retries cover, and      *)
(* waits within the bounds of its strategy.                                *)
RetriesBounded == RetriesOutlastOutage /\ DelaysWithinBounds
=============================================================================
