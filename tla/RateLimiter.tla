---------------------------- MODULE RateLimiter -----------------------------
(***************************************************************************)
(* The three rate limiters, for one client: the sliding window kept as a   *)
(* Redis sorted set, the token bucket run as a Lua script, and the         *)
(* in-process SlidingWindowLog.  The two Redis limiters read time.time()   *)
(* before the round trip, so a request may be evaluated later than, and in *)
(* another order than, the time it carries.  The windows are also touched  *)
(* by the endpoints under /metrics.                                        *)
(***************************************************************************)
EXTENDS Integers, FiniteSets, FiniteSetsExt, Sequences, SequencesExt

CONSTANTS
  RlCalls,      \* requests of one client
  RlLimit,      \* requests per window
  RlWindow,     \* length of the window
  Capacity,     \* tokens of a full bucket
  RefillRate,   \* tokens per tick
  MaxClock      \* bound: ticks of the clock

ASSUME LimiterAssumption ==
  /\ {RlLimit, RlWindow, Capacity, RefillRate, MaxClock} \subseteq Nat \ {0}

VARIABLES
  guard,      \* the limiter that guards the route of these requests
  clock,      \* time.time()
  rlPc,       \* where a request is
  stamp,      \* the current_time a request read
  zset,       \* members of ratelimit:<client>: request and score
  bucket,     \* the hash of the token bucket
  deque,      \* timestamps of the in-process window, oldest first
  passed,     \* history: admitted requests, by limiter, with the time
  horizon,    \* history: the shortest window anyone pruned with
  lag,        \* history: the longest delay of an evaluation
  rewound     \* history: how far last_updated was moved back

limiterVars == <<guard, clock, rlPc, stamp, zset, bucket, deque, passed,
                 horizon, lag, rewound>>

NoBucket == [tokens |-> Capacity, last |-> -1]

LimiterInit ==
  /\ guard = "none"
  /\ clock = 0
  /\ rlPc = [c \in RlCalls |-> "idle"]
  /\ stamp = [c \in RlCalls |-> 0]
  /\ zset = {}
  /\ bucket = NoBucket
  /\ deque = <<>>
  /\ passed = {}
  /\ horizon = RlWindow
  /\ lag = 0
  /\ rewound = 0

ClockTick ==
  /\ clock < MaxClock
  /\ clock' = clock + 1
  /\ UNCHANGED <<guard, rlPc, stamp, zset, bucket, deque, passed, horizon, lag, rewound>>

(* A route depends on one limiter. *)
GuardRoute(limiter) ==
  /\ guard = "none"
  /\ guard' = limiter
  /\ UNCHANGED <<clock, rlPc, stamp, zset, bucket, deque, passed, horizon, lag,
                 rewound>>

(* A guard names the client, reads the clock and sends its command. *)
SendCheck(c, limiter) ==
  /\ guard = limiter
  /\ rlPc[c] = "idle"
  /\ rlPc' = [rlPc EXCEPT ![c] = limiter]
  /\ stamp' = [stamp EXCEPT ![c] = clock]
  /\ UNCHANGED <<guard, clock, zset, bucket, deque, passed, horizon, lag, rewound>>

RateLimitGuard(c) == SendCheck(c, "window")
TokenBucketGuard(c) == SendCheck(c, "bucket")

Delayed(c) == lag' = Max({lag, clock - stamp[c]})
Admit(c) == passed' = passed \cup {[call |-> c, at |-> clock]}
RlDone(c) == rlPc' = [rlPc EXCEPT ![c] = "done"]

-----------------------------------------------------------------------------

(* ZREMRANGEBYSCORE 0 (t - w. *)
Pruned(z, t, w) == {e \in z : e.score >= t - w}

(* The pipeline of check_distributed_rate_limit(): prune, add, count. *)
CheckWindow(c) ==
  /\ rlPc[c] = "window"
  /\ zset' = Pruned(zset, stamp[c], RlWindow) \cup {[call |-> c, score |-> stamp[c]]}
  /\ \/ /\ Cardinality(zset') <= RlLimit
        /\ Admit(c)
        /\ RlDone(c)
     \/ /\ Cardinality(zset') > RlLimit
        /\ rlPc' = [rlPc EXCEPT ![c] = "undo"]
        /\ UNCHANGED passed
  /\ Delayed(c)
  /\ UNCHANGED <<guard, clock, stamp, bucket, deque, horizon, rewound>>

(* The pipeline raises, whether or not Redis has executed it. *)
CheckRaises(c) ==
  /\ rlPc[c] = "window"
  /\ \/ zset' = Pruned(zset, stamp[c], RlWindow)
                 \cup {[call |-> c, score |-> stamp[c]]}
     \/ UNCHANGED zset
  /\ RlDone(c)
  /\ Delayed(c)
  /\ UNCHANGED <<guard, clock, stamp, bucket, deque, passed, horizon, rewound>>

(* ZREM of the tentative member; when it fails the member stays. *)
UndoTentative(c) ==
  /\ rlPc[c] = "undo"
  /\ \/ zset' = {e \in zset : e.call # c}
     \/ UNCHANGED zset
  /\ RlDone(c)
  /\ UNCHANGED <<guard, clock, stamp, bucket, deque, passed, horizon, lag, rewound>>

(* get_client_status() prunes with the window of the query string. *)
InspectWindow(w) ==
  /\ guard = "window"
  /\ zset' = Pruned(zset, clock, w)
  /\ horizon' = Min({horizon, w})
  /\ UNCHANGED <<guard, clock, rlPc, stamp, bucket, deque, passed, lag, rewound>>

(* EXPIRE window + 2: nothing in the set can be younger than that. *)
ExpireWindow ==
  /\ zset # {}
  /\ \A c \in RlCalls : rlPc[c] # "undo"
  /\ \A e \in zset : clock - e.score >= RlWindow + 2 + lag
  /\ zset' = {}
  /\ UNCHANGED <<guard, clock, rlPc, stamp, bucket, deque, passed, horizon, lag, rewound>>

-----------------------------------------------------------------------------

(* The refill: a negative delta counts as zero. *)
Refilled(t) ==
  IF bucket = NoBucket THEN Capacity
  ELSE Min({Capacity, bucket.tokens + Max({0, t - bucket.last}) * RefillRate})

(* Mutation of BucketScript: last_updated stays when tokens are taken. *)
MutBucketScript(t) ==
  IF Refilled(t) >= 1
  THEN [allowed |-> TRUE, tokens |-> Refilled(t) - 1, last |-> Max({0, bucket.last})]
  ELSE [allowed |-> FALSE, tokens |-> Refilled(t), last |-> t]

(* BUCKET_LUA_SCRIPT: last_updated becomes the time of the caller, even    *)
(* when that is older.                                                     *)
BucketScript(t) ==
  IF Refilled(t) >= 1
  THEN [allowed |-> TRUE, tokens |-> Refilled(t) - 1, last |-> t]
  ELSE [allowed |-> FALSE, tokens |-> Refilled(t), last |-> t]

(* check_token_bucket(): the script runs atomically, loaded again when     *)
(* Redis lost it, with the time the caller read before.                    *)
CheckBucket(c) ==
  /\ rlPc[c] = "bucket"
  /\ LET res == BucketScript(stamp[c]) IN
       /\ bucket' = [tokens |-> res.tokens, last |-> res.last]
       /\ IF res.allowed THEN Admit(c) ELSE UNCHANGED passed
  /\ rewound' = rewound + Max({0, bucket.last - stamp[c]})
  /\ RlDone(c)
  /\ Delayed(c)
  /\ UNCHANGED <<guard, clock, stamp, zset, deque, horizon>>

(* EXPIRE ceil(capacity / refill_rate) + 2. *)
ExpireBucket ==
  /\ bucket # NoBucket
  /\ clock - bucket.last >= (Capacity + RefillRate - 1) \div RefillRate + 2
  /\ bucket' = NoBucket
  /\ UNCHANGED <<guard, clock, rlPc, stamp, zset, deque, passed, horizon, lag, rewound>>

-----------------------------------------------------------------------------

(* popleft() of record_and_check(). *)
Unexpired == SelectSeq(deque, LAMBDA t : t > clock - RlWindow)

(* record_and_check() of SlidingWindowLog. *)
RecordAndCheck(c) ==
  \/ /\ Len(Unexpired) >= RlLimit
     /\ deque' = Unexpired
     /\ UNCHANGED passed
  \/ /\ Len(Unexpired) < RlLimit
     /\ deque' = Append(Unexpired, clock)
     /\ Admit(c)

(* SlidingWindowRateLimiterDependency: nothing is awaited in between. *)
SlidingWindowGuard(c) ==
  /\ guard = "deque"
  /\ rlPc[c] = "idle"
  /\ RecordAndCheck(c)
  /\ RlDone(c)
  /\ UNCHANGED <<guard, clock, stamp, zset, bucket, horizon, lag, rewound>>

(* evict_idle_clients() with the idle_seconds of the query string. *)
EvictIdle(idle) ==
  /\ deque # <<>>
  /\ Last(deque) < clock - idle
  /\ deque' = <<>>
  /\ horizon' = Min({horizon, idle})
  /\ UNCHANGED <<guard, clock, rlPc, stamp, zset, bucket, passed, lag, rewound>>

LimiterNext ==
  \/ \E l \in {"window", "bucket", "deque"} : GuardRoute(l)
  \/ ClockTick \/ ExpireWindow \/ ExpireBucket
  \/ \E c \in RlCalls :
       \/ RateLimitGuard(c) \/ TokenBucketGuard(c) \/ SlidingWindowGuard(c)
       \/ CheckWindow(c) \/ CheckRaises(c) \/ UndoTentative(c) \/ CheckBucket(c)
  \/ \E w \in 1..RlWindow : InspectWindow(w)
  \/ \E i \in 0..RlWindow : EvictIdle(i)

LimiterSpec == LimiterInit /\ [][LimiterNext]_limiterVars

-----------------------------------------------------------------------------

PassedSince(t) == {p \in passed : p.at >= t}

(* The sorted set admits at most RlLimit requests in any stretch of time   *)
(* shorter than the window by the worst delay of an evaluation.  Late      *)
(* evaluations prune and count by the time they carry, and inspecting the  *)
(* client through /metrics forgets what is older than the window asked     *)
(* for: both only ever shorten the stretch by that much.                   *)
WindowBound ==
  guard = "window" /\ lag <= horizon =>
    Cardinality(PassedSince(clock - (horizon - lag))) <= RlLimit

(* The in-process window admits at most RlLimit requests per window, or    *)
(* per idle time it was swept with when that was shorter.                  *)
DequeBound ==
  guard = "deque" =>
    Cardinality(PassedSince(clock - horizon + 1)) <= RlLimit

(* The bucket grants its capacity plus the refill of the elapsed time,     *)
(* and beyond that only the time that requests arriving with an older      *)
(* clock moved last_updated back, which is refilled twice.                 *)
BucketBound ==
  guard = "bucket" =>
    Cardinality(PassedSince(0)) <= Capacity + RefillRate * (clock + rewound)

(* Each of the three limiters keeps its quota, up to what late             *)
(* evaluations, short inspections and clocks that run behind take from it. *)
QuotasKept == WindowBound /\ DequeBound /\ BucketBound
=============================================================================
