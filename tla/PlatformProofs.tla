--------------------------- MODULE PlatformProofs ---------------------------
(***************************************************************************)
(* Theorems about the locks, clients and generators that requests share:   *)
(* the exclusive job, the cache's early refresh, the circuit breaker,      *)
(* retried calls, the ARQ pool and the identifiers. One section per        *)
(* component: its inductive invariant, the lemmas that show it inductive,  *)
(* and the theorem that states the property the runs check for every value *)
(* of the constants.                                                       *)
(***************************************************************************)
EXTENDS ExclusiveJob, XFetch, CircuitBreaker, RetryBackoff, ArqJobs,
  Identifiers, TLAPS

(***************************************************************************)
(* execute_exclusive_job(): the lease of ExclusiveJob.tla. A request that  *)
(* is running and whose lease has not lapsed has its token in the key, so  *)
(* two of them are one.                                                    *)
(***************************************************************************)

(* The phases of a request of execute_exclusive_job().                     *)
ExPhases == {"idle", "running", "conflict", "done", "crashed"}

(* A request that runs and kept its lease holds the key. *)
ExclusiveInv ==
  /\ exPc \in [ExWorkers -> ExPhases]
  /\ exKey \in ExWorkers \cup {NoToken}
  /\ \A w \in ExWorkers : exPc[w] = "running" /\ w \notin lapsed => exKey = w

(* Taking the lease needs the key to be free, the release script deletes   *)
(* the key only for its token, and a lapse is recorded.                    *)
LEMMA ExclusiveStepInv == ExclusiveInv /\ [ExclusiveNext]_exclusiveVars => ExclusiveInv'
<1> SUFFICES ASSUME ExclusiveInv, [ExclusiveNext]_exclusiveVars PROVE ExclusiveInv'
  BY Zenon
<1> USE ExclusiveAssumption DEF ExclusiveInv, ExPhases
<1>1. ASSUME NEW w \in ExWorkers, AcquireExclusive(w) PROVE ExclusiveInv'
  BY <1>1, Zenon DEF AcquireExclusive, SetNx, ExGo
<1>2. ASSUME NEW w \in ExWorkers, ReleaseExclusive(w) PROVE ExclusiveInv'
  BY <1>2, Zenon DEF ReleaseExclusive, ReleaseScript, ExGo
<1>3. ASSUME NEW w \in ExWorkers, CrashExclusive(w) PROVE ExclusiveInv'
  BY <1>3, Zenon DEF CrashExclusive, ExGo
<1>4. CASE LeaseLapses
  BY <1>4, Zenon DEF LeaseLapses
<1>5. CASE UNCHANGED exclusiveVars
  BY <1>5, Zenon DEF exclusiveVars
<1> QED BY <1>1, <1>2, <1>3, <1>4, <1>5, Zenon DEF ExclusiveNext

(* For any number of requests, crashes and lapses: two requests of         *)
(* execute_exclusive_job() run together only after a lease lapsed, and one *)
(* that kept its lease holds the key.                                      *)
THEOREM ExclusiveJobTheorem == ExclusiveSpec => []ExclusiveUnlessLapsed
<1>1. ExclusiveInit => ExclusiveInv
  BY Zenon DEF ExclusiveInit, ExclusiveInv, ExPhases
<1>2. ExclusiveInv => ExclusiveUnlessLapsed
  BY Zenon DEF ExclusiveInv, ExclusiveUnlessLapsed
<1> QED BY <1>1, <1>2, ExclusiveStepInv, PTL DEF ExclusiveSpec

-----------------------------------------------------------------------------
(***************************************************************************)
(* xfetch_get_or_compute() of CacheService: XFetch.tla. As long as nothing *)
(* took the lock from under its holder, an early refresh that runs is the  *)
(* lock's holder.                                                          *)
(***************************************************************************)

(* The phases of a request of xfetch_get_or_compute().                     *)
XPhases == {"idle", "drawn", "computing", "computed", "raising", "storing", "done"}

(* Until a refresh has lost its lock, an early one that runs holds it. *)
XFetchInv ==
  /\ xPc \in [XCalls -> XPhases]
  /\ xLock \in XCalls \cup {NoXCall}
  /\ early \subseteq XCalls
  /\ unguarded \in BOOLEAN
  /\ \A c \in early : xPc[c] \notin {"idle", "drawn"}
  /\ ~unguarded => \A c \in early : xPc[c] \in Refreshing => xLock = c

(* A lock taken from under a refresh (by expiry, a Redis failure or the    *)
(* unconditional delete of another request) sets unguarded.                *)
LEMMA XFetchStepInv == XFetchInv /\ [XFetchNext]_xfetchVars => XFetchInv'
<1> SUFFICES ASSUME XFetchInv, [XFetchNext]_xfetchVars PROVE XFetchInv'
  BY Zenon
<1> USE XFetchAssumption DEF XFetchInv, XPhases, Refreshing
<1>1. ASSUME NEW c \in XCalls, ReadEnvelope(c) PROVE XFetchInv'
  BY <1>1 DEF ReadEnvelope, XGo
<1>2. ASSUME NEW c \in XCalls, TakeRecomputeLock(c) PROVE XFetchInv'
  BY <1>2, ZenonT(30) DEF TakeRecomputeLock, XGo
<1>3. ASSUME NEW c \in XCalls, Compute(c) PROVE XFetchInv'
  BY <1>3, Zenon DEF Compute, XGo
<1>4. ASSUME NEW c \in XCalls, ReleaseRecomputeLock(c) PROVE XFetchInv'
  <2>1. xPc' = [xPc EXCEPT ![c] = xPc'[c]] /\ xPc'[c] \in {"storing", "done"} /\ early' = early
    BY <1>4, Zenon DEF ReleaseRecomputeLock, XGo
  <2>2. CASE UNCHANGED <<xLock, unguarded>>
    BY <2>1, <2>2, Zenon
  <2>3. CASE xLock' = NoXCall /\ unguarded' = (unguarded \/ xLock \notin {c, NoXCall})
    BY <2>1, <2>3, Zenon
  <2> QED BY <1>4, <2>2, <2>3, Zenon DEF ReleaseRecomputeLock
<1>5. ASSUME NEW c \in XCalls, StoreEnvelope(c) PROVE XFetchInv'
  BY <1>5, Zenon DEF StoreEnvelope, XGo
<1>6. CASE AgeEnvelope
  BY <1>6, Zenon DEF AgeEnvelope
<1>7. CASE RecomputeLockLapses
  BY <1>7, Zenon DEF RecomputeLockLapses
<1>8. CASE UNCHANGED xfetchVars
  BY <1>8, Zenon DEF xfetchVars
<1> QED BY <1>1, <1>2, <1>3, <1>4, <1>5, <1>6, <1>7, <1>8, Zenon DEF XFetchNext

(* For any number of requests of xfetch_get_or_compute(): until the lock   *)
(* is lost or wrongly deleted, one early refresh runs at a time.           *)
THEOREM XFetchTheorem == XFetchSpec => []OneEarlyRefresh
<1>1. XFetchInit => XFetchInv
  BY Zenon DEF XFetchInit, XFetchInv, XPhases
<1>2. XFetchInv => OneEarlyRefresh
  BY Zenon DEF XFetchInv, OneEarlyRefresh
<1> QED BY <1>1, <1>2, XFetchStepInv, PTL DEF XFetchSpec

-----------------------------------------------------------------------------
(***************************************************************************)
(* The circuit breaker of core/resilience: CircuitBreaker.tla. The         *)
(* counters of the code are related to the results themselves, which the   *)
(* model remembers.                                                        *)
(***************************************************************************)

(* How many results the model remembers.                                   *)
HistoryLength == IF FailureThreshold > ProbeThreshold THEN FailureThreshold ELSE ProbeThreshold

(* The types, and the bound of the remembered results.                     *)
BreakerTypes ==
  /\ cbState \in {"CLOSED", "OPEN", "HALF_OPEN"}
  /\ cbFails \in Nat /\ cbSuccs \in Nat
  /\ outcomes \in Seq(BOOLEAN)
  /\ Len(outcomes) <= HistoryLength

(* The counters tell the results: a closed circuit has seen at least        *)
(* cbFails results, the newest of them failures, and a probing one exactly  *)
(* cbSuccs, all successes.                                                 *)
CountersTell ==
  /\ cbState = "CLOSED" =>
       /\ cbFails < FailureThreshold /\ cbFails <= Len(outcomes)
       /\ \A i \in 1..Len(outcomes) : i > Len(outcomes) - cbFails => outcomes[i] = FALSE
  /\ cbState = "HALF_OPEN" =>
       /\ cbSuccs < ProbeThreshold /\ Len(outcomes) = cbSuccs
       /\ \A i \in 1..Len(outcomes) : outcomes[i] = TRUE

(* The inductive invariant of the breaker.                                 *)
BreakerInv == BreakerTypes /\ CountersTell

(* What is remembered is the newest results, the last one the call's. *)
NewestKept(ok) ==
  /\ outcomes' \in Seq(BOOLEAN) /\ Len(outcomes') \in Nat /\ Len(outcomes') <= HistoryLength
  /\ Len(outcomes') = IF Len(outcomes) < HistoryLength THEN Len(outcomes) + 1 ELSE HistoryLength
  /\ outcomes'[Len(outcomes')] = ok
  /\ \A i \in 1..Len(outcomes') - 1 :
        outcomes'[i] = outcomes[i + Len(outcomes) + 1 - Len(outcomes')]

(* Remember() keeps the newest results.                                    *)
LEMMA RememberKeepsNewest ==
  ASSUME BreakerTypes, NEW ok \in BOOLEAN, Remember(ok)
  PROVE  NewestKept(ok)
<1> DEFINE all == Append(outcomes, ok)
           k == HistoryLength
           first == IF Len(all) > k THEN Len(all) - k + 1 ELSE 1
<1>1. k \in Nat \ {0} /\ outcomes \in Seq(BOOLEAN) /\ Len(outcomes) \in Nat /\ Len(outcomes) <= k
  BY BreakerAssumption DEF HistoryLength, BreakerTypes
<1>2. /\ all \in Seq(BOOLEAN) /\ Len(all) = Len(outcomes) + 1 /\ all[Len(all)] = ok
      /\ \A i \in 1..Len(outcomes) : all[i] = outcomes[i]
  BY <1>1
<1>3. outcomes' = SubSeq(all, first, Len(all))
  BY Zenon DEF Remember, HistoryLength
<1> HIDE DEF all, k
<1>4. /\ first \in 1..Len(all)
      /\ Len(outcomes) < k => first = 1
      /\ Len(outcomes) >= k => first = 2 /\ Len(outcomes) = k
  BY <1>1, <1>2
<1> HIDE DEF first
<1>5. /\ outcomes' \in Seq(BOOLEAN)
      /\ Len(outcomes') = Len(all) - first + 1
      /\ \A i \in 1..Len(all) - first + 1 : outcomes'[i] = all[first + i - 1]
  BY <1>2, <1>3, <1>4, SMT, Z3
<1> DEFINE n == Len(outcomes)
           m == Len(outcomes')
<1>n. n \in Nat /\ m \in Nat /\ first \in Nat /\ m = n + 2 - first /\ m > 0
  BY <1>1, <1>2, <1>4, <1>5
<1>6. m = IF n < k THEN n + 1 ELSE k
  BY <1>1, <1>4, <1>n
<1>7. outcomes'[m] = ok
  <2>1. m \in 1..Len(all) - first + 1 /\ first + m - 1 = Len(all)
    BY <1>2, <1>4, <1>5, <1>n
  <2> QED BY <1>2, <1>5, <2>1, Zenon
<1>8. ASSUME NEW i \in 1..m - 1
      PROVE  outcomes'[i] = outcomes[i + n + 1 - m]
  <2>1. first + i - 1 = i + n + 1 - m /\ first + i - 1 \in 1..n
    BY <1>4, <1>n
  <2>2. i \in 1..Len(all) - first + 1
    BY <1>2, <1>4, <1>n
  <2> QED BY <1>2, <1>5, <2>1, <2>2, Zenon
<1>9. m <= k
  BY <1>1, <1>6, <1>n
<1> QED BY <1>5, <1>6, <1>7, <1>8, <1>9, <1>n, Zenon DEF k, NewestKept

(* After a change of state the history is empty and the counters of the     *)
(* new state are at zero.                                                  *)
LEMMA FreshStateTells ==
  ASSUME cbState' \in {"CLOSED", "OPEN", "HALF_OPEN"}, cbFails' \in Nat, cbSuccs' \in Nat,
         outcomes' = <<>>, cbState' = "CLOSED" => cbFails' = 0, cbState' = "HALF_OPEN" => cbSuccs' = 0
  PROVE  BreakerInv'
<1>1. outcomes' \in Seq(BOOLEAN) /\ Len(outcomes') = 0
  OBVIOUS
<1> QED BY <1>1, BreakerAssumption DEF BreakerInv, BreakerTypes, CountersTell, HistoryLength

(* _on_success(): a success resets the failures of a closed circuit, is    *)
(* counted by a probing one, or closes it.                                 *)
LEMMA OnSuccessKeeps == BreakerInv /\ OnSuccess => BreakerInv'
<1> SUFFICES ASSUME BreakerInv, OnSuccess PROVE BreakerInv'
  BY Zenon
<1>1. CASE cbFails' = 0 /\ cbSuccs' = 0 /\ MovesTo("CLOSED")
  <2> QED BY <1>1, FreshStateTells, Zenon DEF MovesTo
<1>2. CASE /\ cbState = "HALF_OPEN" /\ cbSuccs + 1 < ProbeThreshold
           /\ cbSuccs' = cbSuccs + 1
           /\ Remember(TRUE) /\ UNCHANGED <<cbState, cbFails, cbAge>>
  <2>0. NewestKept(TRUE)
    BY <1>2, RememberKeepsNewest, Zenon DEF BreakerInv
  <2>a. Len(outcomes) = cbSuccs /\ cbSuccs \in Nat /\ cbFails \in Nat
    BY <1>2, Zenon DEF BreakerInv, BreakerTypes, CountersTell
  <2>b. HistoryLength \in Nat /\ cbSuccs + 1 < HistoryLength
    BY <1>2, <2>a, BreakerAssumption DEF HistoryLength
  <2>1. /\ outcomes' \in Seq(BOOLEAN) /\ Len(outcomes') = cbSuccs + 1
        /\ outcomes'[Len(outcomes')] = TRUE /\ Len(outcomes') <= HistoryLength
        /\ \A i \in 1..cbSuccs : outcomes'[i] = outcomes[i]
    <3>1. Len(outcomes') = cbSuccs + 1
      BY <2>0, <2>a, <2>b DEF NewestKept
    <3>2. \A i \in 1..cbSuccs : i + Len(outcomes) + 1 - Len(outcomes') = i
      BY <2>a, <3>1
    <3>3. 1..Len(outcomes') - 1 = 1..cbSuccs
      BY <2>a, <3>1
    <3> QED BY <2>0, <3>1, <3>2, <3>3, Zenon DEF NewestKept
  <2>2. \A i \in 1..Len(outcomes') : outcomes'[i] = TRUE
    <3>1. \A i \in 1..cbSuccs : outcomes[i] = TRUE
      BY <1>2, Zenon DEF BreakerInv, CountersTell
    <3>2. \A i \in 1..Len(outcomes') : i \in 1..cbSuccs \/ i = Len(outcomes')
      BY <2>1, <2>a
    <3> QED BY <2>1, <3>1, <3>2, Zenon
  <2> QED BY <1>2, <2>1, <2>2, <2>a DEF BreakerInv, BreakerTypes, CountersTell
<1>3. CASE /\ cbState \in {"CLOSED", "OPEN"} /\ Remember(TRUE)
           /\ UNCHANGED <<cbState, cbSuccs>> /\ cbFails' \in Nat
           /\ cbState = "CLOSED" => cbFails' = 0
  <2>0. NewestKept(TRUE)
    BY <1>3, RememberKeepsNewest, Zenon DEF BreakerInv
  <2>1. outcomes' \in Seq(BOOLEAN) /\ Len(outcomes') <= HistoryLength /\ Len(outcomes') \in Nat
    BY <2>0, Zenon DEF NewestKept
  <2>2. cbSuccs \in Nat
    BY Zenon DEF BreakerInv, BreakerTypes
  <2>3. cbState = "CLOSED" => \A i \in 1..Len(outcomes') : ~(i > Len(outcomes') - cbFails')
    BY <1>3, <2>1
  <2> QED BY <1>3, <2>1, <2>2, <2>3, BreakerAssumption DEF BreakerInv, BreakerTypes, CountersTell
<1>4. cbFails \in Nat
  BY Zenon DEF BreakerInv, BreakerTypes
<1>5. CASE /\ cbState = "CLOSED" /\ cbFails' = 0
           /\ Remember(TRUE) /\ UNCHANGED <<cbState, cbSuccs, cbAge>>
  BY <1>3, <1>5, Zenon
<1>6. CASE /\ cbState = "OPEN"
           /\ Remember(TRUE) /\ UNCHANGED <<cbState, cbFails, cbSuccs, cbAge>>
  BY <1>3, <1>4, <1>6, Zenon
<1> QED BY <1>1, <1>2, <1>5, <1>6, Zenon DEF OnSuccess

(* _on_failure(): a failure is counted by a closed circuit, or opens it; a *)
(* probing one it opens at once.                                           *)
LEMMA OnFailureKeeps == BreakerInv /\ OnFailure => BreakerInv'
<1> SUFFICES ASSUME BreakerInv, OnFailure PROVE BreakerInv'
  BY Zenon
<1>1. CASE cbFails' \in {1, cbFails + 1} /\ cbSuccs' = 0 /\ MovesTo("OPEN")
  <2>1. cbFails' \in Nat /\ cbSuccs' = 0
    BY <1>1 DEF BreakerInv, BreakerTypes
  <2> QED BY <1>1, <2>1, FreshStateTells DEF MovesTo
<1>2. CASE /\ cbState = "CLOSED" /\ cbFails + 1 < FailureThreshold
           /\ cbFails' = cbFails + 1
           /\ Remember(FALSE) /\ UNCHANGED <<cbState, cbSuccs, cbAge>>
  <2> DEFINE n == Len(outcomes)
             m == Len(outcomes')
  <2>1. /\ n \in Nat /\ cbFails \in Nat /\ cbFails <= n /\ cbSuccs \in Nat
        /\ HistoryLength \in Nat /\ cbFails + 1 < HistoryLength
        /\ \A i \in 1..n : i > n - cbFails => outcomes[i] = FALSE
    BY <1>2, BreakerAssumption DEF BreakerInv, BreakerTypes, CountersTell, HistoryLength
  <2>2. /\ outcomes' \in Seq(BOOLEAN) /\ outcomes'[m] = FALSE
        /\ m = IF n < HistoryLength THEN n + 1 ELSE HistoryLength
        /\ \A i \in 1..m - 1 : outcomes'[i] = outcomes[i + n + 1 - m]
    <3>1. NewestKept(FALSE)
      BY <1>2, RememberKeepsNewest, Zenon DEF BreakerInv
    <3> QED BY <3>1, Zenon DEF NewestKept
  <2> HIDE DEF n, m
  <2>3. m \in Nat /\ m <= HistoryLength /\ m <= n + 1 /\ cbFails + 1 <= m
    BY <2>1, <2>2
  <2>4. ASSUME NEW i \in 1..m, i > m - (cbFails + 1) PROVE outcomes'[i] = FALSE
    <3>1. CASE i = m
      BY <2>2, <3>1, Zenon
    <3>2. CASE i # m
      <4>1. i \in 1..m - 1 /\ i + n + 1 - m \in 1..n /\ i + n + 1 - m > n - cbFails
        BY <2>1, <2>3, <2>4, <3>2
      <4>2. outcomes'[i] = outcomes[i + n + 1 - m]
        BY <2>2, <4>1, Zenon
      <4> QED BY <2>1, <4>1, <4>2, Zenon
    <3> QED BY <3>1, <3>2, Zenon
  <2>5. BreakerTypes'
    BY <1>2, <2>1, <2>2, <2>3 DEF m, BreakerTypes
  <2>6. cbFails' \in Nat /\ cbFails' < FailureThreshold /\ cbFails' <= m
    BY <1>2, <2>1, <2>3
  <2> QED BY <1>2, <2>4, <2>5, <2>6, Zenon DEF m, BreakerInv, CountersTell
<1>3. CASE cbState = "OPEN" /\ Remember(FALSE) /\ UNCHANGED <<cbState, cbFails, cbSuccs, cbAge>>
  <2>0. NewestKept(FALSE)
    BY <1>3, RememberKeepsNewest, Zenon DEF BreakerInv
  <2>1. outcomes' \in Seq(BOOLEAN) /\ Len(outcomes') <= HistoryLength
    BY <2>0, Zenon DEF NewestKept
  <2> QED BY <1>3, <2>1, Zenon DEF BreakerInv, BreakerTypes, CountersTell
<1> QED BY <1>1, <1>2, <1>3, Zenon DEF OnFailure

(* The invariant is kept by every call, the timeout and the metrics        *)
(* endpoint.                                                               *)
LEMMA BreakerStepKeeps == BreakerInv /\ BreakerNext => BreakerInv'
<1> SUFFICES ASSUME BreakerInv, BreakerNext PROVE BreakerInv'
  BY Zenon
<1>1. CASE EvaluateState
  <2>1. CASE Due
    BY <1>1, <2>1, FreshStateTells DEF EvaluateState
  <2>2. CASE ~Due
    BY <1>1, <2>2, Zenon DEF EvaluateState, BreakerInv, BreakerTypes, CountersTell
  <2> QED BY <2>1, <2>2, Zenon
<1>2. CASE UNCHANGED <<cbState, cbFails, cbSuccs, outcomes>>
  BY <1>2, Zenon DEF BreakerInv, BreakerTypes, CountersTell
<1> QED BY <1>1, <1>2, OnSuccessKeeps, OnFailureKeeps, Zenon
        DEF BreakerNext, ExecuteExternalCharge, BeforeCall, ExecuteAsync, GetMetrics, BreakerTick,
            GatewayFlips

(* The entries of the end of a sequence.                                   *)
LEMMA EndOfSeq ==
  ASSUME NEW s \in Seq(BOOLEAN), NEW a \in 1..Len(s) + 1,
         NEW i \in DOMAIN SubSeq(s, a, Len(s))
  PROVE  i \in 1..Len(s) - a + 1 /\ SubSeq(s, a, Len(s))[i] = s[a + i - 1]
OBVIOUS

(* A change of state is decided by the results that the counters tell. *)
LEMMA BreakerStepDecided ==
  ASSUME BreakerInv, BreakerNext
  PROVE  /\ cbState = "CLOSED" /\ cbState' = "OPEN" =>
              /\ ~healthy
              /\ Len(outcomes) >= FailureThreshold - 1
              /\ AllFailed(SubSeq(outcomes, Len(outcomes) - FailureThreshold + 2, Len(outcomes)))
         /\ cbState = "HALF_OPEN" /\ cbState' = "CLOSED" =>
              /\ Len(outcomes) = ProbeThreshold - 1
              /\ \A i \in DOMAIN outcomes : outcomes[i]
         /\ cbState = "OPEN" => cbState' # "CLOSED"
<1>0. /\ outcomes \in Seq(BOOLEAN) /\ Len(outcomes) \in Nat /\ DOMAIN outcomes = 1..Len(outcomes)
      /\ cbFails \in Nat /\ cbSuccs \in Nat
  BY DEF BreakerInv, BreakerTypes
<1>1. ASSUME EvaluateState
      PROVE  cbState' = cbState \/ (cbState = "OPEN" /\ cbState' = "HALF_OPEN")
  BY <1>1, Zenon DEF EvaluateState, Due
<1>2. ASSUME OnSuccess
      PROVE  \/ cbState' = cbState
             \/ cbState = "HALF_OPEN" /\ cbState' = "CLOSED" /\ cbSuccs + 1 >= ProbeThreshold
  BY <1>2, Zenon DEF OnSuccess, MovesTo
<1>3. ASSUME OnFailure
      PROVE  \/ cbState' = cbState
             \/ cbState = "HALF_OPEN" /\ cbState' = "OPEN"
             \/ cbState = "CLOSED" /\ cbState' = "OPEN" /\ cbFails + 1 >= FailureThreshold
  BY <1>3, Zenon DEF OnFailure, MovesTo
<1>4. \/ cbState' = cbState
      \/ cbState = "OPEN" /\ cbState' = "HALF_OPEN"
      \/ cbState = "HALF_OPEN" /\ cbState' = "CLOSED" /\ cbSuccs + 1 >= ProbeThreshold
      \/ cbState = "HALF_OPEN" /\ cbState' = "OPEN"
      \/ cbState = "CLOSED" /\ cbState' = "OPEN" /\ cbFails + 1 >= FailureThreshold /\ ~healthy
  BY <1>1, <1>2, <1>3, Zenon
     DEF BreakerNext, ExecuteExternalCharge, BeforeCall, ExecuteAsync, GetMetrics,
                          BreakerTick, GatewayFlips
<1>5. ASSUME cbState = "CLOSED", cbFails + 1 >= FailureThreshold
      PROVE  /\ Len(outcomes) >= FailureThreshold - 1
             /\ AllFailed(SubSeq(outcomes, Len(outcomes) - FailureThreshold + 2, Len(outcomes)))
  <2> DEFINE n == Len(outcomes)
             a == n - FailureThreshold + 2
  <2>1. /\ cbFails = FailureThreshold - 1 /\ cbFails <= n
        /\ \A i \in 1..n : i > n - cbFails => outcomes[i] = FALSE
    BY <1>0, <1>5, BreakerAssumption DEF BreakerInv, CountersTell
  <2>2. a \in 1..n + 1 /\ a = n - cbFails + 1
    BY <1>0, <2>1, BreakerAssumption
  <2>e. \A x \in 1..n - a + 1 : a + x - 1 \in 1..n /\ a + x - 1 > n - cbFails
    <3>1. n \in Nat /\ a \in Nat /\ cbFails \in Nat /\ 1 <= a /\ a = n - cbFails + 1
      BY <1>0, <2>2
    <3> HIDE DEF n, a
    <3> QED BY <3>1
  <2>3. ASSUME NEW i \in DOMAIN SubSeq(outcomes, a, n) PROVE ~SubSeq(outcomes, a, n)[i]
    <3>1. i \in 1..n - a + 1 /\ SubSeq(outcomes, a, n)[i] = outcomes[a + i - 1]
      BY <1>0, <2>2, <2>3, EndOfSeq, Zenon
    <3>2. a + i - 1 \in 1..n /\ a + i - 1 > n - cbFails
      BY <2>e, <3>1, Zenon
    <3> QED BY <2>1, <3>1, <3>2, Zenon
  <2> QED BY <1>0, <2>1, <2>3, BreakerAssumption, Zenon DEF AllFailed
<1>6. ASSUME cbState = "HALF_OPEN", cbSuccs + 1 >= ProbeThreshold
      PROVE  Len(outcomes) = ProbeThreshold - 1 /\ \A i \in DOMAIN outcomes : outcomes[i]
  BY <1>0, <1>6, BreakerAssumption DEF BreakerInv, CountersTell
<1> QED BY <1>4, <1>5, <1>6, Zenon

(* For every threshold: the circuit opens only on a failure that ends a    *)
(* run of failure_threshold failures, closes only after exactly the        *)
(* successes of the probe, and never closes without probing.               *)
THEOREM BreakerTheorem == BreakerSpec => OutcomesDecide
<1>1. BreakerInit => BreakerInv
  <2> SUFFICES ASSUME BreakerInit PROVE BreakerInv
    BY Zenon
  <2>1. outcomes \in Seq(BOOLEAN) /\ Len(outcomes) = 0
    BY DEF BreakerInit
  <2> QED BY <2>1, BreakerAssumption DEF BreakerInit, BreakerInv, BreakerTypes,
       CountersTell, HistoryLength
<1>2. BreakerInv /\ [BreakerNext]_breakerVars => BreakerInv'
  <2>1. ASSUME BreakerInv, UNCHANGED breakerVars PROVE BreakerInv'
    BY <2>1, Zenon DEF breakerVars, BreakerInv, BreakerTypes, CountersTell
  <2> QED BY <2>1, BreakerStepKeeps, Zenon
<1>3. BreakerInv /\ [BreakerNext]_breakerVars =>
        [/\ cbState = "CLOSED" /\ cbState' = "OPEN" =>
              /\ ~healthy
              /\ Len(outcomes) >= FailureThreshold - 1
              /\ AllFailed(SubSeq(outcomes, Len(outcomes) - FailureThreshold + 2, Len(outcomes)))
         /\ cbState = "HALF_OPEN" /\ cbState' = "CLOSED" =>
              /\ Len(outcomes) = ProbeThreshold - 1
              /\ \A i \in DOMAIN outcomes : outcomes[i]
         /\ cbState = "OPEN" => cbState' # "CLOSED"]_breakerVars
  BY BreakerStepDecided, Zenon
<1> QED BY <1>1, <1>2, <1>3, PTL DEF BreakerSpec, OutcomesDecide

-----------------------------------------------------------------------------
(***************************************************************************)
(* retry_with_backoff() around the simulated service: RetryBackoff.tla.    *)
(* The call counter of a target is shared by its requests; the invariant   *)
(* ties it to the attempt of a request nobody disturbs.                    *)
(***************************************************************************)

(* The types, and that a request that is not trying is not on the loop. *)
RetryTypes ==
  /\ rtPc \in [RtCalls -> {"idle", "trying", "success", "raised"}]
  /\ outage \in [RtCalls -> Nat]
  /\ attempt \in [RtCalls -> Nat]
  /\ disturbed \in [RtCalls -> BOOLEAN]
  /\ callCounter \in Nat

(* Two requests that try at the same time have disturbed each other, and   *)
(* the counter of the target is the attempt of one that is undisturbed.    *)
CounterShared ==
  /\ \A c, d \in RtCalls : c # d /\ rtPc[c] = "trying" /\ rtPc[d] = "trying" => disturbed[c] = TRUE
  /\ \A c \in RtCalls : rtPc[c] = "idle" => attempt[c] = 0
  /\ \A c \in RtCalls : rtPc[c] = "trying" /\ disturbed[c] = FALSE =>
       attempt[c] = callCounter /\ attempt[c] <= outage[c] /\ attempt[c] <= MaxRetries

(* The inductive invariant of the retry loops.                             *)
RetryInv == RetryTypes /\ CounterShared /\ RetriesOutlastOutage

(* The invariant is kept by every start and every attempt, also by those   *)
(* of requests that disturb each other.                                    *)
LEMMA RetryStep == RetryInv /\ [RetryNext]_retryVars => RetryInv'
<1> SUFFICES ASSUME RetryInv, [RetryNext]_retryVars PROVE RetryInv'
  BY Zenon
<1> USE BackoffAssumption
<1>1. ASSUME NEW c \in RtCalls, SimulateRetry(c) PROVE RetryInv'
  <2> USE <1>1 DEF RetryInv, SimulateRetry
  <2>1. PICK f \in Outages, s \in Strategies : outage' = [outage EXCEPT ![c] = f]
    BY Zenon
  <2>2. /\ rtPc' = [rtPc EXCEPT ![c] = "trying"] /\ rtPc[c] = "idle"
        /\ attempt' = attempt /\ callCounter' = 0
    BY Zenon
  <2>3. \A d \in RtCalls : 
          disturbed'[d] = (\/ disturbed[d] \/ rtPc[d] = "trying" 
                           \/ d = c /\ \E e \in RtCalls : rtPc[e] = "trying")
    BY ZenonT(30)
  <2>4. disturbed' \in [RtCalls -> BOOLEAN]
    BY Zenon DEF RetryTypes
  <2>5. RetryTypes'
    BY <2>1, <2>2, <2>4 DEF RetryTypes
  <2>6. \A d \in RtCalls : disturbed'[d] = FALSE => disturbed[d] = FALSE /\ rtPc[d] # "trying"
    BY <2>3, Zenon DEF RetryTypes
  <2>7. \A d \in RtCalls : rtPc[d] = "trying" => disturbed'[d] = TRUE /\ disturbed'[c] = TRUE
    BY <2>3, <2>4, Zenon
  <2>8. CounterShared'
    BY <2>1, <2>2, <2>6, <2>7 DEF CounterShared, RetryTypes
  <2>9. RetriesOutlastOutage'
    <3>1. ASSUME NEW d \in RtCalls \ {c} PROVE rtPc'[d] = rtPc[d] /\ outage'[d] = outage[d]
      BY <2>1, <2>2, Zenon DEF RetryTypes
    <3>2. rtPc'[c] = "trying" /\ RetriesOutlastOutage
      BY <2>2, Zenon DEF RetryTypes
    <3>3. \A d \in RtCalls : ~disturbed'[d] => ~disturbed[d]
      BY <2>4, <2>6, Zenon
    <3> HIDE <1>1 DEF RetryInv, SimulateRetry
    <3> QED BY <2>2, <3>1, <3>2, <3>3 DEF RetriesOutlastOutage
  <2>10. QED BY <2>5, <2>8, <2>9, Zenon
<1>2. ASSUME NEW c \in RtCalls, Retry(c) PROVE RetryInv'
  <2> USE <1>2 DEF RetryInv, Retry
  <2>1. /\ rtPc[c] = "trying" /\ callCounter' = callCounter + 1
        /\ attempt' = [attempt EXCEPT ![c] = @ + 1]
        /\ outage' = outage /\ disturbed' = disturbed
    BY Zenon
  <2>2. PICK l \in {"success", "raised", "trying"} :
          /\ rtPc' = [rtPc EXCEPT ![c] = l]
          /\ l = "success" => ~DownstreamFails(c)
          /\ l = "raised" => DownstreamFails(c) /\ ~MayRetry(c)
          /\ l = "trying" => DownstreamFails(c) /\ MayRetry(c)
    BY ZenonT(30) DEF RetryTypes
  <2>3. RetryTypes'
    BY <2>1, <2>2, SMT, Z3 DEF RetryTypes
  <2>4. CounterShared'
    BY <2>1, <2>2 DEF CounterShared, RetryTypes, DownstreamFails, MayRetry
  <2>5. RetriesOutlastOutage'
    <3> SUFFICES ASSUME NEW d \in RtCalls, disturbed[d] = FALSE
                 PROVE  /\ rtPc'[d] = "success" =>
                             outage[d] <= MaxRetries /\ attempt'[d] = outage[d] + 1
                        /\ rtPc'[d] = "raised" =>
                             outage[d] > MaxRetries /\ attempt'[d] = MaxRetries + 1
      BY <2>1, ZenonT(30) DEF RetriesOutlastOutage, RetryTypes
    <3>1. CASE d = c
      <4>1. /\ attempt[c] = callCounter /\ attempt[c] <= outage[c] /\ attempt[c] <= MaxRetries
            /\ attempt[c] \in Nat /\ outage[c] \in Nat /\ callCounter \in Nat
        BY <2>1, <3>1, Zenon DEF CounterShared, RetryTypes
      <4>2. attempt'[c] = attempt[c] + 1 /\ rtPc'[c] = l
        BY <2>1, <2>2, Zenon DEF RetryTypes
      <4>3. /\ l = "success" => ~(callCounter + 1 <= outage[c])
            /\ l = "raised" => callCounter + 1 <= outage[c] /\ ~(attempt[c] < MaxRetries)
        BY <2>2, Zenon DEF DownstreamFails, MayRetry
      <4> HIDE <1>2 DEF RetryInv, Retry
      <4> QED BY <3>1, <4>1, <4>2, <4>3
    <3>2. CASE d # c
      BY <2>1, <2>2, <3>2, ZenonT(30) DEF RetriesOutlastOutage, RetryTypes
    <3>3. QED BY <3>1, <3>2, Zenon
  <2>6. QED BY <2>3, <2>4, <2>5, Zenon
<1>3. CASE UNCHANGED retryVars
  BY <1>3, Zenon DEF retryVars, RetryInv, RetryTypes, CounterShared, RetriesOutlastOutage
<1>4. QED BY <1>1, <1>2, <1>3, Zenon DEF RetryNext

(* For every number of requests and every max_retries: a request nobody    *)
(* disturbs succeeds exactly when the outage is within its retries, on the *)
(* first attempt after it, and otherwise raises after max_retries + 1      *)
(* attempts.                                                               *)
THEOREM RetryTheorem == RetrySpec => []RetriesOutlastOutage
<1>1. RetryInit => RetryInv
  BY BackoffAssumption DEF RetryInit, RetryInv, RetryTypes, CounterShared, RetriesOutlastOutage
<1>2. QED BY <1>1, RetryStep, PTL DEF RetrySpec, RetryInv

-----------------------------------------------------------------------------
(***************************************************************************)
(* The ARQ job endpoints with their cached pool: ArqJobs.tla.              *)
(***************************************************************************)

(* The phases of a request, the states of a job, and those in which it     *)
(* ended.                                                                  *)
ArqPhases == {"idle", "connect enqueue", "connect poll", "enqueue", "poll", "result", "answered"}
JobStates == {"absent", "queued", "in_progress", "succeeded", "failed", "expired"}
JobEnds == {"succeeded", "failed", "expired"}

(* The types of the requests, the jobs and the pool.                       *)
ArqTypes ==
  /\ aqPc \in [ArqCalls -> ArqPhases]
  /\ aqJob \in [ArqCalls -> ArqJobIds]
  /\ saw \in [ArqCalls -> [status : {"none", "complete", "not_found", "queued", "in_progress"},
                           success : {"none", "succeeded", "failed"}]]
  /\ jobState \in [ArqJobIds -> JobStates]
  /\ nPools \in Nat
  /\ creationsOverlap \in BOOLEAN

(* While no two requests created the pool together, one that creates it    *)
(* does so alone and finds none, so the cached pool is the only open one.  *)
PoolInv ==
  ~creationsOverlap =>
    /\ openPools \subseteq {pool}
    /\ \A c, d \in Connecting : c = d
    /\ Connecting # {} => pool = NoPool
    /\ pool = NoPool => openPools = {}

(* The phases in which a request is about to enqueue.                      *)
Enqueuing == {"connect enqueue", "enqueue"}

(* A job is enqueued once, by the one request that found it absent. *)
EnqueueInv ==
  \A c \in ArqCalls : aqPc[c] \in Enqueuing =>
    /\ jobState[aqJob[c]] = "absent"
    /\ \A d \in ArqCalls : aqPc[d] \in Enqueuing /\ aqJob[d] = aqJob[c] => d = c

(* A poll that has seen "complete" is about a job that ended, and an       *)
(* outcome it reports is that job's.                                       *)
PollOK(c) ==
  /\ aqPc[c] = "result" => jobState[aqJob[c]] \in JobEnds
  /\ saw[c].success # "none" =>
       aqPc[c] = "answered" /\ jobState[aqJob[c]] \in {saw[c].success, "expired"}

(* All requests poll truly.                                                *)
PollInv == \A c \in ArqCalls : PollOK(c)

(* The inductive invariant of the ARQ endpoints.                           *)
ArqInv == ArqTypes /\ PoolInv /\ EnqueueInv /\ PollInv

(* Every step keeps the types.                                             *)
LEMMA ArqStepTypes == ArqTypes /\ PollInv /\ ArqNext => ArqTypes'
<1> SUFFICES ASSUME ArqTypes, PollInv, ArqNext PROVE ArqTypes'
  BY Zenon
<1> USE DEF ArqTypes
<1>1. ASSUME NEW c \in ArqCalls, StartEnqueue(c) \/ StartPoll(c) PROVE ArqTypes'
  <2>1. \E l \in ArqPhases : aqPc' = [aqPc EXCEPT ![c] = l]
    BY <1>1, Zenon DEF StartEnqueue, StartPoll, GetPool, AqGo, ArqPhases
  <2>2. creationsOverlap' \in BOOLEAN
    BY <1>1, Zenon DEF StartEnqueue, StartPoll, GetPool
  <2>3. UNCHANGED <<nPools, aqJob, saw, jobState>>
    BY <1>1, Zenon DEF StartEnqueue, StartPoll
  <2> QED BY <2>1, <2>2, <2>3, Zenon
<1>2. ASSUME NEW c \in ArqCalls, PoolCreated(c) PROVE ArqTypes'
  <2>1. \E l \in ArqPhases : aqPc' = [aqPc EXCEPT ![c] = l]
    <3>1. "enqueue" \in ArqPhases /\ "poll" \in ArqPhases
      BY Zenon DEF ArqPhases
    <3>2. aqPc' = [aqPc EXCEPT ![c] = "enqueue"] \/ aqPc' = [aqPc EXCEPT ![c] = "poll"]
      BY <1>2, Zenon DEF PoolCreated, AqGo
    <3> QED BY <3>1, <3>2, Zenon
  <2>2. nPools' \in Nat
    <3>1. nPools' = nPools + 1
      BY <1>2, Zenon DEF PoolCreated
    <3> QED BY <3>1
  <2>3. UNCHANGED <<aqJob, saw, jobState, creationsOverlap>>
    BY <1>2, Zenon DEF PoolCreated
  <2> QED BY <2>1, <2>2, <2>3, Zenon
<1>3. ASSUME NEW c \in ArqCalls, EnqueueTask(c) PROVE ArqTypes'
  BY <1>3, Zenon DEF EnqueueTask, AqGo, ArqPhases, JobStates
<1>4. ASSUME NEW c \in ArqCalls, PollStatus(c) PROVE ArqTypes'
  <2>1. StatusOf(jobState[aqJob[c]]) \in {"complete", "not_found", "queued", "in_progress"}
    BY Zenon DEF StatusOf, JobStates
  <2>2. \E l \in ArqPhases : aqPc' = [aqPc EXCEPT ![c] = l]
    BY <1>4, Zenon DEF PollStatus, AqGo, ArqPhases
  <2>3. saw' = [saw EXCEPT ![c].status = StatusOf(jobState[aqJob[c]])]
        /\ UNCHANGED <<nPools, aqJob, jobState, creationsOverlap>>
    BY <1>4, Zenon DEF PollStatus
  <2> QED BY <2>1, <2>2, <2>3
<1>5. ASSUME NEW c \in ArqCalls, PollResult(c) PROVE ArqTypes'
  <2>1. jobState[aqJob[c]] \in JobEnds
    BY <1>5, Zenon DEF PollResult, PollInv, PollOK
  <2>2. \E s \in {"none", "succeeded", "failed"} :
          saw' = [saw EXCEPT ![c].success = s] \/ saw' = saw
    BY <1>5, <2>1, Zenon DEF PollResult, JobEnds
  <2>3. saw' \in [ArqCalls -> [status : {"none", "complete", "not_found", "queued", "in_progress"},
                              success : {"none", "succeeded", "failed"}]]
    BY <2>2
  <2>4. aqPc' = [aqPc EXCEPT ![c] = "answered"]
        /\ UNCHANGED <<nPools, aqJob, jobState, creationsOverlap>>
    BY <1>5, Zenon DEF PollResult, AqGo
  <2> QED BY <2>3, <2>4, Zenon DEF ArqPhases
<1>6. ASSUME NEW c \in ArqCalls, EndPoll(c) PROVE ArqTypes'
  BY <1>6, Zenon DEF EndPoll, AqGo, ArqPhases, NoAnswer
<1>7. ASSUME NEW j \in ArqJobIds, ArqWorker(j) PROVE ArqTypes'
  BY <1>7 DEF ArqWorker, JobStates
<1>8. CASE ClosePool
  BY <1>8, Zenon DEF ClosePool
<1> QED BY <1>1, <1>2, <1>3, <1>4, <1>5, <1>6, <1>7, <1>8, Zenon DEF ArqNext

(* Only the step that creates a pool ends a creation, and a creation that  *)
(* begins while another runs is recorded as an overlap.                    *)
LEMMA ArqStepPool == ArqTypes /\ PoolInv /\ ArqNext => PoolInv'
<1> SUFFICES ASSUME ArqTypes, PoolInv, ArqNext, ~creationsOverlap'
             PROVE  /\ openPools' \subseteq {pool'}
                    /\ \A c, d \in Connecting' : c = d
                    /\ Connecting' # {} => pool' = NoPool
                    /\ pool' = NoPool => openPools' = {}
  BY Zenon DEF PoolInv
<1>0. ~creationsOverlap
  BY Zenon DEF ArqNext, StartEnqueue, StartPoll, GetPool, PoolCreated, EnqueueTask, PollStatus,
         PollResult, EndPoll, ArqWorker, ClosePool, ArqTypes
<1>1. ASSUME NEW c \in ArqCalls, StartEnqueue(c) \/ StartPoll(c)
      PROVE  /\ openPools' = openPools /\ pool' = pool
             /\ Connecting' = Connecting \/ (pool = NoPool /\ Connecting = {} /\ Connecting' = {c})
  <2>1. openPools' = openPools /\ pool' = pool
    BY <1>1, Zenon DEF StartEnqueue, StartPoll
  <2>2. CASE pool = NoPool
    <3>1. Connecting = {}
      BY <1>1, <2>2, Zenon DEF StartEnqueue, StartPoll, GetPool
    <3>2. Connecting' = {c}
      BY <1>1, <2>2, <3>1, Zenon DEF StartEnqueue, StartPoll, GetPool, AqGo, Connecting, ArqTypes
    <3> QED BY <2>1, <2>2, <3>1, <3>2, Zenon
  <2>3. CASE pool # NoPool
    BY <1>1, <2>1, <2>3, Zenon DEF StartEnqueue, StartPoll, GetPool, AqGo, Connecting, ArqTypes
  <2> QED BY <2>2, <2>3, Zenon
<1>2. ASSUME NEW c \in ArqCalls, PoolCreated(c)
      PROVE  openPools' = {pool'} /\ Connecting' = {} /\ pool' # NoPool
  <2>1. openPools = {} /\ Connecting = {c}
    BY <1>0, <1>2, Zenon DEF PoolInv, PoolCreated
  <2>2. openPools' = {pool'}
    BY <1>2, <2>1, Zenon DEF PoolCreated
  <2>3. Connecting' = {}
    BY <1>2, <2>1, Zenon DEF PoolCreated, AqGo, Connecting, ArqTypes
  <2>4. pool' # NoPool
    <3>1. nPools \in Nat /\ pool' = nPools + 1
      BY <1>2, Zenon DEF PoolCreated, ArqTypes
    <3> QED BY <3>1, ArqAssumption
  <2> QED BY <2>2, <2>3, <2>4, Zenon
<1>3. ASSUME NEW c \in ArqCalls, EnqueueTask(c) \/ PollStatus(c) \/ PollResult(c) \/ EndPoll(c)
      PROVE  UNCHANGED <<pool, openPools>> /\ Connecting' = Connecting
  BY <1>3, Zenon DEF EnqueueTask, PollStatus, PollResult, EndPoll, AqGo, Connecting, ArqTypes
<1>4. ASSUME NEW j \in ArqJobIds, ArqWorker(j)
      PROVE  UNCHANGED <<pool, openPools>> /\ Connecting' = Connecting
  BY <1>4, Zenon DEF ArqWorker, Connecting
<1>5. ASSUME ClosePool PROVE pool' = NoPool /\ openPools' = {} /\ Connecting' = {}
  BY <1>0, <1>5, Zenon DEF ClosePool, PoolInv, Connecting
<1>6. CASE UNCHANGED <<pool, openPools>> /\ Connecting' = Connecting
  BY <1>0, <1>6, Zenon DEF PoolInv
<1>7. CASE \E c \in ArqCalls : StartEnqueue(c) \/ StartPoll(c)
  <2> PICK c \in ArqCalls : StartEnqueue(c) \/ StartPoll(c)
    BY <1>7, Zenon
  <2>1. CASE pool = NoPool /\ Connecting = {} /\ Connecting' = {c}
    <3>1. openPools' \subseteq {pool'} /\ pool' = NoPool
      BY <1>0, <1>1, <2>1, Zenon DEF PoolInv
    <3>2. openPools' = {}
      BY <1>0, <1>1, <2>1, Zenon DEF PoolInv
    <3> QED BY <2>1, <3>1, <3>2, Zenon
  <2> QED BY <1>1, <1>6, <2>1, Zenon
<1> QED BY <1>2, <1>3, <1>4, <1>5, <1>6, <1>7, Zenon DEF ArqNext

(* A job is enqueued by one request only.                                  *)
LEMMA ArqStepEnqueue == ArqTypes /\ EnqueueInv /\ ArqNext => EnqueueInv'
<1> SUFFICES ASSUME ArqTypes, EnqueueInv, ArqNext PROVE EnqueueInv'
  BY Zenon
<1>1. ASSUME NEW c \in ArqCalls, StartEnqueue(c) PROVE EnqueueInv'
  BY <1>1, ZenonT(30) DEF ArqTypes, EnqueueInv, Enqueuing, StartEnqueue, GetPool, AqGo
<1>2. ASSUME NEW c \in ArqCalls, EnqueueTask(c) PROVE EnqueueInv'
  <2>1. aqPc[c] \in Enqueuing /\ aqPc' = [aqPc EXCEPT ![c] = "idle"] /\ aqJob' = aqJob
        /\ \A j \in ArqJobIds \ {aqJob[c]} : jobState'[j] = jobState[j]
    BY <1>2 DEF ArqTypes, Enqueuing, EnqueueTask, AqGo
  <2> QED BY <2>1, ZenonT(30) DEF ArqTypes, EnqueueInv, Enqueuing
<1>3. CASE /\ UNCHANGED <<aqJob, jobState>>
           /\ \A c \in ArqCalls : aqPc'[c] \in Enqueuing => aqPc[c] \in Enqueuing
  BY <1>3, Zenon DEF ArqTypes, EnqueueInv
<1>4. ASSUME NEW j \in ArqJobIds, ArqWorker(j) PROVE EnqueueInv'
  BY <1>4, ZenonT(30) DEF ArqTypes, EnqueueInv, Enqueuing, ArqWorker
<1>5. ASSUME NEW c \in ArqCalls,
             StartPoll(c) \/ PoolCreated(c) \/ PollStatus(c) \/ PollResult(c) \/ EndPoll(c)
      PROVE  /\ UNCHANGED <<aqJob, jobState>>
             /\ \A d \in ArqCalls : aqPc'[d] \in Enqueuing => aqPc[d] \in Enqueuing
  <2>1. CASE StartPoll(c) \/ PoolCreated(c)
    BY <2>1, Zenon DEF ArqTypes, Enqueuing, StartPoll, GetPool, PoolCreated, Connecting, AqGo
  <2>2. CASE PollStatus(c) \/ PollResult(c) \/ EndPoll(c)
    BY <2>2, Zenon DEF ArqTypes, Enqueuing, PollStatus, PollResult, EndPoll, AqGo
  <2> QED BY <1>5, <2>1, <2>2, Zenon
<1>6. CASE ClosePool
  BY <1>3, <1>6, Zenon DEF ClosePool
<1> QED BY <1>1, <1>2, <1>3, <1>4, <1>5, <1>6, Zenon DEF ArqNext

(* A job that has ended changes only by expiring. *)
LEMMA ArqStepPoll == ArqTypes /\ EnqueueInv /\ PollInv /\ ArqNext => PollInv'
<1> SUFFICES ASSUME ArqTypes, EnqueueInv, PollInv, ArqNext PROVE PollInv'
  BY Zenon
<1>1. ASSUME NEW j \in ArqJobIds, jobState[j] \in JobEnds
      PROVE  jobState'[j] \in {jobState[j], "expired"}
  <2>1. CASE \E c \in ArqCalls : EnqueueTask(c)
    BY <1>1, <2>1, Zenon DEF ArqTypes, EnqueueInv, Enqueuing, EnqueueTask, JobEnds
  <2>2. CASE \E i \in ArqJobIds : ArqWorker(i)
    BY <1>1, <2>2, Zenon DEF ArqTypes, ArqWorker, JobEnds
  <2>3. CASE UNCHANGED jobState
    BY <2>3, Zenon
  <2> QED BY <2>1, <2>2, <2>3, Zenon DEF ArqNext, StartEnqueue, StartPoll, PoolCreated, PollStatus,
                                  PollResult, EndPoll, ClosePool
<1>2. aqJob' = aqJob
  BY Zenon DEF ArqNext, StartEnqueue, StartPoll, PoolCreated, EnqueueTask, PollStatus, PollResult,
         EndPoll, ArqWorker, ClosePool
<1>3. ASSUME NEW c \in ArqCalls, aqPc'[c] = aqPc[c], saw'[c] = saw[c] PROVE PollOK(c)'
  <2>1. PollOK(c) /\ aqJob[c] \in ArqJobIds /\ saw[c].success \in {"none", "succeeded", "failed"}
    BY Zenon DEF PollInv, ArqTypes
  <2> QED BY <1>1, <1>2, <1>3, <2>1, Zenon DEF PollOK, JobEnds
<1>4. ASSUME NEW c \in ArqCalls, PollStatus(c) PROVE PollOK(c)'
  <2>1. /\ jobState' = jobState /\ saw'[c].success = saw[c].success /\ saw[c].success = "none"
        /\ aqPc'[c] = "result" => StatusOf(jobState[aqJob[c]]) = "complete"
    BY <1>4, Zenon DEF PollStatus, AqGo, ArqTypes, PollInv, PollOK
  <2> QED BY <1>2, <2>1, Zenon DEF PollOK, StatusOf, JobEnds, ArqTypes, JobStates
<1>5. ASSUME NEW c \in ArqCalls, PollResult(c) PROVE PollOK(c)'
  <2>1. jobState' = jobState /\ aqPc'[c] = "answered" /\ jobState[aqJob[c]] \in JobEnds
        /\ saw[c].success = "none"
    BY <1>5, Zenon DEF PollResult, AqGo, ArqTypes, PollInv, PollOK
  <2>2. saw'[c].success \in {"none", jobState[aqJob[c]]}
    BY <1>5, <2>1, ZenonT(30) DEF PollResult, ArqTypes
  <2> QED BY <1>2, <2>1, <2>2, Zenon DEF PollOK
<1>6. ASSUME NEW c \in ArqCalls, EndPoll(c) PROVE PollOK(c)'
  <2>1. saw'[c] = NoAnswer /\ aqPc'[c] = "idle"
    BY <1>6, Zenon DEF EndPoll, AqGo, ArqTypes
  <2> QED BY <2>1 DEF PollOK, NoAnswer
<1>7. ASSUME NEW c \in ArqCalls,
             StartEnqueue(c) \/ StartPoll(c) \/ PoolCreated(c) \/ EnqueueTask(c)
      PROVE  PollOK(c)'
  <2>1. saw' = saw /\ aqPc[c] \notin {"answered", "result"} /\ aqPc'[c] # "result"
    <3>1. CASE StartEnqueue(c) \/ StartPoll(c)
      BY <3>1, Zenon DEF StartEnqueue, StartPoll, GetPool, AqGo, ArqTypes
    <3>2. CASE PoolCreated(c) \/ EnqueueTask(c)
      BY <3>2, ZenonT(30) DEF PoolCreated, Connecting, EnqueueTask, AqGo, ArqTypes
    <3> QED BY <1>7, <3>1, <3>2, Zenon
  <2>2. saw[c].success = "none"
    BY <2>1, Zenon DEF PollInv, PollOK
  <2> QED BY <2>1, <2>2, Zenon DEF PollOK
<1>8. ASSUME NEW c \in ArqCalls, NEW d \in ArqCalls \ {c},
             \/ StartEnqueue(c) \/ StartPoll(c) \/ PoolCreated(c) \/ EnqueueTask(c)
             \/ PollStatus(c) \/ PollResult(c) \/ EndPoll(c)
      PROVE  aqPc'[d] = aqPc[d] /\ saw'[d] = saw[d]
  BY <1>8, ZenonT(30) DEF StartEnqueue, StartPoll, GetPool, PoolCreated, EnqueueTask, PollStatus,
              PollResult, EndPoll, AqGo, ArqTypes
<1>9. CASE \E c \in ArqCalls :
             \/ StartEnqueue(c) \/ StartPoll(c) \/ PoolCreated(c) \/ EnqueueTask(c)
             \/ PollStatus(c) \/ PollResult(c) \/ EndPoll(c)
  BY <1>3, <1>4, <1>5, <1>6, <1>7, <1>8, <1>9, Zenon DEF PollInv
<1>10. CASE ClosePool \/ \E j \in ArqJobIds : ArqWorker(j)
  BY <1>3, <1>10, Zenon DEF PollInv, ClosePool, ArqWorker
<1> QED BY <1>9, <1>10, Zenon DEF ArqNext

(* For any number of requests, jobs and pools: without overlapping         *)
(* creations one pool is open at most, the cached one, and a poll that     *)
(* reports an outcome reports the job's own.                               *)
THEOREM ArqTheorem == ArqSpec => []PollsAndPoolHold
<1>1. ArqInit => ArqInv
  <2> SUFFICES ASSUME ArqInit PROVE ArqInv
    BY Zenon
  <2>1. ArqTypes
    BY Zenon DEF ArqInit, ArqTypes, ArqPhases, JobStates, NoAnswer
  <2>2. PoolInv
    BY Zenon DEF ArqInit, PoolInv, Connecting
  <2>3. EnqueueInv /\ PollInv
    BY Zenon DEF ArqInit, EnqueueInv, Enqueuing, PollInv, PollOK, NoAnswer
  <2> QED BY <2>1, <2>2, <2>3, Zenon DEF ArqInv
<1>2. ArqInv /\ [ArqNext]_arqVars => ArqInv'
  <2>1. ArqInv /\ ArqNext => ArqInv'
    BY ArqStepTypes, ArqStepPool, ArqStepEnqueue, ArqStepPoll, Zenon DEF ArqInv
  <2>2. ASSUME ArqInv, UNCHANGED arqVars PROVE ArqInv'
    <3> USE <2>2 DEF ArqInv, arqVars
    <3>1. ArqTypes'
      BY Zenon DEF ArqTypes
    <3>2. PoolInv'
      BY ZenonT(30) DEF PoolInv, Connecting
    <3>3. EnqueueInv' /\ PollInv'
      BY Zenon DEF EnqueueInv, PollInv, PollOK
    <3> QED BY <3>1, <3>2, <3>3, Zenon
  <2> QED BY <2>1, <2>2, Zenon
<1>3. ArqInv => PollsAndPoolHold
  BY Zenon DEF ArqInv, ArqTypes, PoolInv, PollInv, PollOK, PollsAndPoolHold,
       OnePoolUnlessOverlap, PollTellsOutcome
<1> QED BY <1>1, <1>2, <1>3, PTL DEF ArqSpec

-----------------------------------------------------------------------------
(***************************************************************************)
(* The UUIDv7 and ULID generators: Identifiers.tla.                        *)
(***************************************************************************)

(* The types of the generator's state. *)
IdTypes ==
  /\ wallMs \in Nat /\ wraps \in Nat
  /\ nowMs \in [IdThreads -> Nat]
  /\ lastV7 \in [ms : Nat, seq : 0 .. SeqModulus - 1]
  /\ lastUlid \in [ms : Nat, seq : Nat]

(* The generators keep the types of their state.                           *)
LEMMA IdentifierStepTypes == IdTypes /\ [IdNext]_idVars => IdTypes'
<1> SUFFICES ASSUME IdTypes, [IdNext]_idVars PROVE IdTypes'
  BY Zenon
<1> USE IdentifierAssumption DEF IdTypes
<1>1. CASE ClockMoves
  BY <1>1 DEF ClockMoves
<1>2. ASSUME NEW t \in IdThreads, ReadClock(t) PROVE IdTypes'
  BY <1>2, Zenon DEF ReadClock
<1>3. ASSUME NEW t \in IdThreads, GenerateUuidv7(t) PROVE IdTypes'
  <2>1. PICK seed \in SeqSeeds : lastV7' = NextV7(lastV7, nowMs[t], seed)
    BY <1>3, Zenon DEF GenerateUuidv7
  <2>2. lastV7' \in [ms : Nat, seq : 0 .. SeqModulus - 1]
    BY <2>1 DEF NextV7
  <2>3. QED BY <1>3, <2>2 DEF GenerateUuidv7, Done
<1>4. ASSUME NEW t \in IdThreads, GenerateUlid(t) PROVE IdTypes'
  BY <1>4 DEF GenerateUlid, NextUlid, Done
<1>5. CASE UNCHANGED idVars
  BY <1>5, Zenon DEF idVars
<1>6. QED BY <1>1, <1>2, <1>3, <1>4, <1>5, Zenon DEF IdNext

(* Under the lock a generator either moves to a later millisecond or       *)
(* counts up in the one it is in, wherever the clock has gone.             *)
LEMMA IdentifierStepAscends ==
  IdTypes /\ [IdNext]_idVars =>
    /\ lastUlid' # lastUlid => Earlier(lastUlid, lastUlid')
    /\ lastV7' # lastV7 => Earlier(lastV7, lastV7') \/ wraps' > wraps
<1> SUFFICES ASSUME IdTypes, [IdNext]_idVars
             PROVE  /\ lastUlid' # lastUlid => Earlier(lastUlid, lastUlid')
                    /\ lastV7' # lastV7 => Earlier(lastV7, lastV7') \/ wraps' > wraps
  BY Zenon
<1> USE IdentifierAssumption DEF IdTypes
<1>1. ASSUME NEW t \in IdThreads, GenerateUuidv7(t)
      PROVE  lastUlid' = lastUlid /\ (Earlier(lastV7, lastV7') \/ wraps' > wraps)
  <2>1. PICK seed \in SeqSeeds : lastV7' = NextV7(lastV7, nowMs[t], seed)
    BY <1>1, Zenon DEF GenerateUuidv7
  <2>2. CASE nowMs[t] > lastV7.ms
    BY <1>1, <2>1, <2>2, Zenon DEF GenerateUuidv7, NextV7, Earlier
  <2>3. CASE nowMs[t] <= lastV7.ms /\ lastV7.seq + 1 = SeqModulus
    BY <1>1, <2>3 DEF GenerateUuidv7
  <2>4. CASE nowMs[t] <= lastV7.ms /\ lastV7.seq + 1 < SeqModulus
    <3>1. (lastV7.seq + 1) % SeqModulus = lastV7.seq + 1
      BY <2>4
    <3>2. QED BY <1>1, <2>1, <2>4, <3>1 DEF GenerateUuidv7, NextV7, Earlier
  <2>5. QED BY <2>2, <2>3, <2>4
<1>2. ASSUME NEW t \in IdThreads, GenerateUlid(t)
      PROVE  lastV7' = lastV7 /\ Earlier(lastUlid, lastUlid')
  BY <1>2 DEF GenerateUlid, NextUlid, Earlier
<1>3. QED
  BY <1>1, <1>2, Zenon DEF IdNext, ClockMoves, ReadClock, idVars

(* For any number of threads and any movement of the clock: ULIDs ascend   *)
(* strictly, and so do UUIDv7s except where the 12-bit counter wraps.      *)
THEOREM IdentifiersTheorem == IdSpec => IdentifiersAscend
<1>1. IdInit => IdTypes
  BY IdentifierAssumption DEF IdInit, IdTypes
<1>2. QED
  BY <1>1, IdentifierStepTypes, IdentifierStepAscends, PTL
     DEF IdSpec, IdentifiersAscend, UlidsAscend, Uuid7sAscendUntilWrap
=============================================================================
