--------------------------- MODULE FallbackEngine ---------------------------
(***************************************************************************)
(* execute_with_fallback() behind the recommendations of one user: the     *)
(* live call, then the cached copy, then the static default.  Every Redis  *)
(* command may fail, and requests, seeding and expiry interleave on the    *)
(* one cache entry.  A result is the number of the call that computed it.  *)
(***************************************************************************)
EXTENDS Naturals

CONSTANTS FbCalls, MaxResults   \* MaxResults bounds the live computations

NoResult == 0

VARIABLES
  fbPc,        \* where a request is
  fbItems,     \* raw_items
  level,       \* DegradationLevel answered with
  recs,        \* recs:user:<id> in Redis
  resultCount  \* history: live results computed so far

fallbackVars == <<fbPc, fbItems, level, recs, resultCount>>

FallbackInit ==
  /\ fbPc = [c \in FbCalls |-> "idle"]
  /\ fbItems = [c \in FbCalls |-> NoResult]
  /\ level = [c \in FbCalls |-> "none"]
  /\ recs = NoResult
  /\ resultCount = 0

FbGo(c, l) == fbPc' = [fbPc EXCEPT ![c] = l]

(* primary_ai_call(): a live result, or the outage. *)
PrimaryAiCall(c) ==
  /\ fbPc[c] = "idle"
  /\ \/ /\ resultCount < MaxResults
        /\ resultCount' = resultCount + 1
        /\ fbItems' = [fbItems EXCEPT ![c] = resultCount + 1]
        /\ FbGo(c, "caching")
     \/ FbGo(c, "degraded") /\ UNCHANGED <<fbItems, resultCount>>
  /\ UNCHANGED <<level, recs>>

(* _safe_cache_set(): a failing SET is swallowed. *)
SafeCacheSet(c) ==
  /\ recs' \in {fbItems[c], recs}
  /\ FbGo(c, "answering")

(* Tier 1: the copy is refreshed before the live result is returned. *)
TierPrimary(c) ==
  /\ fbPc[c] = "caching"
  /\ SafeCacheSet(c)
  /\ level' = [level EXCEPT ![c] = "PRIMARY"]
  /\ UNCHANGED <<fbItems, resultCount>>

(* _safe_cache_get(): the copy, or None when it is missing or Redis fails. *)
SafeCacheGet(c, items) ==
  /\ items \in {recs, NoResult}
  /\ FbGo(c, "answering")

(* Tiers 2 and 3: the stale copy, or else the static default. *)
TierStale(c) ==
  /\ fbPc[c] = "degraded"
  /\ \E items \in 0 .. MaxResults :
       /\ SafeCacheGet(c, items)
       /\ fbItems' = [fbItems EXCEPT ![c] = items]
       /\ level' = [level EXCEPT ![c] =
                      IF items = NoResult THEN "STATIC_DEFAULT" ELSE "STALE_CACHE"]
  /\ UNCHANGED <<recs, resultCount>>

(* get_personalized_recommendations_endpoint(): the level goes out in the  *)
(* headers and the request is over.                                        *)
AnswerTier(c) ==
  /\ fbPc[c] = "answering"
  /\ FbGo(c, "answered")
  /\ UNCHANGED <<fbItems, level, recs, resultCount>>

(* seed_user_cache() primes the copy; the entry expires by its TTL. *)
SeedUserCache ==
  /\ resultCount < MaxResults
  /\ resultCount' = resultCount + 1
  /\ recs' \in {resultCount + 1, recs}
  /\ UNCHANGED <<fbPc, fbItems, level>>

ExpireRecs ==
  /\ recs # NoResult
  /\ recs' = NoResult
  /\ UNCHANGED <<fbPc, fbItems, level, resultCount>>

FallbackStep(c) == PrimaryAiCall(c) \/ TierPrimary(c) \/ TierStale(c) \/ AnswerTier(c)

FallbackNext == (\E c \in FbCalls : FallbackStep(c)) \/ SeedUserCache \/ ExpireRecs

FallbackFairness == \A c \in FbCalls : WF_fallbackVars(FallbackStep(c))

FallbackSpec == FallbackInit /\ [][FallbackNext]_fallbackVars /\ FallbackFairness

(* Every request is answered whatever fails: the ladder never raises.      *)
EveryRequestAnswered ==
  \A c \in FbCalls : fbPc[c] \in {"caching", "degraded"} ~> fbPc[c] = "answered"
=============================================================================
