------------------------------- MODULE XFetch -------------------------------
(***************************************************************************)
(* xfetch_get_or_compute() of CacheService for one key: requests read the  *)
(* envelope, may be drawn to refresh it early under a short Redis lock,    *)
(* compute, give the lock up and store.  Every Redis command may fail, and *)
(* the lock, which carries no owner, is deleted by whoever finishes        *)
(* computing, also by a request that found no envelope and never took it.  *)
(***************************************************************************)
EXTENDS Naturals

CONSTANTS
  XCalls,    \* concurrent requests for the key
  NoXCall

ASSUME XFetchAssumption == NoXCall \notin XCalls

VARIABLES
  xPc,        \* where a request is
  envelope,   \* what Redis holds under the key
  xLock,      \* holder of lock:<key>:recompute
  early,      \* history: requests that won an early refresh
  unguarded   \* history: a refresh lost the protection of its lock

xfetchVars == <<xPc, envelope, xLock, early, unguarded>>

XFetchInit ==
  /\ xPc = [c \in XCalls |-> "idle"]
  /\ envelope = "none"
  /\ xLock = NoXCall
  /\ early = {}
  /\ unguarded = FALSE

(* A refresh is under its lock until the DEL. *)
Refreshing == {"computing", "computed", "raising"}

XGo(c, l) == xPc' = [xPc EXCEPT ![c] = l]

(* should_recompute() is certain past the logical expiry and a draw before *)
(* it: the verdicts it can give.                                           *)
ShouldRecompute == IF envelope = "expired" THEN {TRUE} ELSE BOOLEAN

(* GET; a failed read, or an envelope that does not parse, counts as a     *)
(* miss.                                                                   *)
ReadEnvelope(c) ==
  /\ xPc[c] = "idle"
  /\ \/ XGo(c, "computing")
     \/ /\ envelope # "none"
        /\ \E recompute \in ShouldRecompute :
             XGo(c, IF recompute THEN "drawn" ELSE "done")
  /\ UNCHANGED <<envelope, xLock, early, unguarded>>

(* Mutation of TakeRecomputeLock: SET without NX. *)
MutTakeRecomputeLock(c) ==
  /\ xPc[c] = "drawn"
  /\ xLock' = c /\ early' = early \cup {c} /\ XGo(c, "computing")
  /\ UNCHANGED <<envelope, unguarded>>

(* SET lock:<key>:recompute NX EX 10; the loser serves the cached value,   *)
(* and a failing Redis, which may have set the key, lets the request       *)
(* compute as if it had it.                                                *)
TakeRecomputeLock(c) ==
  /\ xPc[c] = "drawn"
  /\ \/ /\ xLock = NoXCall
        /\ xLock' = c /\ early' = early \cup {c} /\ XGo(c, "computing")
        /\ UNCHANGED unguarded
     \/ /\ xLock # NoXCall
        /\ XGo(c, "done")
        /\ UNCHANGED <<xLock, early, unguarded>>
     \/ /\ early' = early \cup {c} /\ XGo(c, "computing")
        /\ unguarded' = TRUE
        /\ \/ xLock = NoXCall /\ xLock' = c
           \/ UNCHANGED xLock
  /\ UNCHANGED <<envelope>>

(* compute_func() returns or raises. *)
Compute(c) ==
  /\ xPc[c] = "computing"
  /\ XGo(c, "computed") \/ XGo(c, "raising")
  /\ UNCHANGED <<envelope, xLock, early, unguarded>>

(* The finally: DEL of the lock, whoever holds it; the DEL may fail. *)
ReleaseRecomputeLock(c) ==
  /\ \/ xPc[c] = "computed" /\ XGo(c, "storing")
     \/ xPc[c] = "raising" /\ XGo(c, "done")
  /\ \/ /\ xLock' = NoXCall
        /\ unguarded' = (unguarded \/ xLock \notin {c, NoXCall})
     \/ UNCHANGED <<xLock, unguarded>>
  /\ UNCHANGED <<envelope, early>>

(* SET of the fresh envelope; a failure is logged and the value returned. *)
StoreEnvelope(c) ==
  /\ xPc[c] = "storing"
  /\ \/ envelope' = "warm"
     \/ UNCHANGED envelope
  /\ XGo(c, "done")
  /\ UNCHANGED <<xLock, early, unguarded>>

(* The logical expiry passes; later Redis drops the key. *)
AgeEnvelope ==
  /\ envelope # "none"
  /\ envelope' = IF envelope = "warm" THEN "expired" ELSE "none"
  /\ UNCHANGED <<xPc, xLock, early, unguarded>>

(* EX 10 runs out. *)
RecomputeLockLapses ==
  /\ xLock # NoXCall
  /\ unguarded' = (unguarded \/ xPc[xLock] \in Refreshing)
  /\ xLock' = NoXCall
  /\ UNCHANGED <<xPc, envelope, early>>

XFetchNext ==
  \/ AgeEnvelope \/ RecomputeLockLapses
  \/ \E c \in XCalls :
       \/ ReadEnvelope(c) \/ TakeRecomputeLock(c) \/ Compute(c)
       \/ ReleaseRecomputeLock(c) \/ StoreEnvelope(c)

XFetchSpec == XFetchInit /\ [][XFetchNext]_xfetchVars

-----------------------------------------------------------------------------

(* Concurrent requests drawn for an early refresh do not compute together, *)
(* unless Redis failed, the lock outlived its ten seconds under its        *)
(* holder, or a request that never held it (a hard miss) deleted it.       *)
OneEarlyRefresh ==
  unguarded \/ \A c, d \in early : xPc[c] \in Refreshing /\ xPc[d] \in Refreshing => c = d
=============================================================================
