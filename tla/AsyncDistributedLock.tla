------------------------ MODULE AsyncDistributedLock ------------------------
(***************************************************************************)
(* The Redis lock manager of app/core/distributed_lock.py.  A worker is    *)
(* one coroutine inside acquire_multiple(): it takes its keys one by one   *)
(* in ascending order with SET NX PX, runs the body of the context         *)
(* manager, and gives the keys back in reverse order with the              *)
(* compare-and-delete Lua script.  The uuid4 token of an acquisition is    *)
(* represented by the worker, which enters the context manager once.       *)
(*                                                                         *)
(* A key can also disappear because its TTL elapses, a call of Redis can   *)
(* raise before or after the server applied it, and a worker can be        *)
(* cancelled or its process can die at every await: a CancelledError is    *)
(* not an Exception, so nothing is released then.                          *)
(***************************************************************************)
EXTENDS Naturals, FiniteSets

CONSTANTS
  Workers,   \* coroutines, each entering acquire_multiple() at most once
  Keys,      \* resource keys; their order as numbers is the sort order
  NoOwner,   \* value of a key that Redis does not hold
  Timely     \* TRUE: no TTL elapses while the worker that set it is running

ASSUME LockAssumption ==
  /\ Keys \subseteq Nat
  /\ NoOwner \notin Workers
  /\ Timely \in BOOLEAN

VARIABLES
  lock,      \* the key space of Redis: key -> token
  wanted,    \* unique_sorted_keys of a worker
  acquired,  \* the keys of acquired_locks; their order is the order of Keys
  lpc        \* where a worker is in acquire_multiple()

lockVars == <<lock, wanted, acquired, lpc>>

LockStates == {"idle", "acquiring", "holding", "releasing", "rolling_back",
               "released", "failed", "gone"}

(* The loop variable r_key of the acquisition loop. *)
NextKey(w, k) ==
  /\ k \in wanted[w] \ acquired[w]
  /\ \A j \in wanted[w] \ acquired[w] : k <= j

(* The loop variable of the release loop, reversed(acquired_locks). *)
LastKey(w, k) ==
  /\ k \in acquired[w]
  /\ \A j \in acquired[w] : j <= k

-----------------------------------------------------------------------------

LockInit ==
  /\ lock = [k \in Keys |-> NoOwner]
  /\ wanted = [w \in Workers |-> {}]
  /\ acquired = [w \in Workers |-> {}]
  /\ lpc = [w \in Workers |-> "idle"]

Enter(w, ks) ==
  /\ lpc[w] = "idle"
  /\ ks # {}
  /\ wanted' = [wanted EXCEPT ![w] = ks]
  /\ lpc' = [lpc EXCEPT ![w] = "acquiring"]
  /\ UNCHANGED <<lock, acquired>>

(* SET key token NX PX ttl succeeds. *)
SetNX(w, k) ==
  /\ lock[k] = NoOwner
  /\ lock' = [lock EXCEPT ![k] = w]

Acquire(w) ==
  /\ lpc[w] = "acquiring"
  /\ \E k \in Keys :
       /\ NextKey(w, k)
       /\ SetNX(w, k)
       /\ acquired' = [acquired EXCEPT ![w] = @ \cup {k}]
       /\ lpc' = [lpc EXCEPT ![w] = IF wanted[w] \subseteq acquired[w] \cup {k}
                                    THEN "holding" ELSE "acquiring"]
  /\ UNCHANGED wanted

(* The except branch starts: nothing to give back ends it at once. *)
RollBackFrom(w) ==
  lpc' = [lpc EXCEPT ![w] = IF acquired[w] = {} THEN "failed" ELSE "rolling_back"]

(* The deadline passes while another worker has the key. *)
AcquireTimeout(w) ==
  /\ lpc[w] = "acquiring"
  /\ \E k \in Keys : NextKey(w, k) /\ lock[k] # NoOwner
  /\ RollBackFrom(w)
  /\ UNCHANGED <<lock, wanted, acquired>>

(* A SET whose answer never arrives may or may not have been applied. *)
UnansweredSet(w) ==
  \/ UNCHANGED lock
  \/ \E k \in Keys : NextKey(w, k) /\ SetNX(w, k)

(* The SET raises: the token is not in acquired_locks. *)
AcquireError(w) ==
  /\ lpc[w] = "acquiring"
  /\ UnansweredSet(w)
  /\ RollBackFrom(w)
  /\ UNCHANGED <<wanted, acquired>>

(* The body of the context manager returns. *)
Leave(w) ==
  /\ lpc[w] = "holding"
  /\ lpc' = [lpc EXCEPT ![w] = "releasing"]
  /\ UNCHANGED <<lock, wanted, acquired>>

(* The body of the context manager raises. *)
Raise(w) ==
  /\ lpc[w] = "holding"
  /\ lpc' = [lpc EXCEPT ![w] = "rolling_back"]
  /\ UNCHANGED <<lock, wanted, acquired>>

(* Mutation of CompareAndDelete: DEL without comparing the token. *)
MutDelete(w, k) == lock' = [lock EXCEPT ![k] = NoOwner]

(* _RELEASE_LUA_SCRIPT: delete the key when it still holds the token. *)
CompareAndDelete(w, k) ==
  lock' = [lock EXCEPT ![k] = IF lock[k] = w THEN NoOwner ELSE lock[k]]

(* One turn of the release loop; release() swallows an error of Redis. *)
Release(w) ==
  /\ lpc[w] \in {"releasing", "rolling_back"}
  /\ \E k \in Keys :
       /\ LastKey(w, k)
       /\ \/ CompareAndDelete(w, k)
          \/ UNCHANGED lock
       /\ acquired' = [acquired EXCEPT ![w] = @ \ {k}]
       /\ lpc' = [lpc EXCEPT ![w] = IF acquired[w] # {k} THEN lpc[w]
                                    ELSE IF lpc[w] = "releasing" THEN "released"
                                    ELSE "failed"]
  /\ UNCHANGED wanted

(* A cancellation or a crash: no branch of acquire_multiple() runs. *)
Cancel(w) ==
  /\ lpc[w] \in {"acquiring", "holding", "releasing", "rolling_back"}
  /\ lpc' = [lpc EXCEPT ![w] = "gone"]
  /\ UNCHANGED <<lock, wanted, acquired>>

(* The owner of k is running and has k in acquired_locks. *)
InUse(k) == \E w \in Workers : lock[k] = w /\ k \in acquired[w] /\ lpc[w] # "gone"

(* The TTL of k elapses. *)
Expire(k) ==
  /\ lock[k] # NoOwner
  /\ Timely => ~InUse(k)
  /\ lock' = [lock EXCEPT ![k] = NoOwner]
  /\ UNCHANGED <<wanted, acquired, lpc>>

(* What a scheduled worker does when nothing fails. *)
WorkerStep(w) ==
  \/ Acquire(w)
  \/ AcquireTimeout(w)
  \/ Leave(w)
  \/ Release(w)

LockNext ==
  \/ \E w \in Workers : \/ \E ks \in SUBSET Keys : Enter(w, ks)
                        \/ WorkerStep(w)
                        \/ AcquireError(w)
                        \/ Raise(w)
                        \/ Cancel(w)
  \/ \E k \in Keys : Expire(k)

(* A coroutine that runs is scheduled, and Redis expires what has a TTL. *)
LockFairness ==
  /\ \A w \in Workers : WF_lockVars(WorkerStep(w))
  /\ \A k \in Keys : WF_lockVars(Expire(k))

LockSafety == LockInit /\ [][LockNext]_lockVars

LockSpec == LockSafety /\ LockFairness

-----------------------------------------------------------------------------

LockTypeOK ==
  /\ lock \in [Keys -> Workers \cup {NoOwner}]
  /\ wanted \in [Workers -> SUBSET Keys]
  /\ acquired \in [Workers -> SUBSET Keys]
  /\ lpc \in [Workers -> LockStates]

(* "Exactly one process across a distributed cluster holds the lock": two  *)
(* workers in the body of acquire_multiple() share no key.                 *)
MutualExclusion ==
  \A v, w \in Workers :
    v # w /\ lpc[v] = "holding" /\ lpc[w] = "holding" => wanted[v] \cap wanted[w] = {}

(* Sorted acquisition: a worker that waits for key k and finds it taken by *)
(* a worker that itself waits for key j has k < j, so no chain of waiting  *)
(* workers closes to a cycle.                                              *)
WaitsFor(w, k, v) ==
  /\ lpc[w] = "acquiring" /\ NextKey(w, k)
  /\ lpc[v] = "acquiring" /\ k \in acquired[v]

WaitsAscend ==
  \A v, w \in Workers : \A k, j \in Keys :
    WaitsFor(w, k, v) /\ NextKey(v, j) => k < j

(* "slow/expired workers never delete locks held by other workers": a key  *)
(* leaves its owner in a release step of the owner or by its TTL.          *)
ForeignLockUntouched ==
  [][\A k \in Keys, w \in Workers :
       lock[k] = w /\ lock'[k] # w =>
         \/ acquired'[w] = acquired[w] \ {k} /\ k \in acquired[w]
         \/ UNCHANGED <<wanted, acquired, lpc>>]_lockVars

(* "Deadlock Elimination: Mandatory millisecond TTLs": whatever happens to *)
(* the worker that set a key (an error, a cancellation, a lost answer),    *)
(* the key does not keep its token for ever.                               *)
EveryLockEnds ==
  \A k \in Keys, w \in Workers : lock[k] = w ~> lock[k] # w
=============================================================================
