---------------------------- MODULE ExclusiveJob ----------------------------
(***************************************************************************)
(* execute_exclusive_job() on several workers, with the DistributedLock of *)
(* core/dsa: one SET NX PX, no retry, released by a script that compares   *)
(* the token.  A worker may crash, and the lease may lapse, at any point.  *)
(***************************************************************************)
EXTENDS Naturals, FiniteSets

CONSTANTS
  ExWorkers,   \* requests for one job name; each acquisition has its own token
  NoToken

ASSUME ExclusiveAssumption == NoToken \notin ExWorkers

VARIABLES
  exPc,      \* where a request is
  exKey,     \* value of lock:<job_name>: the token of a request
  lapsed     \* history: requests whose lease lapsed while they held it

exclusiveVars == <<exPc, exKey, lapsed>>

ExclusiveInit ==
  /\ exPc = [w \in ExWorkers |-> "idle"]
  /\ exKey = NoToken
  /\ lapsed = {}

ExGo(w, l) == exPc' = [exPc EXCEPT ![w] = l]

(* acquire(): SET lock:<name> <token> NX PX. *)
SetNx(w) ==
  \/ /\ exKey = NoToken
     /\ exKey' = w
     /\ ExGo(w, "running")
  \/ /\ exKey # NoToken
     /\ ExGo(w, "conflict")
     /\ UNCHANGED exKey

AcquireExclusive(w) ==
  /\ exPc[w] = "idle"
  /\ SetNx(w)
  /\ UNCHANGED lapsed

(* Mutation of ReleaseScript: DEL without comparing the token. *)
MutReleaseScript(w) == exKey' = NoToken

(* _RELEASE_LUA_SCRIPT: compare and delete. *)
ReleaseScript(w) ==
  \/ exKey = w /\ exKey' = NoToken
  \/ exKey # w /\ UNCHANGED exKey

(* The finally of execute_exclusive_job(); the call may also fail. *)
ReleaseExclusive(w) ==
  /\ exPc[w] = "running"
  /\ \/ ReleaseScript(w)
     \/ UNCHANGED exKey
  /\ ExGo(w, "done")
  /\ UNCHANGED lapsed

(* The process dies in the critical section. *)
CrashExclusive(w) ==
  /\ exPc[w] = "running"
  /\ ExGo(w, "crashed")
  /\ UNCHANGED <<exKey, lapsed>>

(* PX runs out. *)
LeaseLapses ==
  /\ exKey # NoToken
  /\ lapsed' = IF exPc[exKey] = "running" THEN lapsed \cup {exKey} ELSE lapsed
  /\ exKey' = NoToken
  /\ UNCHANGED exPc

ExclusiveNext ==
  \/ LeaseLapses
  \/ \E w \in ExWorkers : AcquireExclusive(w) \/ ReleaseExclusive(w) \/ CrashExclusive(w)

ExclusiveSpec == ExclusiveInit /\ [][ExclusiveNext]_exclusiveVars

-----------------------------------------------------------------------------

(* The mutual exclusion the endpoint documents, and its limit: two         *)
(* requests run the job at once only after the lease of one lapsed under   *)
(* it, and a late release never frees the lease of the next holder.        *)
ExclusiveUnlessLapsed ==
  /\ \A v, w \in ExWorkers :
       v # w /\ exPc[v] = "running" /\ exPc[w] = "running" => {v, w} \cap lapsed # {}
  /\ \A w \in ExWorkers : exPc[w] = "running" /\ w \notin lapsed => exKey = w
=============================================================================
