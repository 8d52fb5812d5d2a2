----------------------------- MODULE ViewCounter -----------------------------
(***************************************************************************)
(* Write-behind profile views of one user: record_view() counts in Redis,  *)
(* sync_pending_views_to_db() moves the pending count to the repository,   *)
(* get_user_views() adds the two.  Any Redis call may fail before it takes *)
(* effect or lose its answer afterwards.                                   *)
(***************************************************************************)
EXTENDS Naturals, FiniteSets

CONSTANTS
  Viewers,    \* calls of record_view()
  Flushers,   \* calls of sync_pending_views_to_db()
  Readers     \* calls of get_user_views()

VARIABLES
  vcPc,        \* where a call is
  pending,     \* REDIS_PENDING_VIEWS_KEY of the user
  dirty,       \* the user is in REDIS_DIRTY_VIEWS_KEY
  viewsStore,  \* _views_store of the repository
  views,       \* record_view() calls that Redis or the repository has counted
  recounted,   \* of these, the ones counted a second time
  dropped,     \* views extracted by a flush that never learned of them
  seen,        \* what a reader has read: the persistent count, then the total
  atStart,     \* the total when a reader began
  flushed      \* a flush ran since the reader began

viewVars == <<vcPc, pending, dirty, viewsStore, views, recounted, dropped, seen, atStart, flushed>>

ViewInit ==
  /\ vcPc = [c \in Viewers \cup Flushers \cup Readers |-> "start"]
  /\ pending = 0 /\ dirty = FALSE /\ viewsStore = 0
  /\ views = 0 /\ recounted = 0 /\ dropped = 0
  /\ seen = [r \in Readers |-> 0]
  /\ atStart = [r \in Readers |-> 0]
  /\ flushed = [r \in Readers |-> FALSE]

VcGo(c, l) == vcPc' = [vcPc EXCEPT ![c] = l]

(* await redis.hincrby(pending, user_id, 1). *)
CountPending(v) ==
  /\ vcPc[v] = "start"
  /\ \/ /\ pending' = pending + 1
        /\ views' = views + 1
        /\ VcGo(v, "sadd") \/ VcGo(v, "fallbackTwice")
     \/ VcGo(v, "fallback") /\ UNCHANGED <<pending, views>>
  /\ UNCHANGED <<dirty, viewsStore, recounted, dropped, seen, atStart, flushed>>

(* await redis.sadd(dirty, user_id), inside the same try. *)
MarkDirty(v) ==
  /\ vcPc[v] = "sadd"
  /\ \/ dirty' = TRUE /\ VcGo(v, "done")
     \/ UNCHANGED dirty /\ VcGo(v, "fallbackTwice")
  /\ UNCHANGED <<pending, viewsStore, views, recounted, dropped, seen, atStart, flushed>>

(* increment_views_batch({user_id: n}). *)
IncrementViewsBatch(n) == viewsStore' = viewsStore + n

(* The except branch: the view is counted in the repository, whatever      *)
(* Redis has already counted of it.                                        *)
DatabaseFallback(v) ==
  /\ vcPc[v] \in {"fallback", "fallbackTwice"}
  /\ IncrementViewsBatch(1)
  /\ IF vcPc[v] = "fallback"
     THEN views' = views + 1 /\ UNCHANGED recounted
     ELSE recounted' = recounted + 1 /\ UNCHANGED views
  /\ VcGo(v, "done")
  /\ UNCHANGED <<pending, dirty, dropped, seen, atStart, flushed>>

(* Mutation of SyncPendingViews: hgetall and delete in two round trips,    *)
(* so the delete drops what arrived between them.                          *)
MutSyncPendingViews(f) ==
  \/ /\ vcPc[f] = "start"
     /\ IncrementViewsBatch(pending)
     /\ VcGo(f, "delete")
     /\ flushed' = [r \in Readers |-> TRUE]
     /\ UNCHANGED <<pending, dirty, views, recounted, dropped, seen, atStart>>
  \/ /\ vcPc[f] = "delete"
     /\ pending' = 0 /\ dirty' = FALSE
     /\ VcGo(f, "done")
     /\ UNCHANGED <<viewsStore, views, recounted, dropped, seen, atStart, flushed>>

(* The MULTI/EXEC pipeline, then increment_views_batch() without a         *)
(* suspension between.  When the answer of EXEC is lost the views are      *)
(* extracted and dropped ("redis_error").                                  *)
SyncPendingViews(f) ==
  /\ vcPc[f] = "start"
  /\ \/ /\ pending' = 0 /\ dirty' = FALSE
        /\ \/ IncrementViewsBatch(pending) /\ UNCHANGED dropped
           \/ dropped' = dropped + pending /\ UNCHANGED viewsStore
        /\ flushed' = [r \in Readers |-> TRUE]
     \/ UNCHANGED <<pending, dirty, viewsStore, dropped, flushed>>
  /\ VcGo(f, "done")
  /\ UNCHANGED <<views, recounted, seen, atStart>>

(* get_user_views(): the repository's count, then Redis' (0 on error). *)
ReadViews(r) ==
  /\ \/ /\ vcPc[r] = "start"
        /\ seen' = [seen EXCEPT ![r] = viewsStore]
        /\ atStart' = [atStart EXCEPT ![r] = viewsStore + pending]
        /\ flushed' = [flushed EXCEPT ![r] = FALSE]
        /\ VcGo(r, "pending")
     \/ /\ vcPc[r] = "pending"
        /\ \/ seen' = [seen EXCEPT ![r] = @ + pending] /\ UNCHANGED flushed
           \/ UNCHANGED seen /\ flushed' = [flushed EXCEPT ![r] = TRUE]
        /\ VcGo(r, "done")
        /\ UNCHANGED atStart
  /\ UNCHANGED <<pending, dirty, viewsStore, views, recounted, dropped>>

ViewNext ==
  \/ \E v \in Viewers : CountPending(v) \/ MarkDirty(v) \/ DatabaseFallback(v)
  \/ \E f \in Flushers : SyncPendingViews(f)
  \/ \E r \in Readers : ReadViews(r)

ViewSpec == ViewInit /\ [][ViewNext]_viewVars

(* Views and flushes may interleave as they like: the two counts together  *)
(* are the views recorded, short only of a flush whose answer was lost and *)
(* over only by views Redis had counted before it failed.                  *)
ViewsAddUp == viewsStore + pending + dropped = views + recounted

(* A reader never sees more views than there are, and sees all there were  *)
(* when it began unless a flush ran between its two reads or the second    *)
(* one failed.                                                             *)
ReadTotalsHonest ==
  \A r \in Readers : vcPc[r] = "done" =>
    /\ seen[r] <= viewsStore + pending + dropped
    /\ ~flushed[r] => seen[r] >= atStart[r]

(* Views are neither lost nor invented, in the counts and in what a reader *)
(* is told.                                                                *)
ViewsTold == ViewsAddUp /\ ReadTotalsHonest
=============================================================================
