---------------------------- MODULE CatalogPaging ----------------------------
(***************************************************************************)
(* The catalog on a primary database with a read replica that lags behind: *)
(* items are inserted on the primary, keyset pages are read from the       *)
(* replica, and a RoutingUnitOfWork writes on the primary and reads from   *)
(* the replica until it has written.  An item is its (created_at, id); the *)
(* first is taken from a clock before the insert, so ids need not follow.  *)
(***************************************************************************)
EXTENDS Integers, Sequences, FiniteSets, SequencesExt

CONSTANTS
  Pagers,      \* clients that follow next_cursor to the end
  UnitsOfWork, \* RoutingUnitOfWork instances
  PageLimit,   \* limit
  Stamps,      \* values of created_at
  SessionOffset, \* time zone in which the database returns them
  MaxItems     \* bound on the items inserted

ASSUME CatalogAssumption ==
  PageLimit \in Nat \ {0} /\ Stamps \subseteq Nat /\ SessionOffset \in Int

VARIABLES
  primary,     \* items committed on the primary, in commit order
  lastItem,    \* the last id the table's sequence gave out
  applied,     \* how many of them the replica has
  pgPc,        \* where a pager is
  pgCursor,    \* the tokens it holds: none or one
  pgSeen,      \* the items it was given, in order
  pgStart,     \* history: the replica's items when it began
  uwPc,        \* where a unit of work is
  hasWritten,  \* _has_written
  unsaved,     \* items flushed in its primary session and not committed
  wrote,       \* history: the items it inserted and did not roll back
  fetched      \* history: the items its last read returned

catalogVars == <<primary, lastItem, applied, pgPc, pgCursor, pgSeen, pgStart,
                 uwPc, hasWritten, unsaved, wrote, fetched>>
pagerVars == <<pgPc, pgCursor, pgSeen, pgStart>>
uowVars == <<uwPc, hasWritten, unsaved, wrote, fetched>>

CatalogInit ==
  /\ primary = <<>> /\ lastItem = 0 /\ applied = 0
  /\ pgPc = [p \in Pagers |-> "idle"]
  /\ pgCursor = [p \in Pagers |-> <<>>]
  /\ pgSeen = [p \in Pagers |-> <<>>]
  /\ pgStart = [p \in Pagers |-> {}]
  /\ uwPc = [u \in UnitsOfWork |-> "closed"]
  /\ hasWritten = [u \in UnitsOfWork |-> FALSE]
  /\ unsaved = [u \in UnitsOfWork |-> <<>>]
  /\ wrote = [u \in UnitsOfWork |-> {}]
  /\ fetched = [u \in UnitsOfWork |-> {}]

Replica == ToSet(SubSeq(primary, 1, applied))

(* The row of an insert: created_at by the application, id by the database. *)
CatalogItem(stamp) == <<stamp, lastItem + 1>>

NextId == lastItem < MaxItems /\ lastItem' = lastItem + 1

(* create_item(): the insert and its commit. *)
CreateItem(stamp) ==
  /\ NextId
  /\ primary' = Append(primary, CatalogItem(stamp))
  /\ UNCHANGED <<applied, pagerVars, uowVars>>

(* The replica applies the next commit (external: the database). *)
Replicate ==
  /\ applied < Len(primary)
  /\ applied' = applied + 1
  /\ UNCHANGED <<primary, lastItem, pagerVars, uowVars>>

(* (created_at, id) < (:created_at, :id), compared as tuples. *)
Older(a, b) == a[1] < b[1] \/ (a[1] = b[1] /\ a[2] < b[2])
Newer(a, b) == Older(b, a)

(* Mutation of Seek: created_at alone is compared. *)
MutSeek(items, cursor) ==
  IF cursor = <<>> THEN items ELSE {i \in items : i[1] < cursor[1]}

(* The WHERE clause of get_paginated_items_keyset(). *)
Seek(items, cursor) ==
  IF cursor = <<>> THEN items ELSE {i \in items : Older(i, cursor)}

(* created_at of a row as the driver returns it: a wall time and its offset *)
(* (0 also for the naive times of SQLite, which are taken as UTC).          *)
RowTime(item) == [wall |-> item[1] + SessionOffset, offset |-> SessionOffset]

(* CursorCodec: the token carries the time in UTC and the id; what does not *)
(* parse, or is no pair, is refused.                                        *)
EncodeCursor(time, id) == [utc |-> time.wall - time.offset, tie |-> id]
DecodeCursor(token) == <<token.utc, token.tie>>

(* get_paginated_items_keyset(): limit + 1 rows, the extra one only tells  *)
(* that there are more, and the cursor is the last row given.              *)
KeysetPage(items, cursor) ==
  LET rows    == SetToSortSeq(Seek(items, cursor), Newer)
      hasMore == Len(rows) > PageLimit
      page    == SubSeq(rows, 1, IF hasMore THEN PageLimit ELSE Len(rows))
  IN  [items   |-> page,
       hasMore |-> hasMore,
       next    |-> IF hasMore /\ page # <<>>
                   THEN <<EncodeCursor(RowTime(Last(page)), Last(page)[2])>> ELSE <<>>]

(* GET /catalog/items/keyset, with the cursor of the page before. *)
GetKeysetPage(p) ==
  LET cursor == IF pgCursor[p] = <<>> THEN <<>> ELSE DecodeCursor(pgCursor[p][1])
      page   == KeysetPage(Replica, cursor)
  IN  /\ pgPc[p] \in {"idle", "paging"}
      /\ pgStart' = [pgStart EXCEPT ![p] = IF pgPc[p] = "idle" THEN Replica ELSE @]
      /\ pgSeen' = [pgSeen EXCEPT ![p] = @ \o page.items]
      /\ pgCursor' = [pgCursor EXCEPT ![p] = page.next]
      /\ pgPc' = [pgPc EXCEPT ![p] = IF page.hasMore THEN "paging" ELSE "end"]
      /\ UNCHANGED <<primary, lastItem, applied, uowVars>>

(* The same with a cursor that is none: InvalidCursorException. *)
RefuseCursor(p) ==
  /\ pgPc[p] = "idle"
  /\ pgPc' = [pgPc EXCEPT ![p] = "refused"]
  /\ UNCHANGED <<primary, lastItem, applied, pgCursor, pgSeen, pgStart, uowVars>>

(* __aenter__(): both sessions are opened; _has_written is not reset. *)
EnterUow(u) ==
  /\ uwPc[u] = "closed"
  /\ uwPc' = [uwPc EXCEPT ![u] = "open"]
  /\ UNCHANGED <<primary, lastItem, applied, pagerVars, hasWritten, unsaved, wrote, fetched>>

(* active_write_session, or a repository accessor. *)
MarkWritten(u) == hasWritten' = [hasWritten EXCEPT ![u] = TRUE]

(* execute_write(), or create() of a repository: flushed on the primary. *)
ExecuteWrite(u, stamp) ==
  /\ uwPc[u] # "closed"
  /\ NextId
  /\ MarkWritten(u)
  /\ unsaved' = [unsaved EXCEPT ![u] = Append(@, CatalogItem(stamp))]
  /\ wrote' = [wrote EXCEPT ![u] = @ \cup {CatalogItem(stamp)}]
  /\ uwPc' = [uwPc EXCEPT ![u] = "open"]
  /\ UNCHANGED <<primary, applied, pagerVars, fetched>>

(* commit(): the flushed items are on the primary; the block stays open. *)
CommitUow(u) ==
  /\ uwPc[u] # "closed" /\ unsaved[u] # <<>>
  /\ primary' = primary \o unsaved[u]
  /\ unsaved' = [unsaved EXCEPT ![u] = <<>>]
  /\ UNCHANGED <<lastItem, applied, pagerVars, uwPc, hasWritten, wrote, fetched>>

(* active_read_session: what a read of the unit of work sees. *)
ActiveReadSession(u) ==
  IF hasWritten[u] THEN ToSet(primary \o unsaved[u]) ELSE Replica

(* execute_read(). *)
ExecuteRead(u) ==
  /\ uwPc[u] # "closed"
  /\ fetched' = [fetched EXCEPT ![u] = ActiveReadSession(u)]
  /\ uwPc' = [uwPc EXCEPT ![u] = "read"]
  /\ UNCHANGED <<primary, lastItem, applied, pagerVars, hasWritten, unsaved, wrote>>

(* get_product() and list_products() read through the accessor of the      *)
(* repository, which marks the unit of work as written: the primary.       *)
RepositoryRead(u) ==
  /\ uwPc[u] # "closed"
  /\ MarkWritten(u)
  /\ fetched' = [fetched EXCEPT ![u] = ToSet(primary \o unsaved[u])]
  /\ uwPc' = [uwPc EXCEPT ![u] = "read"]
  /\ UNCHANGED <<primary, lastItem, applied, pagerVars, unsaved, wrote>>

(* __aexit__(): rolled back after an exception, and both sessions closed:  *)
(* either way what was not committed is gone.                              *)
LeaveUow(u) ==
  /\ uwPc[u] # "closed"
  /\ uwPc' = [uwPc EXCEPT ![u] = "closed"]
  /\ unsaved' = [unsaved EXCEPT ![u] = <<>>]
  /\ wrote' = [wrote EXCEPT ![u] = @ \ ToSet(unsaved[u])]
  /\ UNCHANGED <<primary, lastItem, applied, pagerVars, hasWritten, fetched>>

CatalogNext ==
  \/ \E s \in Stamps : CreateItem(s) \/ \E u \in UnitsOfWork : ExecuteWrite(u, s)
  \/ Replicate
  \/ \E p \in Pagers : GetKeysetPage(p) \/ RefuseCursor(p)
  \/ \E u \in UnitsOfWork :
        EnterUow(u) \/ CommitUow(u) \/ ExecuteRead(u) \/ RepositoryRead(u) \/ LeaveUow(u)

CatalogSpec == CatalogInit /\ [][CatalogNext]_catalogVars

(* A client that follows the cursors gets items in order and none twice,   *)
(* and at the end every item the replica had when it began, though items   *)
(* with any timestamp, equal ones included, are inserted between pages.    *)
PagingExact ==
  \A p \in Pagers :
    /\ \A i, j \in DOMAIN pgSeen[p] : i < j => Newer(pgSeen[p][i], pgSeen[p][j])
    /\ pgPc[p] = "end" => pgStart[p] \subseteq ToSet(pgSeen[p])

(* Read-your-own-writes: a unit of work reads everything it has written,   *)
(* however far the replica lags.                                           *)
ReadsOwnWrites ==
  \A u \in UnitsOfWork : uwPc[u] = "read" => wrote[u] \subseteq fetched[u]

(* What is read while the replica lags: pages are exact, and a unit of     *)
(* work reads its own writes.                                              *)
ReplicaReadsHold == PagingExact /\ ReadsOwnWrites
=============================================================================
