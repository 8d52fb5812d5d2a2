----------------------------- MODULE LedgerApi ------------------------------
(***************************************************************************)
(* The ledger's other writers, side by side on the same tables: POST       *)
(* /ledger/accounts and /ledger/entries (LedgerDomainService, one session  *)
(* per request, committed when the handler returns) and POST               *)
(* /ledger/reconciliation/run (LedgerReconciliationService in a unit of    *)
(* work).  A request reads what is committed, inserts rows its transaction *)
(* holds, and commits them together.  An insert whose unique key another   *)
(* open transaction holds waits for it; a statement may fail at any time.  *)
(*                                                                         *)
(* A request is a record with op "account" (number), "entry" (ref, legs)   *)
(* or "batch" (ref, feed, auto); a leg has acct, side and amount, an item  *)
(* of the feed has ref, amount and cur.                                    *)
(***************************************************************************)
EXTENDS Integers, Sequences, SequencesExt, FiniteSets, FiniteSetsExt

CONSTANTS
  ApiCalls,      \* requests in flight
  ApiRequests,   \* what they may ask for
  NoRequest

ASSUME LedgerApiAssumption == NoRequest \notin ApiRequests

VARIABLES
  laPc,       \* where a request is
  laReq,      \* what it asks for
  laPos,      \* item of the feed a batch is at
  foundEntries,      \* entries_by_ref: the rows a batch found
  items,      \* reconciliation_items so far
  tx,         \* rows inserted and not committed
  db          \* committed rows

apiVars == <<laPc, laReq, laPos, foundEntries, items, tx, db>>

ApiInit ==
  /\ laPc = [c \in ApiCalls |-> "idle"]
  /\ laReq = [c \in ApiCalls |-> NoRequest]
  /\ laPos = [c \in ApiCalls |-> 1]
  /\ foundEntries = [c \in ApiCalls |-> {}]
  /\ items = [c \in ApiCalls |-> <<>>]
  /\ tx = [c \in ApiCalls |-> {}]
  /\ db = {}

LaGo(c, l) == laPc' = [laPc EXCEPT ![c] = l]

(* Rows this transaction can read. *)
Visible(c) == db \cup tx[c]
RowsOf(S, t) == {r \in S : r.table = t}
HasKey(S, t, k) == \E r \in S : r.table = t /\ r.key = k

(* An entry that compensates for no other; references are tuples. *)
NotFor == <<>>

AccountRow(c, n) == [table |-> "account", key |-> n, by |-> c]

(* _to_entity and the posting rows: legs carry what balances are made of. *)
EntryRow(c, k, legs, for) ==
  [table |-> "entry", key |-> k, by |-> c, legs |-> legs, for |-> for]

ArriveApi(c, q) ==
  /\ laPc[c] = "idle"
  /\ laReq' = [laReq EXCEPT ![c] = q]
  /\ LaGo(c, q.op)
  /\ UNCHANGED <<laPos, foundEntries, items, tx, db>>

(* Mutation of Insert: the IntegrityError is swallowed. *)
MutInsert(c, row, next) ==
  /\ \A d \in ApiCalls \ {c} : ~HasKey(tx[d], row.table, row.key)
  /\ tx' = [tx EXCEPT ![c] =
       IF HasKey(Visible(c), row.table, row.key) THEN @ ELSE @ \cup {row}]
  /\ LaGo(c, next)

(* session.flush() of an insert: it waits while another open transaction   *)
(* holds the key, and raises IntegrityError when the key is committed.     *)
Insert(c, row, next) ==
  /\ \A d \in ApiCalls \ {c} : ~HasKey(tx[d], row.table, row.key)
  /\ IF HasKey(Visible(c), row.table, row.key)
     THEN tx' = [tx EXCEPT ![c] = {}] /\ LaGo(c, "failed")
     ELSE tx' = [tx EXCEPT ![c] = @ \cup {row}] /\ LaGo(c, next)

(* create_account(): 409 when the number is taken. *)
CreateAccount(c) ==
  /\ laPc[c] = "account"
  /\ LaGo(c, IF HasKey(Visible(c), "account", laReq[c].number) THEN "failed"
             ELSE "insert_account")
  /\ UNCHANGED <<laReq, laPos, foundEntries, items, tx, db>>

InsertAccount(c) ==
  /\ laPc[c] = "insert_account"
  /\ Insert(c, AccountRow(c, laReq[c].number), "commit")
  /\ UNCHANGED <<laReq, laPos, foundEntries, items, db>>

-----------------------------------------------------------------------------

Legs(legs, side) == {i \in DOMAIN legs : legs[i].side = side}
SideTotal(legs, side) ==
  FoldSet(LAMBDA i, acc : legs[i].amount + acc, 0, Legs(legs, side))

(* Steps 2 to 4 of record_journal_entry(). *)
Balanced(legs) ==
  /\ Len(legs) >= 2
  /\ \A i \in DOMAIN legs : legs[i].amount > 0
  /\ SideTotal(legs, "DEBIT") = SideTotal(legs, "CREDIT")

(* record_journal_entry() up to the insert; accounts are never deleted. *)
RecordJournalEntry(c) ==
  LET q == laReq[c] IN
  /\ laPc[c] = "entry"
  /\ LaGo(c, IF /\ ~HasKey(Visible(c), "entry", q.ref)
                /\ Balanced(q.legs)
                /\ \A i \in DOMAIN q.legs : HasKey(Visible(c), "account", q.legs[i].acct)
             THEN "insert_entry" ELSE "failed")
  /\ UNCHANGED <<laReq, laPos, foundEntries, items, tx, db>>

InsertEntry(c) ==
  /\ laPc[c] = "insert_entry"
  /\ Insert(c, EntryRow(c, laReq[c].ref, laReq[c].legs, NotFor), "commit")
  /\ UNCHANGED <<laReq, laPos, foundEntries, items, db>>

-----------------------------------------------------------------------------

(* Steps 1 and 2 of reconcile_settlement_feed(): the batch must be new,    *)
(* then one SELECT fetches the entries the feed names.                     *)
CheckBatch(c) ==
  /\ laPc[c] = "batch"
  /\ LaGo(c, IF HasKey(Visible(c), "batch", laReq[c].ref) THEN "failed" ELSE "fetch")
  /\ UNCHANGED <<laReq, laPos, foundEntries, items, tx, db>>

FetchEntries(c) ==
  /\ laPc[c] = "fetch"
  /\ foundEntries' = [foundEntries EXCEPT ![c] =
       {r \in RowsOf(Visible(c), "entry") :
          \E i \in DOMAIN laReq[c].feed : laReq[c].feed[i].ref = r.key}]
  /\ LaGo(c, "item")
  /\ UNCHANGED <<laReq, laPos, items, tx, db>>

(* _extract_internal_amount(). *)
ExtractInternalAmount(legs, target) ==
  LET debits == Legs(legs, "DEBIT") IN
  IF \E i \in debits : legs[i].amount = target THEN target
  ELSE SideTotal(legs, "DEBIT")

Item(c) == laReq[c].feed[laPos[c]]
FoundRef(c) == {r \in foundEntries[c] : r.key = Item(c).ref}

AddItem(c, status) ==
  /\ items' = [items EXCEPT ![c] = Append(@, [ref |-> Item(c).ref, status |-> status])]
  /\ laPos' = [laPos EXCEPT ![c] = @ + 1]

(* An item whose reference is in the ledger, or is not to be compensated. *)
ClassifyItem(c) ==
  /\ laPc[c] = "item"
  /\ laPos[c] <= Len(laReq[c].feed)
  /\ \/ \E r \in FoundRef(c) :
          AddItem(c, IF ExtractInternalAmount(r.legs, Item(c).amount) = Item(c).amount
                     THEN "RESOLVED" ELSE "MANUAL_REVIEW")
     \/ /\ FoundRef(c) = {} /\ ~laReq[c].auto
        /\ AddItem(c, "UNRESOLVED")
  /\ UNCHANGED <<laPc, laReq, foundEntries, tx, db>>

(* The two clearing accounts of a compensation, in the order they are      *)
(* resolved.                                                               *)
ClearingAccounts(cur) == <<<<"SETTLEMENT-USER", cur>>, <<"GATEWAY-CLEARING", cur>>>>
Missing(c) ==
  /\ laPos[c] <= Len(laReq[c].feed)
  /\ FoundRef(c) = {} /\ laReq[c].auto

(* The lookups of _get_or_create_account(): first one account, then the other. *)
GetOrCreateAccount(c, n) ==
  /\ laPc[c] = <<"item", "second account">>[n]
  /\ Missing(c)
  /\ LaGo(c, IF HasKey(Visible(c), "account", ClearingAccounts(Item(c).cur)[n])
             THEN <<"second account", "compensate">>[n]
             ELSE <<"create first", "create second">>[n])
  /\ UNCHANGED <<laReq, laPos, foundEntries, items, tx, db>>

CreateClearingAccount(c, n) ==
  /\ laPc[c] = <<"create first", "create second">>[n]
  /\ Insert(c, AccountRow(c, ClearingAccounts(Item(c).cur)[n]),
            <<"second account", "compensate">>[n])
  /\ UNCHANGED <<laReq, laPos, foundEntries, items, db>>

(* _create_compensating_entry(): a random reference, so never a conflict. *)
CompensatingLegs(c) ==
  LET i == Item(c) IN
  <<[acct |-> ClearingAccounts(i.cur)[1], side |-> "DEBIT", amount |-> i.amount],
    [acct |-> ClearingAccounts(i.cur)[2], side |-> "CREDIT", amount |-> i.amount]>>

CreateCompensatingEntry(c) ==
  /\ laPc[c] = "compensate"
  /\ Insert(c, EntryRow(c, <<"comp", c, laPos[c]>>, CompensatingLegs(c),
                        Item(c).ref), "item")
  /\ AddItem(c, "AUTO_COMPENSATED")
  /\ UNCHANGED <<laReq, foundEntries, db>>

Count(its, st) == Cardinality({i \in DOMAIN its : its[i].status \in st})

(* The batch and its items. *)
BatchRow(c) ==
  [table |-> "batch", key |-> laReq[c].ref, by |-> c, items |-> items[c],
   matched |-> Count(items[c], {"RESOLVED"}),
   discrepancies |-> Count(items[c], {"MANUAL_REVIEW", "UNRESOLVED", "AUTO_COMPENSATED"})]

CreateBatch(c) ==
  /\ laPc[c] = "item"
  /\ laPos[c] > Len(laReq[c].feed)
  /\ Insert(c, BatchRow(c), "commit")
  /\ UNCHANGED <<laReq, laPos, foundEntries, items, db>>

-----------------------------------------------------------------------------

(* The locals of the request are gone. *)
LeaveApi(c) ==
  /\ laPos' = [laPos EXCEPT ![c] = 1]
  /\ foundEntries' = [foundEntries EXCEPT ![c] = {}]
  /\ items' = [items EXCEPT ![c] = <<>>]

(* session.commit() at the end of the request, or uow.commit(). *)
CommitApi(c) ==
  /\ laPc[c] = "commit"
  /\ db' = db \cup tx[c]
  /\ tx' = [tx EXCEPT ![c] = {}]
  /\ LaGo(c, "ok")
  /\ LeaveApi(c)
  /\ UNCHANGED laReq

ApiOpen(c) == laPc[c] \notin {"idle", "ok", "failed"}

(* An exception leaves the session or the unit of work, which rolls back. *)
RollBack(c) ==
  /\ LaGo(c, "failed")
  /\ tx' = [tx EXCEPT ![c] = {}]
  /\ LeaveApi(c)
  /\ UNCHANGED <<laReq, db>>

(* A statement or the commit fails. *)
StatementFails(c) == ApiOpen(c) /\ RollBack(c)

(* The row a request is about to insert. *)
NextRows(c) ==
  CASE laPc[c] = "insert_account" -> {AccountRow(c, laReq[c].number)}
    [] laPc[c] = "insert_entry" -> {EntryRow(c, laReq[c].ref, laReq[c].legs, NotFor)}
    [] laPc[c] = "create first" -> {AccountRow(c, ClearingAccounts(Item(c).cur)[1])}
    [] laPc[c] = "create second" -> {AccountRow(c, ClearingAccounts(Item(c).cur)[2])}
    [] laPc[c] = "item" /\ laPos[c] > Len(laReq[c].feed) -> {BatchRow(c)}
    [] OTHER -> {}

Awaits(c, d) == \E r \in NextRows(c) : c # d /\ HasKey(tx[d], r.table, r.key)

(* The database breaks a cycle of waiting transactions. *)
BreakDeadlock(c) ==
  /\ \E d, e \in ApiCalls :
       Awaits(c, d) /\ (Awaits(d, c) \/ (Awaits(d, e) /\ Awaits(e, c)))
  /\ RollBack(c)

ApiStep(c) ==
  \/ CreateAccount(c) \/ InsertAccount(c)
  \/ RecordJournalEntry(c) \/ InsertEntry(c)
  \/ CheckBatch(c) \/ FetchEntries(c) \/ ClassifyItem(c)
  \/ \E n \in {1, 2} : GetOrCreateAccount(c, n) \/ CreateClearingAccount(c, n)
  \/ CreateCompensatingEntry(c) \/ CreateBatch(c)
  \/ CommitApi(c) \/ BreakDeadlock(c)

ApiNext ==
  \E c \in ApiCalls :
    (\E q \in ApiRequests : ArriveApi(c, q)) \/ ApiStep(c) \/ StatementFails(c)

ApiSpec == ApiInit /\ [][ApiNext]_apiVars /\ \A c \in ApiCalls : WF_apiVars(ApiStep(c))

-----------------------------------------------------------------------------

(* Whatever runs beside it, a request leaves all of its rows or none: the  *)
(* rows of a request that failed are gone, and a committed batch has one   *)
(* entry of the right amount for every item it says it compensated, on     *)
(* accounts that exist, and accounts for every item of its feed.           *)
AllOrNothing ==
  \A c \in ApiCalls :
    LET mine == {r \in db : r.by = c}
        comps == {r \in RowsOf(mine, "entry") : r.for # NotFor}
    IN /\ mine # {} => laPc[c] = "ok"
       /\ laPc[c] = "ok" => RowsOf(mine, laReq[c].op) # {}
       /\ comps # {} => RowsOf(mine, "batch") # {}
       /\ \A b \in RowsOf(mine, "batch") :
            /\ Cardinality(comps) = Count(b.items, {"AUTO_COMPENSATED"})
            /\ b.matched + b.discrepancies = Len(laReq[c].feed)
       /\ \A r \in comps, i \in 1..2 : HasKey(db, "account", r.legs[i].acct)

(* Every committed entry balances, those the reconciliation writes         *)
(* included: the ledger as a whole has zero sum.                           *)
CommittedEntriesBalance ==
  \A r \in RowsOf(db, "entry") : SideTotal(r.legs, "DEBIT") = SideTotal(r.legs, "CREDIT")

(* Every request comes to an end, although inserts wait for each other's   *)
(* unique keys and two feeds may create the clearing accounts of their     *)
(* currencies in opposite orders.                                          *)
EveryApiCallEnds == \A c \in ApiCalls : ApiOpen(c) ~> ~ApiOpen(c)

(* The ledger's rows are whole: requests commit all or nothing, and what   *)
(* they commit balances.                                                   *)
LedgerRowsWhole == AllOrNothing /\ CommittedEntriesBalance
=============================================================================
