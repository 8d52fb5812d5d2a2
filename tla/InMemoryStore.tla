---------------------------- MODULE InMemoryStore ----------------------------
(***************************************************************************)
(* The in-memory repositories under InMemoryUnitOfWork.  The one of users  *)
(* maps ids to entity OBJECTS: some operations replace the object of an    *)
(* id, others change it in place.  The Unit of Work copies the maps of all *)
(* repositories on entry and puts the copies back on rollback; the objects *)
(* are not copied.  The other repositories only replace objects, so theirs *)
(* are represented by their values.                                        *)
(***************************************************************************)
EXTENDS Naturals, Sequences, FiniteSets, Functions

CONSTANTS
  Emails,      \* addresses
  ImKeys,      \* account numbers and references
  MaxObjects,  \* bound on the user objects created
  MaxRows,     \* bound on the rows of the other repositories
  MaxVersion,  \* bound on the version of an entity
  MaxMarks     \* max_retries of mark_failed()

VARIABLES
  objects,        \* the objects: [email, version, nid]
  imStore,     \* _store: id -> object
  emailIndex,  \* _email_index: email -> id
  currentId,   \* _current_id
  others,      \* the maps, indexes and lists of the other repositories
  snapshot,    \* the copies of the last four, or <<>>
  inBlock,     \* inside "async with uow"
  asEntered,   \* history: what the repositories held on entry
  touched,     \* history: an object on entry was changed in place since
  torn         \* history: such a change was rolled back

userRows == <<objects, imStore, emailIndex, currentId>>
blockVars == <<snapshot, inBlock, asEntered, torn>>
imVars == <<userRows, others, blockVars, touched>>

Empty == [x \in {} |-> x]

(* uuids counts the uuids that are referred to: after a rollback nothing   *)
(* remembers those it has undone.                                          *)
NoRows ==
  [uuids |-> 0,
   posts |-> Empty, postId |-> 0,
   products |-> Empty, productId |-> 0,
   orders |-> Empty, outbox |-> Empty,
   accounts |-> Empty, byNumber |-> Empty,
   entries |-> Empty, byRef |-> Empty, postings |-> <<>>,
   batches |-> Empty, byReference |-> Empty]

ImInit ==
  /\ objects = <<>>
  /\ imStore = Empty /\ emailIndex = Empty /\ currentId = 0
  /\ others = NoRows
  /\ snapshot = <<>> /\ inBlock = FALSE
  /\ asEntered = Empty /\ touched = FALSE /\ torn = FALSE

Contents == <<[id \in DOMAIN imStore |-> objects[imStore[id]]], others>>
NextObject == Cardinality(DOMAIN objects) + 1

(* The bounds: users come first, and each counts for two other rows. *)
RoomForUser == NextObject <= MaxObjects /\ others = NoRows
RoomForRow ==
  2 * Cardinality(DOMAIN objects) + others.uuids + others.postId + others.productId < MaxRows

WithoutKey(f, x) == Restrict(f, DOMAIN f \ {x})
With(f, x, v) == [y \in DOMAIN f \cup {x} |-> IF y = x THEN v ELSE f[y]]

(* get_by_email(): through the index. *)
GetByEmail(e) ==
  IF e \in DOMAIN emailIndex /\ emailIndex[e] \in DOMAIN imStore
  THEN {emailIndex[e]} ELSE {}

(* create(), after the service has looked the address up. *)
CreateEntity(e) ==
  /\ GetByEmail(e) = {}
  /\ RoomForUser
  /\ currentId' = currentId + 1
  /\ objects' = With(objects, NextObject, [email |-> e, version |-> 1, nid |-> FALSE])
  /\ imStore' = With(imStore, currentId + 1, NextObject)
  /\ emailIndex' = With(emailIndex, e, currentId + 1)
  /\ UNCHANGED <<others, blockVars, touched>>

(* A change of the object of an id, which a snapshot shares. *)
InPlace(id, entity) ==
  /\ objects' = [objects EXCEPT ![imStore[id]] = entity]
  /\ touched' = (touched \/ snapshot # <<>>)
  /\ UNCHANGED <<imStore, currentId, others, blockVars>>

(* The old address leaves the index, the new one enters it. *)
ReindexEmail(id, e) ==
  LET old == objects[imStore[id]].email
  IN  emailIndex' = IF e = old THEN emailIndex ELSE With(WithoutKey(emailIndex, old), e, id)

Available(id, e) == GetByEmail(e) \subseteq {id}

(* update(). *)
UpdateEntity(id, e) ==
  /\ id \in DOMAIN imStore /\ Available(id, e)
  /\ ReindexEmail(id, e)
  /\ InPlace(id, [objects[imStore[id]] EXCEPT !.email = e])

(* update_with_optimistic_lock(): only at the expected version. *)
UpdateWithOptimisticLock(id, e, expected) ==
  /\ id \in DOMAIN imStore /\ Available(id, e)
  /\ objects[imStore[id]].version = expected /\ expected < MaxVersion
  /\ ReindexEmail(id, e)
  /\ InPlace(id, [objects[imStore[id]] EXCEPT !.email = e, !.version = @ + 1])

(* update_nid(). *)
UpdateNidInPlace(id) ==
  /\ id \in DOMAIN imStore /\ objects[imStore[id]].version < MaxVersion
  /\ InPlace(id, [objects[imStore[id]] EXCEPT !.nid = TRUE, !.version = @ + 1])
  /\ UNCHANGED emailIndex

(* update_permissions(): a new object, built without the nid_number. *)
UpdatePermissionsReplaces(id) ==
  /\ id \in DOMAIN imStore /\ objects[imStore[id]].version < MaxVersion
  /\ RoomForUser
  /\ objects' = With(objects, NextObject,
                  [objects[imStore[id]] EXCEPT !.version = @ + 1, !.nid = FALSE])
  /\ imStore' = [imStore EXCEPT ![id] = NextObject]
  /\ UNCHANGED <<emailIndex, currentId, others, blockVars, touched>>

(* delete(). *)
DeleteEntity(id) ==
  /\ id \in DOMAIN imStore
  /\ emailIndex' = WithoutKey(emailIndex, objects[imStore[id]].email)
  /\ imStore' = WithoutKey(imStore, id)
  /\ UNCHANGED <<objects, currentId, others, blockVars, touched>>

-----------------------------------------------------------------------------

(* The other repositories, which services use inside a block.              *)
Persist(rows) ==
  /\ inBlock
  /\ others' = rows
  /\ UNCHANGED <<userRows, blockVars, touched>>

NewId == others.uuids + 1
PersistNew(rows) ==
  /\ RoomForRow
  /\ Persist([rows EXCEPT !.uuids = NewId])

(* InMemoryPostRepository.create(), with an id of its own sequence. *)
CreatePost(user) ==
  /\ RoomForRow
  /\ Persist([others EXCEPT !.postId = @ + 1, !.posts = With(@, others.postId + 1, user)])

(* InMemoryProductRepository.create(), of one unit. *)
CreateProductInMemory ==
  /\ RoomForRow
  /\ Persist([others EXCEPT !.productId = @ + 1,
                            !.products = With(@, others.productId + 1, 1)])

(* deduct_stock_pessimistic() of one unit: a new entity; without stock it  *)
(* raises, and the block ends in RollbackBlock.                            *)
DeductStockInMemory(id) ==
  /\ others.products[id] >= 1
  /\ Persist([others EXCEPT !.products[id] = @ - 1])

(* InMemoryOrderRepository.create(). *)
CreateOrder(user) ==
  PersistNew([others EXCEPT !.orders = With(@, NewId, user)])

(* InMemoryOutboxRepository.create() and record_event(). *)
RecordOutbox ==
  PersistNew([others EXCEPT !.outbox = With(@, NewId, [status |-> "PENDING", retries |-> 0])])

(* get_pending_events(): what a relay goes on to mark. *)
PendingInMemory(id) == others.outbox[id].status = "PENDING"

MarkPublished(id) ==
  /\ PendingInMemory(id)
  /\ Persist([others EXCEPT !.outbox[id].status = "PUBLISHED"])

MarkFailed(id) ==
  LET retries == others.outbox[id].retries + 1
      status == IF retries >= MaxMarks THEN "FAILED" ELSE "PENDING"
  IN  /\ PendingInMemory(id)
      /\ Persist([others EXCEPT !.outbox[id] = [status |-> status, retries |-> retries]])

(* InMemoryLedgerRepository.create_account(), after get_account_by_number() *)
(* has found none.                                                         *)
CreateAccountInMemory(number) ==
  /\ number \notin DOMAIN others.byNumber
  /\ PersistNew([others EXCEPT !.accounts = With(@, NewId, number),
                               !.byNumber = With(@, number, NewId)])

(* create_journal_entry(), after get_journal_entry_by_reference() has found *)
(* none: the legs enter the flat list and the entry.                       *)
CreateJournalEntry(ref) ==
  /\ ref \notin DOMAIN others.byRef
  /\ \E a, b \in DOMAIN others.accounts :
       PersistNew([others EXCEPT
         !.postings = @ \o <<[account |-> a, side |-> "DEBIT"], [account |-> b, side |-> "CREDIT"]>>,
         !.entries = With(@, NewId, [ref |-> ref, debit |-> a, credit |-> b]),
         !.byRef = With(@, ref, NewId)])

(* get_account_balance_aggregates(): postings of one unit each. *)
Aggregate(a, side) ==
  Len(SelectSeq(others.postings, LAMBDA p : p.account = a /\ p.side = side))

(* InMemoryReconciliationRepository.create_batch(), after                  *)
(* get_batch_by_reference() has found none.                                *)
CreateBatchInMemory(ref) ==
  /\ ref \notin DOMAIN others.byReference
  /\ PersistNew([others EXCEPT !.batches = With(@, NewId, ref),
                               !.byReference = With(@, ref, NewId)])

(* __aenter__(). *)
EnterBlock ==
  /\ ~inBlock
  /\ inBlock' = TRUE
  /\ snapshot' = <<imStore, emailIndex, currentId, others>>
  /\ asEntered' = Contents
  /\ touched' = FALSE
  /\ UNCHANGED <<userRows, others, torn>>

(* commit(): the snapshots are discarded. *)
CommitBlock ==
  /\ inBlock /\ snapshot # <<>>
  /\ snapshot' = <<>>
  /\ touched' = FALSE /\ asEntered' = Empty
  /\ UNCHANGED <<userRows, others, inBlock, torn>>

(* __aexit__() without an exception keeps what was done, committed or not. *)
ExitBlock ==
  /\ inBlock
  /\ inBlock' = FALSE /\ snapshot' = <<>> /\ touched' = FALSE /\ asEntered' = Empty
  /\ UNCHANGED <<userRows, others, torn>>

(* Mutation of RestoreSnapshots: the outbox has no snapshot. *)
MutRestoreSnapshots ==
  /\ imStore' = snapshot[1]
  /\ emailIndex' = snapshot[2]
  /\ currentId' = snapshot[3]
  /\ others' = [snapshot[4] EXCEPT !.outbox = others.outbox]

(* rollback(). *)
RestoreSnapshots ==
  /\ imStore' = snapshot[1]
  /\ emailIndex' = snapshot[2]
  /\ currentId' = snapshot[3]
  /\ others' = snapshot[4]

(* __aexit__() with an exception: rollback(), which does nothing after a   *)
(* commit.                                                                 *)
RollbackBlock ==
  /\ inBlock
  /\ inBlock' = FALSE /\ snapshot' = <<>> /\ touched' = FALSE /\ asEntered' = Empty
  /\ IF snapshot = <<>>
     THEN UNCHANGED <<imStore, emailIndex, currentId, others, torn>>
     ELSE RestoreSnapshots /\ torn' = (torn \/ touched)
  /\ UNCHANGED objects

ImNext ==
  \/ \E e \in Emails : CreateEntity(e)
  \/ \E id \in DOMAIN imStore :
       \/ UpdateNidInPlace(id) \/ UpdatePermissionsReplaces(id) \/ DeleteEntity(id)
       \/ \E e \in Emails :
            \/ UpdateEntity(id, e)
            \/ \E v \in 1 .. MaxVersion : UpdateWithOptimisticLock(id, e, v)
  \/ \E id \in DOMAIN imStore : CreatePost(id) \/ CreateOrder(id)
  \/ CreateProductInMemory
  \/ \E id \in DOMAIN others.products : DeductStockInMemory(id)
  \/ RecordOutbox
  \/ \E id \in DOMAIN others.outbox : MarkPublished(id) \/ MarkFailed(id)
  \/ \E k \in ImKeys : CreateAccountInMemory(k) \/ CreateBatchInMemory(k) \/ CreateJournalEntry(k)
  \/ EnterBlock \/ CommitBlock \/ ExitBlock \/ RollbackBlock

ImSpec == ImInit /\ [][ImNext]_imVars

(* The index names every stored address with its id and no other, through  *)
(* renames, deletions, commits and rollbacks, unless a rollback met an     *)
(* object changed in place; account numbers and references likewise,       *)
(* without exception.                                                      *)
IndexAgrees ==
  /\ ~torn =>
       /\ \A id \in DOMAIN imStore : GetByEmail(objects[imStore[id]].email) = {id}
       /\ Cardinality(DOMAIN emailIndex) = Cardinality(DOMAIN imStore)
  /\ AntiFunction(others.accounts) = others.byNumber
  /\ AntiFunction(others.batches) = others.byReference
  /\ AntiFunction([e \in DOMAIN others.entries |-> others.entries[e].ref]) = others.byRef

(* The aggregates of an account, taken from the list of all postings, are  *)
(* those of the entries that are stored.                                   *)
AggregatesAgree ==
  \A a \in DOMAIN others.accounts :
    /\ Aggregate(a, "DEBIT") = Cardinality({e \in DOMAIN others.entries : others.entries[e].debit = a})
    /\ Aggregate(a, "CREDIT") = Cardinality({e \in DOMAIN others.entries : others.entries[e].credit = a})

(* A rollback of an uncommitted block puts back what was there on entry,   *)
(* in all repositories, unless the block changed a user in place.          *)
RollbackExactUnlessInPlace ==
  [][RollbackBlock /\ snapshot # <<>> =>
       /\ Contents'[2] = asEntered[2]
       /\ ~touched => Contents' = asEntered /\ emailIndex' = snapshot[2]]_imVars

(* The in-memory stores, their indexes and lists agree, and a rollback     *)
(* restores all of them, unless a user was changed in place.               *)
StoreRestored == []IndexAgrees /\ []AggregatesAgree /\ RollbackExactUnlessInPlace
=============================================================================
