------------------------------ MODULE Inventory ------------------------------
(***************************************************************************)
(* Checkouts of one product.  deduct_stock_pessimistic() reads the row     *)
(* with SELECT ... FOR UPDATE and writes the new stock under a mutex of    *)
(* the process, which it releases before checkout_product() commits.  On   *)
(* PostgreSQL the row stays locked until then; SQLite knows no FOR UPDATE  *)
(* and only lets one transaction write at a time.                          *)
(***************************************************************************)
EXTENDS Naturals, FiniteSets

CONSTANTS
  Checkouts,     \* calls of checkout_product()
  NoCheckout,
  Quantities,    \* quantities ordered
  InitialStock   \* stock of the product when created

ASSUME InventoryAssumption ==
  /\ Quantities \subseteq Nat \ {0} /\ InitialStock \in Nat
  /\ NoCheckout \notin Checkouts

VARIABLES
  rowLocks,   \* the database has row locks (PostgreSQL)
  stock,      \* committed stock
  ivPc,       \* where a checkout is
  quantity,   \* what it asks for
  readStock,  \* the stock it has read
  mutex,      \* holder of get_product_lock(product_id)
  dbLock,     \* transaction holding the row (or the database, SQLite)
  sold        \* history: total quantity of the checkouts committed

inventoryVars == <<rowLocks, stock, ivPc, quantity, readStock, mutex, dbLock, sold>>

InventoryInit ==
  /\ rowLocks \in BOOLEAN
  /\ stock = InitialStock
  /\ ivPc = [c \in Checkouts |-> "start"]
  /\ quantity \in [Checkouts -> Quantities]
  /\ readStock = [c \in Checkouts |-> 0]
  /\ mutex = NoCheckout
  /\ dbLock = NoCheckout
  /\ sold = 0

IvGo(c, l) == ivPc' = [ivPc EXCEPT ![c] = l]

Free(holder, c) == holder \in {NoCheckout, c}

(* async with row_lock. *)
TakeMutex(c) ==
  /\ ivPc[c] = "start"
  /\ mutex = NoCheckout
  /\ mutex' = c
  /\ IvGo(c, "select")
  /\ UNCHANGED <<rowLocks, stock, quantity, readStock, dbLock, sold>>

(* Mutation of SelectForUpdate: with_for_update() is left out. *)
MutSelectForUpdate(c) ==
  /\ ivPc[c] = "select"
  /\ readStock' = [readStock EXCEPT ![c] = stock]
  /\ IF stock < quantity[c]
     THEN IvGo(c, "raised") /\ mutex' = NoCheckout
     ELSE IvGo(c, "flush") /\ UNCHANGED mutex
  /\ UNCHANGED <<rowLocks, stock, quantity, dbLock, sold>>

(* SELECT ... FOR UPDATE and the check of the stock. *)
SelectForUpdate(c) ==
  /\ ivPc[c] = "select"
  /\ IF rowLocks THEN Free(dbLock, c) /\ dbLock' = c ELSE UNCHANGED dbLock
  /\ readStock' = [readStock EXCEPT ![c] = stock]
  /\ IF stock < quantity[c]
     THEN IvGo(c, "raised") /\ mutex' = NoCheckout
     ELSE IvGo(c, "flush") /\ UNCHANGED mutex
  /\ UNCHANGED <<rowLocks, stock, quantity, sold>>

(* model.stock -= quantity; flush(): the UPDATE, with the value computed   *)
(* from what was read; the mutex is released behind it.                    *)
FlushStock(c) ==
  /\ ivPc[c] = "flush"
  /\ Free(dbLock, c)
  /\ dbLock' = c
  /\ mutex' = NoCheckout
  /\ IvGo(c, "commit")
  /\ UNCHANGED <<rowLocks, stock, quantity, readStock, sold>>

(* lock_timeout or SQLite's busy timeout. *)
LockTimesOut(c) ==
  /\ ivPc[c] \in {"select", "flush"}
  /\ ~Free(dbLock, c)
  /\ mutex' = NoCheckout
  /\ IvGo(c, "raised")
  /\ UNCHANGED <<rowLocks, stock, quantity, readStock, dbLock, sold>>

(* await uow.commit(). *)
CommitCheckout(c) ==
  /\ ivPc[c] = "commit"
  /\ stock' = readStock[c] - quantity[c]
  /\ sold' = sold + quantity[c]
  /\ dbLock' = NoCheckout
  /\ IvGo(c, "done")
  /\ UNCHANGED <<rowLocks, quantity, readStock, mutex>>

(* The commit fails, or the request is cancelled before it. *)
CommitFails(c) ==
  /\ ivPc[c] = "commit"
  /\ IvGo(c, "raised")
  /\ UNCHANGED <<rowLocks, stock, quantity, readStock, mutex, dbLock, sold>>

(* __aexit__ with an exception: rollback and close. *)
RollbackCheckout(c) ==
  /\ ivPc[c] = "raised"
  /\ dbLock' = IF dbLock = c THEN NoCheckout ELSE dbLock
  /\ IvGo(c, "done")
  /\ UNCHANGED <<rowLocks, stock, quantity, readStock, mutex, sold>>

InventoryStep(c) ==
  \/ TakeMutex(c) \/ SelectForUpdate(c) \/ FlushStock(c)
  \/ CommitCheckout(c) \/ RollbackCheckout(c)

InventoryNext ==
  \E c \in Checkouts : InventoryStep(c) \/ LockTimesOut(c) \/ CommitFails(c)

InventoryFairness == \A c \in Checkouts : WF_inventoryVars(InventoryStep(c))

InventorySpec == InventoryInit /\ [][InventoryNext]_inventoryVars /\ InventoryFairness

(* On a database with row locks, what was sold and what is left is the     *)
(* initial stock, however the checkouts interleave, fail or time out.      *)
StockConserved == rowLocks => stock + sold = InitialStock

(* A checkout ends, and when all have ended nothing is locked: a failed    *)
(* one never keeps the row from the others.                                *)
EveryCheckoutEnds ==
  \A c \in Checkouts :
    ivPc[c] # "start" ~> ivPc[c] = "done" /\ dbLock # c /\ mutex # c
=============================================================================
