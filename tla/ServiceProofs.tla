--------------------------- MODULE ServiceProofs ----------------------------
(***************************************************************************)
(* Theorems about the application services: stock, orders, view counts,    *)
(* documents and registrations. One section per component: its inductive   *)
(* invariant, the lemmas that show it inductive, and the theorem that      *)
(* states the property the runs check for every value of the constants.    *)
(***************************************************************************)
EXTENDS Inventory, OrderIntake, ViewCounter, DocumentWorkflow,
  RegistrationEvents, TLAPS

(***************************************************************************)
(* checkout_product() and deduct_stock_pessimistic(): Inventory.tla. The   *)
(* row lock ties what a checkout has read to what is committed.            *)
(***************************************************************************)

(* The phases of a checkout.                                               *)
IvPhases == {"start", "select", "flush", "commit", "raised", "done"}

(* Between its SELECT and its commit a checkout holds the row, and what it *)
(* read is what is committed.                                              *)
InventoryInv ==
  /\ rowLocks \in BOOLEAN
  /\ stock \in Nat /\ sold \in Nat
  /\ ivPc \in [Checkouts -> IvPhases]
  /\ quantity \in [Checkouts -> Quantities]
  /\ readStock \in [Checkouts -> Nat]
  /\ \A c \in Checkouts : ivPc[c] \in {"flush", "commit"} => readStock[c] >= quantity[c]
  /\ rowLocks =>
       \A c \in Checkouts : ivPc[c] \in {"flush", "commit"} =>
         dbLock = c /\ readStock[c] = stock
  /\ rowLocks => stock + sold = InitialStock

(* The invariant is kept by every step, also by timeouts, failed commits   *)
(* and rollbacks.                                                          *)
LEMMA InventoryStepInv ==
  InventoryInv /\ [InventoryNext]_inventoryVars => InventoryInv'
<1> SUFFICES ASSUME InventoryInv, [InventoryNext]_inventoryVars PROVE InventoryInv'
  BY Zenon
<1> USE InventoryAssumption DEF InventoryInv, IvPhases, IvGo, Free
<1>1. ASSUME NEW c \in Checkouts, TakeMutex(c) PROVE InventoryInv'
  BY <1>1, Zenon DEF TakeMutex
<1>2. ASSUME NEW c \in Checkouts, SelectForUpdate(c) PROVE InventoryInv'
  <2>1. rowLocks => dbLock' = c /\ \A d \in Checkouts \ {c} : ivPc[d] \notin {"flush", "commit"}
    BY <1>2, Zenon DEF SelectForUpdate
  <2>2. /\ ivPc' = [ivPc EXCEPT ![c] = IF stock < quantity[c] THEN "raised" ELSE "flush"]
        /\ readStock' = [readStock EXCEPT ![c] = stock]
        /\ UNCHANGED <<rowLocks, stock, quantity, sold>>
    BY <1>2, Zenon DEF SelectForUpdate
  <2>3. quantity[c] \in Nat
    BY Zenon
  <2>4. CASE stock < quantity[c]
    BY <2>1, <2>2, <2>4, Zenon
  <2>5. CASE stock >= quantity[c]
    BY <2>1, <2>2, <2>3, <2>5, Zenon
  <2> QED BY <2>3, <2>4, <2>5
<1>3. ASSUME NEW c \in Checkouts, FlushStock(c) PROVE InventoryInv'
  BY <1>3, Zenon DEF FlushStock
<1>4. ASSUME NEW c \in Checkouts, CommitCheckout(c) PROVE InventoryInv'
  <2>1. /\ quantity[c] \in Nat /\ readStock[c] \in Nat /\ readStock[c] >= quantity[c]
        /\ stock' = readStock[c] - quantity[c] /\ sold' = sold + quantity[c]
        /\ ivPc' = [ivPc EXCEPT ![c] = "done"]
        /\ UNCHANGED <<rowLocks, quantity, readStock>>
    BY <1>4, Zenon DEF CommitCheckout
  <2>2. stock' \in Nat /\ sold' \in Nat
    BY <2>1
  <2>3. rowLocks => /\ stock' + sold' = InitialStock
                    /\ \A d \in Checkouts \ {c} : ivPc[d] \notin {"flush", "commit"}
    BY <1>4, <2>1 DEF CommitCheckout
  <2> QED BY <2>1, <2>2, <2>3, Zenon
<1>5. ASSUME NEW c \in Checkouts, RollbackCheckout(c) PROVE InventoryInv'
  BY <1>5, Zenon DEF RollbackCheckout
<1>6. ASSUME NEW c \in Checkouts, LockTimesOut(c) PROVE InventoryInv'
  BY <1>6, Zenon DEF LockTimesOut
<1>7. ASSUME NEW c \in Checkouts, CommitFails(c) PROVE InventoryInv'
  BY <1>7, Zenon DEF CommitFails
<1>8. CASE UNCHANGED inventoryVars
  BY <1>8, Zenon DEF inventoryVars
<1> QED BY <1>1, <1>2, <1>3, <1>4, <1>5, <1>6, <1>7, <1>8, Zenon DEF InventoryNext, InventoryStep

(* For any number of checkouts and any quantities: on a database with row  *)
(* locks the stock and what was sold add up to the initial stock.          *)
THEOREM InventoryTheorem == InventorySpec => []StockConserved
<1>1. InventoryInit => InventoryInv
  BY InventoryAssumption DEF InventoryInit, InventoryInv, IvPhases
<1>2. InventoryInv => StockConserved
  BY Zenon DEF InventoryInv, StockConserved
<1> QED BY <1>1, <1>2, InventoryStepInv, PTL DEF InventorySpec

-----------------------------------------------------------------------------
(***************************************************************************)
(* create_order() and create_order_with_outbox(): OrderIntake.tla. What    *)
(* the open sessions hold is tied to what a commit may leave.              *)
(***************************************************************************)

(* The rows of the orders table.                                           *)
OrderRows == [id : Nat, job : [user : OrderUsers, outbox : BOOLEAN]]

(* The types of the tables and the open sessions.                          *)
OrderTypes ==
  /\ fkChecked \in BOOLEAN
  /\ odPc \in [OrderCalls -> {"start", "create", "event", "commit", "raised", "done"}]
  /\ odJob \in [OrderCalls -> [user : OrderUsers, outbox : BOOLEAN]]
  /\ odTx \in [OrderCalls -> [orders : SUBSET OrderRows, events : SUBSET Nat]]
  /\ customers \subseteq OrderUsers
  /\ orders \subseteq OrderRows /\ events \subseteq Nat
  /\ nextId \in Nat

(* What the open session of a call holds in each of its phases. *)
SessionOK(c) ==
  /\ \A o \in odTx[c].orders : o.job = odJob[c]
  /\ odPc[c] \in {"start", "create"} => odTx[c] = EmptyTx
  /\ odPc[c] = "event" => odTx[c].events = {} /\ odJob[c].outbox
  /\ odPc[c] = "commit" =>
       odTx[c].events = IF odJob[c].outbox THEN {o.id : o \in odTx[c].orders} ELSE {}
  /\ odPc[c] \in {"event", "commit"} => odTx[c].orders # {}

(* All open sessions are sound.                                            *)
SessionsInv == \A c \in OrderCalls : SessionOK(c)

(* Where foreign keys are enforced, orders in the database and in open     *)
(* sessions have their user.                                               *)
UsersInv ==
  fkChecked =>
    /\ \A o \in orders : o.job.user \in customers
    /\ \A c \in OrderCalls : \A o \in odTx[c].orders : o.job.user \in customers

(* An order of the outbox variant has its event, and an event without its  *)
(* order needs a deleted user.                                             *)
EventsInv ==
  /\ \A o \in orders : o.job.outbox => o.id \in events
  /\ \A id \in events : (\A o \in orders : o.id # id) => fkChecked /\ customers # OrderUsers

(* The inductive invariant of the order intake.                            *)
OrderInv == OrderTypes /\ SessionsInv /\ UsersInv /\ EventsInv

(* Every step keeps the types.                                             *)
LEMMA OrderStepTypes == OrderTypes /\ OrderNext => OrderTypes'
<1> SUFFICES ASSUME OrderTypes, OrderNext PROVE OrderTypes'
  BY Zenon
<1> USE OrderAssumption DEF OrderTypes, OdGo, EmptyTx
<1>1. ASSUME NEW c \in OrderCalls, FindUser(c) PROVE OrderTypes'
  BY <1>1, Zenon DEF FindUser
<1>2. ASSUME NEW c \in OrderCalls, CreateOrderRow(c) PROVE OrderTypes'
  <2> DEFINE new == [id |-> nextId, job |-> odJob[c]]
  <2>1. new \in OrderRows
    BY Zenon DEF OrderRows
  <2>2. odTx' = [odTx EXCEPT ![c].orders = {new}] \/ odTx' = odTx
    BY <1>2, Zenon DEF CreateOrderRow
  <2> HIDE DEF new
  <2>3. odTx' \in [OrderCalls -> [orders : SUBSET OrderRows, events : SUBSET Nat]]
    <3>1. odTx \in [OrderCalls -> [orders : SUBSET OrderRows, events : SUBSET Nat]]
      BY Zenon
    <3> HIDE OrderAssumption DEF OrderTypes
    <3> QED BY <2>1, <2>2, <3>1
  <2>4. \E l \in {"event", "commit", "raised"} : odPc' = [odPc EXCEPT ![c] = l]
    BY <1>2, Zenon DEF CreateOrderRow
  <2>5. odPc' \in [OrderCalls -> {"start", "create", "event", "commit", "raised", "done"}]
    BY <2>4, Zenon
  <2>6. nextId' \in Nat /\ UNCHANGED <<fkChecked, odJob, customers, orders, events>>
    BY <1>2 DEF CreateOrderRow
  <2> QED BY <2>3, <2>5, <2>6, Zenon
<1>3. ASSUME NEW c \in OrderCalls, RecordEvent(c) PROVE OrderTypes'
  <2>1. {o.id : o \in odTx[c].orders} \subseteq Nat
    BY DEF OrderRows
  <2> QED BY <1>3, <2>1 DEF RecordEvent
<1>4. ASSUME NEW c \in OrderCalls, CommitOrder(c) PROVE OrderTypes'
  BY <1>4, Zenon DEF CommitOrder
<1>5. ASSUME NEW c \in OrderCalls, OrderFails(c) PROVE OrderTypes'
  BY <1>5, Zenon DEF OrderFails
<1>7. ASSUME NEW c \in OrderCalls, RollbackOrder(c) PROVE OrderTypes'
  BY <1>7, Zenon DEF RollbackOrder
<1>6. ASSUME NEW u \in OrderUsers, DeleteCustomer(u) PROVE OrderTypes'
  BY <1>6, Zenon DEF DeleteCustomer
<1> QED BY <1>1, <1>2, <1>3, <1>4, <1>5, <1>6, <1>7, Zenon DEF OrderNext

(* The statements of a call build its session up in order, and a failure   *)
(* empties it.                                                             *)
LEMMA OrderStepSessions == OrderTypes /\ SessionsInv /\ OrderNext => SessionsInv'
<1> SUFFICES ASSUME OrderTypes, SessionsInv, OrderNext PROVE SessionsInv'
  BY Zenon
<1>0. ASSUME NEW c \in OrderCalls, odTx'[c] = odTx[c], odPc'[c] = odPc[c], odJob' = odJob
      PROVE  SessionOK(c)'
  BY <1>0, ZenonT(30) DEF SessionsInv, SessionOK, EmptyTx
<1>1. ASSUME NEW c \in OrderCalls, FindUser(c) PROVE SessionOK(c)'
  BY <1>1, ZenonT(30) DEF OrderTypes, SessionsInv, SessionOK, FindUser, OdGo, EmptyTx
<1>2. ASSUME NEW c \in OrderCalls, CreateOrderRow(c) PROVE SessionOK(c)'
  <2>1. odJob' = odJob /\ odTx[c] = EmptyTx
    BY <1>2, Zenon DEF CreateOrderRow, SessionsInv, SessionOK
  <2>2. CASE odPc'[c] = "raised" /\ odTx' = odTx
    BY <2>1, <2>2 DEF SessionOK, EmptyTx
  <2>3. CASE /\ odTx' = [odTx EXCEPT ![c].orders = {[id |-> nextId, job |-> odJob[c]]}]
             /\ odPc'[c] = IF odJob[c].outbox THEN "event" ELSE "commit"
    <3>1. odTx'[c].orders = {[id |-> nextId, job |-> odJob[c]]} /\ odTx'[c].events = {}
      BY <2>1, <2>3 DEF OrderTypes, EmptyTx
    <3>2. \A o \in odTx'[c].orders : o.job = odJob'[c]
      BY <2>1, <3>1
    <3>3. CASE odJob[c].outbox
      BY <2>1, <2>3, <3>1, <3>2, <3>3, Zenon DEF SessionOK
    <3>4. CASE ~odJob[c].outbox
      BY <2>1, <2>3, <3>1, <3>2, <3>4, Zenon DEF SessionOK
    <3> QED BY <3>3, <3>4, Zenon
  <2> QED BY <1>2, <2>2, <2>3, Zenon DEF CreateOrderRow, OdGo, OrderTypes
<1>3. ASSUME NEW c \in OrderCalls, RecordEvent(c) PROVE SessionOK(c)'
  <2>1. odTx'[c].events = {o.id : o \in odTx[c].orders} /\ odTx'[c].orders = odTx[c].orders
    BY <1>3, Zenon DEF RecordEvent, OrderTypes
  <2>2. odPc'[c] = "commit" /\ odJob' = odJob
    BY <1>3, Zenon DEF RecordEvent, OdGo, OrderTypes
  <2>3. odJob[c].outbox /\ odTx[c].orders # {} /\ \A o \in odTx[c].orders : o.job = odJob[c]
    BY <1>3, Zenon DEF RecordEvent, SessionsInv, SessionOK
  <2> QED BY <2>1, <2>2, <2>3, Zenon DEF SessionOK
<1>4. ASSUME NEW c \in OrderCalls, CommitOrder(c) \/ RollbackOrder(c) PROVE SessionOK(c)'
  <2>1. odTx'[c] = EmptyTx /\ odPc'[c] = "done" /\ odJob' = odJob
    BY <1>4, Zenon DEF CommitOrder, RollbackOrder, OdGo, OrderTypes
  <2> QED BY <2>1 DEF SessionOK, EmptyTx
<1>5. ASSUME NEW c \in OrderCalls, OrderFails(c) PROVE SessionOK(c)'
  BY <1>5, Zenon DEF OrderFails, OdGo, OrderTypes, SessionsInv, SessionOK
<1>6. ASSUME NEW c \in OrderCalls, NEW d \in OrderCalls \ {c},
             FindUser(c) \/ CreateOrderRow(c) \/ RecordEvent(c) \/ CommitOrder(c)
             \/ OrderFails(c) \/ RollbackOrder(c)
      PROVE  odTx'[d] = odTx[d] /\ odPc'[d] = odPc[d] /\ odJob' = odJob
  BY <1>6, Zenon DEF FindUser, CreateOrderRow, RecordEvent, CommitOrder, OrderFails, RollbackOrder,
              OdGo, OrderTypes
<1>7. ASSUME NEW u \in OrderUsers, DeleteCustomer(u), NEW c \in OrderCalls PROVE SessionOK(c)'
  BY <1>0, <1>7, Zenon DEF DeleteCustomer
<1>8. \A c \in OrderCalls : SessionOK(c)'
  BY <1>0, <1>1, <1>2, <1>3, <1>4, <1>5, <1>6, <1>7, ZenonT(30) DEF OrderNext
<1> QED BY <1>8, Zenon DEF SessionsInv

(* The foreign key is checked at the insert and holds the user's row until *)
(* the session ends; deleting a user cascades to the orders.               *)
LEMMA OrderStepUsers == OrderTypes /\ UsersInv /\ OrderNext => UsersInv'
<1> SUFFICES ASSUME OrderTypes, UsersInv, OrderNext, fkChecked'
             PROVE  /\ \A o \in orders' : o.job.user \in customers'
                    /\ \A c \in OrderCalls : \A o \in odTx'[c].orders : o.job.user \in customers'
  BY Zenon DEF UsersInv
<1>0. fkChecked
  BY Zenon DEF OrderNext, FindUser, CreateOrderRow, RecordEvent, CommitOrder, OrderFails,
         RollbackOrder, DeleteCustomer
<1> USE <1>0 DEF OrderTypes, OrderRows, UsersInv, EmptyTx
<1>1. CASE \E c \in OrderCalls : FindUser(c) \/ RecordEvent(c) \/ CommitOrder(c)
                                 \/ OrderFails(c) \/ RollbackOrder(c)
  BY <1>1 DEF FindUser, RecordEvent, CommitOrder, OrderFails, RollbackOrder
<1>2. CASE \E c \in OrderCalls : CreateOrderRow(c)
  BY <1>2 DEF CreateOrderRow
<1>3. CASE \E u \in OrderUsers : DeleteCustomer(u)
  BY <1>3, Zenon DEF DeleteCustomer
<1> QED BY <1>1, <1>2, <1>3, Zenon DEF OrderNext

(* Only a commit and the deletion of a user change orders and events, a    *)
(* commit both at once.                                                    *)
LEMMA OrderStepEvents == OrderInv /\ OrderNext => EventsInv'
<1> SUFFICES ASSUME OrderInv, OrderNext PROVE EventsInv'
  BY Zenon
<1> USE DEF OrderInv, OrderTypes, OrderRows, EventsInv
<1>1. CASE UNCHANGED <<orders, events, customers, fkChecked>>
  BY <1>1, Zenon
<1>2. ASSUME NEW c \in OrderCalls, CommitOrder(c) PROVE EventsInv'
  <2>1. /\ orders' = orders \cup odTx[c].orders /\ events' = events \cup odTx[c].events
        /\ UNCHANGED <<customers, fkChecked>>
    BY <1>2, Zenon DEF CommitOrder
  <2>2. /\ \A o \in odTx[c].orders : o.job.outbox => o.id \in odTx[c].events
        /\ \A id \in odTx[c].events : \E o \in odTx[c].orders : o.id = id
    <3>1. /\ \A o \in odTx[c].orders : o.job = odJob[c]
          /\ odTx[c].events = IF odJob[c].outbox THEN {o.id : o \in odTx[c].orders} ELSE {}
      BY <1>2, Zenon DEF CommitOrder, SessionsInv, SessionOK
    <3>2. CASE odJob[c].outbox
      BY <3>1, <3>2
    <3>3. CASE ~odJob[c].outbox
      BY <3>1, <3>3, Zenon
    <3> QED BY <3>2, <3>3, Zenon
  <2> QED BY <2>1, <2>2, Zenon
<1>3. ASSUME NEW u \in OrderUsers, DeleteCustomer(u) PROVE EventsInv'
  BY <1>3, Zenon DEF DeleteCustomer
<1> QED BY <1>1, <1>2, <1>3, Zenon
        DEF OrderNext, FindUser, CreateOrderRow, RecordEvent, OrderFails, RollbackOrder

(* For any number of calls and users: an order of the outbox variant is    *)
(* never in the database without its event, and where foreign keys are     *)
(* enforced never without its user.                                        *)
THEOREM OrderTheorem == OrderSpec => []OrdersWhole
<1>1. OrderInit => OrderInv
  <2> SUFFICES ASSUME OrderInit PROVE OrderInv
    BY Zenon
  <2>1. OrderTypes
    BY Zenon DEF OrderInit, OrderTypes, OrderRows, EmptyTx, CreateOrderJobs,
         CreateOrderWithOutboxJobs
  <2>2. SessionsInv
    BY Zenon DEF OrderInit, SessionsInv, SessionOK, EmptyTx
  <2>3. UsersInv /\ EventsInv
    BY Zenon DEF OrderInit, UsersInv, EventsInv, EmptyTx
  <2> QED BY <2>1, <2>2, <2>3, Zenon DEF OrderInv
<1>2. OrderInv /\ [OrderNext]_orderVars => OrderInv'
  <2>1. OrderInv /\ OrderNext => OrderInv'
    BY OrderStepTypes, OrderStepSessions, OrderStepUsers, OrderStepEvents, Zenon DEF OrderInv
  <2>2. ASSUME OrderInv, UNCHANGED orderVars PROVE OrderInv'
    <3> USE <2>2 DEF OrderInv, orderVars
    <3>1. OrderTypes'
      BY Zenon DEF OrderTypes
    <3>2. SessionsInv'
      BY Zenon DEF SessionsInv, SessionOK
    <3>3. UsersInv' /\ EventsInv'
      BY Zenon DEF UsersInv, EventsInv
    <3> QED BY <3>1, <3>2, <3>3, Zenon
  <2> QED BY <2>1, <2>2, Zenon
<1>3. OrderInv => OrdersWhole
  BY ZenonT(30)
     DEF OrderInv, OrderTypes, OrderRows, UsersInv, EventsInv, OrdersWhole, OrderWithItsEvent,
         OrdersHaveUsers, ListOrdersByUser, GetOrderById
<1> QED BY <1>1, <1>2, <1>3, PTL DEF OrderSpec

-----------------------------------------------------------------------------
(***************************************************************************)
(* The view counter with its pending hash and its flush: ViewCounter.tla.  *)
(***************************************************************************)

(* The types of the counters and of the readers.                           *)
ViewTypes ==
  /\ pending \in Nat /\ viewsStore \in Nat /\ views \in Nat
  /\ recounted \in Nat /\ dropped \in Nat
  /\ DOMAIN vcPc = Viewers \cup Flushers \cup Readers
  /\ seen \in [Readers -> Nat] /\ atStart \in [Readers -> Nat]
  /\ DOMAIN flushed = Readers

(* Between its two reads a reader holds no more than the repository has,    *)
(* and what it lacks of the total it began with is still pending unless a   *)
(* flush ran.                                                              *)
ReaderOK(r) ==
  /\ vcPc[r] = "pending" => /\ seen[r] <= viewsStore
                            /\ ~flushed[r] => seen[r] + pending >= atStart[r]
  /\ vcPc[r] # "pending" => /\ seen[r] <= viewsStore + pending + dropped
                            /\ ~flushed[r] => seen[r] >= atStart[r]

(* The inductive invariant of the view counter.                            *)
ViewInv == ViewTypes /\ ViewsAddUp /\ \A r \in Readers : ReaderOK(r)

(* Counting moves a view into one of the two counts, and a flush moves the  *)
(* pending ones over or drops them: the sum never falls, nor does the       *)
(* repository's part of it.                                                *)
LEMMA ViewStepCounts ==
  ASSUME ViewTypes, ViewsAddUp, ViewNext
  PROVE  /\ pending' \in Nat /\ viewsStore' \in Nat /\ views' \in Nat
         /\ recounted' \in Nat /\ dropped' \in Nat
         /\ ViewsAddUp'
         /\ viewsStore <= viewsStore'
         /\ viewsStore + pending + dropped <= viewsStore' + pending' + dropped'
         /\ pending <= pending' \/ \A r \in Readers : flushed'[r]
<1> USE DEF ViewTypes, ViewsAddUp
<1>1. ASSUME NEW v \in Viewers, CountPending(v) \/ MarkDirty(v)
      PROVE  /\ UNCHANGED <<viewsStore, recounted, dropped>>
             /\ UNCHANGED <<pending, views>> \/ (pending' = pending + 1 /\ views' = views + 1)
  BY <1>1, Zenon DEF CountPending, MarkDirty
<1>2. ASSUME NEW v \in Viewers, DatabaseFallback(v)
      PROVE  /\ UNCHANGED <<pending, dropped>> /\ viewsStore' = viewsStore + 1
             /\ \/ views' = views + 1 /\ recounted' = recounted
                \/ recounted' = recounted + 1 /\ views' = views
  BY <1>2, Zenon DEF DatabaseFallback, IncrementViewsBatch
<1>3. ASSUME NEW f \in Flushers, SyncPendingViews(f)
      PROVE  /\ UNCHANGED <<views, recounted>>
             /\ \/ UNCHANGED <<pending, viewsStore, dropped>>
                \/ /\ pending' = 0
                   /\ \/ viewsStore' = viewsStore + pending /\ dropped' = dropped
                      \/ dropped' = dropped + pending /\ viewsStore' = viewsStore
                   /\ \A r \in Readers : flushed'[r]
  <2>1. CASE flushed' = [r \in Readers |-> TRUE]
    <3>1. \A r \in Readers : flushed'[r]
      BY <2>1, Zenon
    <3> QED BY <1>3, <3>1, Zenon DEF SyncPendingViews, IncrementViewsBatch
  <2>2. CASE UNCHANGED <<pending, viewsStore, dropped>>
    BY <1>3, <2>2, Zenon DEF SyncPendingViews
  <2> QED BY <1>3, <2>1, <2>2, Zenon DEF SyncPendingViews
<1>4. ASSUME NEW r \in Readers, ReadViews(r)
      PROVE  UNCHANGED <<pending, viewsStore, views, recounted, dropped>>
  BY <1>4, Zenon DEF ReadViews
<1>5. CASE \E v \in Viewers : CountPending(v) \/ MarkDirty(v)
  BY <1>1, <1>5
<1>6. CASE \E v \in Viewers : DatabaseFallback(v)
  BY <1>2, <1>6
<1>7. CASE \E f \in Flushers : SyncPendingViews(f)
  BY <1>3, <1>7
<1>8. CASE \E r \in Readers : ReadViews(r)
  BY <1>4, <1>8
<1> QED BY <1>5, <1>6, <1>7, <1>8, Zenon DEF ViewNext

(* A reader's two reads, whatever is counted and flushed between them.     *)
LEMMA ViewStepReader ==
  ASSUME ViewTypes, ViewsAddUp, ViewNext, NEW r \in Readers, ReaderOK(r), ViewTypes'
  PROVE  ReaderOK(r)'
<1>0. /\ viewsStore <= viewsStore'
      /\ viewsStore + pending + dropped <= viewsStore' + pending' + dropped'
      /\ pending <= pending' \/ flushed'[r]
  BY ViewStepCounts, Zenon
<1>1. /\ pending \in Nat /\ viewsStore \in Nat /\ dropped \in Nat
      /\ pending' \in Nat /\ viewsStore' \in Nat /\ dropped' \in Nat
      /\ seen[r] \in Nat /\ atStart[r] \in Nat
  BY Zenon DEF ViewTypes
<1>2. CASE ReadViews(r) /\ vcPc[r] = "start"
  <2>1. /\ vcPc'[r] = "pending" /\ seen'[r] = viewsStore
        /\ atStart'[r] = viewsStore + pending
        /\ viewsStore' = viewsStore /\ pending' = pending
    BY <1>2, Zenon DEF ReadViews, VcGo, ViewTypes
  <2> QED BY <1>1, <2>1 DEF ReaderOK
<1>3. CASE ReadViews(r) /\ vcPc[r] = "pending"
  <2>1. /\ vcPc'[r] = "done" /\ atStart' = atStart
        /\ viewsStore' = viewsStore /\ pending' = pending /\ dropped' = dropped
        /\ \/ seen'[r] = seen[r] + pending /\ flushed' = flushed
           \/ seen' = seen /\ flushed'[r]
    BY <1>3, Zenon DEF ReadViews, VcGo, ViewTypes
  <2> QED BY <1>1, <1>3, <2>1 DEF ReaderOK
<1>4. CASE /\ seen'[r] = seen[r] /\ atStart'[r] = atStart[r]
           /\ ~flushed'[r] => ~flushed[r]
           /\ vcPc'[r] = "pending" <=> vcPc[r] = "pending"
  <2>1. CASE vcPc[r] = "pending"
    <3>1. seen[r] <= viewsStore /\ (~flushed[r] => seen[r] + pending >= atStart[r])
      BY <2>1, Zenon DEF ReaderOK
    <3>2. seen'[r] <= viewsStore'
      <4>1. viewsStore <= viewsStore' /\ seen'[r] = seen[r] /\ seen[r] <= viewsStore
        BY <1>0, <1>4, <3>1, Zenon
      <4> QED BY <1>1, <4>1
    <3>3. ~flushed'[r] => seen'[r] + pending' >= atStart'[r]
      <4> SUFFICES ASSUME ~flushed'[r] PROVE seen[r] + pending' >= atStart[r]
        BY <1>4, Zenon
      <4>1. seen[r] + pending >= atStart[r] /\ pending <= pending'
        BY <1>0, <1>4, <3>1, Zenon
      <4> QED BY <1>1, <4>1
    <3> QED BY <1>4, <2>1, <3>2, <3>3, Zenon DEF ReaderOK
  <2>2. CASE vcPc[r] # "pending"
    <3>1. seen[r] <= viewsStore + pending + dropped /\ (~flushed[r] => seen[r] >= atStart[r])
      BY <2>2, Zenon DEF ReaderOK
    <3>2. seen'[r] <= viewsStore' + pending' + dropped'
      BY <1>0, <1>1, <1>4, <3>1
    <3>3. ~flushed'[r] => seen'[r] >= atStart'[r]
      BY <1>4, <3>1, Zenon
    <3> QED BY <1>4, <2>2, <3>2, <3>3, Zenon DEF ReaderOK
  <2> QED BY <2>1, <2>2, Zenon
<1>5. ASSUME NEW q \in Readers, ReadViews(q), q # r
      PROVE  /\ seen'[r] = seen[r] /\ atStart'[r] = atStart[r]
             /\ flushed'[r] = flushed[r] /\ vcPc'[r] = vcPc[r]
  BY <1>5, Zenon DEF ReadViews, VcGo, ViewTypes
<1>6. ASSUME NEW v \in Viewers, CountPending(v) \/ MarkDirty(v) \/ DatabaseFallback(v)
      PROVE  /\ seen' = seen /\ atStart' = atStart /\ flushed' = flushed
             /\ vcPc'[r] = "pending" <=> vcPc[r] = "pending"
  BY <1>6, Zenon DEF CountPending, MarkDirty, DatabaseFallback, VcGo, ViewTypes
<1>7. ASSUME NEW f \in Flushers, SyncPendingViews(f)
      PROVE  /\ seen' = seen /\ atStart' = atStart
             /\ ~flushed'[r] => ~flushed[r]
             /\ vcPc'[r] = "pending" <=> vcPc[r] = "pending"
  <2>1. seen' = seen /\ atStart' = atStart /\ (vcPc'[r] = "pending" <=> vcPc[r] = "pending")
    BY <1>7, Zenon DEF SyncPendingViews, VcGo, ViewTypes
  <2>2. flushed' = flushed \/ flushed' = [q \in Readers |-> TRUE]
    BY <1>7, Zenon DEF SyncPendingViews
  <2> QED BY <2>1, <2>2, Zenon
<1>8. CASE \E q \in Readers : ReadViews(q)
  <2> PICK q \in Readers : ReadViews(q)
    BY <1>8, Zenon
  <2>1. CASE q = r
    BY <1>2, <1>3, <2>1, Zenon DEF ReadViews
  <2>2. CASE q # r
    BY <1>4, <1>5, <2>2, Zenon
  <2> QED BY <2>1, <2>2, Zenon
<1> QED BY <1>4, <1>6, <1>7, <1>8, Zenon DEF ViewNext

(* Every step keeps the types.                                             *)
LEMMA ViewStepTypes == ViewTypes /\ ViewsAddUp /\ ViewNext => ViewTypes'
<1> SUFFICES ASSUME ViewTypes, ViewsAddUp, ViewNext PROVE ViewTypes'
  BY Zenon
<1>1. /\ pending' \in Nat /\ viewsStore' \in Nat /\ views' \in Nat
      /\ recounted' \in Nat /\ dropped' \in Nat
  BY ViewStepCounts, Zenon
<1>2. DOMAIN vcPc' = Viewers \cup Flushers \cup Readers
  BY Zenon DEF ViewTypes, ViewNext, CountPending, MarkDirty, DatabaseFallback, SyncPendingViews,
         ReadViews, VcGo
<1>3. DOMAIN flushed' = Readers
  BY Zenon DEF ViewTypes, ViewNext, CountPending, MarkDirty, DatabaseFallback, SyncPendingViews,
         ReadViews
<1>4. seen' \in [Readers -> Nat] /\ atStart' \in [Readers -> Nat]
  <2>1. ASSUME NEW r \in Readers, ReadViews(r)
        PROVE  seen' \in [Readers -> Nat] /\ atStart' \in [Readers -> Nat]
    BY <2>1 DEF ViewTypes, ReadViews
  <2>2. CASE UNCHANGED <<seen, atStart>>
    BY <2>2, Zenon DEF ViewTypes
  <2> QED BY <2>1, <2>2, Zenon
             DEF ViewNext, CountPending, MarkDirty, DatabaseFallback, SyncPendingViews
<1> QED BY <1>1, <1>2, <1>3, <1>4, Zenon DEF ViewTypes

(* For any number of viewers, flushers and readers: every counted view is  *)
(* in the repository, pending or dropped, and a total that is read neither *)
(* invents views nor, unless a flush ran between its two reads, misses     *)
(* any.                                                                    *)
THEOREM ViewCounterTheorem == ViewSpec => []ViewsTold
<1>1. ViewInit => ViewInv
  BY DEF ViewInit, ViewInv, ViewTypes, ViewsAddUp, ReaderOK
<1>2. ViewInv /\ [ViewNext]_viewVars => ViewInv'
  <2> SUFFICES ASSUME ViewInv, [ViewNext]_viewVars PROVE ViewInv'
    BY Zenon
  <2>1. CASE ViewNext
    <3>1. ViewTypes'
      BY <2>1, ViewStepTypes, Zenon DEF ViewInv
    <3>2. ViewsAddUp'
      BY <2>1, ViewStepCounts, Zenon DEF ViewInv
    <3>3. \A r \in Readers : ReaderOK(r)'
      BY <2>1, <3>1, ViewStepReader, Zenon DEF ViewInv
    <3> QED BY <3>1, <3>2, <3>3, Zenon DEF ViewInv
  <2>2. CASE UNCHANGED viewVars
    BY <2>2, Zenon DEF viewVars, ViewInv, ViewTypes, ViewsAddUp, ReaderOK
  <2> QED BY <2>1, <2>2, Zenon
<1>3. ViewInv => ViewsTold
  BY Zenon DEF ViewInv, ReaderOK, ViewsTold, ReadTotalsHonest
<1> QED BY <1>1, <1>2, <1>3, PTL DEF ViewSpec

-----------------------------------------------------------------------------
(***************************************************************************)
(* The document endpoints and their policies: DocumentWorkflow.tla. What a *)
(* request loaded is the stored document unless it was told of a change.   *)
(***************************************************************************)

(* The rows of the document store.                                         *)
DocRows == [id : Nat, owner : {s.uid : s \in DocSubjects},
            tenant : {s.tenant : s \in DocSubjects}, status : DocStatuses, large : BOOLEAN]

(* The types of the store and of the requests.                             *)
DocTypes ==
  /\ docs \subseteq DocRows
  /\ docSequence \in Nat
  /\ docPc \in [DocCalls -> {"idle", "loaded"}]
  /\ DOMAIN docCall = DocCalls /\ DOMAIN docLoaded = DocCalls /\ DOMAIN changedSince = DocCalls

(* Ids come from the sequence, each given to one document. *)
IdsGivenOnce ==
  /\ \A d \in docs : d.id \in 1..docSequence /\ d.id \notin deletedDocs
  /\ \A d, e \in docs : d.id = e.id => d = e
  /\ deletedDocs \subseteq 1..docSequence

(* A request holds the stored document, unless it was told of a change. *)
HoldsStored(c) ==
  docPc[c] = "loaded" =>
    /\ docLoaded[c].id \in 1..docSequence
    /\ ~changedSince[c] => docLoaded[c] \in docs

(* The inductive invariant of the document endpoints.                      *)
DocInv == DocTypes /\ IdsGivenOnce /\ \A c \in DocCalls : HoldsStored(c)

(* A new document is a row and has the next id of the sequence.            *)
LEMMA NewDocumentRow ==
  ASSUME DocTypes, NEW s \in DocSubjects, NEW t \in {x.tenant : x \in DocSubjects},
         NEW large \in BOOLEAN
  PROVE  NewDocument(s, t, large) \in DocRows /\ NewDocument(s, t, large).id = docSequence + 1
<1>1. docSequence + 1 \in Nat
  BY DEF DocTypes
<1>2. s.uid \in {x.uid : x \in DocSubjects} /\ "active" \in DocStatuses
  BY Zenon DEF DocStatuses
<1> QED BY <1>1, <1>2, Zenon DEF NewDocument, NextDocId, DocRows

(* A change of status leaves a row a row, with its id.                     *)
LEMMA RestatusRow ==
  ASSUME NEW d \in DocRows, NEW st \in DocStatuses
  PROVE  [d EXCEPT !.status = st] \in DocRows /\ [d EXCEPT !.status = st].id = d.id
BY Zenon DEF DocRows

(* What each write does to the stored documents. *)
LEMMA UpdateReplaces ==
  ASSUME DocTypes, NEW c \in DocCalls, NEW st \in DocStatuses
  PROVE  \A e \in UpdatedDocument(c, st) :
           e \in DocRows /\ e.id = docLoaded[c].id /\ \E d \in docs : d.id = e.id
<1> SUFFICES ASSUME NEW e \in UpdatedDocument(c, st)
             PROVE  e \in DocRows /\ e.id = docLoaded[c].id /\ \E d \in docs : d.id = e.id
  BY Zenon
<1>1. PICK d \in docs : d.id = docLoaded[c].id /\ e = [d EXCEPT !.status = st]
  BY Zenon DEF UpdatedDocument, GetById
<1>2. d \in DocRows
  BY Zenon DEF DocTypes
<1>3. e \in DocRows /\ e.id = d.id
  BY <1>1, <1>2, RestatusRow, Zenon
<1> QED BY <1>1, <1>3, Zenon

(* Every write keeps the rows and their ids; the sequence only grows.      *)
LEMMA DocStepRows ==
  DocTypes /\ IdsGivenOnce /\ DocNext =>
    /\ docs' \subseteq DocRows /\ IdsGivenOnce'
    /\ docSequence' \in Nat /\ docSequence <= docSequence'
<1> SUFFICES ASSUME DocTypes, IdsGivenOnce, DocNext
             PROVE  /\ docs' \subseteq DocRows /\ IdsGivenOnce'
                    /\ docSequence' \in Nat /\ docSequence <= docSequence'
  BY Zenon
<1>0. docs \subseteq DocRows /\ docSequence \in Nat
  BY Zenon DEF DocTypes
<1>1. CASE CreateDocument
  <2> PICK s \in DocSubjects, t \in {x.tenant : x \in DocSubjects}, large \in BOOLEAN :
         docs' = docs \cup {NewDocument(s, t, large)} /\ docSequence' = docSequence + 1
         /\ deletedDocs' = deletedDocs
    BY <1>1, Zenon DEF CreateDocument
  <2> DEFINE n == NewDocument(s, t, large)
  <2>1. n \in DocRows /\ n.id = docSequence + 1
    BY NewDocumentRow, Zenon
  <2> HIDE DEF n
  <2>2. docs' = docs \cup {n}
    BY Zenon DEF n
  <2> QED BY <1>0, <2>1, <2>2 DEF IdsGivenOnce
<1>2. CASE ApproveDocument
  <2> PICK d \in docs : docs' = (docs \ {d}) \cup {ApprovedDocument(d)}
         /\ UNCHANGED <<docSequence, deletedDocs>>
    BY <1>2, Zenon DEF ApproveDocument
  <2> DEFINE e == ApprovedDocument(d)
  <2>1. e \in DocRows /\ e.id = d.id
    BY <1>0, RestatusRow, Zenon DEF ApprovedDocument, DocStatuses
  <2> HIDE DEF e
  <2>2. docs' = (docs \ {d}) \cup {e}
    BY Zenon DEF e
  <2> QED BY <1>0, <2>1, <2>2 DEF IdsGivenOnce
<1>3. ASSUME NEW c \in DocCalls, UpdateDocument(c)
      PROVE  docs' \subseteq DocRows /\ IdsGivenOnce' /\ UNCHANGED docSequence
  <2> PICK st \in DocStatuses :
         docs' = {d \in docs : d.id # docLoaded[c].id} \cup UpdatedDocument(c, st)
         /\ UNCHANGED <<docSequence, deletedDocs>>
    BY <1>3, Zenon DEF UpdateDocument
  <2>1. \A e \in UpdatedDocument(c, st) :
           e \in DocRows /\ e.id = docLoaded[c].id /\ \E d \in docs : d.id = e.id
    BY UpdateReplaces, Zenon
  <2>2. \A e, f \in UpdatedDocument(c, st) : e = f
    BY Zenon DEF UpdatedDocument, GetById, IdsGivenOnce
  <2> QED BY <1>0, <2>1, <2>2, Zenon DEF IdsGivenOnce
<1>4. ASSUME NEW c \in DocCalls, DeleteDocument(c)
      PROVE  docs' \subseteq DocRows /\ IdsGivenOnce' /\ UNCHANGED docSequence
  <2>1. /\ docs' = {d \in docs : d.id # docLoaded[c].id}
        /\ deletedDocs' = deletedDocs \cup {docLoaded[c].id}
        /\ docSequence' = docSequence
        /\ \E d \in docs : d.id = docLoaded[c].id
    BY <1>4, Zenon DEF DeleteDocument, GetById
  <2> QED BY <1>0, <2>1, Zenon DEF IdsGivenOnce
<1>5. ASSUME NEW c \in DocCalls, GetDocumentResource(c) \/ Forbidden(c) \/ GetDocument(c)
      PROVE  UNCHANGED <<docs, docSequence, deletedDocs>>
  BY <1>5, Zenon DEF GetDocumentResource, Forbidden, GetDocument
<1>6. CASE UNCHANGED <<docs, docSequence, deletedDocs>>
  BY <1>0, <1>6 DEF IdsGivenOnce
<1> QED BY <1>0, <1>1, <1>2, <1>3, <1>4, <1>5, <1>6 DEF DocNext

(* Every step keeps the types of the requests.                             *)
LEMMA DocStepCalls ==
  DocTypes /\ DocNext =>
    /\ docPc' \in [DocCalls -> {"idle", "loaded"}]
    /\ DOMAIN docCall' = DocCalls /\ DOMAIN docLoaded' = DocCalls
    /\ DOMAIN changedSince' = DocCalls
<1> SUFFICES ASSUME DocTypes, DocNext
             PROVE  /\ docPc' \in [DocCalls -> {"idle", "loaded"}]
                    /\ DOMAIN docCall' = DocCalls /\ DOMAIN docLoaded' = DocCalls
                    /\ DOMAIN changedSince' = DocCalls
  BY Zenon
<1> USE DEF DocTypes
<1>1. CASE CreateDocument
  BY <1>1, Zenon DEF CreateDocument
<1>2. CASE ApproveDocument
  BY <1>2, Zenon DEF ApproveDocument
<1>3. CASE \E c \in DocCalls : GetDocumentResource(c)
  BY <1>3, ZenonT(30) DEF GetDocumentResource
<1>4. CASE \E c \in DocCalls, id \in {docLoaded[x].id : x \in DocCalls}, changed \in BOOLEAN :
              EndDocCall(c, id, changed)
  BY <1>4, Zenon DEF EndDocCall
<1>5. ASSUME NEW c \in DocCalls,
             Forbidden(c) \/ GetDocument(c) \/ UpdateDocument(c) \/ DeleteDocument(c)
      PROVE  EndDocCall(c, docLoaded[c].id, FALSE) \/ EndDocCall(c, docLoaded[c].id, TRUE)
  BY <1>5, ZenonT(30) DEF Forbidden, GetDocument, UpdateDocument, DeleteDocument
<1> QED BY <1>1, <1>2, <1>3, <1>4, <1>5, Zenon DEF DocNext

(* A request that holds a document keeps it, or is told of the change. *)
LEMMA DocStepHolds ==
  ASSUME DocInv, DocNext, NEW o \in DocCalls
  PROVE  HoldsStored(o)'
<1>0. docSequence \in Nat /\ docSequence' \in Nat /\ docSequence <= docSequence'
  BY DocStepRows, Zenon DEF DocInv, DocTypes
<1> SUFFICES ASSUME docPc'[o] = "loaded"
             PROVE  /\ docLoaded'[o].id \in 1..docSequence'
                    /\ ~changedSince'[o] => docLoaded'[o] \in docs'
  BY Zenon DEF HoldsStored
<1>1. CASE GetDocumentResource(o)
  BY <1>1, Zenon DEF GetDocumentResource, DocInv, DocTypes, IdsGivenOnce
<1>2. CASE /\ docPc[o] = "loaded" /\ docLoaded'[o] = docLoaded[o]
           /\ ~changedSince'[o] => ~changedSince[o] /\ (docLoaded[o] \in docs => docLoaded[o] \in docs')
  <2>1. docLoaded[o].id \in 1..docSequence /\ (~changedSince[o] => docLoaded[o] \in docs)
    BY <1>2, Zenon DEF DocInv, HoldsStored
  <2> QED BY <1>0, <1>2, <2>1
<1>3. CASE CreateDocument
  BY <1>2, <1>3, Zenon DEF CreateDocument
<1>4. CASE ApproveDocument
  <2> PICK d \in docs : docs' = (docs \ {d}) \cup {ApprovedDocument(d)}
         /\ changedSince' = [c \in DocCalls |-> changedSince[c] \/ docLoaded[c].id = d.id]
         /\ UNCHANGED <<docPc, docLoaded>>
    BY <1>4, Zenon DEF ApproveDocument
  <2>1. ~changedSince'[o] => ~changedSince[o] /\ docLoaded[o].id # d.id
    BY Zenon
  <2> QED BY <1>2, <2>1, Zenon
<1>5. ASSUME NEW c \in DocCalls, c # o, GetDocumentResource(c)
      PROVE  docPc[o] = "loaded" /\ UNCHANGED <<docs, changedSince>> /\ docLoaded'[o] = docLoaded[o]
  BY <1>5 DEF GetDocumentResource, DocInv, DocTypes
<1>6. ASSUME NEW c \in DocCalls, NEW id, NEW changed \in BOOLEAN, EndDocCall(c, id, changed)
      PROVE  /\ c # o /\ docPc[o] = "loaded" /\ docLoaded'[o] = docLoaded[o]
             /\ ~changedSince'[o] => ~changedSince[o] /\ ~(changed /\ docLoaded[o].id = id)
  <2>1. c # o /\ docPc[o] = "loaded" /\ docLoaded'[o] = docLoaded[o]
    BY <1>6, Zenon DEF EndDocCall, DocInv, DocTypes
  <2>2. changedSince'[o] = (o # c /\ (changedSince[o] \/ (changed /\ docLoaded[o].id = id)))
    BY <1>6, Zenon DEF EndDocCall
  <2> QED BY <2>1, <2>2, Zenon
<1>7. ASSUME NEW c \in DocCalls, Forbidden(c) \/ GetDocument(c)
      PROVE  docs' = docs /\ EndDocCall(c, docLoaded[c].id, FALSE)
  BY <1>7, Zenon DEF Forbidden, GetDocument
<1>8. ASSUME NEW c \in DocCalls, UpdateDocument(c) \/ DeleteDocument(c)
      PROVE  /\ {d \in docs : d.id # docLoaded[c].id} \subseteq docs'
             /\ EndDocCall(c, docLoaded[c].id, TRUE)
  BY <1>8, Zenon DEF UpdateDocument, DeleteDocument
<1>9. CASE \E c \in DocCalls : GetDocumentResource(c)
  BY <1>1, <1>2, <1>5, <1>9, Zenon
<1>10. CASE \E c \in DocCalls : Forbidden(c) \/ GetDocument(c)
  BY <1>2, <1>6, <1>7, <1>10, Zenon
<1>11. CASE \E c \in DocCalls : UpdateDocument(c) \/ DeleteDocument(c)
  <2> PICK c \in DocCalls : UpdateDocument(c) \/ DeleteDocument(c)
    BY <1>11, Zenon
  <2>1. /\ docPc[o] = "loaded" /\ docLoaded'[o] = docLoaded[o]
        /\ ~changedSince'[o] => ~changedSince[o] /\ docLoaded[o].id # docLoaded[c].id
    BY <1>6, <1>8, Zenon
  <2> QED BY <1>2, <1>8, <2>1, Zenon
<1> QED BY <1>3, <1>4, <1>9, <1>10, <1>11, Zenon DEF DocNext

(* The guard evaluated the stored document, or the request was told. *)
LEMMA WriterMayWrite ==
  ASSUME DocInv, NEW c \in DocCalls, NEW action \in {"update", "delete"}, Allowed(c, action),
         NEW d \in docs, d.id = docLoaded[c].id, d.status = "archived"
  PROVE  docCall[c].by.role = "admin" \/ changedSince[c]
<1> SUFFICES ASSUME ~changedSince[c] PROVE docCall[c].by.role = "admin"
  BY Zenon
<1>1. docLoaded[c] = d
  BY Zenon DEF Allowed, DocInv, HoldsStored, IdsGivenOnce
<1>2. "lifecycle" \in MatchingRules(action)
  BY Zenon DEF MatchingRules
<1> QED BY <1>1, <1>2, Zenon DEF Allowed, Evaluate, PolicyLifecycleStateGuard

(* An archived document goes away, or changes, by the request of an admin  *)
(* or of one that was told of a change since it loaded it.                 *)
LEMMA DocStepKeeps ==
  ASSUME DocInv, DocNext, NEW d \in docs \ docs', d.status = "archived"
  PROVE  \/ docPc' = docPc
         \/ \E c \in DocCalls :
               /\ docPc[c] = "loaded" /\ docPc'[c] = "idle" /\ docLoaded[c].id = d.id
               /\ docCall[c].by.role = "admin" \/ changedSince[c]
<1>1. ASSUME NEW c \in DocCalls, NEW action \in {"update", "delete"}, Allowed(c, action),
             docLoaded[c].id = d.id, EndDocCall(c, docLoaded[c].id, TRUE)
      PROVE  /\ docPc[c] = "loaded" /\ docPc'[c] = "idle" /\ docLoaded[c].id = d.id
             /\ docCall[c].by.role = "admin" \/ changedSince[c]
  <2>1. docPc[c] = "loaded" /\ docPc'[c] = "idle"
    BY <1>1, Zenon DEF Allowed, EndDocCall, DocInv, DocTypes
  <2> QED BY <1>1, <2>1, WriterMayWrite, Zenon
<1>2. ASSUME NEW c \in DocCalls, UpdateDocument(c) \/ DeleteDocument(c)
      PROVE  /\ \E action \in {"update", "delete"} : Allowed(c, action)
             /\ docLoaded[c].id = d.id /\ EndDocCall(c, docLoaded[c].id, TRUE)
  BY <1>2, Zenon DEF UpdateDocument, DeleteDocument
<1>3. CASE \E c \in DocCalls : UpdateDocument(c) \/ DeleteDocument(c)
  BY <1>1, <1>2, <1>3, Zenon
<1>4. CASE CreateDocument \/ ApproveDocument
  BY <1>4, Zenon DEF CreateDocument, ApproveDocument
<1>5. CASE docs' = docs
  BY <1>5, Zenon
<1> QED BY <1>3, <1>4, <1>5, Zenon DEF DocNext, GetDocumentResource, Forbidden, GetDocument

(* For any number of requests, subjects and documents: a deleted document  *)
(* never comes back, and an archived one is changed or deleted only by an  *)
(* admin or on a load that was stale.                                      *)
THEOREM DocumentTheorem == DocSpec => LifecycleHolds
<1>1. DocInit => DocInv
  BY DEF DocInit, DocInv, DocTypes, IdsGivenOnce, HoldsStored
<1>2. DocInv /\ [DocNext]_docVars => DocInv'
  <2> SUFFICES ASSUME DocInv, [DocNext]_docVars PROVE DocInv'
    BY Zenon
  <2>1. CASE DocNext
    <3>1. DocTypes' /\ IdsGivenOnce'
      BY <2>1, DocStepRows, DocStepCalls, Zenon DEF DocInv, DocTypes
    <3>2. \A c \in DocCalls : HoldsStored(c)'
      BY <2>1, DocStepHolds, Zenon
    <3> QED BY <3>1, <3>2, Zenon DEF DocInv
  <2>2. CASE UNCHANGED docVars
    BY <2>2, Zenon DEF docVars, DocInv, DocTypes, IdsGivenOnce, HoldsStored
  <2> QED BY <2>1, <2>2, Zenon
<1>3. DocInv => DeletedStayDeleted
  BY Zenon DEF DocInv, IdsGivenOnce, DeletedStayDeleted
<1>4. DocInv /\ [DocNext]_docVars =>
        [\A d \in docs \ docs' : d.status = "archived" =>
          \/ docPc' = docPc
          \/ \E c \in DocCalls :
                /\ docPc[c] = "loaded" /\ docPc'[c] = "idle" /\ docLoaded[c].id = d.id
                /\ docCall[c].by.role = "admin" \/ changedSince[c]]_docVars
  BY DocStepKeeps, Zenon
<1> QED BY <1>1, <1>2, <1>3, <1>4, PTL DEF DocSpec, LifecycleHolds, ArchivedKeptUnlessStale

-----------------------------------------------------------------------------
(***************************************************************************)
(* User registration with its transaction context, its handlers and its    *)
(* background tasks: RegistrationEvents.tla.                               *)
(***************************************************************************)

(* The phases of a registration.                                           *)
RgPhases == {"arrive", "create", "raised", "gather", "tasks", "audit", "teardown", "commit",
             "rollback", "done", "failed"}

(* The types of the contexts and the stores.                               *)
RegistrationTypes ==
  /\ tasksAfter \in BOOLEAN
  /\ rgPc \in [Registrations -> RgPhases]
  /\ txStatus \in [Registrations -> {"active", "committed", "rolled_back"}]
  /\ staged \in [Registrations -> BOOLEAN]
  /\ txHistory \in Seq(Registrations)
  /\ notices \in Seq(Registrations) /\ auditLog \in Seq(Registrations)

(* A context is open from the start of the endpoint to its teardown, which *)
(* comes before or after the background tasks.                             *)
ContextOpen(r) ==
  \/ rgPc[r] \in {"create", "raised", "gather", "teardown"}
  \/ rgPc[r] \in {"tasks", "audit"} /\ tasksAfter = FALSE

(* The open contexts are registered, and every other one that was begun is *)
(* in the history, once.                                                   *)
ContextsListed ==
  /\ openTxs = {r \in Registrations : ContextOpen(r)}
  /\ \A r \in Registrations :
       (\E i \in DOMAIN txHistory : txHistory[i] = r) <=> ~ContextOpen(r) /\ rgPc[r] # "arrive"
  /\ \A i, j \in DOMAIN txHistory : txHistory[i] = txHistory[j] => i = j

(* What is known of a request whose context is closed. *)
OutcomeOf(r) ==
  /\ rgPc[r] \in {"rollback", "failed", "commit", "done"} => txStatus[r] # "active"
  /\ rgPc[r] \in {"tasks", "audit"} /\ tasksAfter = TRUE =>
       txStatus[r] = "committed" /\ r \in committedUsers
  /\ rgPc[r] = "commit" => txStatus[r] = "committed"
  /\ rgPc[r] \in {"arrive", "create", "raised"} => r \notin committedUsers
  /\ r \in committedUsers => txStatus[r] = "committed"
  /\ txStatus[r] = "rolled_back" => staged[r] = FALSE /\ rgPc[r] \in {"rollback", "failed"}

(* The stores are bounded, and hold committed users where the tasks run    *)
(* after the teardown.                                                     *)
WelcomedInv ==
  /\ Len(notices) <= MaxEntries /\ Len(auditLog) <= MaxEntries
  /\ tasksAfter = TRUE =>
       /\ \A i \in 1 .. Len(notices) : notices[i] \in committedUsers
       /\ \A i \in 1 .. Len(auditLog) : auditLog[i] \in committedUsers

(* The inductive invariant of the registration.                            *)
RegistrationInv ==
  RegistrationTypes /\ ContextsListed /\ (\A r \in Registrations : OutcomeOf(r)) /\ WelcomedInv

(* What a bounded store p holds: the new entry and some of the old ones. *)
NewestOf(p, q, e) ==
  /\ p \in Seq(Registrations) /\ Len(p) <= MaxEntries
  /\ \A i \in 1 .. Len(p) : p[i] = e \/ \E j \in 1 .. Len(q) : p[i] = q[j]

(* A bounded store keeps its newest entries.                               *)
LEMMA KeptEntries ==
  ASSUME NEW q \in Seq(Registrations), Len(q) <= MaxEntries, NEW e \in Registrations
  PROVE  NewestOf(KeepEntry(q, e), q, e)
<1>1. CASE Len(q) < MaxEntries
  BY <1>1, RegistrationAssumption DEF KeepEntry, NewestOf
<1>2. CASE Len(q) >= MaxEntries
  <2>1. q # <<>>
    BY <1>2, RegistrationAssumption
  <2>2. PICK t \in Seq(Registrations) : /\ t = Tail(q) /\ Len(t) = Len(q) - 1
                            /\ \A i \in 1 .. Len(t) : t[i] = q[i + 1]
    <3>1. Tail(q) \in Seq(Registrations) /\ Len(Tail(q)) = Len(q) - 1
      BY <2>1
    <3>2. \A i \in 1 .. Len(Tail(q)) : Tail(q)[i] = q[i + 1]
      BY <2>1
    <3> QED BY <3>1, <3>2, Zenon
  <2>3. KeepEntry(q, e) = Append(t, e)
    <3>1. ~(Len(q) < MaxEntries) /\ Len(q) \in Nat
      BY <1>2, RegistrationAssumption
    <3>2. t = Tail(q)
      BY <2>2, Zenon
    <3>3. QED BY <3>1, <3>2, Zenon DEF KeepEntry
  <2>4. PICK u \in Seq(Registrations) : /\ u = KeepEntry(q, e) /\ Len(u) = Len(q) /\ u[Len(q)] = e
                            /\ \A i \in 1 .. Len(t) : u[i] = t[i]
    <3>1. PICK u : u = Append(t, e)
      BY Zenon
    <3>2. u \in Seq(Registrations) /\ Len(u) = Len(t) + 1 /\ u[Len(t) + 1] = e
      BY <3>1
    <3>3. \A i \in 1 .. Len(t) : u[i] = t[i]
      BY <3>1
    <3>4. Len(t) + 1 = Len(q)
      BY <2>2
    <3>5. QED BY <2>3, <3>1, <3>2, <3>3, <3>4, Zenon
  <2>5. ASSUME NEW i \in 1 .. Len(q), i # Len(q)
        PROVE  u[i] = q[i + 1] /\ i + 1 \in 1 .. Len(q)
    <3>0. Len(q) \in Nat /\ Len(t) = Len(q) - 1
      BY <2>2
    <3>1. i \in 1 .. Len(t) /\ i + 1 \in 1 .. Len(q)
      BY <2>5, <3>0
    <3>2. u[i] = t[i]
      BY <2>4, <3>1, Zenon
    <3>3. t[i] = q[i + 1]
      BY <2>2, <3>1, Zenon
    <3>4. QED BY <3>1, <3>2, <3>3, Zenon
  <2>6. \A i \in 1 .. Len(u) : u[i] = e \/ \E j \in 1 .. Len(q) : u[i] = q[j]
    BY <2>4, <2>5, Zenon
  <2>7. QED BY <2>4, <2>6, Zenon DEF NewestOf
<1>3. QED BY <1>1, <1>2, RegistrationAssumption

(* A request goes on without its context being opened or closed. *)
LEMMA GoingOnKeeps ==
  ASSUME RegistrationInv, NEW r \in Registrations, NEW l \in RgPhases,
         rgPc' = [rgPc EXCEPT ![r] = l], rgPc[r] # "arrive", l # "arrive",
         UNCHANGED <<tasksAfter, txVars>>, ContextOpen(r) = ContextOpen(r)'
  PROVE  ContextsListed'
<1>1. \A x \in Registrations : ContextOpen(x)' <=> ContextOpen(x)
  BY Zenon DEF ContextOpen, RegistrationInv, RegistrationTypes
<1>2. QED BY <1>1 DEF ContextsListed, txVars, RegistrationInv, RegistrationTypes

(* Closing a context moves it from the open ones to the history.           *)
LEMMA CloseKeeps ==
  ASSUME RegistrationInv, NEW r \in Registrations, NEW status, NEW l \in {"commit", "rollback"},
         CloseTransaction(r, status), rgPc' = [rgPc EXCEPT ![r] = l], ContextOpen(r),
         tasksAfter' = tasksAfter
  PROVE  ContextsListed' /\ txHistory' \in Seq(Registrations)
<1>1. PICK n \in Nat : n = Len(txHistory)
  BY DEF RegistrationInv, RegistrationTypes
<1>2. /\ txHistory' \in Seq(Registrations) /\ Len(txHistory') = n + 1 /\ txHistory'[n + 1] = r
      /\ \A i \in 1 .. n : txHistory'[i] = txHistory[i]
      /\ DOMAIN txHistory = 1 .. n /\ DOMAIN txHistory' = 1 .. (n + 1)
  BY <1>1 DEF RegistrationInv, RegistrationTypes, CloseTransaction
<1>3. /\ ~ContextOpen(r)' /\ rgPc'[r] # "arrive" /\ rgPc[r] # "arrive"
      /\ \A x \in Registrations \ {r} : (ContextOpen(x)' <=> ContextOpen(x)) /\ rgPc'[x] = rgPc[x]
  BY Zenon DEF ContextOpen, RegistrationInv, RegistrationTypes
<1>4. openTxs' = {x \in Registrations : ContextOpen(x)'}
  BY <1>3 DEF RegistrationInv, ContextsListed, CloseTransaction
<1>5. \A i \in 1 .. n : txHistory[i] # r
  BY <1>2, Zenon DEF RegistrationInv, ContextsListed
<1>6. ASSUME NEW x \in Registrations
      PROVE  (\E i \in DOMAIN txHistory' : txHistory'[i] = x) <=>
               ~ContextOpen(x)' /\ rgPc'[x] # "arrive"
  <2>1. CASE x = r
    BY <1>2, <1>3, <2>1, SMT, Z3
  <2>2. CASE x # r
    <3>1. (\E i \in DOMAIN txHistory' : txHistory'[i] = x) <=>
            (\E i \in DOMAIN txHistory : txHistory[i] = x)
      BY <1>2, <2>2
    <3>2. QED BY <1>3, <2>2, <3>1 DEF RegistrationInv, ContextsListed
  <2>3. QED BY <2>1, <2>2, Zenon
<1>7. \A i, j \in DOMAIN txHistory' : txHistory'[i] = txHistory'[j] => i = j
  BY <1>2, <1>5 DEF RegistrationInv, ContextsListed
<1>8. QED BY <1>2, <1>4, <1>6, <1>7, Zenon DEF ContextsListed

(* Welcoming a user adds one entry to a store.                             *)
LEMMA WelcomeKeeps ==
  ASSUME RegistrationInv, NEW r \in Registrations, NEW q \in Seq(Registrations),
         NEW p \in Seq(Registrations), p = KeepEntry(q, r), Len(q) <= MaxEntries,
         tasksAfter = TRUE => r \in committedUsers /\ \A i \in 1 .. Len(q) : q[i] \in committedUsers
  PROVE  /\ Len(p) <= MaxEntries
         /\ tasksAfter = TRUE => \A i \in 1 .. Len(p) : p[i] \in committedUsers
<1>1. /\ Len(p) <= MaxEntries
      /\ \A i \in 1 .. Len(p) : p[i] = r \/ \E j \in 1 .. Len(q) : p[i] = q[j]
  BY KeptEntries, Zenon DEF NewestOf
<1>2. QED BY <1>1, Zenon

(* A step of one registration leaves the outcome of every other one.       *)
LEMMA OutcomesKept ==
  ASSUME RegistrationInv, NEW r \in Registrations, NEW l \in RgPhases,
         rgPc' = [rgPc EXCEPT ![r] = l], tasksAfter' = tasksAfter,
         \A x \in Registrations \ {r} : /\ txStatus'[x] = txStatus[x] /\ staged'[x] = staged[x]
                                        /\ x \in committedUsers' <=> x \in committedUsers,
         rgPc'[r] = l => OutcomeOf(r)'
  PROVE  rgPc' \in [Registrations -> RgPhases] /\ \A x \in Registrations : OutcomeOf(x)'
<1>1. rgPc' \in [Registrations -> RgPhases] /\ rgPc'[r] = l
  BY Zenon DEF RegistrationInv, RegistrationTypes
<1>2. ASSUME NEW x \in Registrations \ {r} PROVE OutcomeOf(x)'
  <2>1. rgPc'[x] = rgPc[x] /\ OutcomeOf(x)
    BY Zenon DEF RegistrationInv, RegistrationTypes
  <2>2. QED BY <2>1, Zenon DEF OutcomeOf
<1>3. QED BY <1>1, <1>2, Zenon

(* The invariant is kept by every step of a registration.                  *)
LEMMA RegistrationStepKeeps ==
  ASSUME RegistrationInv, NEW r \in Registrations, RegistrationStep(r)
  PROVE  RegistrationInv'
<1>t. /\ RegistrationTypes /\ ContextsListed /\ OutcomeOf(r) /\ WelcomedInv
  BY Zenon DEF RegistrationInv
<1>l. \A l \in RgPhases : rgPc' = [rgPc EXCEPT ![r] = l] => rgPc'[r] = l
  BY <1>t, Zenon DEF RegistrationTypes
<1>u. ASSUME UNCHANGED <<tasksAfter, committedUsers, notices, auditLog>> PROVE WelcomedInv'
  BY <1>t, <1>u, Zenon DEF WelcomedInv
<1>v. ASSUME UNCHANGED <<tasksAfter, txStatus, staged, txHistory, notices, auditLog>>,
             rgPc' \in [Registrations -> RgPhases]
      PROVE  RegistrationTypes'
  BY <1>t, <1>v, Zenon DEF RegistrationTypes
<1>1. CASE BeginAndStage(r)
  <2>0. /\ rgPc[r] = "arrive" /\ rgPc' = [rgPc EXCEPT ![r] = "create"]
        /\ openTxs' = openTxs \cup {r} /\ staged' = [staged EXCEPT ![r] = TRUE]
        /\ UNCHANGED <<tasksAfter, txStatus, txHistory, committedUsers, notices, auditLog>>
    BY <1>1, Zenon DEF BeginAndStage, RgGo, storeVars
  <2>1. ContextsListed'
    BY <1>t, <2>0 DEF ContextsListed, ContextOpen, RegistrationTypes
  <2>2. OutcomeOf(r)'
    BY <1>t, <1>l, <2>0, Zenon DEF OutcomeOf, RgPhases, RegistrationTypes
  <2>3. rgPc' \in [Registrations -> RgPhases] /\ \A x \in Registrations : OutcomeOf(x)'
    BY <1>t, <2>0, <2>2, OutcomesKept, Zenon DEF RgPhases, RegistrationTypes
  <2>4. RegistrationTypes'
    BY <1>t, <2>0, <2>3, Zenon DEF RegistrationTypes
  <2>5. QED BY <1>u, <2>0, <2>1, <2>3, <2>4, Zenon DEF RegistrationInv
<1>2. ASSUME NEW l \in RgPhases \ {"arrive", "commit", "rollback"},
             rgPc' = [rgPc EXCEPT ![r] = l], rgPc[r] # "arrive",
             ContextOpen(r) = ContextOpen(r)', UNCHANGED <<tasksAfter, txVars>>,
             \A x \in Registrations \ {r} : x \in committedUsers' <=> x \in committedUsers,
             rgPc'[r] = l => OutcomeOf(r)'
      PROVE  /\ ContextsListed' /\ rgPc' \in [Registrations -> RgPhases]
             /\ \A x \in Registrations : OutcomeOf(x)'
  <2>1. ContextsListed'
    BY <1>2, GoingOnKeeps, Zenon
  <2>2. rgPc' \in [Registrations -> RgPhases] /\ \A x \in Registrations : OutcomeOf(x)'
    BY <1>2, OutcomesKept, Zenon DEF txVars
  <2>3. QED BY <2>1, <2>2, Zenon
<1>3. CASE RegisterUser(r)
  <2>0. PICK l \in {"raised", "gather"} :
          /\ rgPc[r] = "create" /\ rgPc' = [rgPc EXCEPT ![r] = l]
          /\ UNCHANGED <<tasksAfter, txVars, committedUsers, notices, auditLog>>
    BY <1>3, Zenon DEF RegisterUser, RgGo, storeVars
  <2>1. rgPc'[r] = l /\ l \in RgPhases \ {"arrive", "commit", "rollback"}
    BY <1>l, <2>0, Zenon DEF RgPhases
  <2>2. ContextOpen(r) = ContextOpen(r)' /\ OutcomeOf(r)'
    BY <1>t, <2>0, <2>1, Zenon DEF ContextOpen, OutcomeOf, txVars
  <2>3. QED BY <1>2, <1>u, <1>v, <2>0, <2>1, <2>2, Zenon DEF RegistrationInv, txVars
<1>4. ASSUME NEW h \in EventHandlers, SafeExecute(r, h) PROVE RegistrationInv'
  <2>1. UNCHANGED <<tasksAfter, rgPc, txStatus, staged, openTxs, txHistory, committedUsers,
                    notices, auditLog>>
    BY <1>4, Zenon DEF SafeExecute, storeVars, txVars
  <2>2. RegistrationTypes' /\ ContextsListed'
    BY <1>t, <2>1, Zenon DEF RegistrationTypes, ContextsListed, ContextOpen
  <2>3. \A x \in Registrations : OutcomeOf(x)'
    BY <2>1, Zenon DEF OutcomeOf, RegistrationInv
  <2>4. QED BY <1>u, <2>1, <2>2, <2>3, Zenon DEF RegistrationInv
<1>5. CASE ReturnUser(r)
  <2>0. PICK l \in {"teardown", "tasks"} :
          /\ rgPc[r] = "gather" /\ rgPc' = [rgPc EXCEPT ![r] = l]
          /\ l = "tasks" <=> tasksAfter = FALSE
          /\ UNCHANGED <<tasksAfter, txVars, committedUsers, notices, auditLog>>
    BY <1>5, <1>t, Zenon DEF ReturnUser, RgGo, storeVars, RegistrationTypes
  <2>1. rgPc'[r] = l /\ l \in RgPhases \ {"arrive", "commit", "rollback"}
    BY <1>l, <2>0, Zenon DEF RgPhases
  <2>2. ContextOpen(r) = ContextOpen(r)' /\ OutcomeOf(r)'
    BY <1>t, <2>0, <2>1, Zenon DEF ContextOpen, OutcomeOf, txVars, RegistrationTypes
  <2>3. QED BY <1>2, <1>u, <1>v, <2>0, <2>1, <2>2, Zenon DEF RegistrationInv, txVars
<1>6. ASSUME NEW q \in Seq(Registrations), NEW p, p = KeepEntry(q, r), Len(q) <= MaxEntries,
             tasksAfter = TRUE => r \in committedUsers /\ \A i \in 1 .. Len(q) : q[i] \in committedUsers
      PROVE  /\ p \in Seq(Registrations) /\ Len(p) <= MaxEntries
             /\ tasksAfter = TRUE => \A i \in 1 .. Len(p) : p[i] \in committedUsers
  <2>1. p \in Seq(Registrations)
    BY <1>6, KeptEntries, Zenon DEF NewestOf
  <2>2. QED BY <1>6, <2>1, WelcomeKeeps, Zenon
<1>7. CASE SendWelcomeNotification(r)
  <2>0. /\ rgPc[r] = "tasks" /\ rgPc' = [rgPc EXCEPT ![r] = "audit"]
        /\ notices' = KeepEntry(notices, r)
        /\ UNCHANGED <<tasksAfter, txVars, committedUsers, auditLog>>
    BY <1>7, Zenon DEF SendWelcomeNotification, RgGo
  <2>1. rgPc'[r] = "audit" /\ "audit" \in RgPhases \ {"arrive", "commit", "rollback"}
    BY <1>l, <2>0, Zenon DEF RgPhases
  <2>2. ContextOpen(r) = ContextOpen(r)' /\ OutcomeOf(r)'
    BY <1>t, <2>0, <2>1, Zenon DEF ContextOpen, OutcomeOf, txVars
  <2>3. /\ ContextsListed' /\ rgPc' \in [Registrations -> RgPhases]
        /\ \A x \in Registrations : OutcomeOf(x)'
    BY <1>2, <2>0, <2>1, <2>2, Zenon
  <2>4. tasksAfter = TRUE => r \in committedUsers
    BY <1>t, <2>0, Zenon DEF OutcomeOf
  <2>5. /\ notices' \in Seq(Registrations) /\ Len(notices') <= MaxEntries
        /\ tasksAfter = TRUE => \A i \in 1 .. Len(notices') : notices'[i] \in committedUsers
    BY <1>6, <1>t, <2>0, <2>4, Zenon DEF RegistrationTypes, WelcomedInv
  <2>6. WelcomedInv'
    BY <1>t, <2>0, <2>5, Zenon DEF WelcomedInv
  <2>7. RegistrationTypes'
    BY <1>t, <2>0, <2>3, <2>5, Zenon DEF RegistrationTypes, txVars
  <2>8. QED BY <2>3, <2>6, <2>7, Zenon DEF RegistrationInv
<1>8. CASE RecordAuditLog(r)
  <2>0. PICK l \in {"done", "teardown"} :
          /\ rgPc[r] = "audit" /\ rgPc' = [rgPc EXCEPT ![r] = l]
          /\ l = "done" <=> tasksAfter = TRUE
          /\ auditLog' = KeepEntry(auditLog, r)
          /\ UNCHANGED <<tasksAfter, txVars, committedUsers, notices>>
    BY <1>8, <1>t, Zenon DEF RecordAuditLog, RgGo, RegistrationTypes
  <2>1. rgPc'[r] = l /\ l \in RgPhases \ {"arrive", "commit", "rollback"}
    BY <1>l, <2>0, Zenon DEF RgPhases
  <2>2. ContextOpen(r) = ContextOpen(r)' /\ OutcomeOf(r)'
    BY <1>t, <2>0, <2>1, Zenon DEF ContextOpen, OutcomeOf, txVars, RegistrationTypes
  <2>3. /\ ContextsListed' /\ rgPc' \in [Registrations -> RgPhases]
        /\ \A x \in Registrations : OutcomeOf(x)'
    BY <1>2, <2>0, <2>1, <2>2, Zenon
  <2>4. tasksAfter = TRUE => r \in committedUsers
    BY <1>t, <2>0, Zenon DEF OutcomeOf
  <2>5. /\ auditLog' \in Seq(Registrations) /\ Len(auditLog') <= MaxEntries
        /\ tasksAfter = TRUE => \A i \in 1 .. Len(auditLog') : auditLog'[i] \in committedUsers
    BY <1>6, <1>t, <2>0, <2>4, Zenon DEF RegistrationTypes, WelcomedInv
  <2>6. WelcomedInv'
    BY <1>t, <2>0, <2>5, Zenon DEF WelcomedInv
  <2>7. RegistrationTypes'
    BY <1>t, <2>0, <2>3, <2>5, Zenon DEF RegistrationTypes, txVars
  <2>8. QED BY <2>3, <2>6, <2>7, Zenon DEF RegistrationInv
<1>9. CASE TeardownContext(r)
  <2>0. PICK l \in {"commit", "rollback"}, status \in {"committed", "rolled_back"} :
          /\ rgPc[r] \in {"teardown", "raised"} /\ rgPc' = [rgPc EXCEPT ![r] = l]
          /\ status = "committed" <=> l = "commit"
          /\ status = "committed" <=> rgPc[r] = "teardown"
          /\ CloseTransaction(r, status)
          /\ UNCHANGED <<tasksAfter, committedUsers, notices, auditLog>>
    BY <1>9, Zenon DEF TeardownContext, RgGo, storeVars
  <2>1. ContextsListed' /\ txHistory' \in Seq(Registrations)
    BY <1>t, <2>0, CloseKeeps, Zenon DEF ContextOpen
  <2>2. /\ txStatus' = [txStatus EXCEPT ![r] = status]
        /\ staged' = [staged EXCEPT ![r] = @ /\ status = "committed"]
    BY <2>0, Zenon DEF CloseTransaction
  <2>3. txStatus'[r] = status /\ (status = "rolled_back" => staged'[r] = FALSE) /\ rgPc'[r] = l
    BY <1>t, <2>0, <2>2, Zenon DEF RegistrationTypes
  <2>4. OutcomeOf(r)'
    BY <1>t, <2>0, <2>3, Zenon DEF OutcomeOf
  <2>5. \A x \in Registrations \ {r} : txStatus'[x] = txStatus[x] /\ staged'[x] = staged[x]
    BY <1>t, <2>2, Zenon DEF RegistrationTypes
  <2>6. rgPc' \in [Registrations -> RgPhases] /\ \A x \in Registrations : OutcomeOf(x)'
    BY <2>0, <2>4, <2>5, OutcomesKept, Zenon DEF RgPhases
  <2>7. /\ txStatus' \in [Registrations -> {"active", "committed", "rolled_back"}]
        /\ staged' \in [Registrations -> BOOLEAN]
    BY <1>t, <2>2, Zenon DEF RegistrationTypes
  <2>8. RegistrationTypes'
    BY <1>t, <2>0, <2>1, <2>6, <2>7, Zenon DEF RegistrationTypes
  <2>9. QED BY <1>u, <2>0, <2>1, <2>6, <2>8, Zenon DEF RegistrationInv
<1>10. CASE TeardownSession(r)
  <2>0. PICK l \in {"tasks", "done", "failed"} :
          /\ rgPc[r] \in {"commit", "rollback"} /\ rgPc' = [rgPc EXCEPT ![r] = l]
          /\ \/ /\ rgPc[r] = "commit" /\ committedUsers' = committedUsers \cup {r}
                /\ l = (IF tasksAfter THEN "tasks" ELSE "done")
             \/ committedUsers' = committedUsers /\ l = "failed"
          /\ UNCHANGED <<tasksAfter, txVars, notices, auditLog>>
    BY <1>10, Zenon DEF TeardownSession, RgGo, storeVars
  <2>1. rgPc'[r] = l /\ l \in RgPhases \ {"arrive", "commit", "rollback"}
    BY <1>l, <2>0, Zenon DEF RgPhases
  <2>2. ContextOpen(r) = ContextOpen(r)' /\ OutcomeOf(r)'
    BY <1>t, <2>0, <2>1, Zenon DEF ContextOpen, OutcomeOf, txVars, RegistrationTypes
  <2>3. \A x \in Registrations \ {r} : x \in committedUsers' <=> x \in committedUsers
    BY <2>0, Zenon
  <2>4. /\ ContextsListed' /\ rgPc' \in [Registrations -> RgPhases]
        /\ \A x \in Registrations : OutcomeOf(x)'
    BY <1>2, <2>0, <2>1, <2>2, <2>3, Zenon
  <2>5. WelcomedInv'
    BY <1>t, <2>0, Zenon DEF WelcomedInv
  <2>6. QED BY <1>v, <2>0, <2>4, <2>5, Zenon DEF RegistrationInv, txVars
<1>11. QED BY <1>1, <1>3, <1>4, <1>5, <1>7, <1>8, <1>9, <1>10, Zenon DEF RegistrationStep

INSTANCE FiniteSetTheorems

(* In the state of RegistrationInv the history has one entry per closed    *)
(* context.                                                                *)
LEMMA HistoryCounts ==
  ASSUME RegistrationInv, NEW r \in Registrations
  PROVE  Cardinality({i \in DOMAIN txHistory : txHistory[i] = r})
           = IF r \in openTxs \/ rgPc[r] = "arrive" THEN 0 ELSE 1
<1>1. CASE r \in openTxs \/ rgPc[r] = "arrive"
  <2>1. {i \in DOMAIN txHistory : txHistory[i] = r} = {}
    BY <1>1, Zenon DEF RegistrationInv, ContextsListed
  <2>2. QED BY <1>1, <2>1, FS_EmptySet
<1>2. CASE r \notin openTxs /\ rgPc[r] # "arrive"
  <2>1. PICK i \in DOMAIN txHistory : txHistory[i] = r
    BY <1>2, Zenon DEF RegistrationInv, ContextsListed
  <2>2. {j \in DOMAIN txHistory : txHistory[j] = r} = {i}
    BY <2>1 DEF RegistrationInv, ContextsListed
  <2>3. QED BY <1>2, <2>2, FS_Singleton, Zenon
<1>3. QED BY <1>1, <1>2

(* For any number of registrations: a context is open exactly while its    *)
(* request runs and is then in the history once, one that was rolled back  *)
(* left nothing behind, the stores stay bounded, and where the tasks run   *)
(* after the teardown only committed users are welcomed.                   *)
THEOREM RegistrationTheorem == RegistrationSpec => [](ContextsClosed /\ WelcomedAreCommitted)
<1>1. RegistrationInit => RegistrationInv
  BY RegistrationAssumption
     DEF RegistrationInit, RegistrationInv, RegistrationTypes, RgPhases, ContextsListed, ContextOpen,
         OutcomeOf, WelcomedInv
<1>2. RegistrationInv /\ [RegistrationNext]_registrationVars => RegistrationInv'
  <2>1. CASE UNCHANGED registrationVars
    BY <2>1 DEF registrationVars, txVars, storeVars, RegistrationInv, RegistrationTypes,
                ContextsListed, ContextOpen, OutcomeOf, WelcomedInv
  <2>2. QED BY <2>1, RegistrationStepKeeps, ZenonT(30) DEF RegistrationNext
<1>3. RegistrationInv => ContextsClosed
  <2> SUFFICES ASSUME RegistrationInv PROVE ContextsClosed
    BY Zenon
  <2>1. ASSUME NEW r \in Range(txHistory)
        PROVE  /\ txStatus[r] # "active"
               /\ txStatus[r] = "rolled_back" => ~staged[r] /\ r \notin committedUsers
    <3>1. r \in Registrations /\ \E i \in DOMAIN txHistory : txHistory[i] = r
      BY DEF Range, RegistrationInv, RegistrationTypes
    <3>2. ~ContextOpen(r) /\ rgPc[r] # "arrive" /\ OutcomeOf(r)
      BY <3>1, Zenon DEF RegistrationInv, ContextsListed
    <3>3. QED BY <3>1, <3>2, Zenon
                 DEF OutcomeOf, ContextOpen, RegistrationInv, RegistrationTypes, RgPhases
  <2>2. QED BY <2>1, HistoryCounts, Zenon DEF ContextsClosed
<1>4. RegistrationInv => WelcomedAreCommitted
  <2> SUFFICES ASSUME RegistrationInv PROVE WelcomedAreCommitted
    BY Zenon
  <2>1. DOMAIN notices = 1 .. Len(notices) /\ DOMAIN auditLog = 1 .. Len(auditLog)
    BY DEF RegistrationInv, RegistrationTypes
  <2>2. tasksAfter = TRUE => Range(notices) \cup Range(auditLog) \subseteq committedUsers
    BY <2>1, Zenon DEF Range, RegistrationInv, WelcomedInv
  <2>3. QED BY <2>2, Zenon DEF RegistrationInv, RegistrationTypes, WelcomedInv, WelcomedAreCommitted
<1>5. QED BY <1>1, <1>2, <1>3, <1>4, PTL DEF RegistrationSpec
=============================================================================
