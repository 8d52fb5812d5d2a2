----------------------------- MODULE OrderIntake -----------------------------
(***************************************************************************)
(* create_order() and create_order_with_outbox() in a Unit of Work, with   *)
(* users being deleted meanwhile.  On PostgreSQL an order's foreign key is *)
(* checked and a deleted user takes the orders along; SQLite, as           *)
(* core/database.py opens it, enforces neither.                            *)
(***************************************************************************)
EXTENDS Naturals, FiniteSets

CONSTANTS
  OrderCalls,  \* requests
  OrderUsers,  \* users in the database at the start
  OrderIds     \* UUIDv7 identifiers, in the order they are generated

ASSUME OrderAssumption == OrderIds \subseteq Nat

VARIABLES
  fkChecked,   \* foreign keys are enforced (PostgreSQL)
  odPc,        \* where a call is
  odJob,       \* its user and whether it uses the outbox
  odTx,        \* what its open session holds: [orders, events]
  customers,   \* users in the database
  orders,      \* committed orders: [id, job]
  events,      \* committed outbox events: order ids
  nextId       \* generate_uuidv7(): the next identifier

orderVars == <<fkChecked, odPc, odJob, odTx, customers, orders, events, nextId>>

EmptyTx == [orders |-> {}, events |-> {}]

(* create_order() and create_order_with_outbox(), for a user known before. *)
CreateOrderJobs == [user : OrderUsers, outbox : {FALSE}]
CreateOrderWithOutboxJobs == [user : OrderUsers, outbox : {TRUE}]

OrderInit ==
  /\ fkChecked \in BOOLEAN
  /\ odPc = [c \in OrderCalls |-> "start"]
  /\ odJob \in [OrderCalls -> CreateOrderJobs \cup CreateOrderWithOutboxJobs]
  /\ odTx = [c \in OrderCalls |-> EmptyTx]
  /\ customers = OrderUsers
  /\ orders = {} /\ events = {}
  /\ nextId = 1

OdGo(c, l) == odPc' = [odPc EXCEPT ![c] = l]

(* uow.users.get_by_id(): None raises UserNotFoundException. *)
FindUser(c) ==
  /\ odPc[c] = "start"
  /\ OdGo(c, IF odJob[c].user \in customers THEN "create" ELSE "raised")
  /\ UNCHANGED <<fkChecked, odJob, odTx, customers, orders, events, nextId>>

(* orders.create(): the INSERT with a new identifier, which the foreign    *)
(* key refuses once the user is gone.                                      *)
CreateOrderRow(c) ==
  /\ odPc[c] = "create"
  /\ nextId \in OrderIds
  /\ IF fkChecked /\ odJob[c].user \notin customers
     THEN OdGo(c, "raised") /\ UNCHANGED <<odTx, nextId>>
     ELSE /\ odTx' = [odTx EXCEPT ![c].orders = {[id |-> nextId, job |-> odJob[c]]}]
          /\ nextId' = nextId + 1
          /\ OdGo(c, IF odJob[c].outbox THEN "event" ELSE "commit")
  /\ UNCHANGED <<fkChecked, odJob, customers, orders, events>>

(* Mutation of RecordEvent: the order is committed before its event. *)
MutRecordEvent(c) ==
  /\ odPc[c] = "event"
  /\ orders' = orders \cup odTx[c].orders
  /\ odTx' = [odTx EXCEPT ![c] = [orders |-> {}, events |-> {o.id : o \in odTx[c].orders}]]
  /\ OdGo(c, "commit")
  /\ UNCHANGED <<fkChecked, odJob, customers, events, nextId>>

(* outbox.record_event() in the same session. *)
RecordEvent(c) ==
  /\ odPc[c] = "event"
  /\ odTx' = [odTx EXCEPT ![c].events = {o.id : o \in odTx[c].orders}]
  /\ OdGo(c, "commit")
  /\ UNCHANGED <<fkChecked, odJob, customers, orders, events, nextId>>

(* uow.commit(). *)
CommitOrder(c) ==
  /\ odPc[c] = "commit"
  /\ orders' = orders \cup odTx[c].orders
  /\ events' = events \cup odTx[c].events
  /\ odTx' = [odTx EXCEPT ![c] = EmptyTx]
  /\ OdGo(c, "done")
  /\ UNCHANGED <<fkChecked, odJob, customers, nextId>>

(* A statement or the commit fails, or the request is cancelled. *)
OrderFails(c) ==
  /\ odPc[c] \in {"create", "event", "commit"}
  /\ OdGo(c, "raised")
  /\ UNCHANGED <<fkChecked, odJob, odTx, customers, orders, events, nextId>>

(* __aexit__(): rollback and close. *)
RollbackOrder(c) ==
  /\ odPc[c] = "raised"
  /\ odTx' = [odTx EXCEPT ![c] = EmptyTx]
  /\ OdGo(c, "done")
  /\ UNCHANGED <<fkChecked, odJob, customers, orders, events, nextId>>

(* The DELETE of a user (UserAccounts).  Where foreign keys are enforced   *)
(* it waits for the sessions that reference the user and takes the user's  *)
(* orders along (ondelete="CASCADE").                                      *)
DeleteCustomer(u) ==
  /\ u \in customers
  /\ fkChecked => \A c \in OrderCalls : \A o \in odTx[c].orders : o.job.user # u
  /\ customers' = customers \ {u}
  /\ orders' = IF fkChecked THEN {o \in orders : o.job.user # u} ELSE orders
  /\ UNCHANGED <<fkChecked, odPc, odJob, odTx, events, nextId>>

OrderNext ==
  \/ \E c \in OrderCalls :
       \/ FindUser(c) \/ CreateOrderRow(c) \/ RecordEvent(c) \/ CommitOrder(c)
       \/ OrderFails(c) \/ RollbackOrder(c)
  \/ \E u \in OrderUsers : DeleteCustomer(u)

OrderSpec == OrderInit /\ [][OrderNext]_orderVars

(* get_order_by_id(), list_orders_by_user(): what a reader is given. *)
GetOrderById(id) == {o \in orders : o.id = id}
ListOrdersByUser(u) == {o \in orders : o.job.user = u}

(* An order placed through the outbox and its event are committed together *)
(* or not at all: an order that can be fetched has its event, and an       *)
(* event's order can be fetched unless its user was deleted.               *)
OrderWithItsEvent ==
  /\ \A u \in OrderUsers : \A o \in ListOrdersByUser(u) : o.job.outbox => o.id \in events
  /\ \A id \in events : GetOrderById(id) = {} => fkChecked /\ customers # OrderUsers

(* Where foreign keys are enforced, the user of an order that can be       *)
(* fetched exists, though the check and the insert are two statements.     *)
OrdersHaveUsers ==
  fkChecked => \A u \in OrderUsers : ListOrdersByUser(u) # {} => u \in customers

(* Orders are whole: each has its event and its user.                      *)
OrdersWhole == OrderWithItsEvent /\ OrdersHaveUsers
=============================================================================
