----------------------------- MODULE OutboxRelay -----------------------------
(***************************************************************************)
(* The transactional outbox on its way to Kafka: the two relay services,   *)
(* outbox_relay_service.py and ledger_outbox_relay_service.py, over the    *)
(* outbox repository.  A relay is one caller of a poll endpoint; every     *)
(* call reads a batch of PENDING rows, sends and marks them one by one in  *)
(* one open transaction, and commits once at the end.                      *)
(*                                                                         *)
(* Rows are read at READ COMMITTED and updated column by column, as the    *)
(* session flushes them; an update waits for the uncommitted update of     *)
(* another relay.  A send may raise before or after the broker appended,   *)
(* a database call may raise, and a cycle may be cancelled at any await.   *)
(***************************************************************************)
EXTENDS Integers, FiniteSets, Sequences, Functions, TLAPS

CONSTANTS
  Events,       \* outbox rows; their order as numbers is that of created_at
  KeyOf,        \* aggregate_id of an event
  LedgerEvents, \* events whose aggregate_type is a topic ("." in it)
  Relays,       \* callers of the poll endpoints
  LedgerRelays, \* those that call LedgerOutboxRelayService
  BatchSize,
  MaxRetries,
  Reachable     \* TRUE: the broker answers the probe of init_kafka_producer()

ASSUME RelayAssumption ==
  /\ Events \subseteq Nat /\ IsFiniteSet(Events)
  /\ LedgerEvents \subseteq Events
  /\ LedgerRelays \subseteq Relays
  /\ BatchSize \in Nat \ {0}
  /\ MaxRetries \in Nat \ {0}
  /\ Reachable \in BOOLEAN

VARIABLES
  row,       \* committed row of an event: status and retry_count
  producer,  \* the global Kafka producer: none, live or mock
  log,       \* the broker: deliveries <<event, topic>>, repetitions left out
  rpc,       \* where a relay is in its poll cycle
  batch,     \* events of the cycle that are still to be sent
  seen,      \* the row that session.get() returned for the current event
  write,     \* uncommitted column values of a relay, by event
  refused    \* history: sends of an event that raised, up to MaxRetries

vars == <<row, producer, log, rpc, batch, seen, write, refused>>

NoRow == [status |-> "NONE", retries |-> 0]
Keep == "KEEP"
NoWrite == [status |-> Keep, retries |-> -1, held |-> FALSE]

(* Mutation of Current: one service takes the newest row first. *)
MutNewestFirst(r, e) ==
  /\ e \in batch[r]
  /\ \A f \in batch[r] : IF r \in LedgerRelays THEN e >= f ELSE e <= f

(* The event that the loop over the batch is at. *)
Current(r, e) == e \in batch[r] /\ \A f \in batch[r] : e <= f

Goto(r, label) == rpc' = [rpc EXCEPT ![r] = label]

(* The row with the columns a flush has set. *)
Merge(old, w) == [status |-> IF w.status = Keep THEN old.status ELSE w.status,
                  retries |-> IF w.retries = -1 THEN old.retries ELSE w.retries]

-----------------------------------------------------------------------------

Init ==
  /\ row = [e \in Events |-> NoRow]
  /\ producer = "none"
  /\ log = << >>
  /\ rpc = [r \in Relays |-> "idle"]
  /\ batch = [r \in Relays |-> {}]
  /\ seen = [r \in Relays |-> NoRow]
  /\ write = [r \in Relays |-> [e \in Events |-> NoWrite]]
  /\ refused = [e \in Events |-> 0]

(* A transaction of the application commits its event.  Transactions on    *)
(* one aggregate follow one another, so its events commit in the order of  *)
(* created_at; those of other aggregates may overtake them.                *)
RecordEvent(e) ==
  /\ row[e] = NoRow
  /\ \A f \in Events : f < e /\ KeyOf[f] = KeyOf[e] => row[f] # NoRow
  /\ row' = [row EXCEPT ![e].status = "PENDING"]
  /\ UNCHANGED <<producer, log, rpc, batch, seen, write, refused>>

(* Start of the process: a broker that does not answer within 100 ms is    *)
(* replaced by the in-memory producer for the life of the process.         *)
InitProducer ==
  /\ producer = "none"
  /\ producer' \in IF Reachable THEN {"live"} ELSE {"live", "mock"}
  /\ UNCHANGED <<row, log, rpc, batch, seen, write, refused>>

Pending == {e \in Events : row[e].status = "PENDING"}

(* ORDER BY created_at LIMIT batch_size. *)
Oldest(n) == {e \in Pending : Cardinality({f \in Pending : f < e}) < n}

Poll(r) ==
  /\ rpc[r] = "idle"
  /\ producer # "none"
  /\ Pending # {}
  /\ batch' = [batch EXCEPT ![r] = Oldest(BatchSize)]
  /\ Goto(r, "send")
  /\ UNCHANGED <<row, producer, log, seen, write, refused>>

(* The topic of a delivery: each service applies its own rule to whatever  *)
(* it polled.                                                              *)
Topic(r, e) ==
  IF r \in LedgerRelays THEN "ledger.transfers.v1"
  ELSE IF e \in LedgerEvents THEN "ledger.transfers.v1s.events" ELSE "orders.events"

Deliver(r, e) ==
  log' = IF producer = "mock" \/ <<e, Topic(r, e)>> \in Range(log) THEN log
         ELSE Append(log, <<e, Topic(r, e)>>)

(* Mutation of SendAcked: the row is marked before the send. *)
MutMarkFirst(r) ==
  /\ rpc[r] = "send" /\ batch[r] # {}
  /\ Goto(r, "published")
  /\ UNCHANGED <<row, producer, log, batch, seen, write, refused>>

(* send_and_wait() returns. *)
SendAcked(r) ==
  /\ rpc[r] = "send"
  /\ \E e \in batch[r] : Current(r, e) /\ Deliver(r, e)
  /\ Goto(r, "published")
  /\ UNCHANGED <<row, producer, batch, seen, write, refused>>

(* send_and_wait() raises; the broker may have appended the record. *)
SendRefused(r) ==
  /\ rpc[r] = "send"
  /\ \E e \in batch[r] :
       /\ Current(r, e)
       /\ Deliver(r, e) \/ UNCHANGED log
       /\ refused' = [refused EXCEPT ![e] = IF @ < MaxRetries THEN @ + 1 ELSE @]
  /\ Goto(r, "failed")
  /\ UNCHANGED <<row, producer, batch, seen, write>>

(* session.get() of mark_published() or mark_failed(): the rows of the     *)
(* batch query are no longer referenced, so the row is read again.         *)
ReadRow(r) ==
  /\ rpc[r] \in {"published", "failed"}
  /\ \E e \in batch[r] : Current(r, e) /\ seen' = [seen EXCEPT ![r] = row[e]]
  /\ Goto(r, IF rpc[r] = "published" THEN "set_published" ELSE "set_failed")
  /\ UNCHANGED <<row, producer, log, batch, write, refused>>

RowBusy(r, e) == \E q \in Relays \ {r} : write[q][e].held

DoneMark(r) == IF r \in LedgerRelays THEN "PROCESSED" ELSE "PUBLISHED"

(* Only the columns that differ from the row read are written. *)
PublishedColumns(r) ==
  [status |-> IF seen[r].status = DoneMark(r) THEN Keep ELSE DoneMark(r),
   retries |-> -1, held |-> TRUE]

FailedColumns(r) ==
  [status |-> IF seen[r].retries + 1 >= MaxRetries /\ seen[r].status # "FAILED"
              THEN "FAILED" ELSE Keep,
   retries |-> seen[r].retries + 1, held |-> TRUE]

(* The flush of mark_published() or mark_failed(). *)
MarkRow(r) ==
  /\ rpc[r] \in {"set_published", "set_failed"}
  /\ \E e \in batch[r] :
       /\ Current(r, e)
       /\ ~RowBusy(r, e)
       /\ write' = [write EXCEPT ![r][e] = IF rpc[r] = "set_published"
                                           THEN PublishedColumns(r) ELSE FailedColumns(r)]
       /\ batch' = [batch EXCEPT ![r] = @ \ {e}]
       /\ Goto(r, IF batch[r] = {e} THEN "commit" ELSE "send")
  /\ seen' = [seen EXCEPT ![r] = NoRow]
  /\ UNCHANGED <<row, producer, log, refused>>

(* The transaction ends and the cycle with it. *)
Discard(r) ==
  /\ write' = [write EXCEPT ![r] = [e \in Events |-> NoWrite]]
  /\ batch' = [batch EXCEPT ![r] = {}]
  /\ seen' = [seen EXCEPT ![r] = NoRow]
  /\ Goto(r, "idle")

ApplyWrites(r) == row' = [e \in Events |-> Merge(row[e], write[r][e])]

(* A commit whose answer is lost leaves the same state. *)
Commit(r) ==
  /\ rpc[r] = "commit"
  /\ ApplyWrites(r)
  /\ Discard(r)
  /\ UNCHANGED <<producer, log, refused>>

(* lock_timeout, a database error or a cancellation: the flush of          *)
(* mark_failed() on the broken session raises too and leaves the unit of   *)
(* work, which rolls the whole batch back.                                 *)
Abort(r) ==
  /\ rpc[r] # "idle"
  /\ Discard(r)
  /\ UNCHANGED <<row, producer, log, refused>>

(* The process dies, and the in-memory producer with it. *)
Restart ==
  /\ producer' = "none"
  /\ rpc' = [r \in Relays |-> "idle"]
  /\ batch' = [r \in Relays |-> {}]
  /\ seen' = [r \in Relays |-> NoRow]
  /\ write' = [r \in Relays |-> [e \in Events |-> NoWrite]]
  /\ UNCHANGED <<row, log, refused>>

CycleStep(r) ==
  \/ SendAcked(r) \/ SendRefused(r) \/ ReadRow(r) \/ MarkRow(r) \/ Commit(r)

Next ==
  \/ \E e \in Events : RecordEvent(e)
  \/ InitProducer
  \/ \E r \in Relays : Poll(r) \/ CycleStep(r) \/ Abort(r)
  \/ Restart

(* A cycle that runs is scheduled, and a row lock is granted in the order  *)
(* of the waiting updates.  Aborts are not counted on, those by            *)
(* lock_timeout included.                                                  *)
Fairness == \A r \in Relays : WF_vars(CycleStep(r)) /\ SF_vars(MarkRow(r))

Spec == Init /\ [][Next]_vars

FairSpec == Spec /\ Fairness
-----------------------------------------------------------------------------

Done == {"PUBLISHED", "PROCESSED"}

Topics == {"ledger.transfers.v1", "ledger.transfers.v1s.events", "orders.events"}

(* The rows, the broker log and the cycles have the values of their        *)
(* columns; a cycle that has ended holds no row.                           *)
TypeOK ==
  /\ row \in [Events -> [status : {"NONE", "PENDING", "FAILED"} \cup Done,
                         retries : 0..MaxRetries + Cardinality(Relays)]]
  /\ producer \in {"none", "live", "mock"}
  /\ Range(log) \subseteq Events \X Topics
  /\ refused \in [Events -> 0..MaxRetries]
  /\ \A r \in Relays :
       /\ batch[r] \subseteq Events
       /\ rpc[r] = "idle" => batch[r] = {} /\ \A e \in Events : ~write[r][e].held
       /\ rpc[r] = "commit" <=> rpc[r] # "idle" /\ batch[r] = {}

Delivered(e) == \E i \in DOMAIN log : log[i][1] = e

(* "Outbox records are marked as 'PUBLISHED' strictly after broker ack":   *)
(* a committed row that a relay marked as relayed is in a broker log.      *)
MarkedAfterAck == \A e \in Events : row[e].status \in Done => Delivered(e)

(* A row is given up, status FAILED in mark_failed(), only after max_retries *)
(* sends of it have failed, whatever other relays did to the row between   *)
(* the read of retry_count and its update.                                 *)
GivenUpAfterMaxRetries ==
  \A e \in Events : row[e].status = "FAILED" => refused[e] >= MaxRetries

Overtakes(i, j) ==
  /\ i < j
  /\ log[i][2] = log[j][2]
  /\ KeyOf[log[i][1]] = KeyOf[log[j][1]]
  /\ log[j][1] < log[i][1]

(* Within a topic an event is first delivered after a later event of its   *)
(* key only if a send of it was refused, or a relay with another topic     *)
(* delivered it before.                                                    *)
OvertakenAfterRefusal ==
  \A i, j \in DOMAIN log : Overtakes(i, j) =>
    refused[log[j][1]] > 0 \/ \E k \in 1..i : log[k][1] = log[j][1]

(* A poll cycle ends: relays that update the same rows of one batch in one *)
(* transaction each never wait for one another forever, with lock_timeout  *)
(* left out of account, since both follow the order of created_at.         *)
EveryCycleEnds == \A r \in Relays : rpc[r] # "idle" ~> rpc[r] = "idle"

(* What the outbox promises its consumers, with any number of relays: a    *)
(* PUBLISHED row is in the broker, a FAILED one was refused as often as    *)
(* allowed, and only a refusal lets a later event overtake an earlier one. *)
DeliveryHolds ==
  MarkedAfterAck /\ GivenUpAfterMaxRetries /\ OvertakenAfterRefusal

-----------------------------------------------------------------------------
(***************************************************************************)
(* Proofs, for every set of rows, keys and relays and every batch size and *)
(* retry limit. Three arguments run side by side: what a relay marks has   *)
(* been delivered or refused; the log keeps the order of a key but for     *)
(* refusals; and no count of failures, committed, read or about to be      *)
(* written, runs ahead of the refusals. The first two, DeliveryInv, are    *)
(* shown inductive here, given that no row is given up too early;          *)
(* RelayProofs shows the third, CountInv, and the theorem.                 *)
(***************************************************************************)

(* The phases of a poll cycle, the rows of the table, and what a cycle has *)
(* written to a row and not committed.                                     *)
RelayPhases == {"idle", "send", "published", "failed", "set_published", "set_failed", "commit"}
Rows == [status : {"NONE", "PENDING", "FAILED"} \cup Done, retries : Nat]
Writes == [status : {Keep, "FAILED"} \cup Done, retries : Nat \cup {-1}, held : BOOLEAN]

(* The types of the table, the log and the relays.                         *)
RelayTypes ==
  /\ row \in [Events -> Rows]
  /\ producer \in {"none", "live"}
  /\ log \in Seq(Events \X Topics)
  /\ rpc \in [Relays -> RelayPhases]
  /\ batch \in [Relays -> SUBSET Events]
  /\ seen \in [Relays -> Rows]
  /\ write \in [Relays -> [Events -> Writes]]
  /\ refused \in [Events -> Nat]

(* The event has been recorded; one event comes before another of its key. *)
Recorded(e) == row[e].status # "NONE"
Before(f, e) == f < e /\ KeyOf[f] = KeyOf[e]

(* An event is recorded after the earlier events of its key. *)
RecordedInOrder ==
  /\ \A e \in Events : row[e] = NoRow <=> ~Recorded(e)
  /\ \A e, f \in Events : Before(f, e) /\ Recorded(e) => Recorded(f)

(* What a relay is about to mark as sent has been delivered, and what it is *)
(* about to mark as failed has been refused; so has what it has marked.     *)
MarksTrue(r) ==
  /\ rpc[r] \in {"published", "set_published"} => \A e \in batch[r] : Current(r, e) => Delivered(e)
  /\ rpc[r] \in {"failed", "set_failed"} => \A e \in batch[r] : Current(r, e) => refused[e] > 0
  /\ \A e \in Events : write[r][e].status \in Done => Delivered(e)

(* The writes of a cycle are on recorded rows that have left its batch. *)
WritesKnown(r) ==
  /\ \A e \in batch[r] : Recorded(e) /\ write[r][e] = NoWrite
  /\ \A e \in Events : write[r][e] # NoWrite => Recorded(e)
  /\ rpc[r] = "idle" => \A e \in Events : write[r][e] = NoWrite

(* The event is past its first send.                                       *)
Passed(f) == Delivered(f) \/ refused[f] > 0

(* A cycle that is yet to send an event has before it, or past it, all the  *)
(* earlier events of its key.                                              *)
BatchInOrder(r) ==
  \A e \in batch[r], f \in Events : Before(f, e) => f \in batch[r] \/ Passed(f)

(* An event is in the log after the earlier events of its key, except      *)
(* those that were refused.                                                *)
LogInOrder ==
  \A i \in DOMAIN log, f \in Events : Before(f, log[i][1]) =>
    refused[f] > 0 \/ \E k \in 1..i : log[k][1] = f

(* The relays with a refused send of e that no committed row counts yet. *)
Uncounted(e) ==
  {r \in Relays : \/ rpc[r] \in {"failed", "set_failed"} /\ Current(r, e)
                  \/ write[r][e].retries # -1}

(* While an event has been refused less often than allowed, no count of its *)
(* failures, committed, read or written, runs ahead of the refusals, the    *)
(* uncounted ones set aside; so no relay gives it up.                       *)
CountsBehind(e) ==
  LET u == Cardinality(Uncounted(e)) IN
  refused[e] < MaxRetries =>
    /\ IsFiniteSet(Uncounted(e))
    /\ row[e].status # "FAILED" /\ row[e].retries + u <= refused[e]
    /\ \A r \in Relays :
         /\ rpc[r] = "set_failed" /\ Current(r, e) => seen[r].retries + u <= refused[e]
         /\ write[r][e].retries # -1 => write[r][e].retries + u <= refused[e] + 1
         /\ write[r][e].status # "FAILED"

(* The part of the invariant about what was delivered.                     *)
DeliveryInv ==
  /\ RelayTypes /\ RecordedInOrder /\ MarkedAfterAck /\ LogInOrder
  /\ \A r \in Relays : MarksTrue(r) /\ WritesKnown(r) /\ BatchInOrder(r)

(* The part of the invariant about the retry counts.                       *)
CountInv == \A e \in Events : CountsBehind(e)

(* What is used of finite sets. The lemmas assume it, and that it holds is *)
(* shown from the library before the theorem, so that the library's facts  *)
(* are not at hand where they are not needed.                              *)
SetsCount ==
  /\ IsFiniteSet({}) /\ Cardinality({}) = 0
  /\ \A S : IsFiniteSet(S) => Cardinality(S) \in Nat /\ (Cardinality(S) = 0 => S = {})
  /\ \A S, T : IsFiniteSet(S) /\ T \subseteq S => IsFiniteSet(T) /\ Cardinality(T) <= Cardinality(S)
  /\ \A S, x : IsFiniteSet(S) =>
       /\ IsFiniteSet(S \cup {x})
       /\ Cardinality(S \cup {x}) = IF x \in S THEN Cardinality(S) ELSE Cardinality(S) + 1
       /\ IsFiniteSet(S \ {x})
       /\ Cardinality(S \ {x}) = IF x \in S THEN Cardinality(S) - 1 ELSE Cardinality(S)

(* What a commit makes of a row and the columns written to it.             *)
LEMMA RowTypes ==
  /\ NoRow \in Rows /\ NoWrite \in Writes
  /\ \A o \in Rows, w \in Writes :
       /\ Merge(o, w) \in Rows
       /\ o.status # "NONE" => Merge(o, w).status # "NONE"
       /\ Merge(o, NoWrite) = o
       /\ Merge(o, w).status \in {o.status, w.status}
       /\ Merge(o, w).retries \in {o.retries, w.retries}
       /\ w.retries # -1 => Merge(o, w).retries = w.retries
       /\ Merge(o, w).status = "FAILED" => "FAILED" \in {o.status, w.status}
BY DEF Rows, Writes, NoRow, NoWrite, Merge, Keep, Done

(* The columns that mark_published() and mark_failed() write.              *)
LEMMA ColumnTypes ==
  ASSUME RelayTypes, NEW r \in Relays
  PROVE  /\ PublishedColumns(r) \in Writes /\ FailedColumns(r) \in Writes
         /\ PublishedColumns(r).status \in Done \cup {Keep} /\ PublishedColumns(r).retries = -1
         /\ FailedColumns(r).retries = seen[r].retries + 1
         /\ FailedColumns(r).status \in {Keep, "FAILED"}
         /\ FailedColumns(r).status = "FAILED" => seen[r].retries + 1 >= MaxRetries
<1>1. seen[r] \in Rows
  BY Zenon DEF RelayTypes
<1> QED BY <1>1, RelayAssumption DEF Rows, Writes, PublishedColumns, FailedColumns,
     DoneMark, Done, Keep

(* The log grows at its end, by the event that is sent. *)
LEMMA DeliverGrows ==
  ASSUME RelayTypes, NEW r \in Relays, NEW e \in Events, Deliver(r, e)
  PROVE  /\ log' \in Seq(Events \X Topics)
         /\ \/ log' = log
            \/ /\ Len(log') = Len(log) + 1 /\ log'[Len(log) + 1][1] = e
               /\ \A i \in 1..Len(log) : log'[i] = log[i]
         /\ Delivered(e)'
<1> DEFINE d == <<e, Topic(r, e)>>
<1>1. d \in Events \X Topics /\ d[1] = e
  BY Zenon DEF Topic, Topics
<1>2. log \in Seq(Events \X Topics) /\ producer # "mock"
  BY Zenon DEF RelayTypes
<1> HIDE DEF d
<1>3. CASE d \in Range(log)
  <2>1. log' = log
    BY <1>3, Zenon DEF Deliver, d
  <2>2. PICK i \in DOMAIN log : log[i] = d
    BY <1>3, Zenon DEF Range
  <2> QED BY <1>1, <1>2, <2>1, <2>2, Zenon DEF Delivered
<1>4. CASE d \notin Range(log)
  <2>1. log' = Append(log, d)
    BY <1>2, <1>4, Zenon DEF Deliver, d
  <2>2. /\ log' \in Seq(Events \X Topics) /\ Len(log') = Len(log) + 1
        /\ log'[Len(log) + 1] = d /\ \A i \in 1..Len(log) : log'[i] = log[i]
    BY <1>1, <1>2, <2>1
  <2>3. Len(log) + 1 \in DOMAIN log'
    BY <1>2, <2>2
  <2> QED BY <1>1, <2>2, <2>3, Zenon DEF Delivered
<1> QED BY <1>3, <1>4, Zenon

(* Every step keeps the types; Reachable leaves the mock producer out.     *)
LEMMA RelayStepTypes == Reachable /\ RelayTypes /\ Next => RelayTypes'
<1> SUFFICES ASSUME Reachable, RelayTypes, Next PROVE RelayTypes'
  BY Zenon
<1>1. ASSUME NEW e \in Events, RecordEvent(e) PROVE RelayTypes'
  <2>1. row' \in [Events -> Rows]
    BY <1>1, ZenonT(30) DEF RecordEvent, RelayTypes, Rows
  <2> QED BY <1>1, <2>1, Zenon DEF RecordEvent, RelayTypes
<1>2. ASSUME InitProducer PROVE RelayTypes'
  BY <1>2, Zenon DEF InitProducer, RelayTypes
<1>3. ASSUME NEW r \in Relays, Poll(r) PROVE RelayTypes'
  BY <1>3, Zenon DEF Poll, Goto, Oldest, Pending, RelayTypes, RelayPhases
<1>4. ASSUME NEW r \in Relays, SendAcked(r) PROVE RelayTypes'
  <2>1. log' \in Seq(Events \X Topics)
    <3>1. PICK e \in batch[r] : Deliver(r, e)
      BY <1>4, Zenon DEF SendAcked
    <3>2. e \in Events
      BY Zenon DEF RelayTypes
    <3> QED BY <3>1, <3>2, DeliverGrows, Zenon
  <2>2. rpc' \in [Relays -> RelayPhases]
    BY <1>4, Zenon DEF SendAcked, Goto, RelayTypes, RelayPhases
  <2> QED BY <1>4, <2>1, <2>2, Zenon DEF SendAcked, RelayTypes
<1>5. ASSUME NEW r \in Relays, SendRefused(r) PROVE RelayTypes'
  <2>1. PICK e \in batch[r] :
          /\ Deliver(r, e) \/ UNCHANGED log
          /\ refused' = [refused EXCEPT ![e] = IF @ < MaxRetries THEN @ + 1 ELSE @]
    BY <1>5, Zenon DEF SendRefused
  <2>2. e \in Events
    BY Zenon DEF RelayTypes
  <2>3. log' \in Seq(Events \X Topics)
    <3>1. CASE Deliver(r, e)
      BY <2>2, <3>1, DeliverGrows, Zenon
    <3>2. CASE UNCHANGED log
      BY <3>2, Zenon DEF RelayTypes
    <3> QED BY <2>1, <3>1, <3>2, Zenon
  <2>4. refused' \in [Events -> Nat]
    BY <2>1, <2>2 DEF RelayTypes
  <2>5. rpc' \in [Relays -> RelayPhases]
    BY <1>5, Zenon DEF SendRefused, Goto, RelayTypes, RelayPhases
  <2> QED BY <1>5, <2>3, <2>4, <2>5, Zenon DEF SendRefused, RelayTypes
<1>6. ASSUME NEW r \in Relays, ReadRow(r) PROVE RelayTypes'
  <2>1. \E l \in RelayPhases : rpc' = [rpc EXCEPT ![r] = l]
    BY <1>6, Zenon DEF ReadRow, Goto, RelayPhases
  <2>2. \E e \in Events : seen' = [seen EXCEPT ![r] = row[e]]
    BY <1>6, Zenon DEF ReadRow, RelayTypes
  <2> QED BY <1>6, <2>1, <2>2 DEF ReadRow, RelayTypes
<1>7. ASSUME NEW r \in Relays, MarkRow(r) PROVE RelayTypes'
  <2>1. PICK e \in batch[r] :
          /\ write' = [write EXCEPT ![r][e] = IF rpc[r] = "set_published"
                                              THEN PublishedColumns(r) ELSE FailedColumns(r)]
          /\ batch' = [batch EXCEPT ![r] = @ \ {e}]
          /\ Goto(r, IF batch[r] = {e} THEN "commit" ELSE "send")
    BY <1>7, Zenon DEF MarkRow
  <2>2. e \in Events
    BY Zenon DEF RelayTypes
  <2>3. \E w \in Writes : write' = [write EXCEPT ![r][e] = w]
    BY <2>1, ColumnTypes, Zenon
  <2>4. write' \in [Relays -> [Events -> Writes]]
    BY <2>2, <2>3 DEF RelayTypes
  <2>5. \E l \in RelayPhases : rpc' = [rpc EXCEPT ![r] = l]
    BY <2>1, Zenon DEF Goto, RelayPhases
  <2>6. seen' \in [Relays -> Rows]
    BY <1>7, RowTypes, Zenon DEF MarkRow, RelayTypes
  <2>7. batch' \in [Relays -> SUBSET Events]
    BY <2>1, Zenon DEF RelayTypes
  <2>8. rpc' \in [Relays -> RelayPhases]
    BY <2>5, Zenon DEF RelayTypes
  <2> QED BY <1>7, <2>4, <2>6, <2>7, <2>8, Zenon DEF MarkRow, RelayTypes
<1>8. ASSUME NEW r \in Relays, Discard(r)
      PROVE  /\ write' \in [Relays -> [Events -> Writes]] /\ batch' \in [Relays -> SUBSET Events]
             /\ seen' \in [Relays -> Rows] /\ rpc' \in [Relays -> RelayPhases]
  BY <1>8, RowTypes, Zenon DEF Discard, Goto, RelayTypes, RelayPhases
<1>9. ASSUME NEW r \in Relays, Commit(r) PROVE RelayTypes'
  <2>1. row' \in [Events -> Rows]
    BY <1>9, RowTypes DEF Commit, ApplyWrites, RelayTypes
  <2> QED BY <1>8, <1>9, <2>1, Zenon DEF Commit, RelayTypes
<1>10. ASSUME NEW r \in Relays, Abort(r) PROVE RelayTypes'
  BY <1>8, <1>10, Zenon DEF Abort, RelayTypes
<1>11. ASSUME Restart PROVE RelayTypes'
  BY <1>11, RowTypes, Zenon DEF Restart, RelayTypes, RelayPhases
<1> QED BY <1>1, <1>2, <1>3, <1>4, <1>5, <1>6, <1>7, <1>9, <1>10, <1>11, Zenon DEF Next, CycleStep

(* What a send of e by r does: the log grows at its end by the event, or    *)
(* not, and either the event is delivered or a refusal is counted.         *)
LogGrows(e) ==
  \/ log' = log
  \/ /\ Len(log') = Len(log) + 1 /\ log'[Len(log) + 1][1] = e
     /\ \A i \in 1..Len(log) : log'[i] = log[i]

(* A send of e by r, by its effects.                                       *)
Sends(r, e) ==
  /\ Current(r, e) /\ LogGrows(e)
  /\ \/ /\ rpc' = [rpc EXCEPT ![r] = "published"] /\ Delivered(e)' /\ refused' = refused
     \/ /\ rpc' = [rpc EXCEPT ![r] = "failed"]
        /\ refused' = [refused EXCEPT ![e] = IF @ < MaxRetries THEN @ + 1 ELSE @]
  /\ rpc[r] = "send" /\ UNCHANGED <<row, producer, batch, seen, write>>

(* An acknowledged and a refused send are such sends.                      *)
LEMMA SendEffect ==
  ASSUME RelayTypes, NEW r \in Relays, SendAcked(r) \/ SendRefused(r)
  PROVE  \E e \in Events : Sends(r, e)
<1>1. CASE SendAcked(r)
  <2>1. PICK e \in batch[r] : Current(r, e) /\ Deliver(r, e)
    BY <1>1, Zenon DEF SendAcked
  <2>2. e \in Events
    BY Zenon DEF RelayTypes
  <2>3. Delivered(e)' /\ LogGrows(e)
    BY <2>1, <2>2, DeliverGrows, Zenon DEF LogGrows
  <2> QED BY <1>1, <2>1, <2>2, <2>3, Zenon DEF SendAcked, Goto, Sends
<1>2. CASE SendRefused(r)
  <2>1. PICK e \in batch[r] :
          /\ Current(r, e) /\ (Deliver(r, e) \/ UNCHANGED log)
          /\ refused' = [refused EXCEPT ![e] = IF @ < MaxRetries THEN @ + 1 ELSE @]
    BY <1>2, Zenon DEF SendRefused
  <2>2. e \in Events
    BY Zenon DEF RelayTypes
  <2>3. LogGrows(e)
    BY <2>1, <2>2, DeliverGrows, Zenon DEF LogGrows
  <2> QED BY <1>2, <2>1, <2>2, <2>3, Zenon DEF SendRefused, Goto, Sends
<1> QED BY <1>1, <1>2, Zenon

(* Recorded, delivered and refused stay so. *)
LEMMA OnlyGrows ==
  ASSUME RelayTypes, Next, RelayTypes', NEW e \in Events
  PROVE  /\ Recorded(e) => Recorded(e)'
         /\ Delivered(e) => Delivered(e)'
         /\ refused[e] <= refused'[e]
<1>1. Recorded(e) => Recorded(e)'
  <2>1. ASSUME NEW f \in Events, RecordEvent(f) PROVE Recorded(e) => Recorded(e)'
    BY <2>1 DEF RecordEvent, Recorded, RelayTypes, Rows
  <2>2. ASSUME NEW r \in Relays, Commit(r) PROVE Recorded(e) => Recorded(e)'
    <3>1. row'[e] = Merge(row[e], write[r][e]) /\ row[e] \in Rows /\ write[r][e] \in Writes
      BY <2>2, Zenon DEF Commit, ApplyWrites, RelayTypes
    <3> QED BY <3>1, RowTypes DEF Recorded
  <2>3. CASE UNCHANGED row
    BY <2>3, Zenon DEF Recorded
  <2> QED BY <2>1, <2>2, <2>3, Zenon
             DEF Next, InitProducer, Poll, CycleStep, SendAcked, SendRefused,
                                  ReadRow, MarkRow, Abort, Restart
<1>2. (Delivered(e) => Delivered(e)') /\ refused[e] <= refused'[e]
  <2>1. ASSUME NEW r \in Relays, SendAcked(r) \/ SendRefused(r)
        PROVE  (Delivered(e) => Delivered(e)') /\ refused[e] <= refused'[e]
    <3>1. PICK f \in Events : Sends(r, f)
      BY <2>1, SendEffect, Zenon
    <3>2. refused[e] <= refused'[e]
      <4>1. refused \in [Events -> Nat] /\ MaxRetries \in Nat
        BY RelayAssumption, Zenon DEF RelayTypes
      <4>2. \/ refused' = refused
            \/ refused' = [refused EXCEPT ![f] = IF @ < MaxRetries THEN @ + 1 ELSE @]
        BY <3>1, Zenon DEF Sends
      <4> QED BY <4>1, <4>2
    <3>3. DOMAIN log = 1..Len(log) /\ DOMAIN log' = 1..Len(log') /\ Len(log) \in Nat
      BY DEF RelayTypes
    <3>4. LogGrows(f)
      BY <3>1, Zenon DEF Sends
    <3>5. \A i \in DOMAIN log : i \in DOMAIN log' /\ log'[i] = log[i]
      <4>1. CASE log' = log
        BY <4>1, Zenon
      <4>2. CASE Len(log') = Len(log) + 1 /\ \A i \in 1..Len(log) : log'[i] = log[i]
        <5>1. 1..Len(log) \subseteq 1..Len(log')
          BY <3>3, <4>2
        <5> QED BY <3>3, <4>2, <5>1, Zenon
      <4> QED BY <3>4, <4>1, <4>2, Zenon DEF LogGrows
    <3> QED BY <3>2, <3>5, Zenon DEF Delivered
  <2>2. CASE UNCHANGED <<log, refused>>
    BY <2>2 DEF Delivered, RelayTypes
  <2> QED BY <2>1, <2>2, Zenon DEF Next, RecordEvent, InitProducer, Poll, CycleStep,
                            ReadRow, MarkRow, Commit, Abort, Restart
<1> QED BY <1>1, <1>2, Zenon

(* Events of a key are recorded in order, and a commit never unrecords     *)
(* one.                                                                    *)
LEMMA StepRecords ==
  ASSUME RelayTypes, RecordedInOrder, \A r \in Relays : WritesKnown(r), Next, RelayTypes'
  PROVE  RecordedInOrder'
<1>1. ASSUME NEW e \in Events, RecordEvent(e) PROVE RecordedInOrder'
  <2>1. /\ row[e] = NoRow /\ Recorded(e)' /\ row'[e] # NoRow
        /\ \A f \in Events : f # e => row'[f] = row[f]
        /\ \A f \in Events : Before(f, e) => Recorded(f)
    BY <1>1 DEF RecordEvent, Recorded, RelayTypes, Rows, NoRow, RecordedInOrder, Before
  <2>2. \A f \in Events : f # e => (Recorded(f)' <=> Recorded(f))
    BY <2>1, Zenon DEF Recorded
  <2>3. \A f \in Events : row'[f] = NoRow <=> ~Recorded(f)'
    BY <2>1, <2>2, Zenon DEF RecordedInOrder
  <2>4. ~Recorded(e)
    BY <2>1, Zenon DEF RecordedInOrder
  <2> QED BY <2>1, <2>2, <2>3, <2>4 DEF RecordedInOrder, Before
<1>2. ASSUME NEW r \in Relays, Commit(r) PROVE RecordedInOrder'
  <2>1. ASSUME NEW e \in Events
        PROVE  (row'[e] = NoRow <=> ~Recorded(e)') /\ (Recorded(e)' <=> Recorded(e))
    <3>1. row'[e] = Merge(row[e], write[r][e]) /\ row[e] \in Rows /\ write[r][e] \in Writes
      BY <1>2, Zenon DEF Commit, ApplyWrites, RelayTypes
    <3>2. CASE write[r][e] = NoWrite
      BY <3>1, <3>2, RowTypes DEF RecordedInOrder, Recorded
    <3>3. CASE write[r][e] # NoWrite
      <4>1. Recorded(e) /\ Recorded(e)'
        BY <3>1, <3>3, RowTypes DEF WritesKnown, Recorded
      <4> QED BY <4>1 DEF Recorded, NoRow
    <3> QED BY <3>2, <3>3, Zenon
  <2> QED BY <2>1, Zenon DEF RecordedInOrder, Before
<1>3. CASE UNCHANGED row
  BY <1>3, Zenon DEF RecordedInOrder, Recorded, Before
<1> QED BY <1>1, <1>2, <1>3, Zenon DEF Next, InitProducer, Poll, CycleStep, SendAcked, SendRefused,
                                ReadRow, MarkRow, Abort, Restart

(* A row becomes PUBLISHED by the commit of a relay that has delivered it. *)
LEMMA StepMarked ==
  ASSUME RelayTypes, MarkedAfterAck, \A r \in Relays : MarksTrue(r), Next, RelayTypes'
  PROVE  MarkedAfterAck'
<1> SUFFICES ASSUME NEW e \in Events, row'[e].status \in Done PROVE Delivered(e)'
  BY Zenon DEF MarkedAfterAck
<1> SUFFICES Delivered(e)
  BY OnlyGrows, Zenon
<1>1. ASSUME NEW f \in Events, RecordEvent(f) PROVE row[e].status \in Done
  BY <1>1 DEF RecordEvent, RelayTypes, Rows, Done
<1>2. ASSUME NEW r \in Relays, Commit(r) PROVE row[e].status \in Done \/ write[r][e].status \in Done
  <2>1. row'[e] = Merge(row[e], write[r][e]) /\ row[e] \in Rows /\ write[r][e] \in Writes
    BY <1>2, Zenon DEF Commit, ApplyWrites, RelayTypes
  <2> QED BY <2>1, RowTypes
<1>3. row[e].status \in Done \/ \E r \in Relays : write[r][e].status \in Done
  BY <1>1, <1>2, Zenon DEF Next, InitProducer, Poll, CycleStep, SendAcked, SendRefused,
                    ReadRow, MarkRow, Abort, Restart
<1> QED BY <1>3, Zenon DEF MarkedAfterAck, MarksTrue

(* A new delivery finds the earlier events of its key passed: the relay has *)
(* none of them before it.                                                 *)
LEMMA StepLog ==
  ASSUME DeliveryInv, Next, RelayTypes'
  PROVE  LogInOrder'
<1>0. DOMAIN log = 1..Len(log) /\ DOMAIN log' = 1..Len(log') /\ Len(log) \in Nat
  BY DEF DeliveryInv, RelayTypes
<1>1. \A f \in Events : refused[f] > 0 => refused'[f] > 0
  <2>1. ASSUME NEW f \in Events
        PROVE  refused[f] <= refused'[f] /\ refused[f] \in Nat /\ refused'[f] \in Nat
    BY OnlyGrows, Zenon DEF DeliveryInv, RelayTypes
  <2> QED BY <2>1
<1>2. CASE log' = log
  BY <1>1, <1>2 DEF DeliveryInv, LogInOrder, Before
<1>3. ASSUME NEW r \in Relays, SendAcked(r) \/ SendRefused(r), log' # log PROVE LogInOrder'
  <2>1. PICK e \in Events : Sends(r, e)
    BY <1>3, SendEffect, Zenon DEF DeliveryInv
  <2>2. /\ Len(log') = Len(log) + 1 /\ log'[Len(log) + 1][1] = e
        /\ \A i \in 1..Len(log) : log'[i] = log[i]
    BY <1>3, <2>1, Zenon DEF Sends, LogGrows
  <2>3. ASSUME NEW f \in Events, Before(f, e) PROVE Passed(f)
    <3>1. f \notin batch[r] /\ e \in batch[r]
      <4>1. e \in batch[r] /\ \A g \in batch[r] : e <= g
        BY <2>1, Zenon DEF Sends, Current
      <4>2. f < e /\ f \in Nat /\ e \in Nat
        BY <2>3, RelayAssumption, Zenon DEF Before
      <4> QED BY <4>1, <4>2
    <3> QED BY <2>3, <3>1, Zenon DEF DeliveryInv, BatchInOrder
  <2> SUFFICES ASSUME NEW i \in DOMAIN log', NEW f \in Events, Before(f, log'[i][1])
               PROVE  refused'[f] > 0 \/ \E k \in 1..i : log'[k][1] = f
    BY Zenon DEF LogInOrder, Before
  <2>4. CASE i \in 1..Len(log)
    <3>1. refused[f] > 0 \/ \E k \in 1..i : log[k][1] = f
      BY <1>0, <2>2, <2>4 DEF DeliveryInv, LogInOrder, Before
    <3>2. 1..i \subseteq 1..Len(log)
      BY <1>0, <2>4
    <3> QED BY <1>1, <2>2, <3>1, <3>2, Zenon
  <2>5. CASE i = Len(log) + 1
    <3>1. Passed(f)
      BY <2>2, <2>3, <2>5, Zenon
    <3>2. CASE Delivered(f)
      <4>1. PICK k \in 1..Len(log) : log[k][1] = f
        BY <1>0, <3>2, Zenon DEF Delivered
      <4>2. k \in 1..i
        BY <1>0, <2>5
      <4> QED BY <2>2, <4>1, <4>2, Zenon
    <3> QED BY <1>1, <3>1, <3>2, Zenon DEF Passed
  <2>6. i \in 1..Len(log) \/ i = Len(log) + 1
    BY <1>0, <2>2
  <2> QED BY <2>4, <2>5, <2>6, Zenon
<1> QED BY <1>2, <1>3, Zenon DEF Next, RecordEvent, InitProducer, Poll, CycleStep,
                          ReadRow, MarkRow, Commit, Abort, Restart

(* The oldest pending events: with an event, all earlier pending ones. *)
LEMMA OldestIsPrefix ==
  ASSUME SetsCount, NEW e \in Oldest(BatchSize), NEW f \in Pending, f < e
  PROVE  f \in Oldest(BatchSize)
<1> DEFINE S(x) == {g \in Pending : g < x}
<1>1. IsFiniteSet(Events) /\ Events \subseteq Nat /\ Pending \subseteq Events
  BY RelayAssumption, Zenon DEF Pending
<1>2. e \in Nat /\ f \in Nat /\ \A g \in Pending : g \in Nat
  BY <1>1, Zenon DEF Oldest
<1>3. S(f) \subseteq S(e)
  <2>1. ASSUME NEW g \in Pending, g < f PROVE g < e
    BY <1>2, <2>1
  <2> QED BY <2>1, Zenon
<1>4. IsFiniteSet(S(e)) /\ IsFiniteSet(S(f))
  <2>1. S(e) \subseteq Events /\ S(f) \subseteq Events
    BY <1>1, Zenon
  <2> QED BY <1>1, <2>1, Zenon DEF SetsCount
<1>5. Cardinality(S(f)) <= Cardinality(S(e))
  BY <1>3, <1>4, Zenon DEF SetsCount
<1>6. Cardinality(S(f)) \in Nat /\ Cardinality(S(e)) \in Nat
  BY <1>4, Zenon DEF SetsCount
<1>7. Cardinality(S(e)) < BatchSize
  BY Zenon DEF Oldest
<1>8. Cardinality(S(f)) < BatchSize
  BY <1>5, <1>6, <1>7, RelayAssumption
<1> QED BY <1>8, Zenon DEF Oldest

(* What the invariant says of one relay.                                   *)
RelayOK(r) == MarksTrue(r) /\ WritesKnown(r) /\ BatchInOrder(r)

(* A relay that a step leaves alone, or one whose cycle ends. *)
LEMMA RelayLeftAlone ==
  ASSUME DeliveryInv, Next, RelayTypes', NEW q \in Relays,
         rpc'[q] = rpc[q], batch'[q] = batch[q], write'[q] = write[q]
  PROVE  RelayOK(q)'
<1>1. \A e \in Events : /\ Recorded(e) => Recorded(e)'
                        /\ Delivered(e) => Delivered(e)'
                        /\ refused[e] > 0 => refused'[e] > 0
  <2>1. ASSUME NEW e \in Events
        PROVE  /\ Recorded(e) => Recorded(e)'
               /\ Delivered(e) => Delivered(e)'
               /\ refused[e] <= refused'[e] /\ refused[e] \in Nat /\ refused'[e] \in Nat
    BY OnlyGrows, Zenon DEF DeliveryInv, RelayTypes
  <2> QED BY <2>1
<1>2. batch[q] \subseteq Events /\ \A e : Current(q, e)' <=> Current(q, e)
  BY Zenon DEF DeliveryInv, RelayTypes, Current
<1>3. MarksTrue(q)'
  BY <1>1, <1>2, Zenon DEF DeliveryInv, MarksTrue
<1>4. WritesKnown(q)'
  BY <1>1, <1>2, Zenon DEF DeliveryInv, WritesKnown
<1>5. BatchInOrder(q)'
  BY <1>1, Zenon DEF DeliveryInv, BatchInOrder, Passed, Before
<1> QED BY <1>3, <1>4, <1>5, Zenon DEF RelayOK

(* A relay whose cycle is over holds nothing.                              *)
LEMMA RelayIdles ==
  ASSUME NEW q \in Relays,
         rpc'[q] = "idle", batch'[q] = {}, write'[q] = [e \in Events |-> NoWrite]
  PROVE  RelayOK(q)'
BY DEF RelayOK, MarksTrue, WritesKnown, BatchInOrder, NoWrite, Keep, Done

(* The poll takes the oldest unsent rows, so the earlier events of their   *)
(* keys are in the batch or past it.                                       *)
LEMMA PollOK ==
  ASSUME SetsCount, DeliveryInv, GivenUpAfterMaxRetries, NEW r \in Relays, Poll(r), RelayTypes'
  PROVE  RelayOK(r)'
<1>0. /\ rpc[r] = "idle" /\ rpc'[r] = "send" /\ batch'[r] = Oldest(BatchSize)
      /\ UNCHANGED <<row, log, write, refused>>
  BY Zenon DEF Poll, Goto, DeliveryInv, RelayTypes
<1>1. \A e \in Events : (Recorded(e)' <=> Recorded(e)) /\ (Delivered(e)' <=> Delivered(e))
  BY <1>0, Zenon DEF Recorded, Delivered
<1>2. \A e \in Events : write[r][e] = NoWrite
  BY <1>0, Zenon DEF DeliveryInv, WritesKnown
<1>3. MarksTrue(r)'
  BY <1>0, <1>2 DEF MarksTrue, NoWrite, Keep, Done
<1>4. WritesKnown(r)'
  <2>1. \A e \in Oldest(BatchSize) : e \in Events /\ Recorded(e)
    BY Zenon DEF Oldest, Pending, Recorded
  <2> QED BY <1>0, <1>1, <1>2, <2>1, Zenon DEF WritesKnown
<1>5. ASSUME NEW e \in Oldest(BatchSize), NEW f \in Events, Before(f, e)
      PROVE  f \in Oldest(BatchSize) \/ Passed(f)
  <2>1. e \in Events /\ Recorded(e) /\ Recorded(f)
    BY <1>5, Zenon DEF Oldest, Pending, Recorded, DeliveryInv, RecordedInOrder
  <2>2. row[f].status \in {"PENDING", "FAILED"} \cup Done
    BY <2>1, Zenon DEF Recorded, DeliveryInv, RelayTypes, Rows
  <2>3. CASE row[f].status = "PENDING"
    BY <1>5, <2>3, OldestIsPrefix, Zenon DEF Pending, Before
  <2>4. CASE row[f].status \in Done
    BY <2>4, Zenon DEF DeliveryInv, MarkedAfterAck, Passed
  <2>5. CASE row[f].status = "FAILED"
    <3>1. refused[f] >= MaxRetries /\ refused[f] \in Nat
      BY <2>5, Zenon DEF DeliveryInv, RelayTypes, GivenUpAfterMaxRetries
    <3> QED BY <3>1, RelayAssumption DEF Passed
  <2> QED BY <2>2, <2>3, <2>4, <2>5, Zenon
<1>6. BatchInOrder(r)'
  BY <1>0, <1>1, <1>5, Zenon DEF BatchInOrder, Passed, Before
<1> QED BY <1>3, <1>4, <1>6, Zenon DEF RelayOK

(* After a send the relay marks what was delivered, or what was refused.   *)
LEMMA SendOK ==
  ASSUME DeliveryInv, Next, NEW r \in Relays, NEW e \in Events, Sends(r, e), RelayTypes'
  PROVE  RelayOK(r)'
<1>1. \A f \in Events : /\ Delivered(f) => Delivered(f)'
                        /\ refused[f] > 0 => refused'[f] > 0
  <2>1. ASSUME NEW f \in Events
        PROVE  /\ Delivered(f) => Delivered(f)'
               /\ refused[f] <= refused'[f] /\ refused[f] \in Nat /\ refused'[f] \in Nat
    BY OnlyGrows, Zenon DEF DeliveryInv, RelayTypes
  <2> QED BY <2>1
<1>2. /\ UNCHANGED <<row, batch, write>> /\ batch[r] \subseteq Events
      /\ \A f : (Current(r, f)' <=> Current(r, f)) /\ (Recorded(f)' <=> Recorded(f))
  BY Zenon DEF Sends, DeliveryInv, RelayTypes, Current, Recorded
<1>3. \A f \in batch[r] : Current(r, f) => f = e
  <2>1. \A f \in batch[r] : f \in Nat
    BY <1>2, RelayAssumption, Zenon
  <2>2. e \in batch[r] /\ \A f \in batch[r] : e <= f
    BY Zenon DEF Sends, Current
  <2> QED BY <2>1, <2>2 DEF Current
<1>4. \/ rpc'[r] = "published" /\ Delivered(e)'
      \/ rpc'[r] = "failed" /\ refused'[e] > 0
  <2>1. CASE rpc' = [rpc EXCEPT ![r] = "published"] /\ Delivered(e)'
    BY <2>1, Zenon DEF DeliveryInv, RelayTypes
  <2>2. CASE /\ rpc' = [rpc EXCEPT ![r] = "failed"]
             /\ refused' = [refused EXCEPT ![e] = IF @ < MaxRetries THEN @ + 1 ELSE @]
    <3>1. refused \in [Events -> Nat] /\ rpc'[r] = "failed"
      BY <2>2, Zenon DEF DeliveryInv, RelayTypes
    <3> QED BY <2>2, <3>1, RelayAssumption
  <2> QED BY <2>1, <2>2, Zenon DEF Sends
<1>5. MarksTrue(r)'
  <2>1. \A f \in Events : write'[r][f].status \in Done => Delivered(f)'
    BY <1>1, <1>2, Zenon DEF DeliveryInv, MarksTrue
  <2> QED BY <1>2, <1>3, <1>4, <2>1, Zenon DEF MarksTrue
<1>6. WritesKnown(r)'
  BY <1>2, <1>4, Zenon DEF DeliveryInv, WritesKnown
<1>7. BatchInOrder(r)'
  BY <1>1, <1>2, Zenon DEF DeliveryInv, BatchInOrder, Passed, Before
<1> QED BY <1>5, <1>6, <1>7, Zenon DEF RelayOK

(* Reading the row back changes nothing that was sent.                     *)
LEMMA ReadOK ==
  ASSUME DeliveryInv, NEW r \in Relays, ReadRow(r), RelayTypes'
  PROVE  RelayOK(r)'
<1>1. /\ UNCHANGED <<row, log, batch, write, refused>> /\ batch[r] \subseteq Events
      /\ \/ rpc[r] = "published" /\ rpc'[r] = "set_published"
         \/ rpc[r] = "failed" /\ rpc'[r] = "set_failed"
  BY Zenon DEF ReadRow, Goto, DeliveryInv, RelayTypes
<1>2. \A f : /\ Current(r, f)' <=> Current(r, f)
             /\ Recorded(f)' <=> Recorded(f)
             /\ Delivered(f)' <=> Delivered(f)
  BY <1>1, Zenon DEF Current, Recorded, Delivered
<1>3. MarksTrue(r)'
  BY <1>1, <1>2, Zenon DEF DeliveryInv, MarksTrue
<1>4. WritesKnown(r)'
  BY <1>1, <1>2, Zenon DEF DeliveryInv, WritesKnown
<1>5. BatchInOrder(r)'
  BY <1>1, <1>2, Zenon DEF DeliveryInv, BatchInOrder, Passed, Before
<1> QED BY <1>3, <1>4, <1>5, Zenon DEF RelayOK

(* The flush takes the event from the batch, to be marked as what it is. *)
Marks(r, e) ==
  /\ Current(r, e)
  /\ \/ rpc[r] = "set_published" /\ write' = [write EXCEPT ![r][e] = PublishedColumns(r)]
     \/ rpc[r] = "set_failed" /\ write' = [write EXCEPT ![r][e] = FailedColumns(r)]
  /\ batch' = [batch EXCEPT ![r] = @ \ {e}]
  /\ \E l \in {"commit", "send"} : rpc' = [rpc EXCEPT ![r] = l]
  /\ seen' = [seen EXCEPT ![r] = NoRow]
  /\ UNCHANGED <<row, producer, log, refused>>

(* MarkRow() marks one event of the batch.                                 *)
LEMMA MarkEffect ==
  ASSUME RelayTypes, NEW r \in Relays, MarkRow(r)
  PROVE  \E e \in Events : e \in batch[r] /\ Marks(r, e)
<1>1. PICK e \in batch[r] :
        /\ Current(r, e)
        /\ write' = [write EXCEPT ![r][e] = IF rpc[r] = "set_published"
                                            THEN PublishedColumns(r) ELSE FailedColumns(r)]
        /\ batch' = [batch EXCEPT ![r] = @ \ {e}]
        /\ Goto(r, IF batch[r] = {e} THEN "commit" ELSE "send")
  BY Zenon DEF MarkRow
<1>2. e \in Events
  BY Zenon DEF RelayTypes
<1>3. \/ rpc[r] = "set_published" /\ write' = [write EXCEPT ![r][e] = PublishedColumns(r)]
      \/ rpc[r] = "set_failed" /\ write' = [write EXCEPT ![r][e] = FailedColumns(r)]
  BY <1>1, Zenon DEF MarkRow
<1>4. \E l \in {"commit", "send"} : rpc' = [rpc EXCEPT ![r] = l]
  BY <1>1, Zenon DEF Goto
<1> QED BY <1>1, <1>2, <1>3, <1>4, Zenon DEF MarkRow, Marks

(* A marked row leaves the batch, delivered or refused.                    *)
LEMMA MarkOK ==
  ASSUME DeliveryInv, NEW r \in Relays, NEW e \in batch[r], e \in Events, Marks(r, e), RelayTypes'
  PROVE  RelayOK(r)'
<1>0. RelayTypes
  BY Zenon DEF DeliveryInv
<1>1. /\ batch'[r] = batch[r] \ {e} /\ batch[r] \subseteq Events
      /\ rpc'[r] \in {"commit", "send"}
      /\ UNCHANGED <<row, log, refused>>
      /\ \A f \in Events : f # e => write'[r][f] = write[r][f]
  <2>1. batch'[r] = batch[r] \ {e} /\ batch[r] \subseteq Events /\ UNCHANGED <<row, log, refused>>
    BY <1>0, Zenon DEF Marks, RelayTypes
  <2>2. rpc'[r] \in {"commit", "send"}
    BY <1>0, Zenon DEF Marks, RelayTypes
  <2>3. \A f \in Events : f # e => write'[r][f] = write[r][f]
    BY <1>0 DEF Marks, RelayTypes
  <2> QED BY <2>1, <2>2, <2>3, Zenon
<1>2. \A f : (Recorded(f)' <=> Recorded(f)) /\ (Delivered(f)' <=> Delivered(f))
  BY <1>1, Zenon DEF Recorded, Delivered
<1>3. Passed(e) /\ (write'[r][e].status \in Done => Delivered(e)) /\ Recorded(e)
  <2>1. Recorded(e)
    BY Zenon DEF DeliveryInv, WritesKnown
  <2>2. CASE rpc[r] = "set_published"
    BY <2>1, <2>2, Zenon DEF Marks, DeliveryInv, MarksTrue, Passed
  <2>3. CASE rpc[r] = "set_failed" /\ write' = [write EXCEPT ![r][e] = FailedColumns(r)]
    <3>1. write'[r][e] = FailedColumns(r)
      BY <2>3, Zenon DEF DeliveryInv, RelayTypes
    <3>2. write'[r][e].status \notin Done
      BY <3>1, ColumnTypes, Zenon DEF DeliveryInv, Done, Keep
    <3>3. refused[e] > 0
      BY <2>3, Zenon DEF Marks, DeliveryInv, MarksTrue
    <3> QED BY <2>1, <3>2, <3>3, Zenon DEF Passed
  <2> QED BY <2>2, <2>3, Zenon DEF Marks
<1>4. MarksTrue(r)'
  <2>1. \A f \in Events : write'[r][f].status \in Done => Delivered(f)'
    BY <1>1, <1>2, <1>3, Zenon DEF DeliveryInv, MarksTrue
  <2> QED BY <1>1, <2>1, Zenon DEF MarksTrue
<1>5. WritesKnown(r)'
  BY <1>1, <1>2, <1>3, Zenon DEF DeliveryInv, WritesKnown
<1>6. BatchInOrder(r)'
  BY <1>1, <1>2, <1>3, Zenon DEF DeliveryInv, BatchInOrder, Passed, Before
<1> QED BY <1>4, <1>5, <1>6, Zenon DEF RelayOK

(* Every step keeps what the invariant says of every relay.                *)
LEMMA StepRelays ==
  ASSUME SetsCount, DeliveryInv, GivenUpAfterMaxRetries, Next, RelayTypes', NEW q \in Relays
  PROVE  RelayOK(q)'
<1> DEFINE Alone == rpc'[q] = rpc[q] /\ batch'[q] = batch[q] /\ write'[q] = write[q]
<1>1. CASE Alone
  BY <1>1, RelayLeftAlone, Zenon
<1>2. ASSUME NEW r \in Relays, Poll(r) PROVE RelayOK(q)'
  <2>1. q # r => Alone
    BY <1>2, Zenon DEF Poll, Goto, DeliveryInv, RelayTypes
  <2> QED BY <1>1, <1>2, <2>1, PollOK, Zenon
<1>3. ASSUME NEW r \in Relays, SendAcked(r) \/ SendRefused(r) PROVE RelayOK(q)'
  <2>1. PICK e \in Events : Sends(r, e)
    BY <1>3, SendEffect, Zenon DEF DeliveryInv
  <2>2. q # r => Alone
    BY <2>1, Zenon DEF Sends, DeliveryInv, RelayTypes
  <2> QED BY <1>1, <2>1, <2>2, SendOK, Zenon
<1>4. ASSUME NEW r \in Relays, ReadRow(r) PROVE RelayOK(q)'
  <2>1. q # r => Alone
    BY <1>4, Zenon DEF ReadRow, Goto, DeliveryInv, RelayTypes
  <2> QED BY <1>1, <1>4, <2>1, ReadOK, Zenon
<1>5. ASSUME NEW r \in Relays, MarkRow(r) PROVE RelayOK(q)'
  <2>1. PICK e \in Events : e \in batch[r] /\ Marks(r, e)
    BY <1>5, MarkEffect, Zenon DEF DeliveryInv
  <2>2. q # r => Alone
    BY <2>1, ZenonT(30) DEF Marks, DeliveryInv, RelayTypes
  <2> QED BY <1>1, <2>1, <2>2, MarkOK, Zenon
<1>6. ASSUME NEW r \in Relays, Discard(r) PROVE RelayOK(q)'
  <2>1. q # r => Alone
    BY <1>6, ZenonT(30) DEF Discard, Goto, DeliveryInv, RelayTypes
  <2>2. q = r => rpc'[q] = "idle" /\ batch'[q] = {} /\ write'[q] = [e \in Events |-> NoWrite]
    BY <1>6 DEF Discard, Goto, DeliveryInv, RelayTypes
  <2> QED BY <1>1, <2>1, <2>2, RelayIdles, Zenon
<1>7. CASE Restart
  BY <1>7, RelayIdles, Zenon DEF Restart
<1> QED BY <1>1, <1>2, <1>3, <1>4, <1>5, <1>6, <1>7, Zenon
        DEF Next, RecordEvent, InitProducer, CycleStep, Commit, Abort

(* Every step keeps the part about what was delivered.                     *)
LEMMA StepDelivery ==
  ASSUME SetsCount, Reachable, DeliveryInv, GivenUpAfterMaxRetries, Next PROVE DeliveryInv'
<1>1. RelayTypes'
  BY RelayStepTypes, Zenon DEF DeliveryInv
<1>2. RecordedInOrder' /\ MarkedAfterAck'
  BY <1>1, StepRecords, StepMarked, Zenon DEF DeliveryInv
<1>3. LogInOrder'
  BY <1>1, StepLog, Zenon
<1>4. \A r \in Relays : RelayOK(r)'
  BY <1>1, StepRelays, Zenon
<1> QED BY <1>1, <1>2, <1>3, <1>4, Zenon DEF DeliveryInv, RelayOK
=============================================================================
