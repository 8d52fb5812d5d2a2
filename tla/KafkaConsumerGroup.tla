------------------------- MODULE KafkaConsumerGroup -------------------------
(***************************************************************************)
(* One topic and one consumer group: publish_event() appends to the        *)
(* partition of its key, consume_batch() polls from the committed offsets, *)
(* handles the records and commits.  The consumers are those of the mock   *)
(* of core/kafka_consumer.py, where every consumer of a group is assigned  *)
(* every partition, so two polls of a group race.  A record is its key and *)
(* whether it satisfies its event schema.                                  *)
(***************************************************************************)
EXTENDS Naturals, Sequences, SequencesExt, FiniteSets, FiniteSetsExt

CONSTANTS
  Pollers,      \* callers of consume_batch()
  KPartitions,  \* range(partitions_per_topic)
  RecordKeys,   \* partition keys
  KeyHash,      \* sha256 of a key, as a number
  PollBatchSize,    \* batch_size
  MaxRecords    \* bound on the records published

ASSUME ConsumerAssumption ==
  /\ KPartitions = 0 .. Cardinality(KPartitions) - 1 /\ KPartitions # {}
  /\ KeyHash \in [RecordKeys -> Nat]
  /\ PollBatchSize \in Nat \ {0}

VARIABLES
  logs,       \* the partitions' records: [key, valid]
  committed,  \* committed offset of the group: the next one to fetch
  kcPc,       \* where a caller is
  kafkaBatch,      \* polled records still to handle: <<partition, offset>>
  toCommit,   \* offsets_to_commit
  handled     \* history: the offsets handled, in order of first handling

kafkaVars == <<logs, committed, kcPc, kafkaBatch, toCommit, handled>>

NoOffsets == [p \in KPartitions |-> 0]

KafkaInit ==
  /\ logs = [p \in KPartitions |-> <<>>]
  /\ committed = NoOffsets
  /\ kcPc = [c \in Pollers |-> "idle"]
  /\ kafkaBatch = [c \in Pollers |-> <<>>]
  /\ toCommit = [c \in Pollers |-> NoOffsets]
  /\ handled = [p \in KPartitions |-> <<>>]

Published == FoldFunction(LAMBDA l, n : Len(l) + n, 0, logs)

KcGo(c, l) == kcPc' = [kcPc EXCEPT ![c] = l]

(* _determine_partition(). *)
DeterminePartition(k) == KeyHash[k] % Cardinality(KPartitions)

(* send_and_wait(): the record goes to the end of the partition's log. *)
SendAndWait(p, record) ==
  /\ Published < MaxRecords
  /\ logs' = [logs EXCEPT ![p] = Append(@, record)]
  /\ UNCHANGED <<committed, kcPc, kafkaBatch, toCommit, handled>>

(* publish_event(): the key decides the partition. *)
PublishEvent(k, valid) == SendAndWait(DeterminePartition(k), [key |-> k, valid |-> valid])

(* publish_order_created(): the user's id is the key. *)
PublishOrderCreated(k) == PublishEvent(k, TRUE)

(* Another producer of the topic writes a record outside the schema. *)
PublishForeignRecord(k) == PublishEvent(k, FALSE)

(* start(): auto_offset_reset is earliest, so a partition without a commit *)
(* starts at 0.                                                            *)
Position(p) == committed[p]

(* getmany(): the partitions in the order of a set, up to the limit. *)
GetMany(order) ==
  FoldLeft(
    LAMBDA polled, p :
      LET room == Min({PollBatchSize - Len(polled), Len(logs[p]) - Min({Position(p), Len(logs[p])})})
      IN  polled \o [i \in 1 .. room |-> <<p, Position(p) + i - 1>>],
    <<>>, order)

(* consume_batch() up to its first record. *)
PollRecords(c) ==
  /\ kcPc[c] = "idle"
  /\ \E order \in SetToSeqs(KPartitions) : kafkaBatch' = [kafkaBatch EXCEPT ![c] = GetMany(order)]
  /\ kafkaBatch'[c] # <<>>
  /\ toCommit' = [toCommit EXCEPT ![c] = NoOffsets]
  /\ KcGo(c, "handling")
  /\ UNCHANGED <<logs, committed, handled>>

FirstTime(p, o) == IF \E i \in DOMAIN handled[p] : handled[p][i] = o
                   THEN handled
                   ELSE [handled EXCEPT ![p] = Append(@, o)]

(* One record: decoded, validated, given to the callback and remembered    *)
(* for the commit.  An invalid one raises, and stop() forgets the batch.   *)
HandleRecord(c) ==
  LET p == Head(kafkaBatch[c])[1]
      o == Head(kafkaBatch[c])[2]
  IN  /\ kcPc[c] = "handling" /\ kafkaBatch[c] # <<>>
      /\ IF logs[p][o + 1].valid
         THEN /\ handled' = FirstTime(p, o)
              /\ toCommit' = [toCommit EXCEPT ![c][p] = o + 1]
              /\ kafkaBatch' = [kafkaBatch EXCEPT ![c] = Tail(@)]
              /\ UNCHANGED kcPc
         ELSE KcGo(c, "idle") /\ UNCHANGED <<handled, toCommit, kafkaBatch>>
      /\ UNCHANGED <<logs, committed>>

(* Mutation of Commit: commit() without offsets in the finally, which      *)
(* commits the fetch positions of whatever was polled.                     *)
MutCommitOffsets(c) ==
  /\ kcPc[c] = "handling"
  /\ committed' = [p \in KPartitions |->
       Max({committed[p]} \cup {b[2] + 1 : b \in {x \in ToSet(kafkaBatch[c]) : x[1] = p}})]
  /\ KcGo(c, "idle")
  /\ UNCHANGED <<logs, kafkaBatch, toCommit, handled>>

(* The whole batch was handled: its offsets replace the group's, also when *)
(* another caller has moved them further meanwhile.                        *)
CommitOffsets(c) ==
  /\ kcPc[c] = "handling" /\ kafkaBatch[c] = <<>>
  /\ committed' = [p \in KPartitions |->
                     IF toCommit[c][p] > 0 THEN toCommit[c][p] ELSE committed[p]]
  /\ KcGo(c, "idle")
  /\ UNCHANGED <<logs, kafkaBatch, toCommit, handled>>

(* The callback raises, the caller is cancelled or the commit fails: the   *)
(* finally stops the consumer and nothing is committed.                    *)
AbandonBatch(c) ==
  /\ kcPc[c] = "handling"
  /\ KcGo(c, "idle")
  /\ UNCHANGED <<logs, committed, kafkaBatch, toCommit, handled>>

KafkaNext ==
  \/ \E k \in RecordKeys : PublishOrderCreated(k) \/ PublishForeignRecord(k)
  \/ \E c \in Pollers : PollRecords(c) \/ HandleRecord(c) \/ CommitOffsets(c) \/ AbandonBatch(c)

KafkaSpec == KafkaInit /\ [][KafkaNext]_kafkaVars

(* get_consumer_group_status(): highwater minus committed offset. *)
Lag(p) == IF Len(logs[p]) > committed[p] THEN Len(logs[p]) - committed[p] ELSE 0

(* At least once, in order: the group first handles the records of a       *)
(* partition (so those of one key) one after the other from its start,     *)
(* never past one that was not handled, and the lag that is reported       *)
(* counts every record not handled, whichever poll commits last.           *)
HandledInOrderBeforeCommit ==
  \A p \in KPartitions :
    /\ \A i \in DOMAIN handled[p] : handled[p][i] = i - 1
    /\ Len(logs[p]) - Len(handled[p]) <= Lag(p)
=============================================================================
