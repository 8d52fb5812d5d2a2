---------------------------- MODULE MessageBroker ----------------------------
(***************************************************************************)
(* The exchanges and queues of core/rabbitmq_topology.py, what the broker  *)
(* service publishes to them, and its consume_next().  A routing key is    *)
(* the sequence of its words.                                              *)
(***************************************************************************)
EXTENDS Naturals, Sequences, FiniteSets, SequencesExt

CONSTANTS
  BrokerMessages,  \* [exchange, key, valid]: what is published, each once; valid
                   \* is whether the body is JSON
  Consumers        \* callers of consume_next()

VARIABLES
  queues,     \* the queues' messages
  unacked,    \* per consumer: <<queue, message>> it has fetched, or <<>>
  published,  \* messages published
  acked       \* <<queue, message>> acknowledged

brokerVars == <<queues, unacked, published, acked>>

(* declare_rabbitmq_topology(): exchange, binding key and queue. *)
DirectBindings ==
  {<<"orders.direct", <<"order", "created">>, "orders.created.queue">>,
   <<"orders.direct", <<"order", "cancelled">>, "orders.cancelled.queue">>}

FanoutBindings ==
  {<<"events.fanout", <<"">>, q>> :
     q \in {"events.notification.queue", "events.analytics.queue", "events.audit.queue"}}

TopicBindings ==
  {<<"logs.topic", <<"europe", "#">>, "logs.eu.queue">>,
   <<"logs.topic", <<"#", "critical">>, "logs.critical.queue">>,
   <<"logs.topic", <<"order", "*", "*">>, "logs.order.monitoring.queue">>}

Bindings == DirectBindings \cup FanoutBindings \cup TopicBindings

Queues == {b[3] : b \in Bindings}

BrokerInit ==
  /\ queues = [q \in Queues |-> <<>>]
  /\ unacked = [c \in Consumers |-> <<>>]
  /\ published = {}
  /\ acked = {}

(* Mutation of MatchTokens: # stands for at least one word. *)
RECURSIVE MutMatchTokens(_, _)
MutMatchTokens(pattern, key) ==
  IF pattern = <<>> THEN key = <<>>
  ELSE IF Head(pattern) = "#"
       THEN \E n \in 1 .. Len(key) :
              MutMatchTokens(Tail(pattern), SubSeq(key, n + 1, Len(key)))
       ELSE /\ key # <<>>
            /\ Head(pattern) \in {"*", Head(key)}
            /\ MutMatchTokens(Tail(pattern), Tail(key))

(* _match_tokens(): * stands for one word, # for any number of them. *)
RECURSIVE MatchTokens(_, _)
MatchTokens(pattern, key) ==
  IF pattern = <<>> THEN key = <<>>
  ELSE IF Head(pattern) = "#"
       THEN \E n \in 0 .. Len(key) :
              MatchTokens(Tail(pattern), SubSeq(key, n + 1, Len(key)))
       ELSE /\ key # <<>>
            /\ Head(pattern) \in {"*", Head(key)}
            /\ MatchTokens(Tail(pattern), Tail(key))

(* _topic_matches(). *)
TopicMatches(pattern, key) ==
  pattern = <<"#">> \/ pattern = key \/ MatchTokens(pattern, key)

(* MockAMQPExchange.publish(): the queues that get a copy. *)
TargetQueues(exchange, key) ==
  {b[3] : b \in {x \in Bindings :
    /\ x[1] = exchange
    /\ \/ exchange = "events.fanout"
       \/ exchange = "orders.direct" /\ x[2] = key
       \/ exchange = "logs.topic" /\ TopicMatches(x[2], key)}}

(* One copy at the end of each queue it is routed to. *)
Deposit(m) ==
  /\ m \notin published
  /\ published' = published \cup {m}
  /\ queues' = [q \in Queues |->
                  IF q \in TargetQueues(m.exchange, m.key) THEN Append(queues[q], m) ELSE queues[q]]
  /\ UNCHANGED <<unacked, acked>>

(* publish_direct(), broadcast_fanout() and publish_topic(). *)
PublishDirect(m) == m.exchange = "orders.direct" /\ Deposit(m)
PublishFanout(m) == m.exchange = "events.fanout" /\ Deposit(m)
PublishTopic(m) == m.exchange = "logs.topic" /\ Deposit(m)

(* consume_next_message() with auto_ack: taken and acknowledged at once. *)
ConsumeAutoAck(q) ==
  /\ queues[q] # <<>>
  /\ acked' = acked \cup {<<q, Head(queues[q])>>}
  /\ queues' = [queues EXCEPT ![q] = Tail(@)]
  /\ UNCHANGED <<unacked, published>>

(* consume_next_message() without it, up to the settlement. *)
Fetch(c, q) ==
  /\ unacked[c] = <<>>
  /\ queues[q] # <<>>
  /\ unacked' = [unacked EXCEPT ![c] = <<q, Head(queues[q])>>]
  /\ queues' = [queues EXCEPT ![q] = Tail(@)]
  /\ UNCHANGED <<published, acked>>

(* The body is JSON: message.ack(). *)
AckMessage(c) ==
  /\ unacked[c] # <<>> /\ unacked[c][2].valid
  /\ acked' = acked \cup {unacked[c]}
  /\ unacked' = [unacked EXCEPT ![c] = <<>>]
  /\ UNCHANGED <<queues, published>>

(* It is not, or the acknowledgement raises: nack(requeue=True) puts the   *)
(* message back at the head.                                               *)
NackMessage(c) ==
  LET q == unacked[c][1]
  IN  /\ unacked[c] # <<>>
      /\ queues' = [queues EXCEPT ![q] = <<unacked[c][2]>> \o @]
      /\ unacked' = [unacked EXCEPT ![c] = <<>>]
      /\ UNCHANGED <<published, acked>>

BrokerNext ==
  \/ \E m \in BrokerMessages : PublishDirect(m) \/ PublishFanout(m) \/ PublishTopic(m)
  \/ \E c \in Consumers : (\E q \in Queues : Fetch(c, q)) \/ AckMessage(c) \/ NackMessage(c)
  \/ \E q \in Queues : ConsumeAutoAck(q)

BrokerSpec == BrokerInit /\ [][BrokerNext]_brokerVars

(* What the topology's docstring says each queue is for. *)
MeantFor(q, m) ==
  CASE q = "orders.created.queue"   -> m.exchange = "orders.direct" /\ m.key = <<"order", "created">>
    [] q = "orders.cancelled.queue" -> m.exchange = "orders.direct" /\ m.key = <<"order", "cancelled">>
    [] q = "logs.eu.queue"          -> m.exchange = "logs.topic" /\ Head(m.key) = "europe"
    [] q = "logs.critical.queue"    -> m.exchange = "logs.topic" /\ Last(m.key) = "critical"
    [] q = "logs.order.monitoring.queue" ->
         m.exchange = "logs.topic" /\ Len(m.key) = 3 /\ Head(m.key) = "order"
    [] OTHER                        -> m.exchange = "events.fanout"

Copies(q, m) ==
  Cardinality({i \in DOMAIN queues[q] : queues[q][i] = m})
    + Cardinality({c \in Consumers : unacked[c] = <<q, m>>})
    + (IF <<q, m>> \in acked THEN 1 ELSE 0)

(* Every message published has one copy in each queue meant for it and     *)
(* none elsewhere: waiting, fetched or acknowledged, through any number of *)
(* requeues.                                                               *)
OneCopyWhereMeant ==
  \A q \in Queues, m \in BrokerMessages :
    Copies(q, m) = IF m \in published /\ MeantFor(q, m) THEN 1 ELSE 0
=============================================================================
