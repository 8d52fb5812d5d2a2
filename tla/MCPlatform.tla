----------------------------- MODULE MCPlatform -----------------------------
(*****************************************************************************)
(* The components between the services: the ways requests, workers and       *)
(* messages keep out of each other's way, survive each other's failures,     *)
(* find each other's data and undo their own.  The components share no       *)
(* state, so a behaviour runs one of them, chosen in the initial state;      *)
(* the reachable states are the sum of the components' own, and a property   *)
(* of one holds trivially where another runs.                                *)
(*****************************************************************************)
EXTENDS
    ExclusiveJob, IdempotentCharge, JobQueue, RateLimiter, XFetch,
    CircuitBreaker, Bulkhead, RetryBackoff, ShutdownManager,
    CompactHashMap, Identifiers, Leaderboard, KafkaConsumerGroup,
    MessageBroker, BackgroundTasks, ArqJobs, AppLifespan, InMemoryStore,
    TLC

VARIABLE part   \* the component that this behaviour runs

(* Hashes that send the two keys to different partitions. *)
MCKeyHash == "u1" :> 4 @@ "u2" :> 7

(* A direct, a fanout and three topic messages: keys that match one, two or  *)
(* none of the patterns, with a payload that a handler accepts or refuses.  *)
MCMessage(exchange, key, valid) == [exchange |-> exchange, key |-> key, valid |-> valid]
MCBrokerMessages ==
    {MCMessage("orders.direct", <<"order", "created">>, TRUE),
     MCMessage("events.fanout", <<"">>, FALSE),
     MCMessage("logs.topic", <<"europe">>, FALSE),
     MCMessage("logs.topic", <<"order", "us", "critical">>, TRUE),
     MCMessage("logs.topic", <<"critical", "europe">>, TRUE)}

Parts ==
    {"exclusive", "charge", "jobs", "limiter", "xfetch", "breaker",
     "bulkhead", "retry", "shutdown", "hashmap", "ids", "board",
     "consumers", "broker", "tasks", "arq", "lifespan", "memory"}

SumInit ==
    /\ part \in Parts
    /\ ExclusiveInit
    /\ ChargeInit
    /\ JobInit
    /\ LimiterInit
    /\ XFetchInit
    /\ BreakerInit
    /\ BulkheadInit
    /\ RetryInit
    /\ ShutdownInit
    /\ HashInit
    /\ IdInit
    /\ BoardInit
    /\ KafkaInit
    /\ BrokerInit
    /\ BackgroundInit
    /\ ArqInit
    /\ LifespanInit
    /\ ImInit
    /\ part # "bulkhead" => maxQueue = CHOOSE q \in MaxQueues : TRUE
    /\ part # "ids" => wallMs = 1

(* Component p runs; every other one stays in its initial state. *)
Running(p) ==
    /\ part = p
    /\ UNCHANGED part
    /\ IF p = "exclusive" THEN TRUE ELSE UNCHANGED exclusiveVars
    /\ IF p = "charge" THEN TRUE ELSE UNCHANGED chargeVars
    /\ IF p = "jobs" THEN TRUE ELSE UNCHANGED jobVars
    /\ IF p = "limiter" THEN TRUE ELSE UNCHANGED limiterVars
    /\ IF p = "xfetch" THEN TRUE ELSE UNCHANGED xfetchVars
    /\ IF p = "breaker" THEN TRUE ELSE UNCHANGED breakerVars
    /\ IF p = "bulkhead" THEN TRUE ELSE UNCHANGED bulkheadVars
    /\ IF p = "retry" THEN TRUE ELSE UNCHANGED retryVars
    /\ IF p = "shutdown" THEN TRUE ELSE UNCHANGED shutdownVars
    /\ IF p = "hashmap" THEN TRUE ELSE UNCHANGED hashVars
    /\ IF p = "ids" THEN TRUE ELSE UNCHANGED idVars
    /\ IF p = "board" THEN TRUE ELSE UNCHANGED boardVars
    /\ IF p = "consumers" THEN TRUE ELSE UNCHANGED kafkaVars
    /\ IF p = "broker" THEN TRUE ELSE UNCHANGED brokerVars
    /\ IF p = "tasks" THEN TRUE ELSE UNCHANGED backgroundVars
    /\ IF p = "arq" THEN TRUE ELSE UNCHANGED arqVars
    /\ IF p = "lifespan" THEN TRUE ELSE UNCHANGED lifespanVars
    /\ IF p = "memory" THEN TRUE ELSE UNCHANGED imVars

SumNext ==
    \/ Running("exclusive") /\ ExclusiveNext
    \/ Running("charge") /\ ChargeNext
    \/ Running("jobs") /\ JobNext
    \/ Running("limiter") /\ LimiterNext
    \/ Running("xfetch") /\ XFetchNext
    \/ Running("breaker") /\ BreakerNext
    \/ Running("bulkhead") /\ BulkheadNext
    \/ Running("retry") /\ RetryNext
    \/ Running("shutdown") /\ ShutdownNext
    \/ Running("hashmap") /\ HashNext
    \/ Running("ids") /\ IdNext
    \/ Running("board") /\ BoardNext
    \/ Running("consumers") /\ KafkaNext
    \/ Running("broker") /\ BrokerNext
    \/ Running("tasks") /\ BackgroundNext
    \/ Running("arq") /\ ArqNext
    \/ Running("lifespan") /\ LifespanNext
    \/ Running("memory") /\ ImNext

sumVars ==
    <<part, exclusiveVars, chargeVars, jobVars, limiterVars, xfetchVars,
      breakerVars, bulkheadVars, retryVars, shutdownVars, hashVars,
      idVars, boardVars, kafkaVars, brokerVars, backgroundVars,
      arqVars, lifespanVars, imVars>>

SumSpec == SumInit /\ [][SumNext]_sumVars
=============================================================================
