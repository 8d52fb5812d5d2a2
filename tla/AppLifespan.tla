---------------------------- MODULE AppLifespan -----------------------------
(***************************************************************************)
(* The process-wide clients and the lifespan that opens and closes them:   *)
(* the Redis pool, the RabbitMQ connection and channel, the Kafka producer *)
(* (core/redis.py, core/rabbitmq.py, core/kafka.py, main.py lifespan()).   *)
(* Every client is a module global; get_redis(), get_rabbitmq_channel()    *)
(* and get_kafka_producer() open it again when they find None, so requests *)
(* that outlive the drain run against the closing lifespan.  A client is   *)
(* its identity, a number; 0 is None.  An unreachable server is replaced   *)
(* by an in-memory stand-in, which is no connection.                       *)
(***************************************************************************)
EXTENDS Naturals, FiniteSets

CONSTANTS
  LsRequests,     \* requests, each asking for one client
  Lifespan        \* the lifespan coroutine

ASSUME LifespanAssumption == Lifespan \notin LsRequests

VARIABLES
  lsPc,           \* where the lifespan and each request are
  lsLocal,        \* the pool or connection a coroutine holds across an await
  handle,         \* the client a request was given
  redisPool, redisClient, isFallback, fallbackLoop,   \* globals of redis.py
  connection, channel,                                \* of rabbitmq.py
  producer,                                           \* of kafka.py
  lastClient,     \* identities given out
  opened, closed, \* connections to a server, and those closed
  excused,        \* history: opened late, refused a channel, or raised on close
  sharedStore     \* history: the requests get_redis() served before shutdown

redisVars == <<redisPool, redisClient, isFallback, fallbackLoop>>
rabbitVars == <<connection, channel>>
lifespanVars ==
  <<lsPc, lsLocal, handle, redisVars, rabbitVars, producer, lastClient, opened,
    closed, excused, sharedStore>>

Coroutines == LsRequests \cup {Lifespan}

LifespanInit ==
  /\ lsPc = [c \in Coroutines |-> IF c = Lifespan THEN "ping" ELSE "idle"]
  /\ lsLocal = [c \in Coroutines |-> 0]
  /\ handle = [r \in LsRequests |-> 0]
  /\ redisPool = 0 /\ redisClient = 0 /\ isFallback = FALSE /\ fallbackLoop = FALSE
  /\ connection = 0 /\ channel = 0 /\ producer = 0
  /\ lastClient = 0 /\ opened = {} /\ closed = {} /\ excused = {}
  /\ sharedStore = {}

Requesting == lsPc[Lifespan] \notin {"ping", "initRedis", "pinging", "initRabbit",
                                     "connected", "initKafka", "seed", "failed", "down"}
Closing == Requesting /\ lsPc[Lifespan] # "serving"

(* A coroutine's call to an init_*() has returned: the lifespan goes on    *)
(* with its next line, a request with the client now in the global.        *)
Initialised(c, next, client) ==
  /\ lsPc' = [lsPc EXCEPT ![c] = IF c = Lifespan THEN next ELSE "served"]
  /\ handle' = IF c = Lifespan THEN handle ELSE [handle EXCEPT ![c] = client]

Opened(n) ==
  /\ opened' = opened \cup {n}
  /\ excused' = IF Closing THEN excused \cup {n} ELSE excused

(* The start of the lifespan: SELECT 1 on the primary. *)
VerifyDatabase ==
  /\ lsPc[Lifespan] = "ping"
  /\ \E pc \in {"initRedis", "failed"} : lsPc' = [lsPc EXCEPT ![Lifespan] = pc]
  /\ UNCHANGED <<lsLocal, handle, redisVars, rabbitVars, producer, lastClient,
                 opened, closed, excused, sharedStore>>

(* init_redis_pool() as far as the ping: the global pool is already the    *)
(* new one.                                                                *)
InitRedisPool(c) ==
  /\ lsPc[c] = "initRedis"
  /\ redisPool' = lastClient + 1 /\ lastClient' = lastClient + 1
  /\ lsLocal' = [lsLocal EXCEPT ![c] = lastClient + 1]
  /\ lsPc' = [lsPc EXCEPT ![c] = "pinging"]
  /\ UNCHANGED <<handle, redisClient, isFallback, fallbackLoop, rabbitVars, producer,
                 opened, closed, excused, sharedStore>>

(* The ping answered, or the in-memory FakeRedis takes over; the loop of   *)
(* the fallback is assigned to a local and stays unset.                    *)
PingRedis(c) ==
  /\ lsPc[c] = "pinging"
  /\ \/ /\ redisClient' = lsLocal[c] /\ isFallback' = FALSE
        /\ Opened(lsLocal[c])
        /\ Initialised(c, "initRabbit", lsLocal[c])
        /\ UNCHANGED <<redisPool, lastClient>>
     \/ /\ redisClient' = lastClient + 1 /\ lastClient' = lastClient + 1
        /\ isFallback' = TRUE /\ redisPool' = 0
        /\ Initialised(c, "initRabbit", lastClient + 1)
        /\ UNCHANGED <<opened, excused>>
  /\ UNCHANGED <<lsLocal, fallbackLoop, rabbitVars, producer, closed, sharedStore>>

(* init_rabbitmq(): the probe and connect_robust(), or the mock broker. *)
InitRabbitmq(c) ==
  /\ lsPc[c] = "initRabbit"
  /\ lastClient' = lastClient + 1
  /\ connection' = lastClient + 1
  /\ \/ /\ lsLocal' = [lsLocal EXCEPT ![c] = lastClient + 1]
        /\ lsPc' = [lsPc EXCEPT ![c] = "connected"]
        /\ Opened(lastClient + 1)
        /\ UNCHANGED <<channel, handle>>
     \/ /\ channel' = lastClient + 1
        /\ Initialised(c, "initKafka", lastClient + 1)
        /\ UNCHANGED <<lsLocal, opened, excused>>
  /\ UNCHANGED <<redisVars, producer, closed, sharedStore>>

(* conn.channel(): when it raises, the mock replaces the connection, which *)
(* nobody closes.                                                          *)
OpenChannel(c) ==
  /\ lsPc[c] = "connected"
  /\ \/ /\ channel' = lsLocal[c]
        /\ Initialised(c, "initKafka", lsLocal[c])
        /\ UNCHANGED <<connection, lastClient, excused>>
     \/ /\ connection' = lastClient + 1 /\ channel' = lastClient + 1
        /\ lastClient' = lastClient + 1
        /\ excused' = excused \cup {lsLocal[c]}
        /\ Initialised(c, "initKafka", lastClient + 1)
  /\ UNCHANGED <<lsLocal, redisVars, producer, opened, closed, sharedStore>>

(* init_kafka_producer(): the probe and start(), or the mock producer. *)
InitKafkaProducer(c) ==
  /\ lsPc[c] = "initKafka"
  /\ producer' = lastClient + 1 /\ lastClient' = lastClient + 1
  /\ \/ Opened(lastClient + 1)
     \/ UNCHANGED <<opened, excused>>
  /\ Initialised(c, "seed", lastClient + 1)
  /\ UNCHANGED <<lsLocal, redisVars, rabbitVars, closed, sharedStore>>

(* The Bloom filter is seeded from the database; an error ends the start   *)
(* with every client left open.                                            *)
SeedAndServe ==
  /\ lsPc[Lifespan] = "seed"
  /\ \E pc \in {"serving", "failed"} : lsPc' = [lsPc EXCEPT ![Lifespan] = pc]
  /\ UNCHANGED <<lsLocal, handle, redisVars, rabbitVars, producer, lastClient,
                 opened, closed, excused, sharedStore>>

(* A request is given the client it found. *)
Given(r, client) ==
  /\ lsPc' = [lsPc EXCEPT ![r] = "served"]
  /\ handle' = [handle EXCEPT ![r] = client]

Asks(r, pc) == lsPc' = [lsPc EXCEPT ![r] = pc] /\ UNCHANGED handle

(* get_redis(): a fallback whose loop is unknown is replaced by a new one  *)
(* before the missing client is initialised.                               *)
GetRedis(r) ==
  /\ Requesting /\ lsPc[r] = "idle"
  /\ IF isFallback /\ (redisClient = 0 \/ ~fallbackLoop)
       THEN /\ redisClient' = lastClient + 1 /\ lastClient' = lastClient + 1
            /\ fallbackLoop' = TRUE
       ELSE UNCHANGED <<redisClient, lastClient, fallbackLoop>>
  /\ IF redisClient' = 0 THEN Asks(r, "initRedis") ELSE Given(r, redisClient')
  /\ sharedStore' = IF Closing THEN sharedStore ELSE sharedStore \cup {r}
  /\ UNCHANGED <<lsLocal, redisPool, isFallback, rabbitVars, producer, opened,
                 closed, excused>>

(* JobService._get_redis(): the global, whatever it is. *)
JobServiceGetRedis(r) ==
  /\ Requesting /\ lsPc[r] = "idle"
  /\ IF redisClient = 0 THEN Asks(r, "initRedis") ELSE Given(r, redisClient)
  /\ UNCHANGED <<lsLocal, redisVars, rabbitVars, producer, lastClient, opened,
                 closed, excused, sharedStore>>

GetRabbitmqChannel(r) ==
  /\ Requesting /\ lsPc[r] = "idle"
  /\ IF channel = 0 THEN Asks(r, "initRabbit") ELSE Given(r, channel)
  /\ UNCHANGED <<lsLocal, redisVars, rabbitVars, producer, lastClient, opened,
                 closed, excused, sharedStore>>

GetKafkaProducer(r) ==
  /\ Requesting /\ lsPc[r] = "idle"
  /\ IF producer = 0 THEN Asks(r, "initKafka") ELSE Given(r, producer)
  /\ UNCHANGED <<lsLocal, redisVars, rabbitVars, producer, lastClient, opened,
                 closed, excused, sharedStore>>

(* The server ends the lifespan and the drain is over. *)
DrainEnds ==
  /\ lsPc[Lifespan] = "serving"
  /\ lsPc' = [lsPc EXCEPT ![Lifespan] = "closeKafka"]
  /\ UNCHANGED <<lsLocal, handle, redisVars, rabbitVars, producer, lastClient,
                 opened, closed, excused, sharedStore>>

(* A close() returns or raises; a raise is logged and the close counts as  *)
(* made.                                                                   *)
Close(n) ==
  \/ closed' = closed \cup {n} /\ UNCHANGED excused
  \/ excused' = excused \cup {n} /\ UNCHANGED closed

(* close_kafka_producer(). *)
CloseKafkaProducer ==
  /\ lsPc[Lifespan] = "closeKafka"
  /\ IF producer = 0 THEN UNCHANGED <<closed, excused>> ELSE Close(producer)
  /\ producer' = 0
  /\ lsPc' = [lsPc EXCEPT ![Lifespan] = "closeChannel"]
  /\ UNCHANGED <<lsLocal, handle, redisVars, rabbitVars, lastClient, opened, sharedStore>>

(* close_rabbitmq(), the channel; a mock connection is closed without      *)
(* yielding, a real one is awaited.                                        *)
CloseRabbitmqChannel ==
  /\ lsPc[Lifespan] = "closeChannel"
  /\ channel' = 0
  /\ lsLocal' = [lsLocal EXCEPT ![Lifespan] = connection]
  /\ IF connection \in opened
       THEN lsPc' = [lsPc EXCEPT ![Lifespan] = "closeConnection"] /\ UNCHANGED connection
       ELSE lsPc' = [lsPc EXCEPT ![Lifespan] = "closeRedis"] /\ connection' = 0
  /\ UNCHANGED <<handle, redisVars, producer, lastClient, opened, closed, excused,
                 sharedStore>>

(* Mutation of CloseRabbitmqConnection: the connection is only forgotten.  *)
MutForgetConnection ==
  /\ lsPc[Lifespan] = "closeConnection"
  /\ connection' = 0
  /\ lsPc' = [lsPc EXCEPT ![Lifespan] = "closeRedis"]
  /\ UNCHANGED <<lsLocal, handle, redisVars, channel, producer, lastClient, opened,
                 closed, excused, sharedStore>>

(* The connection has closed: the global is cleared, whoever set it since. *)
CloseRabbitmqConnection ==
  /\ lsPc[Lifespan] = "closeConnection"
  /\ Close(lsLocal[Lifespan])
  /\ connection' = 0
  /\ lsPc' = [lsPc EXCEPT ![Lifespan] = "closeRedis"]
  /\ UNCHANGED <<lsLocal, handle, redisVars, channel, producer, lastClient, opened,
                 sharedStore>>

(* close_redis_pool(), the client; its pool is disconnected next. *)
CloseRedisClient ==
  /\ lsPc[Lifespan] = "closeRedis"
  /\ redisClient' = 0
  /\ lsLocal' = [lsLocal EXCEPT ![Lifespan] = redisPool]
  /\ IF redisPool = 0
       THEN lsPc' = [lsPc EXCEPT ![Lifespan] = "dispose"] /\ isFallback' = FALSE
       ELSE lsPc' = [lsPc EXCEPT ![Lifespan] = "disconnect"] /\ UNCHANGED isFallback
  /\ UNCHANGED <<handle, redisPool, fallbackLoop, rabbitVars, producer, lastClient,
                 opened, closed, excused, sharedStore>>

DisconnectRedisPool ==
  /\ lsPc[Lifespan] = "disconnect"
  /\ Close(lsLocal[Lifespan])
  /\ redisPool' = 0 /\ isFallback' = FALSE
  /\ lsPc' = [lsPc EXCEPT ![Lifespan] = "dispose"]
  /\ UNCHANGED <<lsLocal, handle, redisClient, fallbackLoop, rabbitVars, producer,
                 lastClient, opened, sharedStore>>

(* The engines are disposed of and the process ends, requests and all. *)
DisposeEngines ==
  /\ lsPc[Lifespan] = "dispose"
  /\ lsPc' = [c \in Coroutines |-> IF c = Lifespan THEN "down" ELSE lsPc[c]]
  /\ UNCHANGED <<lsLocal, handle, redisVars, rabbitVars, producer, lastClient,
                 opened, closed, excused, sharedStore>>

(* Once the process is down nothing runs. *)
Alive == lsPc[Lifespan] \notin {"down", "failed"}

LifespanStep ==
  \/ VerifyDatabase \/ SeedAndServe \/ DrainEnds
  \/ InitRedisPool(Lifespan) \/ PingRedis(Lifespan) \/ InitRabbitmq(Lifespan)
  \/ OpenChannel(Lifespan) \/ InitKafkaProducer(Lifespan)
  \/ CloseKafkaProducer \/ CloseRabbitmqChannel \/ CloseRabbitmqConnection
  \/ CloseRedisClient \/ DisconnectRedisPool \/ DisposeEngines

RequestStep(r) ==
  \/ GetRedis(r) \/ JobServiceGetRedis(r) \/ GetRabbitmqChannel(r) \/ GetKafkaProducer(r)
  \/ InitRedisPool(r) \/ PingRedis(r) \/ InitRabbitmq(r) \/ OpenChannel(r)
  \/ InitKafkaProducer(r)

LifespanNext == Alive /\ (LifespanStep \/ \E r \in LsRequests : RequestStep(r))

LifespanSpec == LifespanInit /\ [][LifespanNext]_lifespanVars

(* Shutdown forgets no connection: when the process has gone down, one     *)
(* that is still open was opened by a request after the drain, was refused *)
(* its channel, or raised when it was closed.  The globals being cleared   *)
(* after the await cannot lose a connection of the start.                  *)
ShutdownForgetsNothing ==
  lsPc[Lifespan] = "down" => opened \ closed \subseteq excused

(* All requests that get_redis() serves before shutdown share one store,   *)
(* the in-memory one included: what one of them counts, locks or caches,   *)
(* the others see.                                                         *)
RequestsShareOneStore ==
  \A r, q \in sharedStore : handle[r] = handle[q]

(* The clients of the process: what startup opened is closed at shutdown,  *)
(* and in between all requests share one store.                            *)
ClientsKept == ShutdownForgetsNothing /\ RequestsShareOneStore
=============================================================================
