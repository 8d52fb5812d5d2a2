CONSTANTS
  ExWorkers = {w1, w2, w3}
  NoToken = NoToken
  ChargeCalls = {w1, w2, w3}
  IdemKeys = {k1}
  Bodies = {b1, b2}
  NoBody = NoBody
  JqWorkers = {w1, w2}
  Priorities = {1, 2}
  Delays = {0, 2}
  MaxBatch = 2
  MaxJobs = 3
  MaxJqTime = 2
  RlCalls = {c1, c2, c3}
  RlLimit = 2
  RlWindow = 2
  Capacity = 1
  RefillRate = 1
  MaxClock = 3
  XCalls = {c1, c2, c3}
  NoXCall = NoXCall
  CbCalls = {c1, c2, c3}
  FailureThreshold = 3
  RecoveryTimeout = 2
  ProbeThreshold = 2
  BhCalls = {c1, c2, c3, c4}
  MaxConcurrent = 2
  MaxQueues = {0, 1}
  RtCalls = {c1, c2}
  NoRtCall = NoRtCall
  MaxRetries = 2
  BaseDelay = 2
  MaxDelay = 6
  Outages = {0, 2, 3}
  Strategies = {"full_jitter", "equal_jitter", "decorrelated_jitter", "no_jitter"}
  ShRequests = {r1, r2, r3}
  ShutdownTimeout = 2
  PositiveHashes = {0, 8}
  NegativeHashes = {}
  InitialCapacity = 8
  Shift = 32
  MaxHashEntries = 6
  IdThreads = {t1, t2}
  SeqModulus = 3
  SeqSeeds = {0, 1}
  EntropySeeds = {0, 1}
  MaxMs = 2
  Players = {1, 2}
  LbCalls = {c1, c2}
  ScoreDeltas = {1, 2}
  MaxScore = 2
  Pollers = {k1, k2}
  KPartitions = {0, 1}
  RecordKeys = {"u1", "u2"}
  KeyHash <- MCKeyHash
  PollBatchSize = 2
  MaxRecords = 3
  Consumers = {k1, k2}
  BrokerMessages <- MCBrokerMessages
  Tasks = {t1, t2}
  TaskWorkers = {w1, w2}
  MaxEmailRetries = 2
  MaxWorkerFaults = 1
  ArqCalls = {c1, c2}
  ArqJobIds = {j1}
  NoPool = NoPool
  MaxPools = 3
  LsRequests = {q1, q2}
  Lifespan = lifespan
  Emails = {"a", "b"}
  ImKeys = {"k1", "k2"}
  MaxObjects = 2
  MaxRows = 3
  MaxVersion = 2
  MaxMarks = 2
SPECIFICATION SumSpec
INVARIANTS
  ExclusiveUnlessLapsed
  JobsRunOnceInOrder
  QuotasKept
  OneEarlyRefresh
  CompartmentHolds
  RetriesBounded
  SearchesAgree
  BoardTellsScores
  HandledInOrderBeforeCommit
  OneCopyWhereMeant
  PollsAndPoolHold
  ClientsKept
PROPERTIES
  StoreRestored
  ChargeIsOnceOnly
  OutcomesDecide
  
  IdentifiersAscend
  
CHECK_DEADLOCK FALSE
