CONSTANTS
  ApiCalls = {c1, c2, c3}
  ApiRequests <- MCApiRequests
  NoRequest = NoRequest
  Transfers = {"t1", "t2", "t3"}
  AmountOf <- MCAmountOf
  BurstCount = 1
  BurstVolume = 2
  SpikeAmount = 3
  VelocityWindow = 2
  MaxFraudTime = 3
  UsCalls = {c1, c2}
  NoCall = NoCall
  None = None
  UserIds = {1, 2, 3}
  Names = {"ann", "bob"}
  FullNames = {"fa"}
  Checkouts = {c1, c2, c3}
  NoCheckout = NoCheckout
  Quantities = {1, 2}
  InitialStock = 2
  OrderCalls = {c1, c2}
  OrderUsers = {"u1", "u2"}
  OrderIds = {1, 2, 3}
  Pagers = {p1}
  UnitsOfWork = {u1}
  PageLimit = 1
  Stamps = {1, 2}
  SessionOffset = 1
  MaxItems = 3
  AuditCalls = {1, 2}
  MonthsInYear = 2
  BaseYears = {1, 2}
  Months = {1, 2, 6}
  SearchRanges <- MCSearchRanges
  MonthlyShards = {2, 6}
  MaxAuditRows = 1
  Viewers = {v1, v2}
  Flushers = {f1, f2}
  Readers = {r1}
  DocCalls = {c1, c2}
  DocSubjects <- MCDocSubjects
  MaxDocs = 1
  Registrations = {q1, q2}
  MaxEntries = 1
  DlMessages = {m1, m2}
  Redrives = {r1}
  MaxDlRetries = 2
  MaxAckFaults = 1
  SearchCalls = {s1}
  NewProducts <- MCNewProducts
  SearchQueries <- MCSearchQueries
  SuggestPrefixes <- MCSuggestPrefixes
  SearchLimit = 2
  SimilarityThreshold = 3000
  MaxSearchRows = 3
SPECIFICATION SumSpec
INVARIANTS
  
  
  
  StockConserved
  OrdersWhole
  ReplicaReadsHold
  
  ViewsTold
  
  MessagesConserved
  SearchAnswersHold
PROPERTIES
  LifecycleHolds
CHECK_DEADLOCK FALSE
