CONSTANTS
  Events = {1, 2}
  KeyOf <- MCKeyOf
  LedgerEvents = {1, 2}
  Relays = {l, o}
  LedgerRelays = {l}
  BatchSize = 2
  MaxRetries = 1
  Reachable = TRUE
SPECIFICATION FairScenarioSpec
PROPERTY
  EveryCycleEnds
