CONSTANTS
  Events = {1, 2, 3}
  KeyOf <- MCKeyOf
  LedgerEvents = {1, 2}
  Relays = {l, o}
  LedgerRelays = {l}
  BatchSize = 2
  MaxRetries = 3
  Reachable = TRUE
SPECIFICATION ScenarioSpec
INVARIANT
  DeliveryHolds
