CONSTANTS
  DlMessages = {m1, m2}
  Redrives = {r1}
  MaxDlRetries = 2
  MaxAckFaults = 1
SPECIFICATION DlSpec
INVARIANTS RedrivenAreReinjected
CHECK_DEADLOCK FALSE
