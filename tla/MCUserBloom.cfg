CONSTANTS
  UsCalls = {c1, c2}
  NoCall = NoCall
  None = None
  UserIds = {1, 2, 3}
  Names = {"ann", "bob"}
  FullNames = {"fa"}
SPECIFICATION UserSpec
INVARIANTS BloomHasNoFalseNegatives
CHECK_DEADLOCK FALSE
