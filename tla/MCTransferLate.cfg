CONSTANTS
  Workers = {w1, w2}
  NoOwner = NoOwner
  RateScale = 2
  Keys <- MCAccounts
  Accounts <- MCAccounts
  Active <- MCAccounts
  Currencies <- MCCurrencies
  DebitNormal <- MCDebitNormal
  CurrencyOf <- MCCurrencyOf
  TreasuryOf <- MCTreasuryOf
  Refs <- MCRefs
  OpeningDebits <- MCOpeningDebits
  OpeningCredits <- MCOpeningCredits
  Timely = FALSE
  Requests <- RepeatedRequests
SPECIFICATION Spec
INVARIANT
  EntriesWhole
PROPERTY
  ForeignLockUntouched
CHECK_DEADLOCK FALSE
