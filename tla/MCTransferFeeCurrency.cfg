CONSTANTS
  Workers = {w1, w2}
  NoOwner = NoOwner
  RateScale = 2
  Keys <- MCAccounts
  Accounts <- MCAccounts
  Active <- MCAccounts
  Currencies <- MCCurrencies
  DebitNormal <- MCDebitNormal
  CurrencyOf <- MCCurrencyOf
  TreasuryOf <- MCTreasuryOf
  Refs <- MCRefs
  OpeningDebits <- MCOpeningDebits
  OpeningCredits <- MCOpeningCredits
  Timely = TRUE
  Requests <- ForeignFeeRequests
SPECIFICATION Spec
INVARIANTS ZeroSumPerCurrency
CHECK_DEADLOCK FALSE
