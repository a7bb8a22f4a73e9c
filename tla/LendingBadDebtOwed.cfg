CONSTANTS
  RAY = 1000
  SecondsPerYear = 1
  MaxDeviationBps = 500
  m1 = m1
  MaxCash = 12
  MaxReserves = 3
  MaxLosses = 1
  a1 = a1
  a2 = a2
  Markets = {m1}
  Accounts = {a1, a2}
  Assets = {"c", "d"}
  CollateralAsset <- MCCollateralAsset
  DebtAsset <- MCDebtAsset
  Unit <- MCUnit
  MarketConfigs <- MCMarketConfigs
  RateConfigs <- MCRateConfigs
  Feeds <- MCFeeds
  Amounts = {1, 6}
  MaxUint128 = 6
  MaxIndex = 8000
  MaxTime = 1
CONSTRAINT LenderAndBorrower
SPECIFICATION Spec
INVARIANTS
  RecordedBadDebtIsOwed
