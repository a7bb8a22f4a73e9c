SPECIFICATION MCSpec
CONSTANTS
  \* the desk
  MaxLeverage = 4
  MarginDivisor = 10
  Symbols = {"LQCUSDT"}
  Marks = {8, 12, 16, 24}
  TickSize = 8
  InitialBalance = 12
  Quantities = {2}
  Leverages = {4}
  Triggers = {0, 16}
  MaxSubmits = 3
  MaxOrders = 1
  \* the settlement controllers
  Traders = {a, b}
  TraderMarks = {4, 12}
  TraderBalance = 10
  FundBalance = 2
  CoverageCap = 1
  Fees = {2}
  InsuranceShare = 2
  FundingRates = {1}
  Losses = {3}
  Lots = {2}
  MaxUses = 3
  MaxVersion = 3
  \* the oracle guard
  Sources = {s1, s2, s3}
  SourcePrices = {100, 102, 120}
  Scale = 100
  MinSources = 2
  MaxDeviation = 2
  MaxSpread = 4
  MaxMove = 5
  MarkBand = 1
  MaxAge = 1
  MaxExposure = 1
  MaxTime = 2
  \* the market view
  Markets = {m1, m2}
  NoMarket = none
  MaxSelections = 3
  MaxTicks = 2
  \* the trading API
  Requests <- MCRequests
  Permissions <- MCPermissions
  MaxRecvWindow = 4
  ReplayTtl = 4
  MaxEntries = 3
  MaxVerifying = 1
  MaxCalls = 3
  MaxClock = 6
  \* the event stream
  Subscribers = {c1, c2}
  MaxEvents = 4
  MaxFaults = 2
  \* the contracts
  Holders = {h1, h2}
  PerpMarkets = {"m1", "m2"}
  PerpPrices = {2, 4, 8}
  Margins = {2}
  PerpSizes = {4}
  Cuts = {2, 4}
  Amounts = {5}
  RiskSettings <- MCRiskSettings
  Bps = 4
  FundingRay = 4
  FundingDeltas = {1}
  MaxTokens = 10
  MaxRounds = 3
INVARIANTS
  IsolatedMarginBacked
  LedgersAgree
  StreamFollowsSelection
  CarriedOutOnce
  NoSilentGap
  BooksFollowPositions
  LossesAreExplicit
PROPERTIES
  OnePassSuffices
  LossIsResolved
  OneSourceCannotMoveIndex
  OnlyOwnerReopens
CHECK_DEADLOCK FALSE
