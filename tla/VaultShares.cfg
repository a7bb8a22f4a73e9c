CONSTANTS
  a1 = a1
  a2 = a2
  s1 = s1
  NoStrategy = NoStrategy
  Accounts = {a1, a2}
  Amounts = {1, 2, 3}
  Strategies = {s1}
  DepositCaps = {4, 6}
  StrategyCaps = {2, 4}
  LossLimits = {0, 1, 2}
  MINIMUM_SHARES = 1
  BPS = 2
  MAX_CONFIGURED_LOSS = 1
  MaxTokens = 6
  MaxShares = 9
CONSTRAINT FewShares
SYMMETRY Interchangeable
SPECIFICATION Spec
PROPERTIES
  PriceFallsByLossOnly
  NoTradeUnderwater
