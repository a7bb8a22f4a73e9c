CONSTANTS
  a1 = a1
  a2 = a2
  Accounts = {a1, a2}
  Amounts = {1, 3}
  Cooldowns = {1}
  LockTimes = {}
  MaxPrincipal = 4
  MaxTime = 3
  RAY = 10
  Fundings = {4}
  Durations = {2, 3}
  ProgramBudgetCap = 8
  MaxRewardRate = 3
CONSTRAINT BoundAndNormal
SYMMETRY Interchangeable
SPECIFICATION Spec
INVARIANTS
  RewardsCovered
PROPERTIES
  EarnedWithTimeOnly
