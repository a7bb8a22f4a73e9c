SPECIFICATION MCSpec
CONSTANTS
  Environments <- ReleaseSettings
  MaxRuns = 2
  MaxReorgs = 1
  Shallow = {"vault.strategy", "registry.acceptOwnership", "liquidity.lqcUsdt"}
  MaxReverts = 1
  MaxSwapProbes = 1
  MaxReports = 2
  FaultSteps = {"vault.strategy", "liquidity.lqcUsdt"}
  \* the evidence runs
  MaxDamage = 1
  MaxAttempts = 2
  MaxMishaps = 3
INVARIANTS
  AtMostOnceUnlessLost
  FinishedAsConfigured
  OnlyEvidenceMissing
  
  InventoryIsTrue
  BudgetSuffices
  VerdictIsEarned
  WithdrawalVerdict
CHECK_DEADLOCK FALSE
