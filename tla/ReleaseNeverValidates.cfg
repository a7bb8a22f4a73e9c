SPECIFICATION MCSpec
CONSTANTS
  Environments <- ReleaseSettings
  MaxRuns = 2
  MaxReorgs = 1
  Shallow = {"vault.strategy", "registry.acceptOwnership", "liquidity.lqcUsdt"}
  MaxReverts = 1
  MaxSwapProbes = 1
  MaxReports = 2
  FaultSteps = {"vault.strategy", "liquidity.lqcUsdt"}
  MaxDamage = 0
  MaxAttempts = 1
  MaxMishaps = 0
CHECK_DEADLOCK FALSE
INVARIANT ReleaseValidates
