CONSTANTS
  Accounts = {a1, a2}
  Amounts = {1, 2}
  Cooldowns = {1, 2}
  LockTimes = {2}
  MaxPrincipal = 3
  MaxTime = 3
  a1 = a1
  a2 = a2
SPECIFICATION VaultFairSpec
PROPERTIES
  PrincipalLeavesMatured
  RequestedExitsEnd
