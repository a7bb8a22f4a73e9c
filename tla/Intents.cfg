SPECIFICATION FairSpec
CONSTANTS
  Intents = {i1, i2}
  Users = {u1}
  Nonces = {n1, n2}
  Tokens = {t1}
  Amounts = {1}
  Deadlines = {1}
  Operators = {o1}
  Bindings = {b1}
  Reporters = {r1}
  InitialFunds = 2
  MaxStray = 1
  MaxTime = 2
  None = None
INVARIANTS
  NoSaleWithoutReceipt
PROPERTIES
  PromiseKept
  EveryIntentSettles
