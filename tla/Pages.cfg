SPECIFICATION MCSpec
CONSTANTS
  a = a
  b = b
  c = c
  \* the quote API
  Callers = {a, b, c}
  CallerKey <- MCCallerKey
  Clients = {"client"}
  RequestIds = {id1, id2}
  Contents = {x}
  Validity = 1
  Limit = 3
  Window = 2
  MaxInFlight = 1
  MaxCompleted = 1
  MaxRetries = 1
  MaxGatewayTime = 2
  MaxQuotes = 2
  \* the swap page
  Routes = {r1, r2}
  SpenderOf <- MCSpender
  Prices = {4, 6}
  Slippage = 1
  QuoteMaxAge = 1
  ProofLife = 1
  PendingLife = 1
  MaxPageTime = 2
  MaxQuoteVersion = 2
  MaxSwaps = 2
  \* the proof of a settlement
  Transactions = {1, 2}
  IntendedTx = 1
  Payments <- MCPayments
  Amounts = {1, 2}
  CommittedMinimum = 2
  QuoteBlock = 1
  LastBlock = 2
  Confirmations = 2
  MaxBlocks = 3
  MaxReorgs = 2
  MaxEvidence = 2
  \* the operator pages
  Pages <- AllPages
  PacketLength = 3
  MaxSent = 6
  MaxTrouble = 3
  \* the mobile pages
  SpendCap <- MCSpendCap
  Reserve = 2
  Opening = 8
  MaxCost = 2
  MaxUpset = 2
INVARIANTS
  OneLiveAnswer
  
  NewestQuoteShown
  SettlementStands
  
  
  
  
CHECK_DEADLOCK FALSE
