--------------------------- MODULE LiquidityVault ---------------------------
(***************************************************************************)
(* LQCLiquidityVault: shares of a single asset, part of which one approved *)
(* strategy holds.  Each external function is one action whose reverts are *)
(* its guards; a function that calls the strategy or the token includes    *)
(* what they answer, and the checks of the answer.                         *)
(***************************************************************************)
EXTENDS AccountSums

CONSTANTS
  Accounts,
  Amounts,              \* assets and shares callers pass
  Strategies,           \* reviewed adapters of this vault and asset
  NoStrategy,           \* address(0)
  DepositCaps,
  StrategyCaps,
  LossLimits,           \* loss bounds callers pass, in parts of BPS
  MINIMUM_SHARES,
  BPS,
  MAX_CONFIGURED_LOSS,  \* MAX_CONFIGURED_LOSS_BPS
  MaxTokens             \* bound on balances and valuations

ASSUME LiquidityAssumption ==
  /\ IsFiniteSet(Accounts)
  /\ Amounts \subseteq Nat \ {0}
  /\ NoStrategy \notin Strategies
  /\ DepositCaps \subseteq Nat \ {0}
  /\ StrategyCaps \subseteq Nat
  /\ LossLimits \subseteq Nat
  /\ MINIMUM_SHARES \in Nat \ {0}
  /\ BPS \in Nat \ {0}
  /\ MAX_CONFIGURED_LOSS \in 0 .. BPS
  /\ MaxTokens \in Nat

VARIABLES
  balanceOf,        \* shares of the accounts
  lockedShares,     \* shares of address(0)
  totalSupply,
  accountedAssets,
  strategyDebt,
  idle,             \* the vault's balance of the asset
  managed,          \* totalManagedAssets each adapter reports
  strategy,
  limits,           \* depositCap, strategyCap, maxLossBps
  paused            \* depositsPaused, allocationsPaused

shareVars == <<balanceOf, lockedShares, totalSupply>>
adminVars == <<strategy, limits, paused>>
vars      == <<shareVars, accountedAssets, strategyDebt, idle, managed, adminVars>>

Init ==
  /\ balanceOf = [a \in Accounts |-> 0]
  /\ lockedShares = 0
  /\ totalSupply = 0
  /\ accountedAssets = 0
  /\ strategyDebt = 0
  /\ idle = 0
  /\ managed = [s \in Strategies |-> 0]
  /\ strategy = NoStrategy
  /\ limits \in [deposit : DepositCaps, strategy : {0}, loss : {0}]
  /\ paused = [deposits |-> FALSE, allocations |-> FALSE]

AccountedIdle == accountedAssets - strategyDebt
Insolvent     == totalSupply # 0 /\ accountedAssets = 0

\* Mutant: what the strategy reports is not looked at.
IdleBacked == idle >= AccountedIdle

\* _requireFullyBacked
FullyBacked ==
  /\ idle >= AccountedIdle
  /\ strategyDebt # 0 => strategy # NoStrategy /\ managed[strategy] >= strategyDebt

-----------------------------------------------------------------------------
(* Depositors.                                                             *)

\* Shares for a deposit of n, before the locked ones.
SharesFor(n) ==
  IF totalSupply = 0 THEN n - MINIMUM_SHARES ELSE (n * totalSupply) \div accountedAssets

Deposit(a, n) ==
  /\ ~paused.deposits /\ ~Insolvent /\ FullyBacked
  /\ accountedAssets + n <= limits.deposit
  /\ totalSupply = 0 => n > MINIMUM_SHARES
  /\ SharesFor(n) # 0
  /\ idle + n <= MaxTokens
  /\ idle' = idle + n
  /\ accountedAssets' = accountedAssets + n
  /\ lockedShares' = IF totalSupply = 0 THEN lockedShares + MINIMUM_SHARES ELSE lockedShares
  /\ balanceOf' = [balanceOf EXCEPT ![a] = balanceOf[a] + SharesFor(n)]
  /\ totalSupply' = totalSupply + SharesFor(n)
                      + (IF totalSupply = 0 THEN MINIMUM_SHARES ELSE 0)
  /\ UNCHANGED <<strategyDebt, managed, adminVars>>

\* _withdraw: a gives s shares for n assets; the receiver is outside.
Exchange(a, n, s) ==
  /\ FullyBacked
  /\ n <= AccountedIdle /\ n <= idle
  /\ s <= balanceOf[a]
  /\ balanceOf' = [balanceOf EXCEPT ![a] = balanceOf[a] - s]
  /\ totalSupply' = totalSupply - s
  /\ accountedAssets' = accountedAssets - n
  /\ idle' = idle - n
  /\ UNCHANGED <<lockedShares, strategyDebt, managed, adminVars>>

\* Mutant: the shares for n assets, rounded down.
SharesDownFor(n) == (n * totalSupply) \div accountedAssets

\* The shares withdraw burns for n assets, rounded up.
SharesUpFor(n) == (n * totalSupply - 1) \div accountedAssets + 1

\* withdraw, while there is something to divide; else it reverts.
Withdraw(a, n) == totalSupply # 0 /\ accountedAssets # 0 /\ Exchange(a, n, SharesUpFor(n))

AssetsFor(s) == IF totalSupply = 0 THEN s ELSE (s * accountedAssets) \div totalSupply

Redeem(a, s) == AssetsFor(s) # 0 /\ Exchange(a, AssetsFor(s), s)

Transfer(a, b, s) ==
  /\ a # b
  /\ s <= balanceOf[a]
  /\ balanceOf' = [balanceOf EXCEPT ![a] = balanceOf[a] - s, ![b] = balanceOf[b] + s]
  /\ UNCHANGED <<lockedShares, totalSupply, accountedAssets, strategyDebt, idle, managed, adminVars>>

-----------------------------------------------------------------------------
(* The strategy.                                                           *)

\* allocateToStrategy reverts unless the strategy takes exactly n.
AllocateToStrategy(n) ==
  /\ ~paused.allocations /\ strategy # NoStrategy /\ FullyBacked
  /\ strategyDebt + n <= limits.strategy
  /\ n <= AccountedIdle /\ n <= idle
  /\ managed[strategy] + n <= MaxTokens
  /\ idle' = idle - n
  /\ managed' = [managed EXCEPT ![strategy] = managed[strategy] + n]
  /\ strategyDebt' = strategyDebt + n
  /\ UNCHANGED <<shareVars, accountedAssets, adminVars>>

Shutdown == paused.deposits /\ paused.allocations

ReconcileStrategyLoss(limit) ==
  LET loss == strategyDebt - managed[strategy]
  IN  /\ Shutdown /\ limit <= BPS /\ strategy # NoStrategy
      /\ managed[strategy] < strategyDebt
      /\ loss * BPS <= strategyDebt * limit
      /\ strategyDebt' = managed[strategy]
      /\ accountedAssets' = accountedAssets - loss
      /\ UNCHANGED <<shareVars, idle, managed, adminVars>>

LossAllowed(n, loss, limit) == loss * BPS <= n * limit

\* _recallFromStrategy: the strategy gives n up and pays all but the loss.
Recall(n, loss, limit) ==
  /\ strategy # NoStrategy
  /\ n <= strategyDebt /\ n <= managed[strategy]
  /\ loss <= n /\ LossAllowed(n, loss, limit)
  /\ idle + (n - loss) <= MaxTokens
  /\ managed' = [managed EXCEPT ![strategy] = managed[strategy] - n]
  /\ idle' = idle + (n - loss)
  /\ strategyDebt' = strategyDebt - n
  /\ accountedAssets' = accountedAssets - loss
  /\ UNCHANGED <<shareVars, adminVars>>

RecallFromStrategy(n, loss) == Recall(n, loss, limits.loss)

EmergencyRecallFromStrategy(n, loss, limit) ==
  Shutdown /\ limit <= BPS /\ Recall(n, loss, limit)

-----------------------------------------------------------------------------
(* Governance.                                                             *)

SetDepositCap(c) ==
  /\ c >= accountedAssets
  /\ limits' = [limits EXCEPT !.deposit = c]
  /\ UNCHANGED <<strategy, paused>>

SetStrategy(s) == strategyDebt = 0 /\ strategy' = s /\ UNCHANGED <<limits, paused>>

SetStrategyLimits(c, l) ==
  /\ c >= strategyDebt /\ l <= MAX_CONFIGURED_LOSS
  /\ limits' = [limits EXCEPT !.strategy = c, !.loss = l]
  /\ UNCHANGED <<strategy, paused>>

PauseDeposits    == paused' = [paused EXCEPT !.deposits = TRUE] /\ UNCHANGED <<strategy, limits>>
PauseAllocations == paused' = [paused EXCEPT !.allocations = TRUE] /\ UNCHANGED <<strategy, limits>>

ResumeAllocations ==
  /\ FullyBacked
  /\ paused' = [paused EXCEPT !.allocations = FALSE]
  /\ UNCHANGED <<strategy, limits>>

ResumeDeposits ==
  /\ ~Insolvent /\ FullyBacked
  /\ paused' = [paused EXCEPT !.deposits = FALSE]
  /\ UNCHANGED <<strategy, limits>>

Governance ==
  /\ \/ \E c \in DepositCaps : SetDepositCap(c)
     \/ \E s \in Strategies \cup {NoStrategy} : SetStrategy(s)
     \/ \E c \in StrategyCaps, l \in LossLimits : SetStrategyLimits(c, l)
     \/ PauseDeposits \/ PauseAllocations \/ ResumeAllocations \/ ResumeDeposits
  /\ UNCHANGED <<shareVars, accountedAssets, strategyDebt, idle, managed>>

-----------------------------------------------------------------------------
(* What happens outside: a strategy earns or loses, tokens are sent to the *)
(* vault, or a rebasing token takes from it.                               *)

Revalue(s, v) ==
  /\ managed' = [managed EXCEPT ![s] = v]
  /\ UNCHANGED <<shareVars, accountedAssets, strategyDebt, idle, adminVars>>

TokenMove ==
  /\ idle' \in {idle - 1, idle + 1} \cap 0 .. MaxTokens
  /\ UNCHANGED <<shareVars, accountedAssets, strategyDebt, managed, adminVars>>

DepositorStep ==
  \/ \E a \in Accounts, n \in Amounts : Deposit(a, n) \/ Withdraw(a, n) \/ Redeem(a, n)
  \/ \E a, b \in Accounts, n \in Amounts : Transfer(a, b, n)

StrategyStep ==
  \/ \E n \in Amounts : AllocateToStrategy(n)
  \/ \E n \in Amounts : \E loss \in 0 .. n : RecallFromStrategy(n, loss)
  \/ \E n \in Amounts, l \in LossLimits : \E loss \in 0 .. n : EmergencyRecallFromStrategy(n, loss, l)
  \/ \E l \in LossLimits : ReconcileStrategyLoss(l)

Next ==
  \/ DepositorStep
  \/ StrategyStep
  \/ Governance
  \/ \E s \in Strategies, v \in 0 .. MaxTokens : Revalue(s, v)
  \/ TokenMove

Spec == Init /\ [][Next]_vars

-----------------------------------------------------------------------------
(* Properties.                                                             *)

TypeOK ==
  /\ balanceOf \in [Accounts -> Nat]
  /\ lockedShares \in Nat
  /\ totalSupply \in Nat
  /\ accountedAssets \in Nat
  /\ strategyDebt \in Nat
  /\ idle \in Nat
  /\ managed \in [Strategies -> Nat]
  /\ strategy \in Strategies \cup {NoStrategy}
  /\ limits \in [deposit : Nat, strategy : Nat, loss : 0 .. MAX_CONFIGURED_LOSS]
  /\ paused \in [deposits : BOOLEAN, allocations : BOOLEAN]

(***************************************************************************)
(* The supply is what the accounts hold and the minimum that is locked     *)
(* with the first deposit for ever; so the supply never returns to zero,   *)
(* and nobody deposits as the first a second time.                         *)
(***************************************************************************)
SupplyMatchesShares ==
  /\ totalSupply = TotalOf(balanceOf) + lockedShares
  /\ lockedShares = IF totalSupply = 0 THEN 0 ELSE MINIMUM_SHARES

(***************************************************************************)
(* Exposure: the strategy never holds more of the depositors' assets than  *)
(* governance's cap, nor more than there are; and what it owes the vault   *)
(* has a strategy that owes it.                                            *)
(***************************************************************************)
ExposureBounded ==
  /\ strategyDebt <= limits.strategy
  /\ strategyDebt <= accountedAssets
  /\ accountedAssets <= limits.deposit
  /\ strategyDebt # 0 => strategy # NoStrategy

\* The step recognizes a loss of the strategy: assets go, shares stay.
LossRecognized == accountedAssets' < accountedAssets /\ totalSupply' = totalSupply

PricedFairly ==
  \/ accountedAssets' * totalSupply >= accountedAssets * totalSupply'
  \/ /\ LossRecognized /\ UNCHANGED balanceOf
     /\ LET loss == accountedAssets - accountedAssets'
            gone == strategyDebt - strategyDebt'
        IN  loss <= gone /\ (Shutdown \/ loss * BPS <= gone * limits.loss)

(***************************************************************************)
(* The price of a share falls only by a recognized loss of the strategy,   *)
(* which all shares bear, within the configured limit or under a full      *)
(* shutdown: no sequence of deposits, withdrawals and redemptions takes    *)
(* assets of other holders by rounding.                                    *)
(***************************************************************************)
PriceFallsByLossOnly == [][PricedFairly]_vars

ActualAssets == idle + (IF strategyDebt = 0 THEN 0 ELSE managed[strategy])

NotUnderwater == totalSupply' # totalSupply => accountedAssets <= ActualAssets

(***************************************************************************)
(* Shares are bought and sold only while the assets behind them exist, so  *)
(* a loss that is reported and not yet recognized, or a token that shrank, *)
(* is neither escaped by the first to leave nor passed to a newcomer.      *)
(***************************************************************************)
NoTradeUnderwater == [][NotUnderwater]_vars
=============================================================================
