----------------------------- MODULE LendingCore -----------------------------
(***************************************************************************)
(* LQCLendingCore together with the contracts it calls in the same         *)
(* transaction: LQCLendingInterestIndex, LQCInterestRateModel,             *)
(* LQCLendingMarketRegistry, LQCOracleManager and LQCLiquidationEngine.    *)
(* A transaction is atomic, so every external function is one action: its  *)
(* reverts are the guards, and the accrual that each of them starts with   *)
(* is part of the action.  The checked subtractions of Solidity 0.8 are    *)
(* guards too.                                                             *)
(***************************************************************************)
EXTENDS LendingRules, AccountSums

CONSTANTS
  Markets,          \* market ids
  Accounts,         \* suppliers, borrowers and liquidators
  Assets,           \* ERC-20 tokens, with exact transfers
  CollateralAsset,  \* [Markets -> Assets]
  DebtAsset,        \* [Markets -> Assets]
  Unit,             \* [Assets -> Nat], 10^decimals
  MarketConfigs,    \* the records governance may configure a market with
  RateConfigs,      \* the records governance may configure a rate model with
  Feeds,            \* [Assets -> set of feed records]
  Amounts,          \* the amounts callers pass
  MaxUint128,       \* the largest total the packed market state can hold
  MaxIndex,         \* the largest index (type(uint128).max, index-scaled)
  MaxTime           \* bound on the clock

ASSUME InstanceAssumption ==
  /\ IsFiniteSet(Accounts)
  /\ CollateralAsset \in [Markets -> Assets]
  /\ DebtAsset \in [Markets -> Assets]
  /\ \A m \in Markets : CollateralAsset[m] # DebtAsset[m]
  /\ Unit \in [Assets -> Nat \ {0}]
  /\ Amounts \subseteq Nat \ {0}
  /\ MaxUint128 \in Nat /\ MaxIndex \in Nat /\ MaxTime \in Nat
  /\ MaxIndex >= RAY

\* What configureMarket, configureRate and the oracle accept.
ConfigType ==
  [ltv : 1 .. 5000, threshold : 1 .. 8500, bonus : 0 .. 500,
   supplyCap : Nat \ {0}, borrowCap : Nat \ {0}, minBorrow : Nat \ {0},
   enabled : BOOLEAN]

RateType ==
  [base : Nat, slope1 : Nat, slope2 : Nat, optimal : 5000 .. 9500,
   reserveFactor : 0 .. 3000, enabled : BOOLEAN]

FeedType == [primary : Nat \ {0}, secondary : Nat \ {0}, usable : BOOLEAN]

ASSUME ConfigAssumption ==
  /\ MarketConfigs \subseteq ConfigType
  /\ RateConfigs \subseteq RateType
  /\ \A s \in Assets : Feeds[s] \subseteq FeedType

ASSUME MarketLimitAssumption ==
  \A c \in MarketConfigs : c.ltv < c.threshold /\ c.minBorrow <= c.borrowCap

ASSUME RateLimitAssumption ==
  \A r \in RateConfigs : r.base + r.slope1 + r.slope2 \in 1 .. 20000

VARIABLES
  balance,            \* tokens the core holds, per asset
  market,             \* marketStates and the other per-market totals
  index,              \* LQCLendingInterestIndex.indexStates
  collateralOf,       \* per market and account ...
  liquiditySharesOf,
  debtSharesOf,
  badDebtSharesOf,
  config,             \* LQCLendingMarketRegistry.markets
  rate,               \* LQCInterestRateModel.rateConfigs
  feed,               \* what the two price feeds of an asset answer
  now                 \* block.timestamp

accountVars == <<collateralOf, liquiditySharesOf, debtSharesOf, badDebtSharesOf>>
riskVars    == <<config, rate, feed, now>>
vars        == <<balance, market, index, accountVars, riskVars>>

NoShares == [a \in Accounts |-> 0]

Init ==
  /\ balance = [s \in Assets |-> 0]
  /\ market = [m \in Markets |->
                 [totalCollateral |-> 0, totalSupplyShares |-> 0,
                  totalDebtShares |-> 0, totalBadDebtShares |-> 0,
                  accruedReserves |-> 0, realizedLosses |-> 0]]
  /\ index = [m \in Markets |-> [borrow |-> RAY, supply |-> RAY, lastAccrued |-> 0]]
  /\ collateralOf = [m \in Markets |-> NoShares]
  /\ liquiditySharesOf = [m \in Markets |-> NoShares]
  /\ debtSharesOf = [m \in Markets |-> NoShares]
  /\ badDebtSharesOf = [m \in Markets |-> NoShares]
  /\ config \in [Markets -> MarketConfigs]
  /\ rate \in [Markets -> RateConfigs]
  /\ feed \in [Assets -> UNION {Feeds[s] : s \in Assets}]
  /\ \A s \in Assets : feed[s] \in Feeds[s]
  /\ now = 0

-----------------------------------------------------------------------------
(* Accrual.                                                                *)

TotalDebt(m, ix)   == ValueOf(market[m].totalDebtShares, ix.borrow)
TotalSupply(m, ix) == ValueOf(market[m].totalSupplyShares, ix.supply)

\* The indexes of m once interest up to now is charged.  Within one block a
\* second accrual returns before it asks for the rates.
AccruedIndex(m) ==
  LET ix      == index[m]
      debt    == TotalDebt(m, ix)
      supply  == TotalSupply(m, ix)
      elapsed == now - ix.lastAccrued
  IN  IF elapsed = 0 THEN ix ELSE
        [borrow |-> ix.borrow
           + (ix.borrow * BorrowRate(rate[m], debt, supply) * elapsed) \div RAY,
         supply |-> ix.supply
           + (ix.supply * SupplyRate(rate[m], debt, supply) * elapsed) \div RAY,
         lastAccrued |-> now]

RatesDefinedAt(m, ix) == RatesDefined(rate[m], TotalDebt(m, ix), TotalSupply(m, ix))

CanAccrue(m) ==
  LET ix == AccruedIndex(m)
  IN  \/ index[m].lastAccrued = now
      \/ RatesDefinedAt(m, index[m]) /\ ix.borrow <= MaxIndex /\ ix.supply <= MaxIndex

\* The spread between the interest borrowers owe and suppliers earn.
ReserveInterest(m) ==
  LET ix        == AccruedIndex(m)
      borrowers == TotalDebt(m, ix) - TotalDebt(m, index[m])
      suppliers == TotalSupply(m, ix) - TotalSupply(m, index[m])
  IN  Greater(borrowers - suppliers, 0)

\* The totals of m after the accrual.
Accrued(m) == [market[m] EXCEPT !.accruedReserves = @ + ReserveInterest(m)]

\* The call of _accrue that opens every handler: the actions add their own
\* changes to Accrued(m).
Accrue(m) == CanAccrue(m) /\ index' = [index EXCEPT ![m] = AccruedIndex(m)]

\* debtOf and liquidityOf ask for the rates again, even in the block of the
\* accrual, and revert when the accrued totals have none.
CanPreview(m) == RatesDefinedAt(m, AccruedIndex(m))

DebtNow(m, a) == ValueOf(debtSharesOf[m][a], AccruedIndex(m).borrow)

-----------------------------------------------------------------------------
(* Account risk at the oracle's conservative prices.                       *)

CanPrice(m) == PricesDefined(feed[CollateralAsset[m]]) /\ PricesDefined(feed[DebtAsset[m]])

CollValue(m, collateral) ==
  CollateralValue(collateral, feed[CollateralAsset[m]], Unit[CollateralAsset[m]])
OwedValue(m, debt) == DebtValue(debt, feed[DebtAsset[m]], Unit[DebtAsset[m]])

MayBorrow(m, collateral, debt) ==
  CanPrice(m) /\ BorrowAllowed(CollValue(m, collateral), OwedValue(m, debt), config[m].ltv)

MayLiquidate(m, collateral, debt) ==
  /\ CanPrice(m)
  /\ Liquidatable(CollValue(m, collateral), OwedValue(m, debt), config[m].threshold)

-----------------------------------------------------------------------------
(* Collateral and liquidity.                                               *)

DepositCollateral(m, a, amount) ==
  /\ Accrue(m)
  /\ config[m].enabled
  /\ market[m].totalCollateral + amount <= MaxUint128
  /\ market' = [market EXCEPT ![m] = [Accrued(m) EXCEPT !.totalCollateral = @ + amount]]
  /\ collateralOf' = [collateralOf EXCEPT ![m][a] = @ + amount]
  /\ balance' = [balance EXCEPT ![CollateralAsset[m]] = @ + amount]
  /\ UNCHANGED <<liquiditySharesOf, debtSharesOf, badDebtSharesOf, riskVars>>

WithdrawCollateral(m, a, amount) ==
  /\ Accrue(m)
  /\ amount <= collateralOf[m][a]
  /\ CanPreview(m)
  /\ DebtNow(m, a) # 0 => MayBorrow(m, collateralOf[m][a] - amount, DebtNow(m, a))
  /\ amount <= market[m].totalCollateral
  /\ amount <= balance[CollateralAsset[m]]
  /\ market' = [market EXCEPT ![m] = [Accrued(m) EXCEPT !.totalCollateral = @ - amount]]
  /\ collateralOf' = [collateralOf EXCEPT ![m][a] = @ - amount]
  /\ balance' = [balance EXCEPT ![CollateralAsset[m]] = @ - amount]
  /\ UNCHANGED <<liquiditySharesOf, debtSharesOf, badDebtSharesOf, riskVars>>

SupplyLiquidity(m, a, amount) ==
  LET shares == SharesDown(amount, AccruedIndex(m).supply)
  IN  /\ Accrue(m)
      /\ config[m].enabled
      /\ TotalSupply(m, AccruedIndex(m)) + amount <= config[m].supplyCap
      /\ shares # 0
      /\ market[m].totalSupplyShares + shares <= MaxUint128
      /\ market' = [market EXCEPT ![m] = [Accrued(m) EXCEPT !.totalSupplyShares = @ + shares]]
      /\ liquiditySharesOf' = [liquiditySharesOf EXCEPT ![m][a] = @ + shares]
      /\ balance' = [balance EXCEPT ![DebtAsset[m]] = @ + amount]
      /\ UNCHANGED <<collateralOf, debtSharesOf, badDebtSharesOf, riskVars>>

WithdrawLiquidity(m, a, amount) ==
  LET ix     == AccruedIndex(m)
      held   == liquiditySharesOf[m][a]
      claim  == ValueOf(held, ix.supply)
      shares == IF amount = claim THEN held ELSE SharesUp(amount, ix.supply)
  IN  /\ Accrue(m)
      /\ CanPreview(m)
      /\ amount <= claim
      /\ amount <= balance[DebtAsset[m]]
      /\ shares <= held /\ shares <= market[m].totalSupplyShares
      /\ market' = [market EXCEPT ![m] = [Accrued(m) EXCEPT !.totalSupplyShares = @ - shares]]
      /\ liquiditySharesOf' = [liquiditySharesOf EXCEPT ![m][a] = @ - shares]
      /\ balance' = [balance EXCEPT ![DebtAsset[m]] = @ - amount]
      /\ UNCHANGED <<collateralOf, debtSharesOf, badDebtSharesOf, riskVars>>

-----------------------------------------------------------------------------
(* Debt.                                                                   *)

\* The smallest debt rule; zero debt is always allowed.
MayOwe(m, debt) == debt # 0 => debt >= config[m].minBorrow

Borrow(m, a, amount) ==
  LET ix        == AccruedIndex(m)
      shares    == SharesUp(amount, ix.borrow)
      debtAfter == ValueOf(debtSharesOf[m][a] + shares, ix.borrow)
  IN  /\ Accrue(m)
      /\ badDebtSharesOf[m][a] = 0
      /\ amount <= balance[DebtAsset[m]]
      /\ config[m].enabled
      /\ ValueOf(market[m].totalDebtShares + shares, ix.borrow) <= config[m].borrowCap
      /\ MayOwe(m, debtAfter)
      /\ MayBorrow(m, collateralOf[m][a], debtAfter)
      /\ market[m].totalDebtShares + shares <= MaxUint128
      /\ market' = [market EXCEPT ![m] = [Accrued(m) EXCEPT !.totalDebtShares = @ + shares]]
      /\ debtSharesOf' = [debtSharesOf EXCEPT ![m][a] = @ + shares]
      /\ balance' = [balance EXCEPT ![DebtAsset[m]] = @ - amount]
      /\ UNCHANGED <<collateralOf, liquiditySharesOf, badDebtSharesOf, riskVars>>

\* Anyone may repay the debt of a; an offer above the debt repays all of it.
Repay(m, a, amount) ==
  LET ix      == AccruedIndex(m)
      held    == debtSharesOf[m][a]
      debt    == ValueOf(held, ix.borrow)
      shares  == IF amount >= debt THEN held ELSE SharesDown(amount, ix.borrow)
      cleared == Lesser(shares, badDebtSharesOf[m][a])
  IN  /\ Accrue(m)
      /\ debt # 0 /\ shares # 0
      /\ shares <= held /\ shares <= market[m].totalDebtShares
      /\ MayOwe(m, ValueOf(held - shares, ix.borrow))
      /\ cleared <= market[m].totalBadDebtShares
      /\ market' = [market EXCEPT ![m] =
                      [Accrued(m) EXCEPT !.totalDebtShares = @ - shares,
                                         !.totalBadDebtShares = @ - cleared]]
      /\ debtSharesOf' = [debtSharesOf EXCEPT ![m][a] = @ - shares]
      /\ badDebtSharesOf' = [badDebtSharesOf EXCEPT ![m][a] = @ - cleared]
      /\ balance' = [balance EXCEPT ![DebtAsset[m]] = @ + ValueOf(shares, ix.borrow)]
      /\ UNCHANGED <<collateralOf, liquiditySharesOf, riskVars>>

-----------------------------------------------------------------------------
(* Liquidation.  The offer is cut to half of the debt; the seizure it      *)
(* earns, bonus included, is cut to the collateral there is, and then the  *)
(* repayment is cut to what that collateral pays for.                      *)

SeizedFor(m, repaid) ==
  LET value == (((repaid * HighPrice(feed[DebtAsset[m]])) \div Unit[DebtAsset[m]])
                  * (BPS + config[m].bonus)) \div BPS
  IN  CeilDiv(value * Unit[CollateralAsset[m]], LowPrice(feed[CollateralAsset[m]]))

RepaidFor(m, seized) ==
  LET value == (CollValue(m, seized) * BPS) \div (BPS + config[m].bonus)
  IN  (value * Unit[DebtAsset[m]]) \div HighPrice(feed[DebtAsset[m]])

\* Mutant: the debt amount is recorded where its shares are meant.
BadAmountAfter(collateral, debt, shares, bad) ==
  IF collateral = 0 /\ debt # 0 THEN debt ELSE bad

\* What is left of the debt is bad once the collateral is gone.
BadSharesAfter(collateral, debt, shares, bad) ==
  IF collateral = 0 /\ debt # 0 THEN shares ELSE bad

\* (If less is bad than before, the checked subtraction of the two reverts.)
Liquidate(m, a, requested) ==
  LET ix         == AccruedIndex(m)
      held       == debtSharesOf[m][a]
      debt       == ValueOf(held, ix.borrow)
      collateral == collateralOf[m][a]
      offer      == Lesser(requested, (debt + 1) \div 2)
      seized     == Lesser(SeizedFor(m, offer), collateral)
      repaid     == IF SeizedFor(m, offer) > collateral THEN RepaidFor(m, collateral) ELSE offer
      shares     == IF repaid >= debt THEN held ELSE SharesDown(repaid, ix.borrow)
      bad        == badDebtSharesOf[m][a]
      badAfter   == BadSharesAfter(collateral - seized, ValueOf(held - shares, ix.borrow),
                                   held - shares, bad)
  IN  /\ Accrue(m)
      /\ CanPreview(m)
      /\ MayLiquidate(m, collateral, debt)
      /\ shares # 0 /\ seized # 0
      /\ shares <= held /\ shares <= market[m].totalDebtShares
      /\ seized <= market[m].totalCollateral /\ seized <= balance[CollateralAsset[m]]
      /\ badAfter >= bad
      /\ market' = [market EXCEPT ![m] =
                      [Accrued(m) EXCEPT !.totalDebtShares = @ - shares,
                                         !.totalCollateral = @ - seized,
                                         !.totalBadDebtShares = @ + (badAfter - bad)]]
      /\ debtSharesOf' = [debtSharesOf EXCEPT ![m][a] = held - shares]
      /\ collateralOf' = [collateralOf EXCEPT ![m][a] = collateral - seized]
      /\ badDebtSharesOf' = [badDebtSharesOf EXCEPT ![m][a] = badAfter]
      /\ balance' = [balance EXCEPT ![DebtAsset[m]] = @ + ValueOf(shares, ix.borrow),
                                    ![CollateralAsset[m]] = @ - seized]
      /\ UNCHANGED <<liquiditySharesOf, riskVars>>

-----------------------------------------------------------------------------
(* Reserves and the recovery of bad debt.                                  *)

AccrueInterest(m) ==
  /\ Accrue(m)
  /\ market' = [market EXCEPT ![m] = Accrued(m)]
  /\ UNCHANGED <<balance, accountVars, riskVars>>

WithdrawReserves(m, amount) ==
  /\ Accrue(m)
  /\ market[m].totalBadDebtShares = 0
  /\ amount <= Accrued(m).accruedReserves
  /\ amount <= balance[DebtAsset[m]]
  /\ market' = [market EXCEPT ![m] = [Accrued(m) EXCEPT !.accruedReserves = @ - amount]]
  /\ balance' = [balance EXCEPT ![DebtAsset[m]] = @ - amount]
  /\ UNCHANGED <<accountVars, riskVars>>

\* Mutant: all of the bad debt is cancelled, whatever was paid.
BurnEverything(bad, maxAmount, borrowIndex) == bad

\* The bad-debt shares that maxAmount tokens pay for.
BurnableShares(bad, maxAmount, borrowIndex) ==
  IF maxAmount >= ValueOf(bad, borrowIndex) THEN bad ELSE SharesDown(maxAmount, borrowIndex)

\* _burnBadDebt: cancel shares of the bad debt of a, on top of the change of
\* the reserves and of the losses that pays for it.
BurnBadDebt(m, a, shares, reserves, losses) ==
  /\ shares <= badDebtSharesOf[m][a] /\ shares <= market[m].totalBadDebtShares
  /\ shares <= debtSharesOf[m][a] /\ shares <= market[m].totalDebtShares
  /\ market' = [market EXCEPT ![m] =
                  [market[m] EXCEPT !.totalDebtShares = @ - shares,
                                    !.totalBadDebtShares = @ - shares,
                                    !.accruedReserves = reserves,
                                    !.realizedLosses = losses]]
  /\ debtSharesOf' = [debtSharesOf EXCEPT ![m][a] = @ - shares]
  /\ badDebtSharesOf' = [badDebtSharesOf EXCEPT ![m][a] = @ - shares]
  /\ UNCHANGED <<collateralOf, liquiditySharesOf, riskVars>>

CoverBadDebtWithReserves(m, a, maxAmount) ==
  LET ix        == AccruedIndex(m)
      available == Accrued(m).accruedReserves
      shares    == BurnableShares(badDebtSharesOf[m][a], Lesser(maxAmount, available), ix.borrow)
      covered   == ValueOf(shares, ix.borrow)
  IN  /\ Accrue(m)
      /\ available # 0 /\ badDebtSharesOf[m][a] # 0 /\ shares # 0
      /\ covered <= available
      /\ BurnBadDebt(m, a, shares, available - covered, market[m].realizedLosses)
      /\ UNCHANGED balance

RecapitalizeBadDebt(m, a, maxAmount) ==
  LET ix     == AccruedIndex(m)
      shares == BurnableShares(badDebtSharesOf[m][a], maxAmount, ix.borrow)
  IN  /\ Accrue(m)
      /\ badDebtSharesOf[m][a] # 0 /\ shares # 0
      /\ BurnBadDebt(m, a, shares, Accrued(m).accruedReserves, market[m].realizedLosses)
      /\ balance' = [balance EXCEPT ![DebtAsset[m]] = @ + ValueOf(shares, ix.borrow)]

\* Mutant: suppliers may lose everything.
LossUnlimited(m, supply) == supply

\* What may still be taken from suppliers: a fifth of all they ever had.
LossLimit(m, supply) ==
  ((supply + market[m].realizedLosses) * 2000) \div BPS - market[m].realizedLosses

\* Reserves pay first; what they leave is taken from the supply index.
RealizeBadDebtLoss(m, a, maxAmount) ==
  LET ix        == AccruedIndex(m)
      bad       == badDebtSharesOf[m][a]
      available == Accrued(m).accruedReserves
      first     == IF available = 0 THEN 0 ELSE BurnableShares(bad, available, ix.borrow)
      covered   == ValueOf(first, ix.borrow)
      supply    == TotalSupply(m, ix)
      requested == Lesser(maxAmount, ValueOf(bad - first, ix.borrow))
      newIndex  == (ix.supply * (supply - requested)) \div supply
      loss      == supply - ValueOf(market[m].totalSupplyShares, newIndex)
      second    == BurnableShares(bad - first, loss, ix.borrow)
  IN  /\ CanAccrue(m)
      /\ ~config[m].enabled
      /\ bad # 0
      /\ available # 0 => first # 0
      /\ covered <= available
      /\ \/ /\ first = bad
            /\ BurnBadDebt(m, a, first, available - covered, market[m].realizedLosses)
            /\ index' = [index EXCEPT ![m] = ix]
         \/ /\ first < bad
            /\ requested # 0 /\ requested < supply
            /\ requested <= LossLimit(m, supply)
            /\ newIndex # 0
            /\ second # 0
            /\ BurnBadDebt(m, a, first + second, available - covered,
                           market[m].realizedLosses + loss)
            /\ index' = [index EXCEPT ![m] = [ix EXCEPT !.supply = newIndex]]
      /\ UNCHANGED balance

-----------------------------------------------------------------------------
(* Governance, guardian, price feeds and time.                             *)

ConfigureMarket(m, c) ==
  /\ config' = [config EXCEPT ![m] = c]
  /\ UNCHANGED <<balance, market, index, accountVars, rate, feed, now>>

SetMarketEnabled(m, on) ==
  /\ config' = [config EXCEPT ![m].enabled = on]
  /\ UNCHANGED <<balance, market, index, accountVars, rate, feed, now>>

ConfigureRate(m, r) ==
  /\ rate' = [rate EXCEPT ![m] = r]
  /\ UNCHANGED <<balance, market, index, accountVars, config, feed, now>>

SetRateEnabled(m, on) ==
  /\ rate' = [rate EXCEPT ![m].enabled = on]
  /\ UNCHANGED <<balance, market, index, accountVars, config, feed, now>>

PublishPrices(s, f) ==
  /\ feed' = [feed EXCEPT ![s] = f]
  /\ UNCHANGED <<balance, market, index, accountVars, config, rate, now>>

AdvanceTime ==
  /\ now < MaxTime
  /\ now' = now + 1
  /\ UNCHANGED <<balance, market, index, accountVars, config, rate, feed>>

-----------------------------------------------------------------------------
AccountStep ==
  \E m \in Markets, a \in Accounts, amount \in Amounts :
    \/ DepositCollateral(m, a, amount)
    \/ WithdrawCollateral(m, a, amount)
    \/ SupplyLiquidity(m, a, amount)
    \/ WithdrawLiquidity(m, a, amount)
    \/ Borrow(m, a, amount)
    \/ Repay(m, a, amount)
    \/ Liquidate(m, a, amount)
    \/ CoverBadDebtWithReserves(m, a, amount)
    \/ RecapitalizeBadDebt(m, a, amount)
    \/ RealizeBadDebtLoss(m, a, amount)

MarketStep ==
  \E m \in Markets :
    \/ AccrueInterest(m)
    \/ \E amount \in Amounts : WithdrawReserves(m, amount)
    \/ \E c \in MarketConfigs : ConfigureMarket(m, c)
    \/ \E on \in BOOLEAN : SetMarketEnabled(m, on)
    \/ \E r \in RateConfigs : ConfigureRate(m, r)
    \/ \E on \in BOOLEAN : SetRateEnabled(m, on)

Next ==
  \/ AccountStep
  \/ MarketStep
  \/ \E s \in Assets : \E f \in Feeds[s] : PublishPrices(s, f)
  \/ AdvanceTime

Spec == Init /\ [][Next]_vars

-----------------------------------------------------------------------------
(* Properties.                                                             *)

MarketType ==
  [totalCollateral : 0 .. MaxUint128, totalSupplyShares : 0 .. MaxUint128,
   totalDebtShares : 0 .. MaxUint128, totalBadDebtShares : Nat,
   accruedReserves : Nat, realizedLosses : Nat]

IndexType == [borrow : Nat \ {0}, supply : Nat \ {0}, lastAccrued : Nat]

PerAccount == [Markets -> [Accounts -> Nat]]

(* Amounts and shares are naturals, totals fit uint128, indexes are never  *)
(* zero: no handler commits a subtraction or a quotient outside its type.  *)
TypeOK ==
  /\ balance \in [Assets -> Nat]
  /\ market \in [Markets -> MarketType]
  /\ index \in [Markets -> IndexType]
  /\ collateralOf \in PerAccount
  /\ liquiditySharesOf \in PerAccount
  /\ debtSharesOf \in PerAccount
  /\ badDebtSharesOf \in PerAccount
  /\ config \in [Markets -> ConfigType]
  /\ rate \in [Markets -> RateType]
  /\ feed \in [Assets -> FeedType]
  /\ now \in Nat

(* The packed totals of a market are the sums of the per-account mappings  *)
(* that every handler updates beside them.  A handler that misses one of   *)
(* the two updates gives some account a claim no total covers.             *)
TotalsMatchAccounts ==
  \A m \in Markets :
    /\ market[m].totalCollateral = TotalOf(collateralOf[m])
    /\ market[m].totalSupplyShares = TotalOf(liquiditySharesOf[m])
    /\ market[m].totalDebtShares = TotalOf(debtSharesOf[m])
    /\ market[m].totalBadDebtShares = TotalOf(badDebtSharesOf[m])

(* No handler can be used to take value out of the pool: what the market   *)
(* owes (supplier claims and reserves) less what it owns (cash and the     *)
(* debt of borrowers) grows in no step by more than its roundings: what an *)
(* accrual may credit to suppliers above what it charges to borrowers, and *)
(* a unit for each amount of debt that was burnt for its rounded worth.    *)
(* Supplying, withdrawing and borrowing leave nothing to round against the *)
(* pool.  Interest, partial repayment, liquidation and the three bad-debt  *)
(* paths all have to keep their two sides in step.  It is about markets    *)
(* whose debt asset no other market uses.                                  *)
Shortfall(m) ==
  TotalSupply(m, index[m]) + market[m].accruedReserves
    - balance[DebtAsset[m]] - TotalDebt(m, index[m])

OwnDebtAsset(m) ==
  \A n \in Markets : /\ CollateralAsset[n] # DebtAsset[m]
                     /\ n # m => DebtAsset[n] # DebtAsset[m]

\* Two units, unless the interest of the time or the shares exceed RAY.
AccrualDust(m) ==
  LET ix      == index[m]
      elapsed == now - ix.lastAccrued
      charged == BorrowRate(rate[m], TotalDebt(m, ix), TotalSupply(m, ix)) * elapsed
  IN  IF index'[m].lastAccrued = ix.lastAccrued THEN 0
      ELSE 1 + CeilDiv(charged + market[m].totalDebtShares, RAY)

\* A realized loss burns twice: for the reserves, and for the suppliers' loss.
BurnDust(m) ==
  IF market'[m].realizedLosses # market[m].realizedLosses THEN 2
  ELSE IF market'[m].totalDebtShares < market[m].totalDebtShares THEN 1 ELSE 0

KeepsValue(m) == Shortfall(m)' <= Shortfall(m) + AccrualDust(m) + BurnDust(m)

PoolNeverLeaks == [][\A m \in Markets : OwnDebtAsset(m) => KeepsValue(m)]_vars

(* Collateral is there to be returned: the core holds at least the         *)
(* collateral recorded for an asset, so neither a borrow nor a withdrawal  *)
(* of liquidity has spent it.                                              *)
IsolatedAssets ==
  \A m, n \in Markets :
    /\ CollateralAsset[m] # DebtAsset[n]
    /\ m # n => CollateralAsset[m] # CollateralAsset[n]

CollateralInCustody ==
  \A m \in Markets : balance[CollateralAsset[m]] >= market[m].totalCollateral

(* No transaction pushes a sound account over the liquidation threshold:   *)
(* only time (interest), a price or governance does.  Borrowing and        *)
(* withdrawing collateral stop at the maximum LTV, partial liquidation     *)
(* only touches accounts already past the threshold, and nobody else's     *)
(* transaction changes an account's debt for the worse.                    *)
MarketRulesFixed == UNCHANGED riskVars
Exposed(m, a) == MayLiquidate(m, collateralOf[m][a], DebtNow(m, a))

NoStepEndangersAccount ==
  [][MarketRulesFixed =>
       \A m \in Markets, a \in Accounts : Exposed(m, a)' => Exposed(m, a)]_vars

(* An account whose collateral is gone and that still owes carries its     *)
(* whole debt as recorded bad debt ("Residual debt after collateral        *)
(* exhaustion is recorded as bad debt"), so borrowing stays closed to it   *)
(* and the reserves stay locked until it is recovered.                     *)
ResidualDebtRecorded ==
  \A m \in Markets, a \in Accounts :
    (collateralOf[m][a] = 0 /\ DebtNow(m, a) # 0)
      => badDebtSharesOf[m][a] = debtSharesOf[m][a]

(* The smallest unit of every debt asset is worth something at the oracle's *)
(* 18-decimal price: an asset of 18 decimals has to be worth one dollar.   *)
(* Below that a debt of one unit has no value, and its collateral may go.  *)
DebtIsPriced ==
  \A m \in Markets : \A f \in Feeds[DebtAsset[m]] : Unit[DebtAsset[m]] <= HighPrice(f)

(* Suppliers lose last.  The supply index falls only in a disabled market, *)
(* only while bad debt is recorded, and only after the reserves are spent  *)
(* down to what one debt share is worth, rounded up; all losses together   *)
(* stay within a fifth of the supply they were taken from, up to the       *)
(* amount by which one unit of the supply index moves it.                  *)
LossWithinLimits(m) ==
  /\ ~config[m].enabled
  /\ market[m].totalBadDebtShares > market'[m].totalBadDebtShares
  /\ CeilDiv(index'[m].borrow, RAY) >= market'[m].accruedReserves
  /\ market'[m].realizedLosses * BPS
       <= (TotalSupply(m, AccruedIndex(m)) + market[m].realizedLosses) * 2000
            + BPS * CeilDiv(market[m].totalSupplyShares, RAY)

SuppliersLoseLast ==
  [][\A m \in Markets : index'[m].supply < index[m].supply => LossWithinLimits(m)]_vars

(* A bad debtor takes no new debt, and the record of its bad debt only     *)
(* shrinks together with the debt itself: by repayment, reserves,          *)
(* recapitalization or a realized loss.                                    *)
OnlyRecovered ==
  \A m \in Markets, a \in Accounts :
    badDebtSharesOf[m][a] # 0 =>
      /\ debtSharesOf'[m][a] <= debtSharesOf[m][a]
      /\ badDebtSharesOf[m][a] - badDebtSharesOf'[m][a]
           <= debtSharesOf[m][a] - debtSharesOf'[m][a]

BadDebtOnlyRecovered == [][OnlyRecovered]_vars

(* Recorded bad debt is part of the debt of the account, so that repaying  *)
(* the account's debt clears it.                                           *)
RecordedBadDebtIsOwed ==
  \A m \in Markets, a \in Accounts : badDebtSharesOf[m][a] <= debtSharesOf[m][a]

(* Debt reduction remains available in an emergency market pause: while    *)
(* the rate model is enabled, some repayment of the debt of an account     *)
(* goes through.                                                           *)
PausedDebtIsRepayable ==
  \A m \in Markets, a \in Accounts :
    (~config[m].enabled /\ rate[m].enabled /\ debtSharesOf[m][a] # 0)
      => \E amount \in Amounts : ENABLED Repay(m, a, amount)
=============================================================================
