---------------------------- MODULE LendingRules ----------------------------
(***************************************************************************)
(* The pure rules the lending contracts share: fixed-point division, the   *)
(* interest rates of LQCInterestRateModel, the conservative prices of      *)
(* LQCOracleManager and the account risk of LQCLendingMarketRegistry.      *)
(* A rule that reverts is paired with the predicate under which it does    *)
(* not.  Prices and amounts are integers, as in the contracts; RAY and the *)
(* number of seconds per year are constants, so that small values of both  *)
(* keep TLC's integers small.                                              *)
(***************************************************************************)
EXTENDS Integers

CONSTANTS
  RAY,              \* the fixed-point one of indexes and rates (1e27)
  SecondsPerYear,   \* converts a yearly rate into the rate of one time unit
  MaxDeviationBps   \* how far the two feeds of an asset may be apart

ASSUME ScaleAssumption ==
  /\ RAY \in Nat /\ RAY > 1
  /\ SecondsPerYear \in Nat \ {0}
  /\ MaxDeviationBps \in Nat

BPS == 10000

Lesser(a, b)  == IF a < b THEN a ELSE b
Greater(a, b) == IF a > b THEN a ELSE b

\* Solidity's a / b rounded up; 0 for a = 0.
CeilDiv(a, b) == IF a = 0 THEN 0 ELSE (a - 1) \div b + 1

(* What shares are worth at an index, and the index-scaled amounts. *)
ValueOf(shares, index)   == (shares * index) \div RAY
SharesDown(amount, index) == (amount * RAY) \div index
SharesUp(amount, index)   == CeilDiv(amount * RAY, index)

-----------------------------------------------------------------------------
(* Interest rates.  rate is a record [base, slope1, slope2, optimal,       *)
(* reserveFactor, enabled], all in basis points.                           *)

RatesDefined(rate, totalBorrow, totalLiquidity) ==
  rate.enabled /\ totalBorrow <= totalLiquidity

Utilization(totalBorrow, totalLiquidity) ==
  IF totalLiquidity = 0 THEN 0 ELSE (totalBorrow * RAY) \div totalLiquidity

BorrowApr(rate, utilization) ==
  LET kink == (rate.optimal * RAY) \div BPS
  IN  IF utilization <= kink
        THEN rate.base + (rate.slope1 * utilization) \div kink
        ELSE rate.base + rate.slope1
               + (rate.slope2 * (utilization - kink)) \div (RAY - kink)

BorrowRate(rate, totalBorrow, totalLiquidity) ==
  ((BorrowApr(rate, Utilization(totalBorrow, totalLiquidity)) * RAY) \div BPS)
    \div SecondsPerYear

SupplyRate(rate, totalBorrow, totalLiquidity) ==
  ((((BorrowRate(rate, totalBorrow, totalLiquidity)
        * Utilization(totalBorrow, totalLiquidity)) \div RAY)
      * (BPS - rate.reserveFactor)) \div BPS)

-----------------------------------------------------------------------------
(* Oracle prices.  A feed is a record [primary, secondary, usable]; usable *)
(* says that the asset is enabled and both answers are positive, complete  *)
(* and fresh.                                                              *)

LowPrice(feed)  == Lesser(feed.primary, feed.secondary)
HighPrice(feed) == Greater(feed.primary, feed.secondary)

PricesDefined(feed) ==
  /\ feed.usable
  /\ (HighPrice(feed) - LowPrice(feed)) * BPS <= LowPrice(feed) * MaxDeviationBps

-----------------------------------------------------------------------------
(* Account risk.  unitC and unitD are 10^decimals of the two assets.       *)

CollateralValue(collateral, feed, unitC) == (collateral * LowPrice(feed)) \div unitC
DebtValue(debt, feed, unitD)             == (debt * HighPrice(feed)) \div unitD

\* Mutant: the maximum LTV is not applied.
BorrowToValue(collateralValue, debtValue, ltv) == debtValue <= collateralValue

BorrowAllowed(collateralValue, debtValue, ltv) ==
  debtValue <= (collateralValue * ltv) \div BPS

Liquidatable(collateralValue, debtValue, threshold) ==
  debtValue > (collateralValue * threshold) \div BPS
=============================================================================
