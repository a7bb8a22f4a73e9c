---------------------------- MODULE MarginAccount ----------------------------
(***************************************************************************)
(* The demo margin account (account-engine.js) and the position arithmetic *)
(* it is settled with (position-engine.js, risk-engine.js), as operators   *)
(* on records.  Each operation of the code that can throw is a pair: a     *)
(* Can... guard and the account it returns.                                *)
(*                                                                         *)
(* Amounts are exact: the code's doubles, its 1e-9 tolerances and the      *)
(* clamps Math.max(0, ...) that absorb their rounding are left out.  A     *)
(* position keeps its cost, quantity * entryPrice, instead of the entry    *)
(* price, so that a merge needs no division.                               *)
(***************************************************************************)
EXTENDS Integers

CONSTANTS
    MaxLeverage,    \* market.maxLeverage
    MarginDivisor   \* 1 / market.maintenanceMarginRate

ASSUME MarginAssumption ==
    /\ MaxLeverage \in Nat \ {0}
    /\ MarginDivisor \in Nat \ {0, 1}

Sides == {"LONG", "SHORT"}
Modes == {"ISOLATED", "CROSS"}

-----------------------------------------------------------------------------
(* The account.                                                            *)

Account == [cash : Int, isolated : Int, cross : Int, funding : Int, fees : Int]

NewAccount(initial) ==
    [cash |-> initial, isolated |-> 0, cross |-> 0, funding |-> 0, fees |-> 0]

ReservedOf(a, mode) == IF mode = "CROSS" THEN a.cross ELSE a.isolated

\* The account with delta more in the mode's reserve and moved more in cash.
Shift(a, mode, delta, moved) ==
    [a EXCEPT !.cash = @ + moved,
              !.isolated = IF mode = "CROSS" THEN @ ELSE @ + delta,
              !.cross = IF mode = "CROSS" THEN @ + delta ELSE @]

CanReserve(a, value) == value > 0 /\ value <= a.cash
Reserve(a, value, mode) == Shift(a, mode, value, -value)

CanRelease(a, value, pnl, mode) ==
    /\ value >= 0
    /\ value <= ReservedOf(a, mode)
    /\ a.cash + value + pnl >= 0
Release(a, value, pnl, mode) == Shift(a, mode, -value, value + pnl)

CanConsume(a, value, mode) == value >= 0 /\ value <= ReservedOf(a, mode)
ConsumeLiquidation(a, value, mode) == Shift(a, mode, -value, 0)

CanSettleFunding(a, payment) == a.cash + payment >= 0
SettleFunding(a, payment) ==
    [a EXCEPT !.cash = @ + payment, !.funding = @ + payment]

CanSettleFee(a, fee) == fee >= 0 /\ a.cash - fee >= 0
SettleTradingFee(a, fee) == [a EXCEPT !.cash = @ - fee, !.fees = @ + fee]

CrossWallet(a) == a.cash + a.cross

-----------------------------------------------------------------------------
(* Positions: [symbol, side, mode, qty, cost, collateral, ...].            *)

Direction(side) == IF side = "SHORT" THEN -1 ELSE 1

Notional(p, mark) == p.qty * mark
Pnl(p, mark) == Direction(p.side) * (p.qty * mark - p.cost)

\* effectiveLeverage(qty, price, collateral) <= market.maxLeverage
LeverageFits(cost, collateral) == cost <= MaxLeverage * collateral

\* positionHealth(..).liquidatable: equity <= maintenanceMargin
Liquidatable(p, mark) ==
    MarginDivisor * (p.collateral + Pnl(p, mark)) <= Notional(p, mark)
=============================================================================
