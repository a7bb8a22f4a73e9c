---------------------------- MODULE MCLendingCore ----------------------------
(***************************************************************************)
(* One market of collateral "c" against debt "d", two accounts.  The       *)
(* collateral price has a high and a crashed value, and a state in which   *)
(* its two feeds disagree and no price is given; the crash is deep enough  *)
(* that one or two liquidations exhaust the collateral.  Interest          *)
(* is tens of percent per time unit, so that rounding and the reserve      *)
(* spread show up within two units.                                        *)
(***************************************************************************)
EXTENDS LendingCore, TLC

CONSTANTS m1, a1, a2, MaxCash, MaxReserves, MaxLosses

MCCollateralAsset == (m1 :> "c")
MCDebtAsset == (m1 :> "d")
MCUnit == ("c" :> 1) @@ ("d" :> 1)

MCMarketConfigs ==
  {[ltv |-> 5000, threshold |-> 8000, bonus |-> 500,
    supplyCap |-> 14, borrowCap |-> 10, minBorrow |-> 2, enabled |-> TRUE]}

MCRateConfigs ==
  {[base |-> 1000, slope1 |-> 1000, slope2 |-> 3000, optimal |-> 8000,
    reserveFactor |-> 3000, enabled |-> TRUE]}

At(p, q, ok) == [primary |-> p, secondary |-> q, usable |-> ok]
MCFeeds == ("c" :> {At(4, 4, TRUE), At(1, 1, TRUE), At(1, 4, TRUE)})
             @@ ("d" :> {At(1, 1, TRUE)})

\* The states to explore from: the rate model is enabled (the step that
\* disables it is still checked) and rounding has not piled up.
Bounded ==
  /\ rate[m1].enabled
  /\ balance["d"] <= MaxCash
  /\ market[m1].accruedReserves <= MaxReserves
  /\ market[m1].realizedLosses <= MaxLosses

\* Only a1 supplies and only a2 borrows.
LenderAndBorrower ==
  /\ Bounded
  /\ collateralOf[m1][a1] = 0
  /\ liquiditySharesOf[m1][a2] = 0
=============================================================================
