-------------------------- MODULE FuturesSettlement --------------------------
(***************************************************************************)
(* What the demo futures controllers do to the state they share: traders'  *)
(* margin accounts and cross positions, and one insurance fund that trade  *)
(* fees fill (fee-controller.js) and liquidations draw on                  *)
(* (liquidation-controller.js through insurance-adl-controller.js).        *)
(* Funding payments (funding-controller.js) replace positions in the book. *)
(*                                                                         *)
(* The code hands out frozen objects and compares them with ===.  Of a     *)
(* position object the model keeps whether a funding caller still holds    *)
(* the one in the book; a fund object is the version it was created with.  *)
(* The insurance service that a controller is given may refuse a commit;   *)
(* the controllers then undo what they have done.                          *)
(***************************************************************************)
EXTENDS MarginAccount, AccountSums, Sequences

CONSTANTS
    Traders,
    TraderMarks,     \* mark prices
    TraderBalance,
    FundBalance,     \* createInsuranceFund({balance, maxCoveragePerEvent})
    CoverageCap,
    Fees,            \* trading fees, in whole units
    InsuranceShare,  \* 1 / feeShares.insuranceShare
    FundingRates,    \* sizes of a funding payment per unit of quantity
    Losses,          \* losses an outside caller asks the fund to cover
    Lots,            \* sizes of a fill
    MaxUses,         \* bound: fills and funding settlements
    MaxVersion       \* bound: versions of the fund

ASSUME SettlementAssumption ==
    /\ IsFiniteSet(Traders) /\ TraderMarks \subseteq Nat \ {0} /\ Lots \subseteq Nat \ {0}
    /\ TraderBalance \in Nat /\ FundBalance \in Nat /\ CoverageCap \in Nat \ {0}
    /\ InsuranceShare \in Nat \ {0}
    /\ \A fee \in Fees : fee \in Nat /\ fee % InsuranceShare = 0
    /\ FundingRates \subseteq Nat /\ Losses \subseteq Nat
    /\ MaxUses \in Nat /\ MaxVersion \in Nat

VARIABLES
    traderMark, \* the mark price
    accounts,   \* accounts[t]
    position,  \* position[t][side]: the trader's cross positions
    current,   \* current[t][side]: a funding caller holds the book's object
    fund,      \* the fund of insuranceFundService
    preview,   \* a resolution previewed and not yet committed
    uses,      \* fills and funding settlements so far
    settlementOutcome \* "OK", or how the last operation failed

settlementVars ==
    <<traderMark, accounts, position, current, fund, preview, uses, settlementOutcome>>

NoPosition == [qty |-> 0, cost |-> 0, collateral |-> 0]
NoPreview == [base |-> 0]

Held(t, side) == position[t][side].qty > 0
At(t, side) ==
    LET p == position[t][side]
    IN  [side |-> side, qty |-> p.qty, cost |-> p.cost, collateral |-> p.collateral]

-----------------------------------------------------------------------------
(* The insurance fund (insurance-engine.js, insurance-fund-service.js).    *)

Least(a, b) == IF a <= b THEN a ELSE b

\* coverLiquidationLoss: what the fund cannot cover is recorded as bad debt.
Coverage(f, loss) ==
    LET covered == Least(loss, Least(f.balance, CoverageCap))
    IN  [base |-> f.version, balance |-> f.balance, loss |-> loss,
         badDebt |-> loss - covered,
         fund |-> [f EXCEPT !.balance = @ - covered, !.covered = @ + covered,
                            !.badDebt = @ + loss - covered, !.version = @ + 1]]

\* depositInsurance
Deposit(f, amount) == [f EXCEPT !.balance = @ + amount, !.version = @ + 1]

\* commitResolution compares the balance, commitCoverage the fund object.
CanCommit(f, p) == f.balance = p.balance /\ f.version = p.base

-----------------------------------------------------------------------------
(* Auto-deleveraging plan (adl-engine.js).                                 *)

Profit(p) == IF Pnl(p, traderMark) > 0 THEN Pnl(p, traderMark) ELSE 0

\* adlScore(a) > adlScore(b): profit ratio times leverage, cross-multiplied.
ScoresHigher(a, b) ==
    Profit(a) * Notional(a, traderMark) * b.collateral * b.collateral
      > Profit(b) * Notional(b, traderMark) * a.collateral * a.collateral

Opposite(bankruptSide) == IF bankruptSide = "LONG" THEN "SHORT" ELSE "LONG"

\* The positions that can absorb a loss: those of the other side in profit.
Candidates(bankruptSide) ==
    LET side == Opposite(bankruptSide)
    IN  {t \in Traders : Held(t, side) /\ Profit(At(t, side)) > 0}

\* The best score of those that are left, one of them when scores are equal.
Ranked(rest, side) ==
    CHOOSE t \in rest : \A u \in rest : ~ScoresHigher(At(u, side), At(t, side))

\* Each candidate in turn absorbs what is left, up to its profit.
AdlPlan(bankruptSide, debt) ==
    LET side == Opposite(bankruptSide)
        all  == Candidates(bankruptSide)
        plan[n \in 0 .. Cardinality(all)] ==
            IF n = 0 THEN [left |-> debt, rest |-> all, absorbed |-> <<>>]
            ELSE LET before == plan[n - 1]
                     t      == Ranked(before.rest, side)
                     amount == Least(before.left, Profit(At(t, side)))
                 IN  [left |-> before.left - amount,
                      rest |-> before.rest \ {t},
                      absorbed |-> IF amount = 0 THEN before.absorbed
                                   ELSE Append(before.absorbed,
                                               [trader |-> t, amount |-> amount])]
    IN  plan[Cardinality(all)]

-----------------------------------------------------------------------------
(* Cross accounts.                                                         *)

HeldSides(t) == {side \in Sides : Held(t, side)}

\* Over both sides: a side the book holds nothing for is worth nothing.
SumSides(value) == value["LONG"] + value["SHORT"]

Equity(t) ==
    CrossWallet(accounts[t]) + SumSides([side \in Sides |-> Pnl(At(t, side), traderMark)])

\* crossAccountHealth(..).liquidatable
CrossDue(t) ==
    /\ HeldSides(t) # {}
    /\ MarginDivisor * Equity(t)
         <= SumSides([side \in Sides |-> Notional(position[t][side], traderMark)])

BadDebt(t) == IF Equity(t) < 0 THEN -Equity(t) ELSE 0

\* Mutant: the losses of the positions stay in the account.
LiquidatedAtCost(t) == [accounts[t] EXCEPT !.cross = 0, !.cash = CrossWallet(accounts[t])]

\* commitCrossLiquidation: the surviving equity is all cash again.
Liquidated(t) ==
    [accounts[t] EXCEPT !.cross = 0, !.cash = Equity(t) + BadDebt(t)]

-----------------------------------------------------------------------------
SettlementInit ==
    /\ traderMark \in TraderMarks
    /\ accounts = [t \in Traders |-> NewAccount(TraderBalance)]
    /\ position = [t \in Traders |-> [side \in Sides |-> NoPosition]]
    /\ current = [t \in Traders |-> [side \in Sides |-> FALSE]]
    /\ fund = [balance |-> FundBalance, covered |-> 0, badDebt |-> 0, version |-> 1]
    /\ preview = NoPreview /\ uses = 0 /\ settlementOutcome = "OK"

MoveTraderMark(price) ==
    /\ price # traderMark
    /\ traderMark' = price /\ settlementOutcome' = "OK"
    /\ UNCHANGED <<accounts, position, current, fund, preview, uses>>

\* Reserve the initial margin at full leverage, then add the fill to the book.
Open(t, side, q) ==
    LET p == position[t][side]
        margin == (q * traderMark) \div MaxLeverage
    IN  /\ uses < MaxUses
        /\ (q * traderMark) % MaxLeverage = 0
        /\ CanReserve(accounts[t], margin)
        /\ accounts' = [accounts EXCEPT ![t] = Reserve(@, margin, "CROSS")]
        /\ position' = [position EXCEPT ![t][side] =
                          [p EXCEPT !.qty = @ + q, !.cost = @ + q * traderMark,
                                    !.collateral = @ + margin]]
        /\ current' = [current EXCEPT ![t][side] = FALSE]
        /\ uses' = uses + 1 /\ settlementOutcome' = "OK"
        /\ UNCHANGED <<traderMark, fund, preview>>

\* settleTrade: charge the account, then deposit the insurance share; a
\* refused deposit restores the account's snapshot.
SettleTrade(t, fee, refused) ==
    /\ fund.version < MaxVersion
    /\ CanSettleFee(accounts[t], fee)
    /\ IF refused
       THEN /\ settlementOutcome' = "FEE_INSURANCE_COMMIT_FAILED"
            /\ UNCHANGED <<accounts, fund>>
       ELSE /\ settlementOutcome' = "OK"
            /\ accounts' = [accounts EXCEPT ![t] = SettleTradingFee(@, fee)]
            /\ fund' = Deposit(fund, fee \div InsuranceShare)
    /\ UNCHANGED <<traderMark, position, current, preview, uses>>

\* A funding caller reads the book.
ReadPosition(t, side) ==
    /\ Held(t, side) /\ ~current[t][side]
    /\ current' = [current EXCEPT ![t][side] = TRUE]
    /\ settlementOutcome' = "OK"
    /\ UNCHANGED <<traderMark, accounts, position, fund, preview, uses>>

\* A positive rate is paid by the longs.
Payment(p, side, rate) == -Direction(side) * p.qty * rate

\* settle: the reference must be the book's current object, which is replaced
\* by one with the payment booked before the account settles.  When the account
\* cannot pay, the previous fields are put back as a new object that the caller
\* does not hold, so the same call fails from then on.
SettleFundingOn(t, side, rate) ==
    LET payment == Payment(position[t][side], side, rate)
    IN  /\ uses < MaxUses
        /\ Held(t, side) /\ current[t][side]
        /\ uses' = uses + 1
        /\ IF CanSettleFunding(accounts[t], payment)
           THEN /\ accounts' = [accounts EXCEPT ![t] = SettleFunding(@, payment)]
                /\ settlementOutcome' = "OK"
                /\ UNCHANGED current
           ELSE /\ current' = [current EXCEPT ![t][side] = FALSE]
                /\ settlementOutcome' = "FUNDING_ACCOUNT_SETTLEMENT_FAILED"
                /\ UNCHANGED accounts
        /\ UNCHANGED <<traderMark, position, fund, preview>>

\* removeCross: the trader's cross positions leave the book.
CrossRemoved(t) ==
    /\ position' = [position EXCEPT ![t] = [side \in Sides |-> NoPosition]]
    /\ current' = [current EXCEPT ![t] = [side \in Sides |-> FALSE]]

\* Mutant: the insurance rollback restores the account and forgets the book.
LiquidateForgetsBook(t, refused) ==
    /\ CrossDue(t) /\ Cardinality(HeldSides(t)) = 1 /\ fund.version < MaxVersion
    /\ CrossRemoved(t)
    /\ IF BadDebt(t) > 0 /\ refused
       THEN UNCHANGED <<accounts, fund>>
            /\ settlementOutcome' = "CROSS_LIQUIDATION_INSURANCE_COMMIT_FAILED"
       ELSE /\ accounts' = [accounts EXCEPT ![t] = Liquidated(t)] /\ settlementOutcome' = "OK"
            /\ fund' = IF BadDebt(t) > 0 THEN Coverage(fund, BadDebt(t)).fund ELSE fund
    /\ UNCHANGED <<traderMark, preview, uses>>

\* liquidateCrossIfRequired: remove the positions, settle the account, commit
\* the resolution of its bad debt; a refusal restores account and book.
Liquidate(t, refused) ==
    LET resolution == Coverage(fund, BadDebt(t))
    IN  /\ CrossDue(t)
        /\ fund.version < MaxVersion
        /\ \/ /\ BadDebt(t) = 0
              /\ settlementOutcome' = "OK"
              /\ CrossRemoved(t)
              /\ accounts' = [accounts EXCEPT ![t] = Liquidated(t)]
              /\ UNCHANGED fund
           \/ /\ BadDebt(t) > 0 /\ Cardinality(HeldSides(t)) > 1
              /\ settlementOutcome' = "MIXED_SIDE_BAD_DEBT_REQUIRES_ALLOCATION"
              /\ UNCHANGED <<position, current, accounts, fund>>
           \/ /\ BadDebt(t) > 0 /\ Cardinality(HeldSides(t)) = 1 /\ ~refused
              /\ settlementOutcome' = "OK"
              /\ CrossRemoved(t)
              /\ accounts' = [accounts EXCEPT ![t] = Liquidated(t)]
              /\ fund' = resolution.fund
           \/ /\ BadDebt(t) > 0 /\ Cardinality(HeldSides(t)) = 1 /\ refused
              /\ settlementOutcome' = "CROSS_LIQUIDATION_INSURANCE_COMMIT_FAILED"
              /\ UNCHANGED <<position, current, accounts, fund>>
        /\ UNCHANGED <<traderMark, preview, uses>>

\* previewCoverAndPlan for an outside caller; nothing is changed.
PreviewResolution(loss) ==
    /\ preview = NoPreview /\ fund.version < MaxVersion
    /\ preview' = Coverage(fund, loss)
    /\ settlementOutcome' = "OK"
    /\ UNCHANGED <<traderMark, accounts, position, current, fund, uses>>

\* commitResolution of the preview, whenever the caller gets to it.
CommitResolution ==
    /\ preview # NoPreview
    /\ IF CanCommit(fund, preview)
       THEN fund' = preview.fund /\ settlementOutcome' = "OK"
       ELSE UNCHANGED fund /\ settlementOutcome' = "INSURANCE_FUND_CHANGED_SINCE_PREVIEW"
    /\ preview' = NoPreview
    /\ UNCHANGED <<traderMark, accounts, position, current, uses>>

SettlementNext ==
    \/ \E price \in TraderMarks : MoveTraderMark(price)
    \/ \E t \in Traders, side \in Sides, q \in Lots : Open(t, side, q)
    \/ \E t \in Traders, fee \in Fees, refused \in BOOLEAN : SettleTrade(t, fee, refused)
    \/ \E t \in Traders, side \in Sides : ReadPosition(t, side)
    \/ \E t \in Traders, side \in Sides, rate \in FundingRates :
           SettleFundingOn(t, side, rate) \/ SettleFundingOn(t, side, -rate)
    \/ \E t \in Traders, refused \in BOOLEAN : Liquidate(t, refused)
    \/ \E loss \in Losses : PreviewResolution(loss)
    \/ CommitResolution

SettlementSpec == SettlementInit /\ [][SettlementNext]_settlementVars

-----------------------------------------------------------------------------
(* Properties.                                                             *)

\* What the fund holds and has paid out is its first balance and the insurance
\* share of every fee the accounts were charged.
FundMatchesFees ==
    fund.balance + fund.covered
        = FundBalance + TotalOf([t \in Traders |-> accounts[t].fees]) \div InsuranceShare

\* The cross reserve of a margin account is the collateral of the positions
\* the book holds for the trader.
CrossReserveMatchesBook ==
    \A t \in Traders :
        accounts[t].cross = SumSides([side \in Sides |-> position[t][side].collateral])

\* The three ledgers agree although no handler writes all of them: refused
\* deposits, rolled back liquidations and resolutions previewed on an older
\* fund leave neither the fund nor a reserve behind the accounts and the book.
LedgersAgree == FundMatchesFees /\ CrossReserveMatchesBook

\* The plan asks no position for more than its profit, and leaves over only what
\* the profitable positions of the other side cannot absorb.
PlanExhausts(bankrupt, debt) ==
    LET plan  == AdlPlan(bankrupt, debt)
        side  == Opposite(bankrupt)
        taken == TotalOf([i \in DOMAIN plan.absorbed |-> plan.absorbed[i].amount])
        most  == TotalOf([t \in Traders |-> Profit(At(t, side))])
    IN  /\ taken + plan.left = debt
        /\ plan.left > 0 => taken = most
        /\ \A i \in DOMAIN plan.absorbed :
               plan.absorbed[i].amount <= Profit(At(plan.absorbed[i].trader, side))

\* A trader leaves the book with what the positions were worth; a loss beyond
\* that is taken from the fund or recorded as its bad debt, and never both kept
\* by the trader and paid by the fund; and the deleveraging plan for it uses all
\* there is on the other side.
LossIsResolved ==
    [][\A t \in Traders :
         HeldSides(t) # {} /\ (\A side \in Sides : position'[t][side].qty = 0) =>
            /\ CrossWallet(accounts'[t]) = Equity(t) + BadDebt(t)
            /\ fund'.covered + fund'.badDebt - fund.covered - fund.badDebt = BadDebt(t)
            /\ \A side \in HeldSides(t) : PlanExhausts(side, BadDebt(t))]_settlementVars
=============================================================================
