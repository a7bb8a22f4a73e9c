------------------------------ MODULE PerpEngine ------------------------------
(***************************************************************************)
(* The futures contracts: LQCPerpEngine over LQCFuturesVault, which keeps  *)
(* the collateral, and LQCFuturesMarketRegistry, which opens and shuts     *)
(* markets.  All markets share one collateral token.                       *)
(*                                                                         *)
(* A call that reverts leaves no trace.  The vault's functions map its     *)
(* books to new books and note in "ok" whether they would have reverted;   *)
(* an action of the engine happens only if the books stay ok.              *)
(***************************************************************************)
EXTENDS Integers, FiniteSetsExt, AccountSums

CONSTANTS
    Holders,        \* accounts
    PerpMarkets,
    PerpPrices,     \* answers of the oracles
    Margins, PerpSizes, Cuts, Amounts,   \* inputs of the calls
    RiskSettings,   \* what governance may configure for a market
    Bps,            \* BPS
    FundingRay,     \* FUNDING_RAY
    MaxTokens,      \* bound: tokens the vault ever holds
    FundingDeltas,  \* sizes of a change of a funding index
    MaxRounds       \* bound: positions opened and indexes updated

ASSUME PerpAssumption ==
    /\ IsFiniteSet(Holders) /\ IsFiniteSet(PerpMarkets)
    /\ PerpPrices \union Margins \union PerpSizes \union Cuts \union Amounts \union FundingDeltas \subseteq Nat \ {0}
    /\ {Bps, FundingRay} \subseteq Nat \ {0} /\ {MaxTokens, MaxRounds} \subseteq Nat
    /\ RiskSettings \subseteq
         [fee : 0..Bps, insuranceShare : 0..Bps, coverage : 0..Bps, reduction : 0..Bps,
          minRemaining : Nat, adlCap : 0..Bps, maintenance : 0..Bps, leverage : Nat,
          fundingBound : Nat, orderLimit : Nat, positionLimit : Nat, oiLimit : Nat]

VARIABLES
    books,      \* the vault: balances, totals, reserves and debt of the token
    positions,  \* positions[a][m] with positionFundingEntryRay[a][m]
    interest,   \* openInterestUsd
    index,      \* cumulativeFundingPerUsdRay
    risk,       \* the settings of each market
    gates,      \* marketMode, active and recoveryApproved of each market
    oracle,     \* the oracle's price; 0 when it is stale or invalid
    due,        \* history: what all accounts together paid in and made
    rounds      \* history: positions opened and indexes updated

perpVars == <<books, positions, interest, index, risk, gates, oracle, due, rounds>>

NoPerp == [margin |-> 0, size |-> 0, entry |-> 1, long |-> FALSE, funding |-> 0]
OpenPerps(a) == {m \in PerpMarkets : positions[a][m].size > 0}

-----------------------------------------------------------------------------
(* LQCFuturesVault.sol                                                     *)

LockCollateral(b, a, n) ==
    [b EXCEPT !.ok = @ /\ n > 0 /\ b.available[a] >= n, !.available[a] = @ - n, !.locked[a] = @ + n]

UnlockCollateral(b, a, n) ==
    [b EXCEPT !.ok = @ /\ n > 0 /\ b.locked[a] >= n, !.available[a] = @ + n, !.locked[a] = @ - n]

\* settleFunding
PayFunding(b, a, payment) ==
    [b EXCEPT !.ok = @ /\ b.pool >= payment /\ b.available[a] >= -payment,
              !.available[a] = @ + payment, !.accounted = @ + payment, !.pool = @ - payment]

\* settleLiquidationFunding: a debit takes the margin, then the available
\* balance, then some insurance; the rest is bad debt.
PayLiquidationFunding(b, a, payment, margin, maxCoverage) ==
    LET fromMargin    == Min({-payment, b.locked[a], margin})
        fromAvailable == Min({-payment - fromMargin, b.available[a]})
        unpaid        == -payment - fromMargin - fromAvailable
        covered       == Min({maxCoverage, unpaid, b.insurance})
    IN  IF payment > 0
        THEN [b EXCEPT !.ok = @ /\ b.pool >= payment, !.locked[a] = @ + payment,
                       !.accounted = @ + payment, !.pool = @ - payment]
        ELSE [b EXCEPT !.locked[a] = @ - fromMargin, !.available[a] = @ - fromAvailable,
                       !.accounted = @ - fromMargin - fromAvailable,
                       !.pool = @ + fromMargin + fromAvailable + covered,
                       !.insurance = @ - covered, !.covered = @ + covered,
                       !.badDebt = @ + unpaid - covered]

CollectTradingFee(b, a, fee, toInsurance) ==
    [b EXCEPT !.ok = @ /\ b.available[a] >= fee, !.available[a] = @ - fee, !.accounted = @ - fee,
              !.insurance = @ + toInsurance, !.treasury = @ + fee - toInsurance]

\* Mutant: what insurance covers is not taken from what remains.
CoverWhole(b, deficit, maxCoverage) ==
    LET covered == Min({maxCoverage, deficit, b.insurance})
    IN  [b EXCEPT !.insurance = @ - covered, !.covered = @ + covered, !.badDebt = @ + deficit]

CoverBadDebt(b, deficit, maxCoverage) ==
    LET covered == Min({maxCoverage, deficit, b.insurance})
    IN  [b EXCEPT !.insurance = @ - covered, !.covered = @ + covered,
                  !.badDebt = @ + deficit - covered]

AbsorbAdlBadDebt(b, n) ==
    [b EXCEPT !.ok = @ /\ n > 0 /\ n <= b.badDebt, !.badDebt = @ - n]

Claims(b) == b.accounted + b.pool + b.insurance + b.treasury

\* settlePnL: a profit has to be there beyond all claims.
SettlePnL(b, a, pnl) ==
    IF pnl >= 0
    THEN [b EXCEPT !.ok = @ /\ (pnl > 0 => b.tokens >= Claims(b) + pnl),
                   !.available[a] = @ + pnl, !.accounted = @ + pnl]
    ELSE [b EXCEPT !.ok = @ /\ b.locked[a] >= -pnl, !.locked[a] = @ + pnl, !.accounted = @ + pnl]

DepositCollateral(a, n) ==
    /\ books.tokens + n <= MaxTokens
    /\ books' = [books EXCEPT !.tokens = @ + n, !.available[a] = @ + n, !.accounted = @ + n]
    /\ due' = due + n
    /\ UNCHANGED <<positions, interest, index, risk, gates, oracle, rounds>>

WithdrawCollateral(a, n) ==
    /\ books.available[a] >= n /\ books.tokens >= n
    /\ books' = [books EXCEPT !.tokens = @ - n, !.available[a] = @ - n, !.accounted = @ - n]
    /\ due' = due - n
    /\ UNCHANGED <<positions, interest, index, risk, gates, oracle, rounds>>

\* Anyone may send the vault tokens; profits are paid from them.
Endow(n) ==
    /\ books.tokens + n <= MaxTokens
    /\ books' = [books EXCEPT !.tokens = @ + n]
    /\ UNCHANGED <<positions, interest, index, risk, gates, oracle, due, rounds>>

-----------------------------------------------------------------------------
(* LQCPerpEngine.sol                                                       *)

Magnitude(n) == IF n < 0 THEN -n ELSE n

\* Solidity divides towards zero.
Truncated(n, d) == IF n < 0 THEN -((-n) \div d) ELSE n \div d

\* _pnl, of a part of the position
PerpPnl(p, size, price) ==
    Truncated((IF p.long THEN price - p.entry ELSE p.entry - price) * size, p.entry)

\* previewFundingPayment: longs pay when the index has risen, shorts when it
\* has fallen.
FundingPayment(a, m) ==
    LET p      == positions[a][m]
        change == index[m] - p.funding
        amount == (p.size * Magnitude(change)) \div FundingRay
    IN  IF risk[m].fundingBound = 0 THEN 0
        ELSE IF change > 0 <=> p.long THEN -amount ELSE amount

\* _chargeTradingFee
TradingFee(m, notional) == (notional * risk[m].fee) \div Bps
ChargeTradingFee(b, a, m, notional) ==
    LET fee == TradingFee(m, notional)
    IN  IF fee = 0 THEN b
        ELSE CollectTradingFee(b, a, fee, (fee * risk[m].insuranceShare) \div Bps)

PerpCoverage(m, deficit) == (deficit * risk[m].coverage) \div Bps

\* _settle: the margin of what is closed, and the result.
SettlePosition(b, a, m, margin, pnl) ==
    LET emptied == SettlePnL(b, a, -margin)
        deficit == -pnl - margin
    IN  IF pnl >= 0 THEN SettlePnL(IF margin = 0 THEN b ELSE UnlockCollateral(b, a, margin), a, pnl)
        ELSE IF deficit < 0 THEN UnlockCollateral(SettlePnL(b, a, pnl), a, -deficit)
        ELSE IF deficit = 0 THEN emptied
        ELSE CoverBadDebt(emptied, deficit, PerpCoverage(m, deficit))

MayOpen(gate) == gate.active /\ gate.mode = "ACTIVE"

WithinLimits(m, size) ==
    /\ risk[m].orderLimit > 0 => size <= risk[m].orderLimit
    /\ risk[m].positionLimit > 0 => size <= risk[m].positionLimit
    /\ risk[m].oiLimit > 0 => interest[m] + size <= risk[m].oiLimit

\* openPosition
OpenPerp(a, m, margin, size, long) ==
    LET charged == ChargeTradingFee(LockCollateral(books, a, margin), a, m, size)
    IN  /\ positions[a][m].size = 0 /\ rounds < MaxRounds
        /\ WithinLimits(m, size) /\ MayOpen(gates[m]) /\ oracle[m] > 0
        /\ size * Bps <= margin * risk[m].leverage
        /\ charged.ok
        /\ books' = charged
        /\ positions' = [positions EXCEPT ![a][m] =
               [margin |-> margin, size |-> size, entry |-> oracle[m], long |-> long,
                funding |-> index[m]]]
        /\ interest' = [interest EXCEPT ![m] = @ + size]
        /\ due' = due - TradingFee(m, size)
        /\ rounds' = rounds + 1
        /\ UNCHANGED <<index, risk, gates, oracle>>

\* settleFunding
SettlePerpFunding(a, m) ==
    LET payment == FundingPayment(a, m)
        paid    == PayFunding(books, a, payment)
    IN  /\ positions[a][m].size > 0 /\ paid.ok
        /\ books' = paid
        /\ positions' = [positions EXCEPT ![a][m].funding = index[m]]
        /\ due' = due + payment
        /\ UNCHANGED <<interest, index, risk, gates, oracle, rounds>>

\* The rest of a position; an empty one is deleted.
Remainder(p, size, margin, m) ==
    IF size = 0 THEN NoPerp
    ELSE [p EXCEPT !.size = size, !.margin = margin, !.funding = index[m]]

\* _reducePosition, for reducePosition and closePosition
ReducePerp(a, m, size) ==
    LET p        == positions[a][m]
        payment  == FundingPayment(a, m)
        released == (p.margin * size) \div p.size
        pnl      == PerpPnl(p, size, oracle[m])
        closed   == ChargeTradingFee(
                      SettlePosition(PayFunding(books, a, payment), a, m, released, pnl), a, m, size)
    IN  /\ p.size >= size /\ oracle[m] > 0
        /\ released > 0
        /\ size < p.size => released + pnl > 0 /\ released < p.margin
        /\ closed.ok
        /\ books' = closed
        /\ positions' = [positions EXCEPT ![a][m] = Remainder(p, p.size - size, p.margin - released, m)]
        /\ interest' = [interest EXCEPT ![m] = @ - size]
        /\ due' = due + payment + pnl - TradingFee(m, size)
        /\ UNCHANGED <<index, risk, gates, oracle, rounds>>

\* _liquidationReductionSize
LiquidationSize(m, size) ==
    LET part == (size * risk[m].reduction) \div Bps
    IN  IF part = 0 \/ part >= size \/ size - part < risk[m].minRemaining THEN size ELSE part

\* Mutant: the position keeps the margin it had in memory.
MarginBeforeFunding(p, credit) == p.margin

\* _settleLiquidationFundingCheckpoint: the vault's credit or debit of the
\* locked balance is one of the position's margin.
MarginAfterFunding(p, credit) == p.margin + credit

\* liquidate, by anyone
LiquidatePerp(a, m) ==
    LET p         == positions[a][m]
        payment   == FundingPayment(a, m)
        shortfall == Max({-payment - p.margin - books.available[a], 0})
        funded    == PayLiquidationFunding(books, a, payment, p.margin, PerpCoverage(m, shortfall))
        margin    == MarginAfterFunding(p, funded.locked[a] - books.locked[a])
        step      == LiquidationSize(m, p.size)
        whole     == step = p.size \/ margin = 0 \/ -PerpPnl(p, step, oracle[m]) >= margin
        pnl       == PerpPnl(p, IF whole THEN p.size ELSE step, oracle[m])
        settled   == IF whole THEN SettlePosition(funded, a, m, margin, pnl)
                     ELSE SettlePnL(funded, a, pnl)
        size      == IF whole THEN p.size ELSE step
    IN  /\ p.size > 0 /\ oracle[m] > 0
        /\ margin + PerpPnl(p, p.size, oracle[m]) <= (p.size * risk[m].maintenance) \div Bps
        /\ settled.ok
        /\ books' = settled
        /\ positions' = [positions EXCEPT ![a][m] =
               Remainder(p, p.size - size, margin + Min({pnl, 0}), m)]
        /\ interest' = [interest EXCEPT ![m] = @ - size]
        /\ due' = due + payment + pnl
        /\ UNCHANGED <<index, risk, gates, oracle, rounds>>

\* executeAdl, by governance: the profit of a slice pays bad debt, and its
\* margin is released.  Funding is not settled.
ExecuteAdl(a, m, size) ==
    LET p        == positions[a][m]
        profit   == PerpPnl(p, size, oracle[m])
        absorbed == Min({profit, books.badDebt})
        released == (p.margin * size) \div p.size
        reduced  == AbsorbAdlBadDebt(UnlockCollateral(books, a, released), absorbed)
    IN  /\ p.size >= size /\ oracle[m] > 0
        /\ size <= (p.size * risk[m].adlCap) \div Bps
        /\ profit > 0
        /\ reduced.ok
        /\ books' = reduced
        /\ positions' = [positions EXCEPT ![a][m] =
               IF size = p.size THEN NoPerp ELSE [p EXCEPT !.size = @ - size, !.margin = @ - released]]
        /\ interest' = [interest EXCEPT ![m] = @ - size]
        /\ due' = due + absorbed
        /\ UNCHANGED <<index, risk, gates, oracle, rounds>>

\* updateFundingIndex, by governance
UpdateFundingIndex(m, delta) ==
    /\ Magnitude(delta) <= risk[m].fundingBound
    /\ oracle[m] > 0
    /\ rounds < MaxRounds /\ rounds' = rounds + 1
    /\ index' = [index EXCEPT ![m] = @ + delta]
    /\ UNCHANGED <<books, positions, interest, risk, gates, oracle, due>>

Configure(m, settings) ==
    /\ settings # risk[m]
    /\ risk' = [risk EXCEPT ![m] = settings]
    /\ UNCHANGED <<books, positions, interest, index, gates, oracle, due, rounds>>

\* No limit undercuts the open interest there is.
ConfigureMarketOpenInterestLimit(m, s) ==
    /\ s.oiLimit > 0 /\ s.oiLimit >= interest[m]
    /\ Configure(m, [risk[m] EXCEPT !.oiLimit = s.oiLimit])

ConfigureMarketNotionalLimits(m, s) ==
    /\ s.orderLimit > 0 /\ s.orderLimit <= s.positionLimit
    /\ Configure(m, [risk[m] EXCEPT !.orderLimit = s.orderLimit, !.positionLimit = s.positionLimit])

ConfigureTradingFee(m, s) ==
    Configure(m, [risk[m] EXCEPT !.fee = s.fee, !.insuranceShare = s.insuranceShare])

\* A cap of 0 disables deleveraging.
ConfigureAdlSafety(m, s) == Configure(m, [risk[m] EXCEPT !.adlCap = s.adlCap])

ConfigurePartialLiquidation(m, s) ==
    /\ s.reduction > 0
    /\ Configure(m, [risk[m] EXCEPT !.reduction = s.reduction, !.minRemaining = s.minRemaining])

ConfigureInsuranceCoverage(m, s) == Configure(m, [risk[m] EXCEPT !.coverage = s.coverage])

ConfigureFunding(m, s) ==
    s.fundingBound > 0 /\ Configure(m, [risk[m] EXCEPT !.fundingBound = s.fundingBound])

\* In the registry
SetRiskParameters(m, s) ==
    /\ s.leverage >= Bps /\ s.maintenance \in 1..(Bps - 1)
    /\ Configure(m, [risk[m] EXCEPT !.leverage = s.leverage, !.maintenance = s.maintenance])

MoveOracle(m, price) ==
    /\ price # oracle[m]
    /\ oracle' = [oracle EXCEPT ![m] = price]
    /\ UNCHANGED <<books, positions, interest, index, risk, gates, due, rounds>>

-----------------------------------------------------------------------------
(* LQCFuturesMarketRegistry.sol                                            *)

Gates == {"ACTIVE", "REDUCE_ONLY", "HALTED"}
Severity(mode) == CASE mode = "ACTIVE" -> 0 [] mode = "REDUCE_ONLY" -> 1 [] mode = "HALTED" -> 2

SetGate(m, mode, approved) ==
    /\ gates' = [gates EXCEPT ![m] = [mode |-> mode, active |-> mode # "HALTED", approved |-> approved]]
    /\ UNCHANGED <<books, positions, interest, index, risk, oracle, due, rounds>>

\* Mutant: the guardian must not go down, and ACTIVE is taken for that.
MayNotLoosen(old, new) == Severity(new) >= Severity(old)

GuardianMay(old, new) == new # "ACTIVE" /\ Severity(new) >= Severity(old)

SetEmergencyMarketMode(who, m, mode) ==
    /\ who = "guardian" => GuardianMay(gates[m].mode, mode)
    /\ SetGate(m, mode, gates[m].approved)

\* applyEmergencyTriggers, by owner or guardian with signals of their choice
ApplyEmergencyTriggers(m, healthy, allowed, indebted) ==
    LET target == IF ~healthy \/ ~allowed THEN "HALTED"
                  ELSE IF indebted /\ gates[m].mode = "ACTIVE" THEN "REDUCE_ONLY"
                  ELSE gates[m].mode
    IN  /\ target # gates[m].mode
        /\ SetGate(m, target, gates[m].approved)

SetRecoveryApproved(m, approved) ==
    /\ gates' = [gates EXCEPT ![m].approved = approved]
    /\ UNCHANGED <<books, positions, interest, index, risk, oracle, due, rounds>>

SetMarketMode(m, mode) ==
    /\ mode = "ACTIVE" => \/ gates[m].mode = "ACTIVE"
                          \/ gates[m].mode = "REDUCE_ONLY" /\ gates[m].approved
    /\ SetGate(m, mode, mode # "ACTIVE" /\ gates[m].approved)

SetMarketActive(m, active) ==
    /\ gates' = [gates EXCEPT ![m].active = active]
    /\ UNCHANGED <<books, positions, interest, index, risk, oracle, due, rounds>>

-----------------------------------------------------------------------------
\* A market that addMarket has made.
Unconfigured(s) == [k \in DOMAIN s |-> IF k \in {"leverage", "maintenance"} THEN s[k] ELSE 0]

PerpInit ==
    /\ books = [ok |-> TRUE, tokens |-> 0, accounted |-> 0, pool |-> 0, insurance |-> 0,
                treasury |-> 0, badDebt |-> 0, covered |-> 0,
                available |-> [a \in Holders |-> 0], locked |-> [a \in Holders |-> 0]]
    /\ positions = [a \in Holders |-> [m \in PerpMarkets |-> NoPerp]]
    /\ interest = [m \in PerpMarkets |-> 0] /\ index = [m \in PerpMarkets |-> 0]
    /\ risk \in [PerpMarkets -> {Unconfigured(s) : s \in RiskSettings}]
    /\ gates = [m \in PerpMarkets |-> [mode |-> "ACTIVE", active |-> TRUE, approved |-> FALSE]]
    /\ oracle \in [PerpMarkets -> PerpPrices]
    /\ due = 0 /\ rounds = 0

GuardianStep(m) ==
    \/ \E mode \in Gates : SetEmergencyMarketMode("guardian", m, mode)
    \/ \E healthy, allowed, indebted \in BOOLEAN : ApplyEmergencyTriggers(m, healthy, allowed, indebted)

RegistryNext ==
    \E m \in PerpMarkets :
        \/ GuardianStep(m)
        \/ \E mode \in Gates : SetEmergencyMarketMode("owner", m, mode) \/ SetMarketMode(m, mode)
        \/ \E b \in BOOLEAN : SetRecoveryApproved(m, b) \/ SetMarketActive(m, b)

VaultNext ==
    \/ \E a \in Holders, n \in Amounts : DepositCollateral(a, n) \/ WithdrawCollateral(a, n)
    \/ \E n \in Amounts : Endow(n)

EngineNext ==
    \E m \in PerpMarkets :
        \/ \E a \in Holders, margin \in Margins, size \in PerpSizes, long \in BOOLEAN :
               OpenPerp(a, m, margin, size, long)
        \/ \E a \in Holders : SettlePerpFunding(a, m) \/ LiquidatePerp(a, m)
        \/ \E a \in Holders, size \in Cuts : ReducePerp(a, m, size) \/ ExecuteAdl(a, m, size)
        \/ \E n \in FundingDeltas : UpdateFundingIndex(m, n) \/ UpdateFundingIndex(m, -n)
        \/ \E s \in RiskSettings :
               \/ ConfigureMarketOpenInterestLimit(m, s) \/ ConfigureMarketNotionalLimits(m, s)
               \/ ConfigureTradingFee(m, s) \/ ConfigureAdlSafety(m, s) \/ ConfigureFunding(m, s)
               \/ ConfigurePartialLiquidation(m, s) \/ ConfigureInsuranceCoverage(m, s)
               \/ SetRiskParameters(m, s)
        \/ \E price \in PerpPrices : MoveOracle(m, price)

PerpNext == RegistryNext \/ VaultNext \/ EngineNext
PerpSpec == PerpInit /\ [][PerpNext]_perpVars

-----------------------------------------------------------------------------
(* Properties.                                                             *)

\* The engine and the vault keep the same books although each is told of the
\* other's changes call by call: what an account has locked is the sum of its
\* margins over all markets (a funding debit stops at the margin of its own
\* position), and the open interest is the size of all positions.
BooksFollowPositions ==
    /\ \A a \in Holders :
          books.locked[a] = TotalOf([m \in PerpMarkets |-> positions[a][m].margin])
    /\ \A m \in PerpMarkets : interest[m] = TotalOf([a \in Holders |-> positions[a][m].size])

\* "Any uncovered remainder is explicit residual bad debt"
\* (LQCFuturesVault.sol:164): the vault is always fully backed, and accounts
\* hold more than they paid in and made only by deficits that insurance covered
\* or that are recorded as bad debt still to be absorbed.
LossesAreExplicit ==
    /\ books.tokens >= Claims(books)
    /\ books.accounted = TotalOf([a \in Holders |-> books.available[a] + books.locked[a]])
    /\ books.accounted = due + books.badDebt + books.covered

\* "Guardian may only escalate restrictions; only Governance may restore
\* ACTIVE" (LQCFuturesMarketRegistry.sol:99): mode and active are two switches
\* that four functions set, and no guardian's step lets a market that takes no
\* positions take them again.
OnlyOwnerReopens ==
    [][\A m \in PerpMarkets : ~MayOpen(gates[m]) /\ MayOpen(gates[m]') => ~GuardianStep(m)]_perpVars
=============================================================================
