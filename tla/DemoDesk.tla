------------------------------ MODULE DemoDesk ------------------------------
(***************************************************************************)
(* The futures demo desk of the browser (app/futures/ui.js): one margin    *)
(* account, one position book, the resting limit orders, and the handlers  *)
(* that the buttons and the price feed call.  Every handler runs to the    *)
(* end or to the first exception; what it changed before the exception     *)
(* stays changed, and "outcome" is what it threw.                          *)
(***************************************************************************)
EXTENDS MarginAccount, AccountSums, Sequences, SequencesExt

CONSTANTS
    Symbols,         \* the listed markets
    Marks,           \* prices the feed can show
    TickSize,        \* market.tickSize
    InitialBalance,  \* createDemoMarginAccount(initialBalance)
    Quantities,      \* order sizes, in steps of market.stepSize
    Leverages,       \* leverages an order can ask for
    Triggers,        \* take-profit and stop-loss prices (0: none)
    MaxSubmits,      \* bound: orders submitted in one behaviour
    MaxOrders        \* bound: resting orders

ASSUME DeskAssumption ==
    /\ Marks \subseteq Nat \ {0} /\ Triggers \subseteq Nat
    /\ TickSize \in Nat \ {0} /\ InitialBalance \in Nat
    /\ Quantities \subseteq Nat \ {0}
    /\ Leverages \subseteq 1..MaxLeverage
    /\ IsFiniteSet(Symbols) /\ MaxSubmits \in Nat

VARIABLES
    mark,     \* mark[symbol]: what mark(symbol) returns
    account,  \* the margin account
    book,     \* the Map of positions, in insertion order
    orders,   \* openOrders
    submits,  \* orders submitted so far (order ids)
    outcome   \* "OK", or what the last handler threw

vars == <<mark, account, book, orders, submits, outcome>>

\* The state a handler works on; it stops changing once error is set.
Desk == [account |-> account, book |-> book, orders |-> orders, error |-> "OK"]

Fail(d, code) == [d EXCEPT !.error = code]
OnTick(price) == price % TickSize = 0

\* list.filter(element => element is in the set)
Within(list, set) ==
    LET kept[i \in 0..Len(list)] ==
          IF i = 0 THEN <<>>
          ELSE IF list[i] \in set THEN Append(kept[i - 1], list[i]) ELSE kept[i - 1]
    IN  kept[Len(list)]

\* for (const element of list) handle(element)
ForEach(list, d, Handle(_, _)) ==
    LET after[i \in 0..Len(list)] ==
          IF i = 0 THEN d ELSE Handle(after[i - 1], list[i])
    IN  after[Len(list)]

KeyOf(p) == <<p.symbol, p.side, p.mode>>
IndexOf(positions, key) == {i \in DOMAIN positions : KeyOf(positions[i]) = key}
Get(positions, key) == positions[CHOOSE i \in IndexOf(positions, key) : TRUE]
Holds(positions, key) == IndexOf(positions, key) # {}
Put(positions, p) ==
    [i \in DOMAIN positions |-> IF KeyOf(positions[i]) = KeyOf(p) THEN p ELSE positions[i]]
Without(positions, key) == Within(positions, {p \in ToSet(positions) : KeyOf(p) # key})
OrdersBut(resting, id) == Within(resting, {o \in ToSet(resting) : o.id # id})

-----------------------------------------------------------------------------
(* The position book.                                                      *)

\* A fill of order o at a price, as positionBook.add receives it.
PositionOf(o, price) ==
    [symbol |-> o.symbol, side |-> o.side, mode |-> o.mode, qty |-> o.qty,
     cost |-> o.qty * price, collateral |-> o.margin, tp |-> o.tp, sl |-> o.sl]

Merged(p, f) ==
    [p EXCEPT !.qty = @ + f.qty, !.cost = @ + f.cost,
              !.collateral = @ + f.collateral,
              !.tp = IF f.tp # 0 THEN f.tp ELSE @,
              !.sl = IF f.sl # 0 THEN f.sl ELSE @]

\* openPosition: add the fill to the book.  The margin was reserved when the
\* order was submitted.
OpenPosition(d, o, price) ==
    LET fill == PositionOf(o, price)
        held == Holds(d.book, KeyOf(fill))
        next == IF held THEN Merged(Get(d.book, KeyOf(fill)), fill) ELSE fill
    IN  IF ~OnTick(price) THEN Fail(d, "PRICE_TICK_MISMATCH")
        ELSE IF ~LeverageFits(next.cost, next.collateral) THEN Fail(d, "LEVERAGE")
        ELSE IF held THEN [d EXCEPT !.book = Put(@, next)]
        ELSE [d EXCEPT !.book = Append(@, next)]

\* reduceDemoPosition: the same share of cost and collateral leaves.  Shares
\* round down to whole units here.
Reduced(p, q) ==
    [p EXCEPT !.qty = @ - q, !.cost = @ - (@ * q) \div p.qty,
              !.collateral = @ - (@ * q) \div p.qty]

\* settleReduction: the book is reduced first, then the account settles.
SettleReduction(d, p, q, m) ==
    LET released == (p.collateral * q) \div p.qty
        pnl      == (Pnl(p, m[p.symbol]) * q) \div p.qty
        reduced  == IF q = p.qty THEN [d EXCEPT !.book = Without(@, KeyOf(p))]
                    ELSE [d EXCEPT !.book = Put(@, Reduced(p, q))]
    IN  IF ~Holds(d.book, KeyOf(p)) THEN Fail(d, "NO_POSITION_TO_REDUCE")
        ELSE IF CanRelease(d.account, released, pnl, p.mode)
        THEN [reduced EXCEPT !.account = Release(@, released, pnl, p.mode)]
        ELSE Fail(reduced, "REALIZED_LOSS_EXCEEDS_ACCOUNT_EQUITY")

LiquidateIsolated(d, p) ==
    LET removed == [d EXCEPT !.book = Without(@, KeyOf(p))]
    IN  IF CanConsume(d.account, p.collateral, "ISOLATED")
        THEN [removed EXCEPT !.account = ConsumeLiquidation(@, p.collateral, "ISOLATED")]
        ELSE Fail(removed, "LIQUIDATION_CONSUME_EXCEEDS_RESERVED")

-----------------------------------------------------------------------------
(* Cross margin: all cross positions share the account's equity.           *)

CrossOf(positions) == Within(positions, {p \in ToSet(positions) : p.mode = "CROSS"})
NotCross(positions) == Within(positions, {p \in ToSet(positions) : p.mode # "CROSS"})

SumOver(positions, Value(_)) == ForEach(positions, 0, LAMBDA sum, p : sum + Value(p))

CrossEquity(d, m) ==
    CrossWallet(d.account) + SumOver(CrossOf(d.book), LAMBDA p : Pnl(p, m[p.symbol]))

CrossLiquidatable(d, m) ==
    /\ CrossOf(d.book) # <<>>
    /\ MarginDivisor * CrossEquity(d, m)
         <= SumOver(CrossOf(d.book), LAMBDA p : Notional(p, m[p.symbol]))

\* liquidateCrossIfRequired: this page gives the controller no insurance, so
\* an account in bad debt cannot be liquidated.
LiquidateCross(d, m) ==
    LET equity == CrossEquity(d, m)
    IN  IF equity < 0 THEN Fail(d, "BAD_DEBT_RESOLUTION_REQUIRED")
        ELSE [d EXCEPT !.book = NotCross(@),
                       !.account.cash = equity, !.account.cross = 0]

-----------------------------------------------------------------------------
(* evaluate(): fill the orders that are hit, then trigger positions one by *)
(* one, then look at the cross account.                                    *)

Hit(o, m) == IF o.side = "LONG" THEN m[o.symbol] <= o.price ELSE m[o.symbol] >= o.price

FillOrder(d, o, m) ==
    IF d.error = "OK" /\ Hit(o, m)
    THEN OpenPosition([d EXCEPT !.orders = OrdersBut(@, o.id)], o, o.price)
    ELSE d

Triggered(p, m) ==
    LET price == m[p.symbol]
    IN  IF p.side = "LONG"
        THEN (p.tp # 0 /\ price >= p.tp) \/ (p.sl # 0 /\ price <= p.sl)
        ELSE (p.tp # 0 /\ price <= p.tp) \/ (p.sl # 0 /\ price >= p.sl)

IsolatedDue(p, m) == p.mode = "ISOLATED" /\ Liquidatable(p, m[p.symbol])

EvaluatePosition(d, p, m) ==
    IF d.error # "OK" THEN d
    ELSE IF IsolatedDue(p, m) THEN LiquidateIsolated(d, p)
    ELSE IF Triggered(p, m) THEN SettleReduction(d, p, p.qty, m)
    ELSE d

FillOrders(d, m) == ForEach(d.orders, d, LAMBDA x, o : FillOrder(x, o, m))

EvaluatePositions(d, m) == ForEach(d.book, d, LAMBDA x, p : EvaluatePosition(x, p, m))

\* Mutant: the positions to judge are listed before the orders are filled.
EvaluateListedFirst(d, m) ==
    LET filled    == FillOrders(d, m)
        triggered == ForEach(d.book, filled, LAMBDA x, p : EvaluatePosition(x, p, m))
    IN  IF triggered.error = "OK" /\ CrossLiquidatable(triggered, m)
        THEN LiquidateCross(triggered, m)
        ELSE triggered

Evaluate(d, m) ==
    LET triggered == EvaluatePositions(FillOrders(d, m), m)
    IN  IF triggered.error = "OK" /\ CrossLiquidatable(triggered, m)
        THEN LiquidateCross(triggered, m)
        ELSE triggered

Becomes(result) ==
    \E d \in {result} : /\ account' = d.account /\ book' = d.book
                       /\ orders' = d.orders /\ outcome' = d.error

-----------------------------------------------------------------------------
(* Handlers.                                                               *)

Init ==
    /\ mark \in [Symbols -> Marks]
    /\ account = NewAccount(InitialBalance)
    /\ book = <<>> /\ orders = <<>> /\ submits = 0 /\ outcome = "OK"

\* The feed shows a new price: refreshMarketData evaluates the desk.
MoveMark(s, price) ==
    /\ price # mark[s]
    /\ mark' = [mark EXCEPT ![s] = price]
    /\ Becomes(Evaluate(Desk, mark'))
    /\ UNCHANGED submits

\* validateDemoOrder: a limit price is on tick, triggers are on tick and on
\* the right side of the reference price.
ValidOrder(o, type) ==
    LET above(t) == t = 0 \/ (OnTick(t) /\ t > o.price)
        below(t) == t = 0 \/ (OnTick(t) /\ t < o.price)
    IN  /\ type = "LIMIT" => OnTick(o.price)
        /\ IF o.side = "LONG" THEN above(o.tp) /\ below(o.sl)
                              ELSE below(o.tp) /\ above(o.sl)

\* buildDemoOrder at a reference price.
Order(s, side, mode, q, lev, price, tp, sl) ==
    [id |-> submits + 1, symbol |-> s, side |-> side, mode |-> mode, qty |-> q,
     price |-> price, margin |-> (q * price) \div lev, tp |-> tp, sl |-> sl]

\* submit: reserve the margin, then rest the order or open the position.
Submit(o, type) ==
    /\ submits < MaxSubmits
    /\ ValidOrder(o, type)
    /\ CanReserve(account, o.margin)
    /\ submits' = submits + 1
    /\ LET reserved == [Desk EXCEPT !.account = Reserve(@, o.margin, o.mode)]
       IN  \/ /\ type = "LIMIT"
              /\ Len(orders) < MaxOrders
              /\ Becomes(Evaluate([reserved EXCEPT !.orders = Append(@, o)], mark))
           \/ /\ type = "MARKET"
              /\ Becomes(OpenPosition(reserved, o, o.price))
    /\ UNCHANGED mark

\* The reduce-only box: take q off the opposite position.
ReduceOnly(s, side, mode, q) ==
    LET key == <<s, side, mode>>
    IN  /\ Holds(book, key)
        /\ q <= Get(book, key).qty
        /\ Becomes(SettleReduction(Desk, Get(book, key), q, mark))
        /\ UNCHANGED <<mark, submits>>

\* The 25 %, 50 % and 100 % buttons of a position; shares round down to steps.
ClosePercent(p, percent) ==
    LET q == (p.qty * percent) \div 100
    IN  /\ q > 0
        /\ Becomes(SettleReduction(Desk, p, q, mark))
        /\ UNCHANGED <<mark, submits>>

\* Mutant: the order stays in the list.
CancelKeepsOrder(o) ==
    /\ CanRelease(account, o.margin, 0, o.mode)
    /\ Becomes([Desk EXCEPT !.account = Release(@, o.margin, 0, o.mode)])
    /\ UNCHANGED <<mark, submits>>

\* cancelOrder: release the margin, then drop the order.
CancelOrder(o) ==
    /\ IF CanRelease(account, o.margin, 0, o.mode)
       THEN Becomes([Desk EXCEPT !.account = Release(@, o.margin, 0, o.mode),
                                 !.orders = OrdersBut(@, o.id)])
       ELSE Becomes(Fail(Desk, "MARGIN_RELEASE_EXCEEDS_RESERVED"))
    /\ UNCHANGED <<mark, submits>>

SubmitOrder ==
    \E s \in Symbols, side \in Sides, mode \in Modes, q \in Quantities,
       lev \in Leverages, tp \in Triggers, sl \in Triggers :
        \/ Submit(Order(s, side, mode, q, lev, mark[s], tp, sl), "MARKET")
        \/ \E price \in Marks :
               Submit(Order(s, side, mode, q, lev, price, tp, sl), "LIMIT")

-----------------------------------------------------------------------------
(* The account and position API (account-position-api.js) on the same      *)
(* account and book: what its signed reads answer at the given marks.      *)

\* A position by itself, whatever its margin mode.
PublicPosition(p, m) ==
    [symbol |-> p.symbol, side |-> p.side, mode |-> p.mode, qty |-> p.qty,
     collateral |-> p.collateral, unrealizedPnl |-> Pnl(p, m[p.symbol]),
     equity |-> p.collateral + Pnl(p, m[p.symbol]),
     liquidatable |-> Liquidatable(p, m[p.symbol]), tp |-> p.tp, sl |-> p.sl]

\* positions(): those of the symbols asked for, one or all, in the book's order.
PositionsOf(d, m, symbols) ==
    LET asked == Within(d.book, {p \in ToSet(d.book) : p.symbol \in symbols})
    IN  [i \in DOMAIN asked |-> PublicPosition(asked[i], m)]

AccountInfo(d, m) ==
    LET upnl(positions) == SumOver(positions, LAMBDA p : Pnl(p, m[p.symbol]))
    IN  [available |-> d.account.cash, isolatedReserved |-> d.account.isolated,
         crossReserved |-> d.account.cross, crossWallet |-> CrossWallet(d.account),
         isolatedUnrealizedPnl |-> upnl(NotCross(d.book)),
         crossUnrealizedPnl |-> upnl(CrossOf(d.book)), totalUnrealizedPnl |-> upnl(d.book),
         crossEquity |-> CrossEquity(d, m), crossLiquidatable |-> CrossLiquidatable(d, m),
         positionCount |-> Len(d.book)]
-----------------------------------------------------------------------------
MaxQuantity == MaxSubmits * Max(Quantities)

Next ==
    \/ \E s \in Symbols, price \in Marks : MoveMark(s, price)
    \/ SubmitOrder
    \/ \E s \in Symbols, side \in Sides, mode \in Modes :
           \E q \in 1..MaxQuantity : ReduceOnly(s, side, mode, q)
    \/ \E i \in DOMAIN book, percent \in {25, 50, 100} : ClosePercent(book[i], percent)
    \/ \E i \in DOMAIN orders : CancelOrder(orders[i])

Spec == Init /\ [][Next]_vars

-----------------------------------------------------------------------------
(* Properties.                                                             *)

\* The variables have their types and the book holds one position per
\* symbol, side and margin mode.
TypeOK ==
    /\ mark \in [Symbols -> Marks]
    /\ account \in Account
    /\ account.cash >= 0 /\ account.isolated >= 0 /\ account.cross >= 0
    /\ \A i \in DOMAIN book :
          /\ book[i].qty > 0 /\ book[i].collateral > 0
          /\ IndexOf(book, KeyOf(book[i])) = {i}
    /\ \A i, j \in DOMAIN orders : orders[i].id = orders[j].id => i = j

Collateral(positions, key) == IF Holds(positions, key) THEN Get(positions, key).collateral ELSE 0
Margin(resting, mode, id) ==
    LET those == {i \in DOMAIN resting : resting[i].id = id /\ resting[i].mode = mode}
    IN  IF those # {} THEN resting[CHOOSE i \in those : TRUE].margin ELSE 0

MarginInUse(d, mode) ==
    TotalOf([key \in Symbols \X Sides \X {mode} |-> Collateral(d.book, key)])
      + TotalOf([id \in 1..MaxSubmits |-> Margin(d.orders, mode, id)])

\* Whatever handlers throw half way, the isolated reserve covers the collateral
\* of every isolated position and the margin of every isolated resting order.
IsolatedMarginBacked == account.isolated >= MarginInUse(Desk, "ISOLATED")

\* One pass of evaluate() is enough: after a price move that did not throw, no
\* resting order is hit, no position is triggered, and the account API reports
\* no isolated position and no cross account as liquidatable, although the pass
\* filled orders and moved cash while it ran.
OnePassSuffices ==
    [][mark' # mark /\ outcome' = "OK" =>
         LET after == [account |-> account', book |-> book']
             shown == PositionsOf(after, mark', Symbols)
         IN  /\ \A i \in DOMAIN orders' : ~Hit(orders'[i], mark')
             /\ \A i \in DOMAIN book' : ~Triggered(book'[i], mark')
             /\ \A i \in DOMAIN shown : shown[i].mode = "ISOLATED" => ~shown[i].liquidatable
             /\ ~AccountInfo(after, mark').crossLiquidatable]_vars
=============================================================================
