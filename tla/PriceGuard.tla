------------------------------ MODULE PriceGuard ------------------------------
(***************************************************************************)
(* The guarded price service of the futures domain (oracle-price-service   *)
(* over oracle-guard), the readers that go through its status (market-data *)
(* gateway, price stream), and what depends on its health: the emergency   *)
(* state of the market (emergency-controls) and the exposure an order may  *)
(* add (market-risk-limits).                                               *)
(*                                                                         *)
(* Ratios are in 1/Scale.  A mark price is kept times Scale, so that the   *)
(* band around the index is a whole number.                                *)
(***************************************************************************)
EXTENDS Integers, Sequences, FiniteSets, FiniteSetsExt, SequencesExt

CONSTANTS
    Sources, SourcePrices,
    Scale,
    MinSources,    \* guardOptions.minSources
    MaxDeviation,  \* guardOptions.maxDeviationRatio
    MaxSpread,     \* guardOptions.maxSourceSpreadRatio
    MaxMove,       \* maxMoveRatio
    MarkBand,      \* maxMarkIndexDeviationRatio
    MaxAge,        \* guardOptions.maxAgeMs and maxReadAgeMs
    MaxExposure,   \* limits.maxPositionNotional, in lots
    MaxTime        \* bound: the clock

ASSUME PriceGuardAssumption ==
    /\ IsFiniteSet(Sources) /\ SourcePrices \subseteq Nat \ {0} /\ SourcePrices # {}
    /\ MinSources \in Nat \ {0, 1}
    /\ {Scale, MaxDeviation, MaxSpread, MaxMove, MarkBand, MaxAge} \subseteq Nat \ {0}
    /\ MaxExposure \in Nat /\ MaxTime \in Nat

VARIABLES
    now,       \* the clock
    feed,      \* feed[source] = [price, timestamp], what the provider returns
    quote,     \* the service's entry for the market
    market,    \* the emergency state
    exposure,  \* the signed position of the one trader, in lots
    verdict    \* how the last refresh ended

guardVars == <<now, feed, quote, market, exposure, verdict>>

NoQuote == [index |-> 0, mark |-> 0, updatedAt |-> 0]
MarketStates == {"ACTIVE", "REDUCE_ONLY", "HALTED"}

-----------------------------------------------------------------------------
(* oracle-guard.js                                                         *)

\* Mutant: the prices are not sorted.
MedianUnsorted(chosen) ==
    LET listed == SetToSeq(chosen)
    IN  feed[listed[Len(listed) \div 2 + 1]].price

\* sorted[k - 1], where sorted are the sources' prices in order.
RankedPrice(chosen, k) ==
    CHOOSE price \in {feed[s].price : s \in chosen} :
        /\ Cardinality({s \in chosen : feed[s].price < price}) < k
        /\ Cardinality({s \in chosen : feed[s].price <= price}) >= k

\* The median of the sources' prices; with an even number, the middle's mean.
MedianOf(chosen) ==
    LET n      == Cardinality(chosen)
        middle == n \div 2
    IN  IF n % 2 = 1 THEN RankedPrice(chosen, middle + 1)
        ELSE (RankedPrice(chosen, middle) + RankedPrice(chosen, middle + 1)) \div 2

LowestOf(chosen)  == Min({feed[s].price : s \in chosen})
HighestOf(chosen) == Max({feed[s].price : s \in chosen})

SpreadFits(chosen) ==
    Scale * (HighestOf(chosen) - LowestOf(chosen)) <= MaxSpread * LowestOf(chosen)

Distance(a, b) == IF a >= b THEN a - b ELSE b - a

FreshSources == {s \in Sources : now - feed[s].timestamp <= MaxAge}

\* Sources near the median of the fresh ones.
Accepted(chosen) ==
    {s \in chosen : Scale * Distance(feed[s].price, MedianOf(chosen))
                        <= MaxDeviation * MedianOf(chosen)}

\* validateOracleSources: "OK", or the error it throws.
Validation ==
    LET fresh == FreshSources
    IN  IF Cardinality(fresh) < MinSources THEN "INSUFFICIENT_FRESH_ORACLE_SOURCES"
        ELSE IF Cardinality(fresh) = 2 /\ ~SpreadFits(fresh)
        THEN "ORACLE_SOURCE_SPREAD_TOO_HIGH"
        ELSE IF Cardinality(Accepted(fresh)) < MinSources
        THEN "ORACLE_PRICE_DEVIATION_TOO_HIGH"
        ELSE IF ~SpreadFits(Accepted(fresh)) THEN "ORACLE_SOURCE_SPREAD_TOO_HIGH"
        ELSE "OK"

\* priceCircuitBreaker(..).allowed
MoveAllowed(previous, next) == Scale * Distance(next, previous) <= MaxMove * previous

-----------------------------------------------------------------------------
(* oracle-price-service.js                                                 *)

Between(low, x, high) == IF x < low THEN low ELSE IF x > high THEN high ELSE x

\* deriveMarkPrice: the previous mark, moved into the band around the index.
DerivedMark(index) ==
    IF quote = NoQuote THEN index * Scale
    ELSE Between(index * (Scale - MarkBand), quote.mark, index * (Scale + MarkBand))

\* getStatus: an entry older than MaxAge is unhealthy.
Healthy == quote # NoQuote /\ now - quote.updatedAt <= MaxAge

\* readablePrice: 0 stands for null, which the gateway answers with 503.
MarkPrice == IF Healthy THEN quote.mark ELSE 0

\* refresh: validate, compare with the entry, replace the entry.
Refresh ==
    LET index == MedianOf(Accepted(FreshSources))
    IN  /\ verdict' = IF Validation # "OK" THEN Validation
                      ELSE IF quote # NoQuote /\ ~MoveAllowed(quote.index, index)
                      THEN "ORACLE_PRICE_CIRCUIT_BREAKER"
                      ELSE "PUBLISHED"
        /\ quote' = IF verdict' = "PUBLISHED"
                    THEN [index |-> index, mark |-> DerivedMark(index), updatedAt |-> now]
                    ELSE quote
        /\ UNCHANGED <<now, feed, market, exposure>>

-----------------------------------------------------------------------------
(* emergency-controls.js                                                   *)

\* evaluateEmergencyTriggers: the state the market should be in.
EmergencyState == IF ~Healthy \/ verdict = "ORACLE_PRICE_CIRCUIT_BREAKER" THEN "HALTED" ELSE "ACTIVE"

\* transitionEmergencyState: HALTED is left for REDUCE_ONLY, and ACTIVE is
\* entered with an approval.
MayTransition(next, approved) ==
    /\ next # market
    /\ ~(market = "HALTED" /\ next = "ACTIVE")
    /\ next = "ACTIVE" => approved

\* A keeper halts the market on a trigger; an operator moves it in stages.
Keep ==
    /\ EmergencyState = "HALTED" /\ MayTransition("HALTED", FALSE)
    /\ market' = "HALTED"
    /\ UNCHANGED <<now, feed, quote, exposure, verdict>>

Operate(next, approved) ==
    /\ MayTransition(next, approved)
    /\ market' = next
    /\ UNCHANGED <<now, feed, quote, exposure, verdict>>

\* isGenuineRiskReduction: the other side, and no more than is held.
ReducesRisk(lots) ==
    \/ exposure > 0 /\ lots < 0 /\ -lots <= exposure
    \/ exposure < 0 /\ lots > 0 /\ lots <= -exposure

\* validateEmergencyOrder
OrderAllowed(lots, reduceOnly) ==
    \/ market = "ACTIVE"
    \/ market = "REDUCE_ONLY" /\ reduceOnly /\ ReducesRisk(lots)

\* validateExposureIncrease or validateRiskReducingOrder
ExposureFits(lots) ==
    \/ ReducesRisk(lots)
    \/ exposure * lots >= 0 /\ Distance(exposure, 0) + Distance(lots, 0) <= MaxExposure

\* An order taken by a caller that asks all three: the market's state, a
\* readable price and the limits.  The modules leave that caller to their user.
PlaceOrder(lots, reduceOnly) ==
    /\ OrderAllowed(lots, reduceOnly)
    /\ MarkPrice # 0
    /\ ExposureFits(lots)
    /\ exposure' = exposure + lots
    /\ UNCHANGED <<now, feed, quote, market, verdict>>

-----------------------------------------------------------------------------
(* The environment.                                                        *)

\* A source observes a price now.
Observe(s, price) ==
    /\ feed[s] # [price |-> price, timestamp |-> now]
    /\ feed' = [feed EXCEPT ![s] = [price |-> price, timestamp |-> now]]
    /\ UNCHANGED <<now, quote, market, exposure, verdict>>

Elapse ==
    /\ now < MaxTime
    /\ now' = now + 1
    /\ UNCHANGED <<feed, quote, market, exposure, verdict>>

GuardInit ==
    /\ now = 0
    /\ feed = [s \in Sources |-> [price |-> Min(SourcePrices), timestamp |-> 0]]
    /\ quote = NoQuote /\ market = "ACTIVE" /\ exposure = 0 /\ verdict = "NONE"

GuardNext ==
    \/ Refresh
    \/ Keep
    \/ \E next \in MarketStates, approved \in BOOLEAN : Operate(next, approved)
    \/ \E lots \in {-1, 1}, reduceOnly \in BOOLEAN : PlaceOrder(lots, reduceOnly)
    \/ \E s \in Sources, price \in SourcePrices : Observe(s, price)
    \/ Elapse

GuardSpec == GuardInit /\ [][GuardNext]_guardVars

-----------------------------------------------------------------------------
(* Properties.                                                             *)

\* One source, whatever it reports, does not move the published index out of
\* the range of the others, when they are fresh and agree: the median of the
\* accepted sources is theirs although acceptance is itself judged by a median
\* that the odd source takes part in.
OneSourceCannotMoveIndex ==
    [][\A s \in FreshSources :
         LET others == FreshSources \ {s}
         IN  /\ quote' # quote /\ Cardinality(others) >= 2
             /\ Scale * (HighestOf(others) - LowestOf(others)) <= MaxDeviation * LowestOf(others)
             => quote'.index \in LowestOf(others)..HighestOf(others)]_guardVars
=============================================================================
