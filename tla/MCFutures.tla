------------------------------ MODULE MCFutures ------------------------------
(***************************************************************************)
(* Model checking of the futures demo and of the futures contracts.  The   *)
(* parts share no state: every behaviour takes one of them, and the others *)
(* stay as they start.                                                     *)
(***************************************************************************)
EXTENDS DemoDesk, FuturesSettlement, PriceGuard, MarketView, TradingApi,
        StreamFeed, PerpEngine

VARIABLE machine

MCPermissions == [trader |-> {"READ", "TRADE"}, reader |-> {"READ"}]

MCRequests ==
  {[key |-> "trader", nonce |-> 1, timestamp |-> 1, window |-> 1, op |-> "limit", order |-> 0],
   [key |-> "trader", nonce |-> 2, timestamp |-> 2, window |-> 1, op |-> "cancel", order |-> 1],
   [key |-> "reader", nonce |-> 2, timestamp |-> 4, window |-> 1, op |-> "read", order |-> 0],
   [key |-> "reader", nonce |-> 1, timestamp |-> 1, window |-> 1, op |-> "market", order |-> 0]}

MCRiskSettings ==
  {[fee |-> 1, insuranceShare |-> 4, coverage |-> 2, reduction |-> 2, minRemaining |-> 1,
    adlCap |-> 4, maintenance |-> 1, leverage |-> 8, fundingBound |-> 1,
    orderLimit |-> 4, positionLimit |-> 4, oiLimit |-> 8],
   [fee |-> 0, insuranceShare |-> 0, coverage |-> 0, reduction |-> 0, minRemaining |-> 0,
    adlCap |-> 0, maintenance |-> 1, leverage |-> 4, fundingBound |-> 0,
    orderLimit |-> 0, positionLimit |-> 0, oiLimit |-> 0]}

\* First one market is configured; the other keeps its price and takes no
\* funding.  Then the contracts are funded with all the tokens there are and a
\* deposit per holder at most; what is less comes about by withdrawals.  The
\* registry only decides whether positions open: its machine is a part of its own.
Configured == risk["m1"] \in MCRiskSettings /\ risk["m1"].fee > 0

MCEngineNext ==
  \/ /\ Configured /\ VaultNext
     /\ books'.tokens > books.tokens =>
          /\ rounds = 0
          /\ \A h \in Holders : books'.available[h] \in {books.available[h], Max(Amounts)}
  \/ /\ EngineNext
     /\ IF Configured /\ (books.tokens = MaxTokens \/ rounds > 0)
        THEN risk' = risk ELSE ~Configured /\ risk' # risk
     /\ \A m \in PerpMarkets \ {"m1"} :
           oracle'[m] = oracle[m] /\ index'[m] = index[m] /\ risk'[m] = risk[m]

\* The state of the market and the exposure follow the price and never lead it:
\* they move when the clock is at its bound and every source at the lowest
\* price, whatever was published before, and the sources wait until they are
\* back.
MCGuardNext ==
  /\ GuardNext
  /\ IF <<market, exposure>>' = <<market, exposure>>
     THEN market = "ACTIVE" /\ exposure = 0
     ELSE now = MaxTime /\ \A s \in Sources : feed[s].price = Min(SourcePrices)

MCInit ==
  /\ machine \in {"desk", "settlement", "guard", "view", "api", "stream", "engine", "registry"}
  /\ Init /\ (machine # "desk" => mark = [s \in Symbols |-> 8])
  /\ SettlementInit /\ (machine # "settlement" => traderMark = 4)
  /\ PerpInit /\ oracle = [m \in PerpMarkets |-> 4]
  /\ \A m \in PerpMarkets : risk[m].leverage = 8
  /\ GuardInit /\ ViewInit /\ ApiInit /\ StreamInit

MCNext ==
  /\ UNCHANGED machine
  /\ \/ machine = "desk" /\ Next
          /\ UNCHANGED <<settlementVars, guardVars, viewVars, apiVars, streamVars, perpVars>>
     \/ machine = "settlement" /\ SettlementNext
          /\ UNCHANGED <<vars, guardVars, viewVars, apiVars, streamVars, perpVars>>
     \/ machine = "guard" /\ MCGuardNext
          /\ UNCHANGED <<vars, settlementVars, viewVars, apiVars, streamVars, perpVars>>
     \/ machine = "view" /\ ViewNext
          /\ UNCHANGED <<vars, settlementVars, guardVars, apiVars, streamVars, perpVars>>
     \/ machine = "api" /\ ApiNext
          /\ UNCHANGED <<vars, settlementVars, guardVars, viewVars, streamVars, perpVars>>
     \/ machine = "stream" /\ StreamNext
          /\ UNCHANGED <<vars, settlementVars, guardVars, viewVars, apiVars, perpVars>>
     \/ machine = "engine" /\ MCEngineNext
          /\ UNCHANGED <<vars, settlementVars, guardVars, viewVars, apiVars, streamVars>>
     \/ machine = "registry" /\ RegistryNext
          /\ UNCHANGED <<vars, settlementVars, guardVars, viewVars, apiVars, streamVars>>

MCSpec == MCInit /\ [][MCNext]_<<machine, vars, settlementVars, guardVars, viewVars, apiVars,
                                streamVars, perpVars>>
=============================================================================
