------------------------------ MODULE MarketView ------------------------------
(***************************************************************************)
(* How the futures page gets its prices: the session                       *)
(* (ui-market-data-session.js) over the view (ui-market-data-view.js) over *)
(* the transport client.  Selecting a symbol starts an asynchronous load;  *)
(* the answer comes whenever it comes, also after other selections.  A     *)
(* price is the number of price changes the server had seen when it        *)
(* answered; 0 stands for no price.                                        *)
(***************************************************************************)
EXTENDS Integers, FiniteSets

CONSTANTS
    Markets,
    NoMarket,
    MaxSelections,  \* bound: calls of select
    MaxTicks        \* bound: price changes of a market

ASSUME MarketViewAssumption ==
    /\ NoMarket \notin Markets
    /\ MaxSelections \in Nat /\ MaxTicks \in Nat

VARIABLES
    latest,      \* latest[m]: the server's price
    selectionId, \* the session's selections
    selected,    \* the session's activeSymbol
    live,        \* livePrices, 0 where the Map has no entry
    source,      \* what the page says the price comes from
    viewing,     \* the view's activeSymbol
    socket,      \* the market the open socket streams
    loads        \* pending loads: [id, market, answer]; answer is 0 until the
                 \* server answers and -1 when it fails

viewVars == <<latest, selectionId, selected, live, source, viewing, socket, loads>>

\* markPrice: the live price, or the demo price (0).
ShownPrice(m) == live[m]

\* accept: a state of the selected symbol; with a price, that is the live one.
Accept(m, price, isLive) ==
    IF m = selected /\ price > 0
    THEN live' = [live EXCEPT ![m] = price] /\ source' = IF isLive THEN "LIVE" ELSE "REST"
    ELSE UNCHANGED <<live, source>>

\* load: the view asks the client for the market's state.
Requested(m) == loads \cup {[id |-> selectionId', market |-> m, answer |-> 0]}

\* select, up to the await: the socket closes, the price is forgotten and the
\* load of the view begins.
Select(m) ==
    /\ selectionId < MaxSelections
    /\ selectionId' = selectionId + 1
    /\ selected' = m /\ viewing' = m /\ socket' = NoMarket
    /\ live' = [live EXCEPT ![m] = 0] /\ source' = "DEMO"
    /\ loads' = Requested(m)
    /\ UNCHANGED latest

\* The view publishes the answer of a load when it still views that market.
Published(l) ==
    IF viewing = l.market THEN Accept(l.market, l.answer, FALSE) ELSE UNCHANGED <<live, source>>

\* subscribeMarkPrice: a socket of the market, its handler in the view.
Subscribed(m) == viewing' = m /\ socket' = m

\* Mutant: the selection is not compared after the await.
LoadedForAnySelection(l) ==
    /\ l \in loads /\ l.answer > 0
    /\ loads' = loads \ {l}
    /\ Accept(l.market, l.answer, FALSE)
    /\ Subscribed(l.market)
    /\ UNCHANGED <<latest, selectionId, selected>>

\* The load resolves.  The newest selection goes on to start the stream.
Loaded(l) ==
    /\ l \in loads /\ l.answer > 0
    /\ loads' = loads \ {l}
    /\ Published(l)
    /\ IF l.id = selectionId
       THEN Subscribed(l.market)
       ELSE UNCHANGED <<viewing, socket>>
    /\ UNCHANGED <<latest, selectionId, selected>>

\* The load rejects: the newest selection falls back to the demo price.
LoadFailed(l) ==
    /\ l \in loads /\ l.answer = -1
    /\ loads' = loads \ {l}
    /\ IF l.id = selectionId
       THEN live' = [live EXCEPT ![l.market] = 0] /\ source' = "DEMO"
       ELSE UNCHANGED <<live, source>>
    /\ UNCHANGED <<latest, selectionId, selected, viewing, socket>>

\* The socket delivers a price of its market to the view's handler.
Streamed(m) ==
    /\ socket = m
    /\ viewing = m
    /\ Accept(m, latest[m], TRUE)
    /\ UNCHANGED <<latest, selectionId, selected, viewing, socket, loads>>

\* stop: later answers find another selection, and no selected symbol.
StopSession ==
    /\ selectionId < MaxSelections /\ selected # NoMarket
    /\ selectionId' = selectionId + 1
    /\ selected' = NoMarket /\ socket' = NoMarket
    /\ UNCHANGED <<latest, live, source, viewing, loads>>

\* The server answers a load, or fails it.
Answer(l) ==
    /\ l \in loads /\ l.answer = 0
    /\ \E answer \in {latest[l.market], -1} :
          loads' = (loads \ {l}) \cup {[l EXCEPT !.answer = answer]}
    /\ UNCHANGED <<latest, selectionId, selected, live, source, viewing, socket>>

ServerTick(m) ==
    /\ latest[m] < MaxTicks
    /\ latest' = [latest EXCEPT ![m] = @ + 1]
    /\ UNCHANGED <<selectionId, selected, live, source, viewing, socket, loads>>

ViewInit ==
    /\ latest = [m \in Markets |-> 1] /\ selectionId = 0
    /\ selected = NoMarket /\ viewing = NoMarket /\ socket = NoMarket
    /\ live = [m \in Markets |-> 0] /\ source = "DEMO" /\ loads = {}

ViewNext ==
    \/ \E m \in Markets : Select(m) \/ Streamed(m) \/ ServerTick(m)
    \/ \E l \in loads : Answer(l) \/ Loaded(l) \/ LoadFailed(l)
    \/ StopSession

ViewSpec == ViewInit /\ [][ViewNext]_viewVars

-----------------------------------------------------------------------------
(* Properties.                                                             *)

\* The one socket that is open streams the selected market: a load that comes
\* back after another selection, or after stop, opens no stream, and a page
\* that shows live prices shows those of the market it is on.
StreamFollowsSelection ==
    /\ socket # NoMarket => socket = selected /\ socket = viewing
    /\ source # "DEMO" /\ selected # NoMarket => live[selected] > 0
=============================================================================
