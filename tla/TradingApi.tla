------------------------------ MODULE TradingApi ------------------------------
(***************************************************************************)
(* The authenticated trading API of the futures domain                     *)
(* (trading-api-service.js) and its request check (api-auth-contract.js).  *)
(* A call awaits twice, for the API key and for the signature check, and   *)
(* then acts at once.  The time a call is judged by is read between the    *)
(* two awaits.  A signed request can arrive more than once, at any time.   *)
(***************************************************************************)
EXTENDS Integers, Sequences, FiniteSets, FiniteSetsExt

CONSTANTS
    Requests,       \* signed requests: [key, nonce, timestamp, window, op, order]
    Permissions,    \* Permissions[key]: the permissions of its descriptor
    MaxRecvWindow,  \* MAX_RECV_WINDOW_MS
    ReplayTtl,      \* ttlMs of createReplayGuard
    MaxEntries,     \* maxEntries of createReplayGuard
    MaxVerifying,   \* time a signature check may take
    MaxCalls,       \* bound: calls
    MaxClock        \* bound: the clock

ASSUME TradingApiAssumption ==
    /\ \A r \in Requests : r.timestamp \in Nat /\ r.window \in 1..MaxRecvWindow
    /\ {MaxRecvWindow, ReplayTtl, MaxEntries} \subseteq Nat \ {0}
    /\ MaxVerifying \in Nat /\ MaxCalls \in Nat /\ MaxClock \in Nat

VARIABLES
    clock,
    calls,     \* calls in progress: [id, request, serverTime]; -1: key pending
    callCount,
    seen,      \* the replay guard's Map: entries [key, nonce, expiresAt, place in the Map]
    accepted,  \* how often each request was carried out
    apiOrders, \* the orders by number: [key, status]
    reply      \* the answer of the last finished call

apiVars == <<clock, calls, callCount, seen, accepted, apiOrders, reply>>

Keys == DOMAIN Permissions

-----------------------------------------------------------------------------
(* api-auth-contract.js                                                    *)

RequiredPermission(op) == IF op = "read" THEN "READ" ELSE "TRADE"

\* validateRequestTimestamp
TimestampFits(r, serverTime) ==
    /\ r.timestamp - serverTime <= r.window
    /\ serverTime - r.timestamp <= r.window

\* prune: drop the expired entries, then the oldest above the limit.
Pruned(entries, time) ==
    LET kept == {e \in entries : e.expiresAt > time}
    IN  {e \in kept : Cardinality({f \in kept : f.place >= e.place}) <= MaxEntries}

Known(entries, r) == \E e \in entries : e.key = r.key /\ e.nonce = r.nonce

\* A Map lists what was set last at its end.
Inserted(entries, r, expiresAt) ==
    entries \cup {[key |-> r.key, nonce |-> r.nonce, expiresAt |-> expiresAt,
                  place |-> Max({e.place : e \in entries} \cup {0}) + 1]}

\* Mutant: entries older than the receive window are dropped.
ConsumedForWindow(r, time) == Pruned(Inserted(Pruned(seen, time), r, time + r.window), time)

\* consume, for a nonce that is not known.
Consumed(r, time) == Pruned(Inserted(Pruned(seen, time), r, time + ReplayTtl), time)

-----------------------------------------------------------------------------
(* trading-api-service.js                                                  *)

Arrive(r) ==
    /\ callCount < MaxCalls
    /\ callCount' = callCount + 1
    /\ calls' = calls \cup {[id |-> callCount', request |-> r, serverTime |-> -1]}
    /\ UNCHANGED <<clock, seen, accepted, apiOrders, reply>>

\* The key is resolved: permission and timestamp are checked, and the
\* signature check begins.
KeyResolved(c) ==
    /\ c \in calls /\ c.serverTime = -1
    /\ IF RequiredPermission(c.request.op) \notin Permissions[c.request.key]
       THEN calls' = calls \ {c} /\ reply' = "API_PERMISSION_DENIED"
       ELSE IF ~TimestampFits(c.request, clock)
       THEN calls' = calls \ {c} /\ reply' = "REQUEST_TIMESTAMP_EXPIRED"
       ELSE calls' = (calls \ {c}) \cup {[c EXCEPT !.serverTime = clock]} /\ UNCHANGED reply
    /\ UNCHANGED <<clock, callCount, seen, accepted, apiOrders>>

OwnOpenOrder(r) ==
    /\ r.order \in DOMAIN apiOrders
    /\ apiOrders[r.order] = [key |-> r.key, status |-> "OPEN_DEMO"]

\* createOrder after authentication: a market order is filled at once.  Without
\* a mark price, or for an order that is not valid, nothing is stored; the nonce
\* is used up.
CreateOrder(r) ==
    /\ r.op \in {"market", "limit"}
    /\ \/ /\ apiOrders' = apiOrders
          /\ reply' = "MARK_PRICE_UNAVAILABLE"
       \/ /\ reply' = IF r.op = "market" THEN "FILLED_DEMO" ELSE "OPEN_DEMO"
          /\ apiOrders' = Append(apiOrders, [key |-> r.key, status |-> reply'])

\* cancelOrder after authentication
CancelApiOrder(r) ==
    /\ r.op = "cancel"
    /\ IF OwnOpenOrder(r)
       THEN apiOrders' = [apiOrders EXCEPT ![r.order].status = "CANCELLED_DEMO"]
            /\ reply' = "CANCELLED_DEMO"
       ELSE UNCHANGED apiOrders /\ reply' = "ORDER_NOT_CANCELABLE"

\* openOrders and userTrades: how many of the key's own orders they list.
OpenOrders(key) == Cardinality({i \in DOMAIN apiOrders :
                       apiOrders[i].key = key /\ apiOrders[i].status = "OPEN_DEMO"})
UserTrades(key) == Cardinality({i \in DOMAIN apiOrders :
                       apiOrders[i].key = key /\ apiOrders[i].status = "FILLED_DEMO"})

ReadOrders(r) ==
    /\ r.op = "read"
    /\ UNCHANGED apiOrders
    /\ reply' = <<OpenOrders(r.key), UserTrades(r.key)>>

\* The signature is verified: the nonce is consumed at the time the call was
\* judged by, and the operation runs.
SignatureVerified(c) ==
    /\ c \in calls /\ c.serverTime # -1
    /\ calls' = calls \ {c}
    /\ IF Known(Pruned(seen, c.serverTime), c.request)
       THEN /\ seen' = Pruned(seen, c.serverTime)
            /\ reply' = "REPLAY_DETECTED"
            /\ UNCHANGED <<accepted, apiOrders>>
       ELSE /\ seen' = Consumed(c.request, c.serverTime)
            /\ accepted' = [accepted EXCEPT ![c.request] = @ + 1]
            /\ CreateOrder(c.request) \/ CancelApiOrder(c.request) \/ ReadOrders(c.request)
    /\ UNCHANGED <<clock, callCount>>

SignatureRejected(c) ==
    /\ c \in calls /\ c.serverTime # -1
    /\ calls' = calls \ {c} /\ reply' = "INVALID_SIGNATURE"
    /\ UNCHANGED <<clock, callCount, seen, accepted, apiOrders>>

\* Time passes; a signature check takes at most MaxVerifying.
ClockTick ==
    /\ clock < MaxClock
    /\ \A c \in calls : c.serverTime # -1 => clock < c.serverTime + MaxVerifying
    /\ clock' = clock + 1
    /\ UNCHANGED <<calls, callCount, seen, accepted, apiOrders, reply>>

ApiInit ==
    /\ clock = 0 /\ calls = {} /\ callCount = 0 /\ seen = {}
    /\ accepted = [r \in Requests |-> 0] /\ apiOrders = <<>> /\ reply = "NONE"

ApiNext ==
    \/ \E r \in Requests : Arrive(r)
    \/ \E c \in calls : KeyResolved(c) \/ SignatureVerified(c) \/ SignatureRejected(c)
    \/ ClockTick

ApiSpec == ApiInit /\ [][ApiNext]_apiVars

-----------------------------------------------------------------------------
(* Properties.                                                             *)

\* A signed request is carried out at most once however often it arrives and
\* however the awaits of its copies interleave (futures-security-gate.test.mjs:
\* "replay protection for authenticated operations").
CarriedOutOnce == \A r \in Requests : accepted[r] <= 1
=============================================================================
