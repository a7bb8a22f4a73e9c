---------------------------- MODULE Pages_proofs ----------------------------
(***************************************************************************)
(* Theorems about the browser pages and the services they call, each for   *)
(* every value of its constants: the quote API answers a request id once   *)
(* until the answer expires, the swap page shows the newest quote and has  *)
(* one swap pending, verified settlement evidence stands, and the budget   *)
(* of a mobile deployment page is kept.                                    *)
(***************************************************************************)
EXTENDS QuoteGateway, SwapFlow, SettlementProof, Wizards, MobileDeployment,
        AccountSums_proofs, SequenceTheorems

-----------------------------------------------------------------------------
(* The quote gateway: an id is answered afresh only when its earlier answer  *)
(* has expired, and how far the kept answers may outgrow their capacity.     *)

Quote == [id : RequestIds, content : Contents, requestedAt : Nat]
Message == [caller : Callers, attempt : Nat, request : Quote]
ReplayKeys == Clients \X RequestIds
Promise == [request : Quote, owner : Message, joined : SUBSET Message, askedAt : Nat,
            expiresAt : Nat, verifying : BOOLEAN]
KeptAnswer == [request : Quote, expiresAt : Nat]
Statuses == {"idle", "awaiting", "delay", "done", "failed"}
CallerState == [request : Quote \cup {NoRequest}, attempt : Nat, status : Statuses]
Answer == [key : ReplayKeys, askedAt : Nat, expiresAt : Nat, number : Nat]

\* What the client and the network hold
ClientTypes ==
    /\ caller \in [Callers -> CallerState]
    /\ \A c \in Callers : caller[c].status # "idle" => caller[c].request \in Quote
    /\ wire \subseteq Message
    /\ quotes \in Nat

\* What the gateway holds
ServerTypes ==
    /\ gwTime \in Nat
    /\ usage \in [Clients -> [windowStart : Int, count : Nat]]
    /\ DOMAIN inFlight \subseteq ReplayKeys /\ inFlight \in [DOMAIN inFlight -> Promise]
    /\ DOMAIN completed \subseteq ReplayKeys /\ completed \in [DOMAIN completed -> KeptAnswer]
    /\ IsFiniteSet(issued) /\ issued \subseteq Answer

GatewayTypes == ClientTypes /\ ServerTypes

\* An answer that has not expired is the one kept for its key.
Remembered ==
    \A p \in issued : p.expiresAt >= gwTime =>
        p.key \in DOMAIN completed /\ completed[p.key].expiresAt >= p.expiresAt

\* A promise was asked for after every earlier answer to its key had expired.
AskedAfterExpiry ==
    \A k \in DOMAIN inFlight :
        /\ inFlight[k].askedAt <= gwTime
        /\ \A p \in issued : p.key = k => p.expiresAt < inFlight[k].askedAt

\* Answers are numbered in the order they were issued.
NumberedInOrder == \A p \in issued : p.number < Cardinality(issued)

GatewayInv == GatewayTypes /\ Remembered /\ AskedAfterExpiry /\ NumberedInOrder /\ OneLiveAnswer

-----------------------------------------------------------------------------
(* Lemmas.                                                                 *)

LEMMA GatewayInvInit == GatewayInit => GatewayInv
<1> SUFFICES ASSUME GatewayInit PROVE GatewayInv
  OBVIOUS
<1>1. ClientTypes
  BY DEF GatewayInit, ClientTypes, CallerState, Statuses
<1>2. ServerTypes
  <2>1. IsFiniteSet(issued)
    BY FS_EmptySet DEF GatewayInit
  <2>2. inFlight = <<>> /\ completed = <<>> /\ issued = {} /\ gwTime = 0
    BY DEF GatewayInit
  <2>3. usage \in [Clients -> [windowStart : Int, count : Nat]]
    BY DEF GatewayInit
  <2>4. QED
    BY <2>1, <2>2, <2>3 DEF ServerTypes
<1>3. Remembered /\ AskedAfterExpiry /\ NumberedInOrder /\ OneLiveAnswer
  BY DEF GatewayInit, Remembered, AskedAfterExpiry, NumberedInOrder, OneLiveAnswer
<1>4. QED
  BY <1>1, <1>2, <1>3 DEF GatewayInv, GatewayTypes

\* Refusals and answers move callers on; who is not idle keeps its request.
LEMMA RefusedType ==
  ASSUME ClientTypes, NEW ms, NEW retryable \in BOOLEAN
  PROVE  /\ Refused(ms, retryable) \in [Callers -> CallerState]
         /\ \A c \in Callers : Refused(ms, retryable)[c].status # "idle"
                                  => Refused(ms, retryable)[c].request \in Quote
<1>1. \A attempt : StatusAfterError(retryable, attempt) \in {"delay", "failed"}
  BY DEF StatusAfterError
<1>2. ASSUME NEW c \in Callers
      PROVE  /\ Refused(ms, retryable)[c] \in CallerState
             /\ Refused(ms, retryable)[c].status # "idle"
                  => Refused(ms, retryable)[c].request \in Quote
  <2>1. CASE \E m \in ms : m.caller = c /\ Hears(m)
    <3>1. caller[c].status = "awaiting"
      BY <2>1 DEF Hears
    <3>2. Refused(ms, retryable)[c]
            = [caller[c] EXCEPT !.status = StatusAfterError(retryable, caller[c].attempt)]
      BY <2>1 DEF Refused
    <3>3. caller[c] \in CallerState /\ caller[c].request \in Quote
      BY <3>1 DEF ClientTypes
    <3>4. QED
      BY <1>1, <3>2, <3>3 DEF CallerState, Statuses
  <2>2. CASE ~\E m \in ms : m.caller = c /\ Hears(m)
    BY <2>2 DEF Refused, ClientTypes
  <2>3. QED
    BY <2>1, <2>2
<1>3. DOMAIN Refused(ms, retryable) = Callers
      /\ Refused(ms, retryable) = [c \in Callers |-> Refused(ms, retryable)[c]]
  BY DEF Refused
<1>4. QED
  BY <1>2, <1>3

LEMMA AnsweredType ==
  ASSUME ClientTypes, NEW ms, NEW expiresAt
  PROVE  /\ Answered(ms, expiresAt) \in [Callers -> CallerState]
         /\ \A c \in Callers : Answered(ms, expiresAt)[c].status # "idle"
                                  => Answered(ms, expiresAt)[c].request \in Quote
<1>1. ASSUME NEW c \in Callers
      PROVE  /\ Answered(ms, expiresAt)[c] \in CallerState
             /\ Answered(ms, expiresAt)[c].status # "idle"
                  => Answered(ms, expiresAt)[c].request \in Quote
  <2>1. CASE \E m \in ms : m.caller = c /\ Hears(m)
    <3>1. caller[c].status = "awaiting"
      BY <2>1 DEF Hears
    <3>2. Answered(ms, expiresAt)[c]
            = [caller[c] EXCEPT !.status = IF expiresAt >= gwTime THEN "done" ELSE "failed"]
      BY <2>1 DEF Answered
    <3>3. caller[c] \in CallerState /\ caller[c].request \in Quote
      BY <3>1 DEF ClientTypes
    <3>4. QED
      BY <3>2, <3>3 DEF CallerState, Statuses
  <2>2. CASE ~\E m \in ms : m.caller = c /\ Hears(m)
    BY <2>2 DEF Answered, ClientTypes
  <2>3. QED
    BY <2>1, <2>2
<1>2. DOMAIN Answered(ms, expiresAt) = Callers
      /\ Answered(ms, expiresAt) = [c \in Callers |-> Answered(ms, expiresAt)[c]]
  BY DEF Answered
<1>3. QED
  BY <1>1, <1>2

LEMMA SendQuoteType ==
  ASSUME ClientTypes, NEW c \in Callers, NEW r \in Quote, NEW attempt \in Nat,
         SendQuote(c, r, attempt), InDate(r) \/ caller[c].status # "idle", quotes' \in Nat
  PROVE  ClientTypes'
<1>1. CASE InDate(r)
  <2>1. caller' = [caller EXCEPT ![c] = [request |-> r, attempt |-> attempt, status |-> "awaiting"]]
        /\ wire' = wire \cup {[caller |-> c, attempt |-> attempt, request |-> r]}
    BY <1>1 DEF SendQuote
  <2>2. [caller |-> c, attempt |-> attempt, request |-> r] \in Message
    BY DEF Message
  <2>3. [request |-> r, attempt |-> attempt, status |-> "awaiting"] \in CallerState
    BY DEF CallerState, Statuses
  <2>4. QED
    BY <2>1, <2>2, <2>3 DEF ClientTypes
<1>2. CASE ~InDate(r)
  <2>1. caller' = [caller EXCEPT ![c] = [caller[c] EXCEPT !.status = "failed"]] /\ wire' = wire
    BY <1>2 DEF SendQuote
  <2>2. caller[c] \in CallerState /\ caller[c].request \in Quote
    BY <1>2 DEF ClientTypes
  <2>3. [caller[c] EXCEPT !.status = "failed"] \in CallerState
        /\ [caller[c] EXCEPT !.status = "failed"].request \in Quote
    BY <2>2 DEF CallerState, Statuses
  <2>4. QED
    BY <2>1, <2>3 DEF ClientTypes
<1>3. QED
  BY <1>1, <1>2

\* Purging drops expired answers only, so what is not expired is still kept.
LEMMA PurgedFacts ==
  ASSUME ServerTypes
  PROVE  /\ DOMAIN Purged \subseteq DOMAIN completed
         /\ Purged \in [DOMAIN Purged -> KeptAnswer]
         /\ \A k \in DOMAIN completed :
               /\ k \in DOMAIN Purged <=> completed[k].expiresAt >= gwTime
               /\ k \in DOMAIN Purged => Purged[k] = completed[k]
<1> DEFINE S == {x \in DOMAIN completed : completed[x].expiresAt >= gwTime}
<1>1. Purged = [k \in S |-> completed[k]]
  BY DEF Purged
<1>2. \A k \in S : k \in DOMAIN completed /\ completed[k] \in KeptAnswer
  BY DEF ServerTypes
<1>3. \A k \in DOMAIN completed : k \in S <=> completed[k].expiresAt >= gwTime
  OBVIOUS
<1> HIDE DEF S
<1>4. DOMAIN Purged = S /\ Purged \in [S -> KeptAnswer]
      /\ \A k \in S : Purged[k] = completed[k]
  BY <1>1, <1>2
<1>5. QED
  BY <1>2, <1>3, <1>4

\* A step that issues no answer and lets no time pass keeps what the gateway
\* remembers, whether it purges or not.
LEMMA QuietStep ==
  ASSUME GatewayInv, ClientTypes', ServerTypes', AskedAfterExpiry',
         issued' = issued, gwTime' = gwTime, completed' = completed \/ completed' = Purged
  PROVE  GatewayInv'
<1>1. ServerTypes /\ Remembered
  BY DEF GatewayInv, GatewayTypes
<1>2. ASSUME NEW p \in issued, p.expiresAt >= gwTime
      PROVE  p.key \in DOMAIN completed' /\ completed'[p.key].expiresAt >= p.expiresAt
  <2>1. p.key \in DOMAIN completed /\ completed[p.key].expiresAt >= p.expiresAt
    BY <1>1, <1>2 DEF Remembered
  <2>2. p.expiresAt \in Nat /\ gwTime \in Nat /\ completed[p.key].expiresAt \in Nat
    BY <1>1, <2>1 DEF ServerTypes, Answer, KeptAnswer
  <2>3. completed[p.key].expiresAt >= gwTime
    BY <1>2, <2>1, <2>2
  <2>4. p.key \in DOMAIN Purged /\ Purged[p.key] = completed[p.key]
    BY <1>1, <2>1, <2>3, PurgedFacts
  <2>5. QED
    BY <2>1, <2>4
<1>3. Remembered'
  BY <1>2 DEF Remembered
<1>4. NumberedInOrder' /\ OneLiveAnswer'
  BY DEF GatewayInv, NumberedInOrder, OneLiveAnswer
<1>5. QED
  BY <1>3, <1>4 DEF GatewayInv, GatewayTypes

\* The keys of the gateway after it handled a request without asking anew.
LEMMA SameKeysAsked ==
  ASSUME GatewayInv, issued' = issued, gwTime' = gwTime, DOMAIN inFlight' = DOMAIN inFlight,
         \A k \in DOMAIN inFlight : inFlight'[k].askedAt = inFlight[k].askedAt
  PROVE  AskedAfterExpiry'
BY DEF GatewayInv, AskedAfterExpiry

LEMMA FewerKeysAsked ==
  ASSUME GatewayInv, issued' = issued, gwTime' = gwTime, NEW k, inFlight' = WithoutEntry(inFlight, k)
  PROVE  AskedAfterExpiry'
BY DEF GatewayInv, AskedAfterExpiry, WithoutEntry

\* Handlers that refuse, answer from the store, or let the caller join.
LEMMA TurnedAwayKeeps ==
  ASSUME GatewayInv, NEW m \in Message, wire' = wire \ {m},
         UNCHANGED <<gwTime, quotes, issued>>, CallerKey[m.caller] \in Clients,
         \/ OutOfDate(m) \/ Conflict(m) \/ Replay(m) \/ RateLimited(m) \/ Busy(m)
  PROVE  GatewayInv'
<1>1. ClientTypes /\ ServerTypes
  BY DEF GatewayInv, GatewayTypes
<1>2. inFlight' = inFlight /\ (completed' = completed \/ completed' = Purged)
  BY DEF OutOfDate, Conflict, Replay, RateLimited, Busy
<1>3. \/ \E retryable \in BOOLEAN : caller' = Refused({m}, retryable)
      \/ \E e : caller' = Answered({m}, e)
  BY DEF OutOfDate, Conflict, Replay, RateLimited, Busy
<1>4. caller' \in [Callers -> CallerState]
      /\ \A c \in Callers : caller'[c].status # "idle" => caller'[c].request \in Quote
  BY <1>1, <1>3, RefusedType, AnsweredType
<1>5. ClientTypes'
  BY <1>1, <1>4 DEF ClientTypes
<1>6. usage' \in [Clients -> [windowStart : Int, count : Nat]]
  <2>1. CASE usage' = usage
    BY <1>1, <2>1 DEF ServerTypes
  <2>2. CASE Charged(CallerKey[m.caller])
    <3>1. WindowStart \in Int
      BY <1>1, GatewayAssumption DEF WindowStart, ServerTypes
    <3>2. Used(CallerKey[m.caller]) + 1 \in Nat
      BY <1>1 DEF Used, ServerTypes
    <3>3. QED
      BY <1>1, <2>2, <3>1, <3>2 DEF Charged, ServerTypes
  <2>3. QED
    BY <2>1, <2>2 DEF OutOfDate, Conflict, Replay, RateLimited, Busy
<1>7. ServerTypes'
  BY <1>1, <1>2, <1>6, PurgedFacts DEF ServerTypes
<1>8. AskedAfterExpiry'
  BY <1>2, SameKeysAsked
<1>9. QED
  BY <1>2, <1>5, <1>7, <1>8, QuietStep

LEMMA UnauthorizedKeeps ==
  ASSUME GatewayInv, NEW m \in Message, wire' = wire \ {m},
         UNCHANGED <<gwTime, quotes, issued>>, Unauthorized(m)
  PROVE  GatewayInv'
<1>1. ClientTypes /\ ServerTypes
  BY DEF GatewayInv, GatewayTypes
<1>2. UNCHANGED <<usage, inFlight, completed>> /\ caller' = Refused({m}, FALSE)
  BY DEF Unauthorized
<1>3. ClientTypes'
  BY <1>1, <1>2, RefusedType DEF ClientTypes
<1>4. ServerTypes'
  BY <1>1, <1>2 DEF ServerTypes
<1>5. AskedAfterExpiry'
  BY <1>2, SameKeysAsked
<1>6. QED
  BY <1>2, <1>3, <1>4, <1>5, QuietStep

LEMMA JoinKeeps ==
  ASSUME GatewayInv, NEW m \in Message, wire' = wire \ {m},
         UNCHANGED <<gwTime, quotes, issued>>, CallerKey[m.caller] \in Clients, Join(m)
  PROVE  GatewayInv'
<1> DEFINE k == ReplayKey(m.caller, m.request)
<1>1. ClientTypes /\ ServerTypes
  BY DEF GatewayInv, GatewayTypes
<1>2. completed' = Purged /\ UNCHANGED <<caller, usage>>
      /\ inFlight' = [inFlight EXCEPT ![k] = [inFlight[k] EXCEPT !.joined = inFlight[k].joined \cup {m}]]
  BY DEF Join
<1>3. k \in DOMAIN inFlight
  BY DEF Join, Prior
<1>4. inFlight[k] \in Promise
  BY <1>1, <1>3 DEF ServerTypes
<1>5. [inFlight[k] EXCEPT !.joined = inFlight[k].joined \cup {m}] \in Promise
      /\ [inFlight[k] EXCEPT !.joined = inFlight[k].joined \cup {m}].askedAt = inFlight[k].askedAt
  BY <1>4 DEF Promise
<1> HIDE DEF k
<1>6. DOMAIN inFlight' = DOMAIN inFlight /\ inFlight' \in [DOMAIN inFlight -> Promise]
      /\ \A x \in DOMAIN inFlight : inFlight'[x].askedAt = inFlight[x].askedAt
  BY <1>1, <1>2, <1>3, <1>5 DEF ServerTypes
<1>7. ClientTypes'
  BY <1>1, <1>2 DEF ClientTypes
<1>8. ServerTypes'
  BY <1>1, <1>2, <1>6, PurgedFacts DEF ServerTypes
<1>9. AskedAfterExpiry'
  BY <1>6, SameKeysAsked
<1>10. QED
  BY <1>2, <1>7, <1>8, <1>9, QuietStep

\* The provider is asked only when nothing is kept or pending for the key, and
\* then every earlier answer to it has expired.
LEMMA AskProviderKeeps ==
  ASSUME GatewayInv, NEW m \in Message, wire' = wire \ {m},
         UNCHANGED <<gwTime, quotes, issued>>, CallerKey[m.caller] \in Clients, AskProvider(m)
  PROVE  GatewayInv'
<1> DEFINE k == ReplayKey(m.caller, m.request)
           p == [request |-> m.request, owner |-> m, joined |-> {}, askedAt |-> gwTime,
                 expiresAt |-> 0, verifying |-> FALSE]
<1>1. ClientTypes /\ ServerTypes /\ Remembered /\ AskedAfterExpiry
  BY DEF GatewayInv, GatewayTypes
<1>2. completed' = Purged /\ Charged(CallerKey[m.caller]) /\ inFlight' = With(inFlight, k, p)
      /\ caller' = caller
  BY DEF AskProvider
<1>3. k \in ReplayKeys /\ p \in Promise /\ p.askedAt = gwTime
  BY <1>1 DEF ReplayKey, ReplayKeys, Promise, ServerTypes, Message, Quote
<1>4. k \notin DOMAIN Purged
  BY DEF AskProvider, Prior
<1> HIDE DEF k, p
<1>5. usage' \in [Clients -> [windowStart : Int, count : Nat]]
  <2>1. WindowStart \in Int
    BY <1>1, GatewayAssumption DEF WindowStart, ServerTypes
  <2>2. Used(CallerKey[m.caller]) + 1 \in Nat
    BY <1>1 DEF Used, ServerTypes
  <2>3. QED
    BY <1>1, <1>2, <2>1, <2>2 DEF Charged, ServerTypes
<1>6. /\ DOMAIN inFlight' = DOMAIN inFlight \cup {k}
      /\ inFlight' \in [DOMAIN inFlight' -> Promise]
      /\ inFlight'[k] = p
      /\ \A x \in DOMAIN inFlight \ {k} : inFlight'[x] = inFlight[x]
  BY <1>1, <1>2, <1>3 DEF With, ServerTypes
<1>7. ClientTypes'
  BY <1>1, <1>2 DEF ClientTypes
<1>8. ServerTypes'
  BY <1>1, <1>2, <1>3, <1>5, <1>6, PurgedFacts DEF ServerTypes
<1>9. ASSUME NEW q \in issued, q.key = k
      PROVE  q.expiresAt < gwTime
  <2>1. q.expiresAt \in Nat /\ gwTime \in Nat
    BY <1>1 DEF ServerTypes, Answer
  <2>2. SUFFICES ASSUME q.expiresAt >= gwTime PROVE FALSE
    BY <2>1
  <2>3. k \in DOMAIN completed /\ completed[k].expiresAt >= q.expiresAt
    BY <1>1, <1>9, <2>2 DEF Remembered
  <2>4. completed[k].expiresAt \in Nat
    BY <1>1, <2>3 DEF ServerTypes, KeptAnswer
  <2>5. completed[k].expiresAt >= gwTime
    BY <2>1, <2>2, <2>3, <2>4
  <2>6. QED
    BY <1>1, <1>4, <2>3, <2>5, PurgedFacts
<1>10. AskedAfterExpiry'
  <2>1. gwTime' = gwTime /\ issued' = issued /\ gwTime \in Nat
    BY <1>1 DEF ServerTypes
  <2>2. QED
    BY <1>1, <1>3, <1>6, <1>9, <2>1 DEF AskedAfterExpiry
<1>11. QED
  BY <1>2, <1>7, <1>8, <1>10, QuietStep

LEMMA HandleQuoteKeeps ==
  ASSUME GatewayInv, NEW m \in wire, HandleQuote(m)
  PROVE  GatewayInv'
<1>1. m \in Message
  BY DEF GatewayInv, GatewayTypes, ClientTypes
<1>2. wire' = wire \ {m} /\ UNCHANGED <<gwTime, quotes, issued>>
  BY DEF HandleQuote
<1>3. CASE Unauthorized(m)
  BY <1>1, <1>2, <1>3, UnauthorizedKeeps
<1>4. CASE CallerKey[m.caller] \in Clients /\ Join(m)
  BY <1>1, <1>2, <1>4, JoinKeeps
<1>5. CASE CallerKey[m.caller] \in Clients /\ AskProvider(m)
  BY <1>1, <1>2, <1>5, AskProviderKeeps
<1>6. CASE /\ CallerKey[m.caller] \in Clients
           /\ OutOfDate(m) \/ Conflict(m) \/ Replay(m) \/ RateLimited(m) \/ Busy(m)
  BY <1>1, <1>2, <1>6, TurnedAwayKeeps
<1>7. QED
  BY <1>3, <1>4, <1>5, <1>6 DEF HandleQuote

\* The steps of the client and the network.
LEMMA ClientStepKeeps ==
  ASSUME GatewayInv, ClientTypes',
         UNCHANGED <<gwTime, usage, inFlight, completed, issued>>
  PROVE  GatewayInv'
<1>1. ServerTypes'
  BY DEF GatewayInv, GatewayTypes, ServerTypes
<1>2. AskedAfterExpiry'
  BY SameKeysAsked
<1>3. QED
  BY <1>1, <1>2, QuietStep

LEMMA CallerKeeps ==
  ASSUME GatewayInv, NEW c \in Callers,
         \/ \E id \in RequestIds, content \in Contents : AskQuote(c, id, content)
         \/ AskAgain(c) \/ AttemptTimesOut(c) \/ Retry(c)
  PROVE  GatewayInv'
<1>1. ClientTypes /\ gwTime \in Nat
  BY DEF GatewayInv, GatewayTypes, ServerTypes
<1>2. ASSUME NEW id \in RequestIds, NEW content \in Contents, AskQuote(c, id, content)
      PROVE  ClientTypes'
  <2> DEFINE r == [id |-> id, content |-> content, requestedAt |-> gwTime]
  <2>1. r \in Quote /\ r.requestedAt = gwTime
    BY <1>1 DEF Quote
  <2>2. SendQuote(c, r, 0) /\ quotes' = quotes + 1
    BY <1>2 DEF AskQuote
  <2> HIDE DEF r
  <2>3. InDate(r)
    BY <1>1, <2>1, GatewayAssumption DEF InDate, ExpiresAt
  <2>4. quotes' \in Nat
    BY <1>1, <2>2 DEF ClientTypes
  <2>5. QED
    BY <1>1, <2>1, <2>2, <2>3, <2>4, SendQuoteType
<1>3. ASSUME AskAgain(c)
      PROVE  ClientTypes'
  <2>1. caller[c].status # "idle" /\ SendQuote(c, caller[c].request, 0) /\ quotes' = quotes + 1
    BY <1>3 DEF AskAgain
  <2>2. caller[c].request \in Quote /\ quotes' \in Nat
    BY <1>1, <2>1 DEF ClientTypes
  <2>3. QED
    BY <1>1, <2>1, <2>2, SendQuoteType
<1>4. ASSUME Retry(c)
      PROVE  ClientTypes'
  <2>1. caller[c].status # "idle" /\ SendQuote(c, caller[c].request, caller[c].attempt + 1)
        /\ quotes' = quotes
    BY <1>4 DEF Retry
  <2>2. caller[c].request \in Quote /\ quotes' \in Nat /\ caller[c].attempt + 1 \in Nat
    BY <1>1, <2>1 DEF ClientTypes, CallerState
  <2>3. QED
    BY <1>1, <2>1, <2>2, SendQuoteType
<1>5. ASSUME AttemptTimesOut(c)
      PROVE  ClientTypes'
  <2> DEFINE s == StatusAfterError(TRUE, caller[c].attempt)
  <2>1. s \in {"delay", "failed"}
    BY DEF StatusAfterError
  <2>2. caller' = [caller EXCEPT ![c] = [caller[c] EXCEPT !.status = s]]
        /\ UNCHANGED <<wire, quotes>> /\ caller[c].status # "idle"
    BY <1>5 DEF AttemptTimesOut
  <2>3. caller[c] \in CallerState /\ caller[c].request \in Quote
    BY <1>1, <2>2 DEF ClientTypes
  <2> HIDE DEF s
  <2>4. [caller[c] EXCEPT !.status = s] \in CallerState
        /\ [caller[c] EXCEPT !.status = s].request \in Quote
    BY <2>1, <2>3 DEF CallerState, Statuses
  <2>5. QED
    BY <1>1, <2>2, <2>4 DEF ClientTypes
<1>6. UNCHANGED <<gwTime, usage, inFlight, completed, issued>>
  BY DEF AskQuote, AskAgain, Retry, AttemptTimesOut
<1>7. ClientTypes'
  BY <1>2, <1>3, <1>4, <1>5
<1>8. QED
  BY <1>6, <1>7, ClientStepKeeps

\* A promise that rejects leaves nothing behind.
LEMMA RejectsKeeps ==
  ASSUME GatewayInv, NEW k \in DOMAIN inFlight, NEW retryable \in BOOLEAN, Rejects(k, retryable)
  PROVE  GatewayInv'
<1>1. ClientTypes /\ ServerTypes
  BY DEF GatewayInv, GatewayTypes
<1>2. inFlight' = WithoutEntry(inFlight, k)
      /\ caller' = Refused({inFlight[k].owner} \cup inFlight[k].joined, retryable)
      /\ UNCHANGED <<gwTime, quotes, wire, usage, completed, issued>>
  BY DEF Rejects
<1>3. ClientTypes'
  BY <1>1, <1>2, RefusedType DEF ClientTypes
<1>4. DOMAIN inFlight' \subseteq ReplayKeys /\ inFlight' \in [DOMAIN inFlight' -> Promise]
  BY <1>1, <1>2 DEF WithoutEntry, ServerTypes
<1>5. ServerTypes'
  BY <1>1, <1>2, <1>4 DEF ServerTypes
<1>6. AskedAfterExpiry'
  BY <1>2, FewerKeysAsked
<1>7. QED
  BY <1>2, <1>3, <1>5, <1>6, QuietStep

\* The provider's answer waits for its verification; nothing is issued yet.
LEMMA ProviderAnswersKeeps ==
  ASSUME GatewayInv, NEW k \in DOMAIN inFlight, NEW e \in Nat, ProviderAnswers(k, e)
  PROVE  GatewayInv'
<1> DEFINE p == [inFlight[k] EXCEPT !.verifying = TRUE, !.expiresAt = e]
<1>1. ClientTypes /\ ServerTypes
  BY DEF GatewayInv, GatewayTypes
<1>2. inFlight' = [inFlight EXCEPT ![k] = p]
      /\ UNCHANGED <<gwTime, quotes, caller, wire, usage, completed, issued>>
  BY DEF ProviderAnswers
<1>3. inFlight[k] \in Promise
  BY <1>1 DEF ServerTypes
<1>4. p \in Promise /\ p.askedAt = inFlight[k].askedAt
  BY <1>3 DEF Promise
<1> HIDE DEF p
<1>5. DOMAIN inFlight' = DOMAIN inFlight /\ inFlight' \in [DOMAIN inFlight -> Promise]
      /\ \A x \in DOMAIN inFlight : inFlight'[x].askedAt = inFlight[x].askedAt
  BY <1>1, <1>2, <1>4 DEF ServerTypes
<1>6. ClientTypes'
  BY <1>1, <1>2 DEF ClientTypes
<1>7. ServerTypes'
  BY <1>1, <1>2, <1>5 DEF ServerTypes
<1>8. AskedAfterExpiry'
  BY <1>2, <1>5, SameKeysAsked
<1>9. QED
  BY <1>2, <1>6, <1>7, <1>8, QuietStep

\* A new answer is the only one to its key that has not expired.
LEMMA VerifiedKeeps ==
  ASSUME GatewayInv, NEW k \in DOMAIN inFlight, Verified(k)
  PROVE  GatewayInv'
<1> DEFINE p == inFlight[k]
           kept == [request |-> p.request, expiresAt |-> p.expiresAt]
           n == Cardinality(issued)
           a == [key |-> k, askedAt |-> p.askedAt, expiresAt |-> p.expiresAt, number |-> n]
<1>1. ClientTypes /\ ServerTypes /\ Remembered /\ AskedAfterExpiry /\ NumberedInOrder
      /\ OneLiveAnswer
  BY DEF GatewayInv, GatewayTypes
<1>2. inFlight' = WithoutEntry(inFlight, k) /\ completed' = With(completed, k, kept)
      /\ caller' = Answered({p.owner} \cup p.joined, p.expiresAt)
      /\ issued' = issued \cup {a} /\ UNCHANGED <<gwTime, quotes, wire, usage>>
  BY DEF Verified
<1>3. p \in Promise /\ k \in ReplayKeys
  BY <1>1 DEF ServerTypes
<1>4. n \in Nat /\ IsFiniteSet(issued)
  BY <1>1, FS_CardinalityType DEF ServerTypes
<1> HIDE DEF n
<1>5. kept \in KeptAnswer /\ kept.expiresAt = p.expiresAt /\ a \in Answer
      /\ a.key = k /\ a.askedAt = p.askedAt /\ a.expiresAt = p.expiresAt /\ a.number = n
  BY <1>3, <1>4 DEF KeptAnswer, Answer, Promise
<1>6. \A q \in issued : q \in Answer /\ q.number < n /\ q.number \in Nat
  BY <1>1 DEF NumberedInOrder, ServerTypes, Answer, n
<1>7. \A q \in issued : q.key = k => q.expiresAt < p.askedAt
  BY <1>1 DEF AskedAfterExpiry
<1>8. p.askedAt <= gwTime /\ p.askedAt \in Nat /\ p.expiresAt \in Nat /\ gwTime \in Nat
  BY <1>1, <1>3 DEF AskedAfterExpiry, Promise, ServerTypes
<1> HIDE DEF p, kept, a
<1>9. IsFiniteSet(issued') /\ issued' \subseteq Answer /\ Cardinality(issued') = n + 1
  <2>1. a \notin issued
    BY <1>4, <1>5, <1>6
  <2>2. QED
    BY <1>1, <1>2, <1>4, <1>5, <2>1, FS_AddElement DEF ServerTypes, n
<1>10. ClientTypes'
  BY <1>1, <1>2, AnsweredType DEF ClientTypes
<1>11. DOMAIN inFlight' = DOMAIN inFlight \ {k} /\ inFlight' \in [DOMAIN inFlight' -> Promise]
       /\ \A x \in DOMAIN inFlight' : inFlight'[x] = inFlight[x]
  BY <1>1, <1>2 DEF WithoutEntry, ServerTypes
<1>12. DOMAIN completed' = DOMAIN completed \cup {k}
       /\ completed' \in [DOMAIN completed' -> KeptAnswer] /\ completed'[k] = kept
       /\ \A x \in DOMAIN completed \ {k} : completed'[x] = completed[x]
  BY <1>1, <1>2, <1>5 DEF With, ServerTypes
<1>13. ServerTypes'
  BY <1>1, <1>2, <1>3, <1>9, <1>11, <1>12 DEF ServerTypes
<1>14. NumberedInOrder'
  BY <1>2, <1>4, <1>5, <1>6, <1>9 DEF NumberedInOrder
<1>15. AskedAfterExpiry'
  <2>1. ASSUME NEW x \in DOMAIN inFlight'
        PROVE  /\ inFlight'[x].askedAt <= gwTime
               /\ \A q \in issued' : q.key = x => q.expiresAt < inFlight'[x].askedAt
    <3>1. x \in DOMAIN inFlight /\ x # k /\ inFlight'[x] = inFlight[x]
      BY <1>11, <2>1
    <3>2. QED
      BY <1>1, <1>2, <1>5, <3>1 DEF AskedAfterExpiry
  <2>2. QED
    BY <1>2, <2>1 DEF AskedAfterExpiry
<1>16. Remembered'
  <2>1. ASSUME NEW q \in issued', q.expiresAt >= gwTime
        PROVE  q.key \in DOMAIN completed' /\ completed'[q.key].expiresAt >= q.expiresAt
    <3>1. CASE q = a
      BY <1>5, <1>8, <1>12, <3>1
    <3>2. CASE q \in issued /\ q.key = k
      <4>1. q.expiresAt < p.askedAt /\ q.expiresAt \in Nat
        BY <1>6, <1>7, <3>2 DEF Answer
      <4>2. QED
        BY <1>8, <2>1, <4>1
    <3>3. CASE q \in issued /\ q.key # k
      <4>1. q.key \in DOMAIN completed /\ completed[q.key].expiresAt >= q.expiresAt
        BY <1>1, <2>1, <3>3 DEF Remembered
      <4>2. QED
        BY <1>12, <3>3, <4>1
    <3>4. QED
      BY <1>2, <2>1, <3>1, <3>2, <3>3
  <2>2. QED
    BY <1>2, <2>1 DEF Remembered
<1>17. OneLiveAnswer'
  <2>1. ASSUME NEW x \in issued', NEW y \in issued', x.key = y.key, x.number < y.number
        PROVE  x.expiresAt < y.askedAt
    <3>1. CASE x \in issued /\ y \in issued
      BY <1>1, <2>1, <3>1 DEF OneLiveAnswer
    <3>2. CASE x = a
      <4>1. y.number <= n /\ y.number \in Nat
        BY <1>2, <1>4, <1>5, <1>6
      <4>2. QED
        BY <1>4, <1>5, <2>1, <3>2, <4>1
    <3>3. CASE x \in issued /\ y = a
      BY <1>5, <1>7, <2>1, <3>3
    <3>4. QED
      BY <1>2, <3>1, <3>2, <3>3
  <2>2. QED
    BY <2>1 DEF OneLiveAnswer
<1>18. QED
  BY <1>10, <1>13, <1>14, <1>15, <1>16, <1>17 DEF GatewayInv, GatewayTypes

\* Time only lets answers expire.
LEMMA TickKeeps == ASSUME GatewayInv, GatewayTick PROVE GatewayInv'
<1>1. ClientTypes /\ ServerTypes /\ Remembered /\ AskedAfterExpiry /\ NumberedInOrder
      /\ OneLiveAnswer
  BY DEF GatewayInv, GatewayTypes
<1>2. gwTime' = gwTime + 1 /\ gwTime \in Nat
      /\ UNCHANGED <<quotes, caller, wire, usage, inFlight, completed, issued>>
  BY <1>1 DEF GatewayTick, ServerTypes
<1>3. ClientTypes'
  BY <1>1, <1>2 DEF ClientTypes
<1>4. ServerTypes'
  BY <1>1, <1>2 DEF ServerTypes
<1>5. Remembered'
  <2>1. ASSUME NEW q \in issued, q.expiresAt >= gwTime + 1
        PROVE  q.key \in DOMAIN completed /\ completed[q.key].expiresAt >= q.expiresAt
    <3>1. q.expiresAt \in Nat
      BY <1>1 DEF ServerTypes, Answer
    <3>2. q.expiresAt >= gwTime
      BY <1>2, <2>1, <3>1
    <3>3. QED
      BY <1>1, <3>2 DEF Remembered
  <2>2. QED
    BY <1>2, <2>1 DEF Remembered
<1>6. AskedAfterExpiry'
  <2>1. ASSUME NEW k \in DOMAIN inFlight
        PROVE  inFlight[k].askedAt <= gwTime + 1
    <3>1. inFlight[k].askedAt \in Nat
      BY <1>1 DEF ServerTypes, Promise
    <3>2. QED
      BY <1>1, <1>2, <3>1 DEF AskedAfterExpiry
  <2>2. QED
    BY <1>1, <1>2, <2>1 DEF AskedAfterExpiry
<1>7. NumberedInOrder' /\ OneLiveAnswer'
  BY <1>1, <1>2 DEF NumberedInOrder, OneLiveAnswer
<1>8. QED
  BY <1>3, <1>4, <1>5, <1>6, <1>7 DEF GatewayInv, GatewayTypes

\* A lost request, a health report, and a step that changes nothing
LEMMA LoseKeeps == ASSUME GatewayInv, NEW m, LoseMessage(m) PROVE GatewayInv'
<1>1. ClientTypes
  BY DEF GatewayInv, GatewayTypes
<1>2. wire' = wire \ {m} /\ UNCHANGED <<quotes, caller>>
      /\ UNCHANGED <<gwTime, usage, inFlight, completed, issued>>
  BY DEF LoseMessage
<1>3. ClientTypes'
  BY <1>1, <1>2 DEF ClientTypes
<1>4. QED
  BY <1>2, <1>3, ClientStepKeeps

LEMMA HealthKeeps == ASSUME GatewayInv, Health PROVE GatewayInv'
<1>1. ClientTypes /\ ServerTypes
  BY DEF GatewayInv, GatewayTypes
<1>2. completed' = Purged /\ UNCHANGED <<gwTime, quotes, caller, wire, usage, inFlight, issued>>
  BY DEF Health
<1>3. ClientTypes'
  BY <1>1, <1>2 DEF ClientTypes
<1>4. ServerTypes'
  BY <1>1, <1>2, PurgedFacts DEF ServerTypes
<1>5. AskedAfterExpiry'
  BY <1>2, SameKeysAsked
<1>6. QED
  BY <1>2, <1>3, <1>4, <1>5, QuietStep

LEMMA StutterKeeps == ASSUME GatewayInv, UNCHANGED gatewayVars PROVE GatewayInv'
<1>1. ClientTypes
  BY DEF GatewayInv, GatewayTypes
<1>2. UNCHANGED <<gwTime, usage, inFlight, completed, issued>> /\ UNCHANGED <<caller, wire, quotes>>
  BY DEF gatewayVars
<1>3. ClientTypes'
  BY <1>1, <1>2 DEF ClientTypes
<1>4. QED
  BY <1>2, <1>3, ClientStepKeeps

LEMMA GatewayInvInductive == GatewayInv /\ [GatewayNext]_gatewayVars => GatewayInv'
<1> SUFFICES ASSUME GatewayInv, [GatewayNext]_gatewayVars PROVE GatewayInv'
  OBVIOUS
<1>1. ASSUME NEW c \in Callers,
             \/ \E id \in RequestIds, content \in Contents : AskQuote(c, id, content)
             \/ AskAgain(c) \/ AttemptTimesOut(c) \/ Retry(c)
      PROVE  GatewayInv'
  BY <1>1, CallerKeeps
<1>2. ASSUME NEW m \in wire, LoseMessage(m) \/ HandleQuote(m)
      PROVE  GatewayInv'
  BY <1>2, LoseKeeps, HandleQuoteKeeps
<1>3. ASSUME NEW k \in DOMAIN inFlight, NEW retryable \in BOOLEAN,
             ProviderFails(k, retryable) \/ ProofRefused(k, retryable)
      PROVE  GatewayInv'
  BY <1>3, RejectsKeeps DEF ProviderFails, ProofRefused
<1>4. ASSUME NEW k \in DOMAIN inFlight, NEW e \in 0..(MaxGatewayTime + Validity),
             ProviderAnswers(k, e)
      PROVE  GatewayInv'
  <2>1. e \in Nat
    BY GatewayAssumption
  <2>2. QED
    BY <1>4, <2>1, ProviderAnswersKeeps
<1>5. ASSUME NEW k \in DOMAIN inFlight, Verified(k)
      PROVE  GatewayInv'
  BY <1>5, VerifiedKeeps
<1>6. CASE Health
  BY <1>6, HealthKeeps
<1>7. CASE GatewayTick
  BY <1>7, TickKeeps
<1>8. CASE UNCHANGED gatewayVars
  BY <1>8, StutterKeeps
<1>9. QED
  BY <1>1, <1>2, <1>3, <1>4, <1>5, <1>6, <1>7, <1>8 DEF GatewayNext

\* The capacity of the two Maps, with their finiteness
CapacityInv == IsFiniteSet(DOMAIN inFlight) /\ IsFiniteSet(DOMAIN completed) /\ CapacityShared

LEMMA CapacityInit == GatewayInit => CapacityInv
<1> SUFFICES ASSUME GatewayInit PROVE CapacityInv
  OBVIOUS
<1>1. DOMAIN inFlight = {} /\ DOMAIN completed = {}
  BY DEF GatewayInit
<1>2. IsFiniteSet({}) /\ Cardinality({}) = 0
  BY FS_EmptySet
<1>3. MaxInFlight \in Nat \ {0} /\ MaxCompleted \in Nat \ {0}
  BY GatewayAssumption
<1>4. QED
  BY <1>1, <1>2, <1>3 DEF CapacityInv, CapacityShared

\* A step that starts no promise and keeps no new answer
LEMMA CapacityQuiet ==
  ASSUME CapacityInv, DOMAIN inFlight' \subseteq DOMAIN inFlight,
         DOMAIN completed' \subseteq DOMAIN completed
  PROVE  CapacityInv'
<1>1. IsFiniteSet(DOMAIN inFlight) /\ IsFiniteSet(DOMAIN completed)
      /\ MaxInFlight \in Nat /\ MaxCompleted \in Nat
  BY GatewayAssumption DEF CapacityInv
<1>2. IsFiniteSet(DOMAIN inFlight') /\ Cardinality(DOMAIN inFlight') <= Cardinality(DOMAIN inFlight)
      /\ IsFiniteSet(DOMAIN completed')
      /\ Cardinality(DOMAIN completed') <= Cardinality(DOMAIN completed)
  BY <1>1, FS_Subset
<1>3. Cardinality(DOMAIN inFlight) \in Nat /\ Cardinality(DOMAIN completed) \in Nat
      /\ Cardinality(DOMAIN inFlight') \in Nat /\ Cardinality(DOMAIN completed') \in Nat
  BY <1>1, <1>2, FS_CardinalityType
<1>4. QED
  BY <1>1, <1>2, <1>3 DEF CapacityInv, CapacityShared

LEMMA CapacityAsked ==
  ASSUME CapacityInv, NEW m, AskProvider(m)
  PROVE  CapacityInv'
<1> DEFINE k == ReplayKey(m.caller, m.request)
<1>1. DOMAIN inFlight' = DOMAIN inFlight \cup {k} /\ DOMAIN completed' = DOMAIN Purged
  BY DEF AskProvider, With
<1>2. DOMAIN Purged \subseteq DOMAIN completed
  BY DEF Purged
<1>3. IsFiniteSet(DOMAIN inFlight) /\ IsFiniteSet(DOMAIN Purged)
  BY <1>2, FS_Subset DEF CapacityInv
<1>4. Cardinality(DOMAIN inFlight) < MaxInFlight /\ Cardinality(DOMAIN Purged) < MaxCompleted
  BY DEF AskProvider, HasCapacity
<1> HIDE DEF k
<1>5. IsFiniteSet(DOMAIN inFlight')
      /\ Cardinality(DOMAIN inFlight') \in {Cardinality(DOMAIN inFlight), Cardinality(DOMAIN inFlight) + 1}
  BY <1>1, <1>3, FS_AddElement
<1>6. Cardinality(DOMAIN inFlight) \in Nat /\ Cardinality(DOMAIN Purged) \in Nat
      /\ MaxInFlight \in Nat /\ MaxCompleted \in Nat
  BY <1>3, FS_CardinalityType, GatewayAssumption
<1>7. QED
  BY <1>1, <1>3, <1>4, <1>5, <1>6 DEF CapacityInv, CapacityShared

LEMMA CapacityVerified ==
  ASSUME CapacityInv, NEW k \in DOMAIN inFlight, Verified(k)
  PROVE  CapacityInv'
<1>1. DOMAIN inFlight' = DOMAIN inFlight \ {k} /\ DOMAIN completed' = DOMAIN completed \cup {k}
  BY DEF Verified, With, WithoutEntry
<1>2. IsFiniteSet(DOMAIN inFlight) /\ IsFiniteSet(DOMAIN completed)
  BY DEF CapacityInv
<1>3. IsFiniteSet(DOMAIN inFlight')
      /\ Cardinality(DOMAIN inFlight') = Cardinality(DOMAIN inFlight) - 1
  BY <1>1, <1>2, FS_RemoveElement
<1>4. IsFiniteSet(DOMAIN completed')
      /\ Cardinality(DOMAIN completed')
           \in {Cardinality(DOMAIN completed), Cardinality(DOMAIN completed) + 1}
  BY <1>1, <1>2, FS_AddElement
<1>5. Cardinality(DOMAIN inFlight) \in Nat /\ Cardinality(DOMAIN completed) \in Nat
      /\ MaxInFlight \in Nat /\ MaxCompleted \in Nat
  BY <1>2, FS_CardinalityType, GatewayAssumption
<1>6. QED
  BY <1>3, <1>4, <1>5 DEF CapacityInv, CapacityShared

\* Every other step
LEMMA CapacityKept ==
  ASSUME CapacityInv,
         \/ UNCHANGED <<inFlight, completed>>
         \/ completed' = Purged /\ DOMAIN inFlight' = DOMAIN inFlight
         \/ completed' = completed /\ \E k : inFlight' = WithoutEntry(inFlight, k)
         \/ completed' = completed /\ DOMAIN inFlight' = DOMAIN inFlight
  PROVE  CapacityInv'
<1>1. DOMAIN Purged \subseteq DOMAIN completed
  BY DEF Purged
<1>2. \A k : DOMAIN WithoutEntry(inFlight, k) \subseteq DOMAIN inFlight
  BY DEF WithoutEntry
<1>3. DOMAIN inFlight' \subseteq DOMAIN inFlight /\ DOMAIN completed' \subseteq DOMAIN completed
  BY <1>1, <1>2
<1>4. QED
  BY <1>3, CapacityQuiet

LEMMA CapacityInductive == CapacityInv /\ [GatewayNext]_gatewayVars => CapacityInv'
<1> SUFFICES ASSUME CapacityInv, [GatewayNext]_gatewayVars PROVE CapacityInv'
  OBVIOUS
<1>1. ASSUME NEW c \in Callers,
             \/ \E id \in RequestIds, content \in Contents : AskQuote(c, id, content)
             \/ AskAgain(c) \/ AttemptTimesOut(c) \/ Retry(c)
      PROVE  CapacityInv'
  <2>1. UNCHANGED <<inFlight, completed>>
    BY <1>1 DEF AskQuote, AskAgain, AttemptTimesOut, Retry
  <2>2. QED
    BY <2>1, CapacityKept
<1>2. ASSUME NEW m \in wire, HandleQuote(m)
      PROVE  CapacityInv'
  <2>1. CASE AskProvider(m)
    BY <2>1, CapacityAsked
  <2>2. CASE Unauthorized(m) \/ OutOfDate(m)
    BY <2>2, CapacityKept DEF Unauthorized, OutOfDate
  <2>3. CASE Conflict(m) \/ Replay(m) \/ Join(m) \/ RateLimited(m) \/ Busy(m)
    <3>1. completed' = Purged /\ DOMAIN inFlight' = DOMAIN inFlight
      BY <2>3 DEF Conflict, Replay, Join, RateLimited, Busy
    <3>2. QED
      BY <3>1, CapacityKept
  <2>4. QED
    BY <1>2, <2>1, <2>2, <2>3 DEF HandleQuote
<1>3. ASSUME NEW m \in wire, LoseMessage(m)
      PROVE  CapacityInv'
  BY <1>3, CapacityKept DEF LoseMessage
<1>4. ASSUME NEW k \in DOMAIN inFlight, NEW retryable \in BOOLEAN,
             ProviderFails(k, retryable) \/ ProofRefused(k, retryable)
      PROVE  CapacityInv'
  <2>1. completed' = completed /\ inFlight' = WithoutEntry(inFlight, k)
    BY <1>4 DEF ProviderFails, ProofRefused, Rejects
  <2>2. QED
    BY <2>1, CapacityKept
<1>5. ASSUME NEW k \in DOMAIN inFlight, NEW e, ProviderAnswers(k, e)
      PROVE  CapacityInv'
  <2>1. completed' = completed /\ DOMAIN inFlight' = DOMAIN inFlight
    BY <1>5 DEF ProviderAnswers
  <2>2. QED
    BY <2>1, CapacityKept
<1>6. ASSUME NEW k \in DOMAIN inFlight, Verified(k)
      PROVE  CapacityInv'
  BY <1>6, CapacityVerified
<1>7. CASE Health
  BY <1>7, CapacityKept DEF Health
<1>8. CASE GatewayTick \/ UNCHANGED gatewayVars
  BY <1>8, CapacityKept DEF GatewayTick, gatewayVars
<1>9. QED
  BY <1>1, <1>2, <1>3, <1>4, <1>5, <1>6, <1>7, <1>8 DEF GatewayNext

-----------------------------------------------------------------------------
(* Theorems.                                                               *)

(* Whatever the callers, the network and the provider do, the gateway's Maps *)
(* hold what handleQuote means them to: keys of approved clients, promises   *)
(* and kept answers; and who awaits an answer has sent a whole request.      *)
THEOREM GatewayTypeCorrect == GatewaySpec => []GatewayTypes
<1>1. GatewayInv => GatewayTypes
  BY DEF GatewayInv
<1>2. QED
  BY <1>1, GatewayInvInit, GatewayInvInductive, PTL DEF GatewaySpec

(* A request id is idempotent until its answer expires: the provider is asked *)
(* for a second answer to one id of one client only after the first answer's  *)
(* expiry, for any number of concurrent, joined, lost and retried calls, any  *)
(* quota and any capacities.                                                  *)
THEOREM IdempotentUntilExpiry == GatewaySpec => []OneLiveAnswer
<1>1. GatewayInv => OneLiveAnswer
  BY DEF GatewayInv
<1>2. QED
  BY <1>1, GatewayInvInit, GatewayInvInductive, PTL DEF GatewaySpec

(* How far the kept answers may outgrow maxCompletedEntries: room is looked   *)
(* for when a request is admitted, so the answers kept and the answers still  *)
(* to come together stay below the sum of the two capacities.                 *)
THEOREM CapacityIsShared == GatewaySpec => []CapacityShared
<1>1. CapacityInv => CapacityShared
  BY DEF CapacityInv
<1>2. QED
  BY <1>1, CapacityInit, CapacityInductive, PTL DEF GatewaySpec

-----------------------------------------------------------------------------
(* The proof of a settlement.  Total, the sum of the transfer logs, is left  *)
(* unexpanded: the argument needs only that the sum compared and the sum     *)
(* paid are of the same logs.                                                *)

Events == Seq([sold : BOOLEAN, out : Nat])
Trade == [ok : BOOLEAN, transfers : Seq(Nat), events : Events]
Swaps == UNION {[T -> Trade] : T \in SUBSET Transactions}
Block == [id : Nat, swaps : Swaps]
Evidence == [tx : Transactions, height : Nat \ {0}, id : Nat, amount : Nat,
             sealed : BOOLEAN, enclosed : BOOLEAN]

\* The chain: blocks get growing ids, and none repeats a transaction.
ChainOk ==
    /\ blocks \in Seq(Block) /\ blockIds \in Nat
    /\ highest \in Nat /\ Len(blocks) <= highest
    /\ \A h \in 1..Len(blocks) : blocks[h].id <= blockIds
    /\ \A g, h \in 1..Len(blocks), t \in Transactions :
          t \in DOMAIN blocks[g].swaps /\ t \in DOMAIN blocks[h].swaps => g = h

\* A settlement whose hash fits is of enough output, and with an enclosure whose
\* hash fits too it is of the intended transaction.
EvidenceOk ==
    evidence # NoEvidence =>
        /\ evidence \in Evidence /\ evidence.id <= blockIds
        /\ evidence.sealed => evidence.amount >= CommittedMinimum
        /\ evidence.sealed /\ evidence.enclosed => evidence.tx = IntendedTx

\* The block of the evidence holds its swap, with the receipt that was read.
HoldsSwap(h, receipt) ==
    h = evidence.height /\ blocks[h].id = evidence.id =>
        /\ evidence.tx \in DOMAIN blocks[h].swaps
        /\ blocks[h].swaps[evidence.tx].ok /\ blocks[h].swaps[evidence.tx] = receipt
Underway ==
    check.pc \in {"block", "height"} =>
        /\ evidence # NoEvidence /\ evidence.sealed
        /\ \A h \in 1..Len(blocks) : HoldsSwap(h, check.receipt)

StandsUnlessRaced == check.pc = "height" /\ ~raced => BlockStands

\* The verified block is on the chain, too deep to be reorganised away.
PaidSwap(h) ==
    h = evidence.height /\ blocks[h].id = evidence.id =>
        /\ evidence.tx \in DOMAIN blocks[h].swaps
        /\ blocks[h].swaps[evidence.tx].ok
        /\ Pays(check.how, blocks[h].swaps[evidence.tx])
EvidenceVerified ==
    check.pc = "valid" =>
        /\ evidence # NoEvidence
        /\ \A h \in 1..Len(blocks) : PaidSwap(h)
        /\ ~raced => BlockStands /\ highest - evidence.height + 1 >= Confirmations

CheckStates == [pc : {"idle", "block", "height", "valid", "refused"},
                how : {"none", "token", "native"}, receipt : Trade]
CheckOk == check \in CheckStates

ProofInv == CheckOk /\ ChainOk /\ EvidenceOk /\ Underway /\ StandsUnlessRaced /\ EvidenceVerified

-----------------------------------------------------------------------------
(* Lemmas.                                                                 *)

\* A verification that is not under way holds no receipt.
LEMMA StageTyped ==
  ASSUME NEW pc \in {"idle", "valid", "refused"}, NEW how \in {"none", "token", "native"}
  PROVE  Stage(pc, how) \in CheckStates /\ Stage(pc, how).pc = pc /\ Stage(pc, how).how = how
<1>1. NoReceipt \in Trade
  BY DEF NoReceipt, Trade, Events
<1>2. QED
  BY <1>1 DEF Stage, CheckStates

LEMMA IdleTyped ==
  /\ NotChecked \in CheckStates /\ NotChecked.pc = "idle"
  /\ Unsettled \in CheckStates /\ Unsettled.pc = "refused"
BY StageTyped DEF NotChecked, Unsettled

LEMMA ProofInvInit == ProofInit => ProofInv
<1> SUFFICES ASSUME ProofInit PROVE ProofInv
  OBVIOUS
<1>1. blocks = <<>> /\ blockIds = 0 /\ highest = 0 /\ evidence = NoEvidence /\ check.pc = "idle"
  BY IdleTyped DEF ProofInit
<1>2. blocks \in Seq(Block) /\ Len(blocks) = 0
  BY <1>1
<1>3. ChainOk
  BY <1>1, <1>2 DEF ChainOk
<1>4. CheckOk
  BY <1>1, IdleTyped DEF ProofInit, CheckOk
<1>5. QED
  BY <1>1, <1>3, <1>4 DEF ProofInv, EvidenceOk, Underway, StandsUnlessRaced, EvidenceVerified

\* The invariant says what is asked: the swap of the evidence is in its block,
\* and in no other.
LEMMA InvGivesSettlement == ProofInv => SettlementStands
<1> DEFINE x == evidence.tx
           e == evidence.height
<1> SUFFICES ASSUME ProofInv, check.pc = "valid", ~raced
             PROVE  /\ HeightsOf(x) # {}
                    /\ \A h \in HeightsOf(x) :
                         blocks[h].swaps[x].ok /\ Pays(check.how, blocks[h].swaps[x])
                    /\ BoundToIntent => x = IntendedTx
  BY DEF SettlementStands
<1>1. blocks \in Seq(Block) /\ DOMAIN blocks = 1..Len(blocks)
  BY DEF ProofInv, ChainOk
<1>2. evidence \in Evidence /\ BlockStands /\ \A h \in 1..Len(blocks) : PaidSwap(h)
  BY DEF ProofInv, EvidenceVerified, EvidenceOk
<1>3. e \in 1..Len(blocks) /\ blocks[e].id = evidence.id /\ x \in Transactions
  BY <1>1, <1>2 DEF BlockStands, Evidence
<1>4. x \in DOMAIN blocks[e].swaps /\ blocks[e].swaps[x].ok /\ Pays(check.how, blocks[e].swaps[x])
  BY <1>2, <1>3 DEF PaidSwap
<1>5. ASSUME NEW h \in HeightsOf(x)
      PROVE  h = e
  BY <1>1, <1>3, <1>4 DEF HeightsOf, ProofInv, ChainOk
<1>6. e \in HeightsOf(x)
  BY <1>1, <1>3, <1>4 DEF HeightsOf
<1>7. BoundToIntent => x = IntendedTx
  <2>1. EvidenceOk /\ evidence # NoEvidence
    BY DEF ProofInv, EvidenceVerified
  <2>2. QED
    BY Zenon, <2>1 DEF EvidenceOk, BoundToIntent, SettlementIntact
<1>8. QED
  BY <1>4, <1>5, <1>6, <1>7

\* A new block has an id no evidence has, and repeats no transaction.
LEMMA NewBlockKeeps == ASSUME ProofInv, NEW swaps \in Swaps, NewBlock(swaps) PROVE ProofInv'
<1> DEFINE b == [id |-> blockIds + 1, swaps |-> swaps]
           n == Len(blocks)
<1>1. CheckOk /\ ChainOk /\ EvidenceOk /\ Underway /\ StandsUnlessRaced /\ EvidenceVerified
  BY DEF ProofInv
<1>2. blocks' = Append(blocks, b) /\ blockIds' = blockIds + 1
      /\ highest' = (IF Len(blocks') > highest THEN Len(blocks') ELSE highest)
      /\ UNCHANGED <<reorgs, evidence, collected, check, raced>>
      /\ \A t \in DOMAIN swaps : HeightsOf(t) = {}
  BY DEF NewBlock
<1>3. blocks \in Seq(Block) /\ b \in Block /\ n \in Nat /\ DOMAIN blocks = 1..n
      /\ blockIds \in Nat /\ highest \in Nat /\ n <= highest
  BY <1>1 DEF ChainOk, Block
<1>4. b.id = blockIds + 1 /\ b.swaps = swaps
  OBVIOUS
<1> HIDE DEF b
<1>5. blocks' \in Seq(Block) /\ Len(blocks') = n + 1 /\ blocks'[n + 1] = b
      /\ \A h \in 1..n : blocks'[h] = blocks[h]
  BY <1>2, <1>3
<1> HIDE DEF n
<1>6. \A h \in 1..(n + 1) : h \in 1..n \/ h = n + 1
  BY <1>3
<1>7. highest' \in Nat /\ highest' >= highest /\ Len(blocks') <= highest'
  BY <1>2, <1>3, <1>5
<1>8. \A h \in 1..n, t \in DOMAIN swaps : t \notin DOMAIN blocks[h].swaps
  BY <1>2, <1>3 DEF HeightsOf
<1>9. ChainOk'
  <2>1. \A h \in 1..Len(blocks') : blocks'[h].id <= blockIds'
    <3>1. \A h \in 1..n : blocks[h].id <= blockIds /\ blocks[h] \in Block
      BY <1>1, <1>3 DEF ChainOk, n
    <3>2. \A h \in 1..n : blocks[h].id \in Nat
      BY <3>1 DEF Block
    <3>3. QED
      BY <1>2, <1>3, <1>4, <1>5, <1>6, <3>1, <3>2
  <2>2. ASSUME NEW g \in 1..(n + 1), NEW h \in 1..(n + 1), NEW t \in Transactions,
               t \in DOMAIN blocks'[g].swaps, t \in DOMAIN blocks'[h].swaps
        PROVE  g = h
    <3>1. CASE g \in 1..n /\ h \in 1..n
      BY <1>1, <1>5, <2>2, <3>1 DEF ChainOk, n
    <3>2. CASE g = n + 1 /\ h \in 1..n
      BY <1>4, <1>5, <1>8, <2>2, <3>2
    <3>3. CASE h = n + 1 /\ g \in 1..n
      BY <1>4, <1>5, <1>8, <2>2, <3>3
    <3>4. QED
      BY <1>6, <3>1, <3>2, <3>3
  <2>3. QED
    BY <1>2, <1>3, <1>5, <1>7, <2>1, <2>2 DEF ChainOk
<1>10. evidence # NoEvidence => evidence \in Evidence /\ evidence.id <= blockIds
  BY <1>1 DEF EvidenceOk
<1>11. evidence # NoEvidence => b.id # evidence.id
  <2>1. SUFFICES ASSUME evidence # NoEvidence PROVE b.id # evidence.id
    OBVIOUS
  <2>2. evidence.id \in Nat /\ evidence.id <= blockIds
    BY <1>10, <2>1 DEF Evidence
  <2>3. QED
    BY <1>3, <1>4, <2>2
<1>12. EvidenceOk'
  <2>1. evidence # NoEvidence => evidence.id \in Nat
    BY <1>10 DEF Evidence
  <2>2. QED
    BY <1>1, <1>2, <1>3, <1>10, <2>1 DEF EvidenceOk
<1>13. evidence # NoEvidence => (BlockStands => BlockStands')
  <2>1. SUFFICES ASSUME evidence # NoEvidence, BlockStands PROVE BlockStands'
    OBVIOUS
  <2>2. evidence.height \in 1..n
    BY <1>3, <1>10, <2>1 DEF BlockStands, Evidence, n
  <2>3. QED
    BY <1>2, <1>3, <1>5, <2>1, <2>2 DEF BlockStands
<1>14. Underway'
  BY <1>1, <1>2, <1>5, <1>6, <1>11 DEF Underway, HoldsSwap, n
<1>15. StandsUnlessRaced'
  BY <1>1, <1>2, <1>13 DEF StandsUnlessRaced, Underway
<1>16. EvidenceVerified'
  <2>1. check.pc = "valid" => \A h \in 1..Len(blocks') : PaidSwap(h)'
    BY SMTT(40), <1>1, <1>2, <1>5, <1>6, <1>11 DEF EvidenceVerified, PaidSwap, n
  <2>2. SUFFICES ASSUME check.pc = "valid", ~raced
                 PROVE  BlockStands' /\ highest' - evidence'.height + 1 >= Confirmations
    BY <1>1, <1>2, <2>1 DEF EvidenceVerified
  <2>3. evidence.height \in Nat /\ Confirmations \in Nat
    BY <1>1, <1>10, <2>2, SettlementProofAssumption DEF EvidenceVerified, Evidence
  <2>4. BlockStands /\ evidence # NoEvidence /\ highest - evidence.height + 1 >= Confirmations
    BY <1>1, <2>2 DEF EvidenceVerified
  <2>5. QED
    BY SMTT(40), <1>2, <1>3, <1>7, <1>13, <2>3, <2>4
<1>17. CheckOk'
  BY <1>1, <1>2 DEF CheckOk, CheckStates
<1>18. QED
  BY <1>9, <1>12, <1>14, <1>15, <1>16, <1>17 DEF ProofInv

\* A reorganisation keeps the blocks below it, and those Confirmations deep.
LEMMA ReorganiseKeeps ==
  ASSUME ProofInv, NEW height \in 0..(Len(blocks) - 1), Reorganise(height)
  PROVE  ProofInv'
<1> DEFINE n == Len(blocks)
<1>1. CheckOk /\ ChainOk /\ EvidenceOk /\ Underway /\ StandsUnlessRaced /\ EvidenceVerified
  BY DEF ProofInv
<1>2. blocks' = SubSeq(blocks, 1, height) /\ raced' = (raced \/ check.pc = "height")
      /\ height >= highest - (Confirmations - 1)
      /\ UNCHANGED <<blockIds, highest, evidence, collected, check>>
  BY DEF Reorganise
<1>3. blocks \in Seq(Block) /\ n \in Nat /\ DOMAIN blocks = 1..n /\ highest \in Nat /\ n <= highest
  BY <1>1 DEF ChainOk
<1>4. height \in Nat /\ height < n
  BY <1>3
<1>5. blocks' \in Seq(Block) /\ Len(blocks') = height /\ \A h \in 1..height : blocks'[h] = blocks[h]
  <2>1. \A i \in 1..height : blocks[i] \in Block
    BY <1>3, <1>4
  <2>2. QED
    BY <1>2, <1>3, <1>4, <2>1, SubSeqProperties
<1> HIDE DEF n
<1>6. \A h \in 1..height : h \in 1..n
  BY <1>3, <1>4
<1>7. ChainOk'
  BY <1>1, <1>2, <1>3, <1>4, <1>5, <1>6 DEF ChainOk, n
<1>8. EvidenceOk' /\ CheckOk'
  BY <1>1, <1>2 DEF EvidenceOk, CheckOk
<1>9. Underway' /\ StandsUnlessRaced'
  BY ZenonT(60), <1>1, <1>2, <1>5, <1>6 DEF Underway, HoldsSwap, StandsUnlessRaced, n
<1>10. EvidenceVerified'
  <2>1. check.pc = "valid" => \A h \in 1..Len(blocks') : PaidSwap(h)'
    BY <1>1, <1>2, <1>5, <1>6 DEF EvidenceVerified, PaidSwap, n
  <2>2. SUFFICES ASSUME check.pc = "valid", ~raced PROVE BlockStands'
    BY <1>1, <1>2, <2>1 DEF EvidenceVerified
  <2>3. evidence \in Evidence /\ BlockStands /\ highest - evidence.height + 1 >= Confirmations
    BY <1>1, <2>2 DEF EvidenceVerified, EvidenceOk
  <2>4. evidence.height \in Nat \ {0} /\ Confirmations \in Nat
    BY <2>3, SettlementProofAssumption DEF Evidence
  <2>5. evidence.height \in 1..height
    BY <1>2, <1>3, <1>4, <2>3, <2>4
  <2>6. QED
    BY <1>2, <1>4, <1>5, <2>3, <2>5 DEF BlockStands
<1>11. QED
  BY <1>7, <1>8, <1>9, <1>10 DEF ProofInv

\* Evidence is collected and damaged only while nothing is being verified.
LEMMA CollectKeeps ==
  ASSUME ProofInv, NEW bound \in BOOLEAN, NEW h \in DOMAIN blocks,
         NEW t \in Transactions, NEW amount \in Amounts, Collect(bound, h, t, amount)
  PROVE  ProofInv'
<1> DEFINE e == [tx |-> t, height |-> h, id |-> blocks[h].id, amount |-> amount,
                 sealed |-> TRUE, enclosed |-> bound]
<1>1. CheckOk /\ ChainOk
  BY DEF ProofInv
<1>2. evidence' = e /\ check' = NotChecked /\ UNCHANGED <<blocks, blockIds, highest, reorgs, raced>>
      /\ (bound => t = IntendedTx) /\ amount >= CommittedMinimum
  BY DEF Collect, MatchesIntent, SettlementFits
<1>3. h \in 1..Len(blocks) /\ h \in Nat \ {0} /\ blocks[h] \in Block /\ blocks[h].id <= blockIds
  BY <1>1 DEF ChainOk
<1>4. blocks[h].id \in Nat /\ amount \in Nat
  BY <1>3, SettlementProofAssumption DEF Block
<1>5. e \in Evidence /\ e.id = blocks[h].id /\ e.tx = t /\ e.amount = amount /\ e.enclosed = bound
  BY <1>3, <1>4 DEF Evidence
<1> HIDE DEF e
<1>6. EvidenceOk'
  BY <1>2, <1>3, <1>5 DEF EvidenceOk
<1>7. ChainOk'
  BY <1>1, <1>2 DEF ChainOk
<1>8. CheckOk' /\ check'.pc = "idle"
  BY <1>2, IdleTyped DEF CheckOk
<1>9. QED
  BY <1>6, <1>7, <1>8 DEF ProofInv, Underway, StandsUnlessRaced, EvidenceVerified

LEMMA DamageSettlementKeeps ==
  ASSUME ProofInv, NEW amount \in Amounts, DamageSettlement(amount) PROVE ProofInv'
<1>1. ChainOk /\ EvidenceOk
  BY DEF ProofInv
<1>2. evidence' = [evidence EXCEPT !.amount = amount, !.sealed = FALSE, !.enclosed = FALSE]
      /\ check' = NotChecked /\ evidence # NoEvidence
      /\ UNCHANGED <<blocks, blockIds, highest, reorgs, raced>>
  BY DEF DamageSettlement, NoEvidence
<1>3. evidence \in Evidence /\ evidence.id <= blockIds /\ amount \in Nat
  BY <1>1, <1>2, SettlementProofAssumption DEF EvidenceOk
<1>4. evidence' \in Evidence /\ evidence'.id = evidence.id /\ ~evidence'.sealed
  BY <1>2, <1>3 DEF Evidence
<1>5. EvidenceOk' /\ ChainOk'
  BY <1>1, <1>2, <1>3, <1>4 DEF EvidenceOk, ChainOk
<1>6. CheckOk' /\ check'.pc = "idle"
  BY <1>2, IdleTyped DEF CheckOk
<1>7. QED
  BY <1>5, <1>6 DEF ProofInv, Underway, StandsUnlessRaced, EvidenceVerified

LEMMA DamageEnclosureKeeps == ASSUME ProofInv, DamageEnclosure PROVE ProofInv'
<1>1. ChainOk /\ EvidenceOk
  BY DEF ProofInv
<1>2. evidence' = [evidence EXCEPT !.enclosed = FALSE] /\ check' = NotChecked /\ evidence # NoEvidence
      /\ UNCHANGED <<blocks, blockIds, highest, reorgs, raced>>
  BY DEF DamageEnclosure, NoEvidence
<1>3. evidence \in Evidence /\ evidence.id <= blockIds
      /\ (evidence.sealed => evidence.amount >= CommittedMinimum)
  BY <1>1, <1>2 DEF EvidenceOk
<1>4. evidence' \in Evidence /\ evidence'.id = evidence.id /\ ~evidence'.enclosed
      /\ evidence'.sealed = evidence.sealed /\ evidence'.amount = evidence.amount
  BY <1>2, <1>3 DEF Evidence
<1>5. EvidenceOk' /\ ChainOk'
  BY <1>1, <1>2, <1>3, <1>4 DEF EvidenceOk, ChainOk
<1>6. CheckOk' /\ check'.pc = "idle"
  BY <1>2, IdleTyped DEF CheckOk
<1>7. QED
  BY <1>5, <1>6 DEF ProofInv, Underway, StandsUnlessRaced, EvidenceVerified

\* The receipt is that of the swap in the block of the evidence.
LEMMA ReadReceiptKeeps ==
  ASSUME ProofInv, NEW how \in {"token", "native"}, ReadReceipt(how) PROVE ProofInv'
<1> DEFINE e == evidence.height
           x == evidence.tx
           ok == /\ SettlementIntact
                 /\ e \in HeightsOf(x)
                 /\ blocks[e].id = evidence.id
                 /\ blocks[e].swaps[x].ok
           receipt == blocks[e].swaps[x]
<1>1. CheckOk /\ ChainOk /\ EvidenceOk
  BY DEF ProofInv
<1>2. evidence # NoEvidence
      /\ check' = (IF ok THEN [pc |-> "block", how |-> how, receipt |-> receipt] ELSE Unsettled)
      /\ UNCHANGED <<blocks, blockIds, highest, reorgs, evidence, collected, raced>>
  BY DEF ReadReceipt
<1>3. ChainOk' /\ EvidenceOk'
  BY <1>1, <1>2 DEF ChainOk, EvidenceOk
<1>4. CASE ~ok
  <2>1. CheckOk' /\ check'.pc = "refused"
    BY SMTT(40), <1>2, <1>4, IdleTyped DEF CheckOk
  <2>2. QED
    BY <1>3, <2>1 DEF ProofInv, Underway, StandsUnlessRaced, EvidenceVerified
<1>5. CASE ok
  <2>1. evidence \in Evidence /\ evidence.sealed
    BY <1>1, <1>2, <1>5 DEF EvidenceOk, SettlementIntact
  <2>2. blocks \in Seq(Block) /\ e \in 1..Len(blocks) /\ x \in DOMAIN blocks[e].swaps
        /\ blocks[e].id = evidence.id /\ blocks[e].swaps[x].ok /\ receipt = blocks[e].swaps[x]
    BY <1>1, <1>5, <2>1 DEF HeightsOf, ChainOk
  <2> HIDE DEF receipt
  <2>3. blocks[e] \in Block
    BY <2>2
  <2>4. receipt \in Trade
    BY <2>2, <2>3 DEF Block, Swaps
  <2>5. check' = [pc |-> "block", how |-> how, receipt |-> receipt]
    BY <1>2, <1>5
  <2>6. CheckOk' /\ check'.pc = "block" /\ check'.receipt = receipt
    BY <2>4, <2>5 DEF CheckOk, CheckStates
  <2>7. \A h \in 1..Len(blocks) : HoldsSwap(h, receipt)
    BY <2>2 DEF HoldsSwap
  <2>8. QED
    BY <1>2, <1>3, <2>1, <2>6, <2>7
    DEF ProofInv, Underway, HoldsSwap, StandsUnlessRaced, EvidenceVerified
<1>6. QED
  BY <1>4, <1>5

\* getBlock: the block read is the evidence's, and nothing has raced yet.
LEMMA ReadBlockKeeps == ASSUME ProofInv, ReadBlock PROVE ProofInv'
<1>1. CheckOk /\ ChainOk /\ EvidenceOk /\ Underway
  BY DEF ProofInv
<1>2. check.pc = "block" /\ UNCHANGED <<blocks, blockIds, highest, reorgs, evidence, collected>>
      /\ check' = (IF BlockStands THEN [check EXCEPT !.pc = "height"] ELSE Unsettled)
  BY DEF ReadBlock
<1>3. ChainOk' /\ EvidenceOk'
  BY <1>1, <1>2 DEF ChainOk, EvidenceOk
<1>4. CASE BlockStands
  <2>1. check' = [check EXCEPT !.pc = "height"]
    BY <1>2, <1>4
  <2>2. CheckOk' /\ check'.pc = "height" /\ check'.receipt = check.receipt
    BY <1>1, <2>1 DEF CheckOk, CheckStates
  <2>3. BlockStands'
    BY <1>2, <1>4 DEF BlockStands
  <2>4. Underway'
    BY <1>1, <1>2, <2>2 DEF Underway, HoldsSwap
  <2>5. QED
    BY <1>3, <2>2, <2>3, <2>4 DEF ProofInv, StandsUnlessRaced, EvidenceVerified
<1>5. CASE ~BlockStands
  <2>1. CheckOk' /\ check'.pc = "refused"
    BY <1>2, <1>5, IdleTyped DEF CheckOk
  <2>2. QED
    BY <1>3, <2>1 DEF ProofInv, Underway, StandsUnlessRaced, EvidenceVerified
<1>6. QED
  BY <1>4, <1>5

\* getBlockNumber and the logs: what becomes valid is deep enough and paid.
LEMMA ReadHeightKeeps == ASSUME ProofInv, ReadHeight PROVE ProofInv'
<1> DEFINE deep == Len(blocks) - evidence.height + 1 >= Confirmations
           reconciled == Reconciles(check.how, check.receipt, evidence.amount)
<1>1. CheckOk /\ ChainOk /\ EvidenceOk /\ Underway /\ StandsUnlessRaced
  BY DEF ProofInv
<1>2. check.pc = "height"
      /\ UNCHANGED <<blocks, blockIds, highest, reorgs, evidence, collected, raced>>
      /\ check' = (IF deep /\ reconciled THEN Stage("valid", check.how) ELSE Unsettled)
  BY DEF ReadHeight
<1>3. ChainOk' /\ EvidenceOk'
  BY <1>1, <1>2 DEF ChainOk, EvidenceOk
<1>4. evidence \in Evidence /\ evidence.sealed /\ evidence.amount >= CommittedMinimum
      /\ check.how \in {"none", "token", "native"} /\ check.receipt \in Trade
      /\ \A h \in 1..Len(blocks) : HoldsSwap(h, check.receipt)
  BY <1>1, <1>2 DEF CheckOk, CheckStates, Underway, EvidenceOk
<1>5. CASE deep /\ reconciled
  <2>1. check' = Stage("valid", check.how)
    BY <1>2, <1>5
  <2>2. CheckOk' /\ check'.pc = "valid" /\ check'.how = check.how
    <3>1. Stage("valid", check.how) \in CheckStates /\ Stage("valid", check.how).pc = "valid"
          /\ Stage("valid", check.how).how = check.how
      BY <1>4, StageTyped
    <3>2. QED
      BY <2>1, <3>1 DEF CheckOk
  <2>3. Pays(check.how, check.receipt)
    BY <1>4, <1>5 DEF Reconciles, TransfersReconcile, NativeEventReconciles, Pays
  <2>4. \A h \in 1..Len(blocks) : PaidSwap(h)
    BY <1>4, <2>3 DEF HoldsSwap, PaidSwap
  <2>5. ~raced => BlockStands /\ highest - evidence.height + 1 >= Confirmations
    <3>1. ~raced => BlockStands
      BY <1>1, <1>2 DEF StandsUnlessRaced
    <3>2. evidence.height \in Nat /\ Len(blocks) \in Nat /\ highest \in Nat
          /\ Len(blocks) <= highest /\ Confirmations \in Nat
      BY <1>1, <1>4, SettlementProofAssumption DEF ChainOk, Evidence
    <3>3. QED
      BY <1>5, <3>1, <3>2
  <2>6. EvidenceVerified'
    BY <1>2, <1>4, <2>2, <2>4, <2>5 DEF EvidenceVerified, PaidSwap, BlockStands, EvidenceOk, NoEvidence, Evidence
  <2>7. QED
    BY <1>3, <2>2, <2>6 DEF ProofInv, Underway, StandsUnlessRaced
<1>6. CASE ~(deep /\ reconciled)
  <2>1. CheckOk' /\ check'.pc = "refused"
    BY <1>2, <1>6, IdleTyped DEF CheckOk
  <2>2. QED
    BY <1>3, <2>1 DEF ProofInv, Underway, StandsUnlessRaced, EvidenceVerified
<1>7. QED
  BY <1>5, <1>6

LEMMA ProofInvInductive == ProofInv /\ [ProofNext]_proofVars => ProofInv'
<1> SUFFICES ASSUME ProofInv, [ProofNext]_proofVars PROVE ProofInv'
  OBVIOUS
<1>1. CASE NewBlock(NoTrade)
  <2>1. NoTrade \in Swaps
    <3>1. NoTrade \in [{} -> Trade]
      BY DEF NoTrade
    <3>2. QED
      BY <3>1 DEF Swaps
  <2>2. QED
    BY <1>1, <2>1, NewBlockKeeps
<1>2. ASSUME NEW t \in Transactions, NEW ok \in BOOLEAN, NEW p \in Payments,
             NewBlock([x \in {t} |-> [ok |-> ok, transfers |-> p.transfers, events |-> p.events]])
      PROVE  ProofInv'
  <2> DEFINE r == [ok |-> ok, transfers |-> p.transfers, events |-> p.events]
  <2>1. p.transfers \in Seq(Nat) /\ p.events \in Events
    BY SettlementProofAssumption DEF Events
  <2>2. r \in Trade
    BY <2>1 DEF Trade
  <2>3. NewBlock([x \in {t} |-> r])
    BY <1>2
  <2> HIDE DEF r
  <2>4. [x \in {t} |-> r] \in [{t} -> Trade]
    BY <2>2
  <2>5. [x \in {t} |-> r] \in Swaps
    BY <2>4 DEF Swaps
  <2>6. QED
    BY <2>3, <2>5, NewBlockKeeps
<1>3. ASSUME NEW height \in 0..(Len(blocks) - 1), Reorganise(height) PROVE ProofInv'
  BY <1>3, ReorganiseKeeps
<1>4. ASSUME NEW bound \in BOOLEAN, NEW h \in DOMAIN blocks,
             NEW t \in Transactions, NEW amount \in Amounts, Collect(bound, h, t, amount)
      PROVE  ProofInv'
  BY <1>4, CollectKeeps
<1>5. ASSUME NEW amount \in Amounts, DamageSettlement(amount) PROVE ProofInv'
  BY <1>5, DamageSettlementKeeps
<1>6. CASE DamageEnclosure
  BY <1>6, DamageEnclosureKeeps
<1>7. ASSUME NEW how \in {"token", "native"}, ReadReceipt(how) PROVE ProofInv'
  BY <1>7, ReadReceiptKeeps
<1>8. CASE ReadBlock
  BY <1>8, ReadBlockKeeps
<1>9. CASE ReadHeight
  BY <1>9, ReadHeightKeeps
<1>10. CASE UNCHANGED proofVars
  BY SMTT(40), <1>10 DEF proofVars, ProofInv, CheckOk, ChainOk, EvidenceOk, Underway, HoldsSwap,
               StandsUnlessRaced, BlockStands, EvidenceVerified, PaidSwap
<1>11. QED
  BY <1>1, <1>2, <1>3, <1>4, <1>5, <1>6, <1>7, <1>8, <1>9, <1>10 DEF ProofNext

-----------------------------------------------------------------------------
(* Theorem.                                                                *)

(* Evidence that verifyCanonicalSettlement or verifyCanonicalNativeSettlement *)
(* accepted names a swap that stays on the chain and paid at least the        *)
(* committed minimum, the one of the intent when it is bound to one, whatever *)
(* reorganisations came before, during the first two reads and after, when    *)
(* none came between the block and the height.                                *)
THEOREM VerifiedSettlementStands == ProofSpec => []SettlementStands
<1>1. ProofInv => SettlementStands
  BY InvGivesSettlement
<1>2. QED
  BY <1>1, ProofInvInit, ProofInvInductive, PTL DEF ProofSpec

-----------------------------------------------------------------------------
(* The swap page: one swap pending, and the newest quote shown.            *)

Moments == {"idle", "pending", "network", "plan", "requote", "approve", "refused", "build",
            "simulate", "submit", "receipt"}
Fates == {"unseen", "mempool", "mined", "gone"}
\* A sent swap has a nonce, a time and a fate; the rest of its record the
\* argument does not need.
Sent(tx) ==
    /\ {"nonce", "sentAt", "status"} \subseteq DOMAIN tx
    /\ tx.nonce \in Nat /\ tx.sentAt \in Nat /\ tx.status \in Fates

\* The call of swap() under way is somewhere
CallShape == "pc" \in DOMAIN swap /\ swap.pc \in Moments

SwapTypes ==
    /\ pageTime \in Nat /\ mined \in Nat /\ CallShape
    /\ \E S : txs \in Seq(S)
    /\ \A i \in DOMAIN txs : Sent(txs[i])

\* The node has not seen it, and may still see it.
OnItsWay(i) == txs[i].status = "unseen" /\ pageTime - txs[i].sentAt <= PendingLife

\* A transaction that may still be mined has the account's next nonce.
NextNonceOnly ==
    \A i \in DOMAIN txs : txs[i].status = "mempool" \/ OnItsWay(i) => txs[i].nonce = mined

\* What the node does not see yet is the swap the page remembers.
UnseenIsRemembered == \A i \in DOMAIN txs : OnItsWay(i) => pendingRecord = i

\* The page waits for the receipt of the swap it remembers.
ReceiptOfRemembered ==
    Moment("receipt") => pendingRecord = Len(txs) /\ Len(txs) > 0

\* Past blockIfPendingSwap nothing is on its way; past
\* blockIfNetworkTransactionPending nothing waits in the mempool either.
NothingOnItsWay ==
    swap.pc \notin {"idle", "pending", "receipt"} => \A i \in DOMAIN txs : ~OnItsWay(i)
NothingWaits ==
    swap.pc \notin {"idle", "pending", "network", "receipt"} =>
        \A i \in DOMAIN txs : txs[i].status # "mempool"

SwapInv == /\ SwapTypes /\ NextNonceOnly /\ UnseenIsRemembered
           /\ ReceiptOfRemembered /\ NothingOnItsWay /\ NothingWaits

(* Wherever swap() goes, the call is somewhere. *)
LEMMA CallUpdate ==
  ASSUME CallShape, NEW pc \in Moments
  PROVE  /\ Goto(pc) => CallShape' /\ swap'.pc = pc
         /\ GiveUp => CallShape' /\ swap'.pc = "idle"
         /\ swap' = [swap EXCEPT !.pc = pc, !.retried = TRUE] => CallShape' /\ swap'.pc = pc
         /\ \A n : swap' = [swap EXCEPT !.pc = pc, !.approvals = n]
                     => CallShape' /\ swap'.pc = pc
         /\ \A n, d : swap' = [swap EXCEPT !.pc = pc, !.nonce = n, !.deadline = d]
                        => CallShape' /\ swap'.pc = pc
         /\ \A plan : swap' = [swap EXCEPT !.plan = plan, !.retried = FALSE, !.pc = pc]
                        => CallShape' /\ swap'.pc = pc
<1>1. ASSUME Goto(pc)
      PROVE  CallShape' /\ swap'.pc = pc
  BY <1>1 DEF CallShape, Goto
<1>2. ASSUME GiveUp
      PROVE  CallShape' /\ swap'.pc = "idle"
  BY <1>2 DEF CallShape, GiveUp, Idle, Moments
<1>3. ASSUME swap' = [swap EXCEPT !.pc = pc, !.retried = TRUE]
      PROVE  CallShape' /\ swap'.pc = pc
  BY <1>3 DEF CallShape
<1>4. ASSUME NEW n, swap' = [swap EXCEPT !.pc = pc, !.approvals = n]
      PROVE  CallShape' /\ swap'.pc = pc
  BY <1>4 DEF CallShape
<1>5. ASSUME NEW n, NEW d, swap' = [swap EXCEPT !.pc = pc, !.nonce = n, !.deadline = d]
      PROVE  CallShape' /\ swap'.pc = pc
  BY <1>5 DEF CallShape
<1>6. ASSUME NEW plan, swap' = [swap EXCEPT !.plan = plan, !.retried = FALSE, !.pc = pc]
      PROVE  CallShape' /\ swap'.pc = pc
  BY <1>6 DEF CallShape
<1>7. QED
  BY <1>1, <1>2, <1>3, <1>4, <1>5, <1>6

(* What sends and mines nothing, and goes past neither of the two guards,   *)
(* keeps the invariant.                                                     *)
LEMMA QuietMove ==
  ASSUME SwapInv, UNCHANGED <<txs, mined, pageTime, pendingRecord>>, CallShape',
         \/ swap'.pc = swap.pc
         \/ swap'.pc \in {"idle", "pending"}
         \/ /\ swap.pc \notin {"idle", "pending", "network", "receipt"}
            /\ swap'.pc # "receipt"
  PROVE  SwapInv'
<1>1. SwapTypes'
  BY DEF SwapInv, SwapTypes
<1>2. NextNonceOnly' /\ UnseenIsRemembered'
  BY DEF SwapInv, NextNonceOnly, UnseenIsRemembered, OnItsWay
<1>3. ReceiptOfRemembered' /\ NothingOnItsWay' /\ NothingWaits'
  BY DEF SwapInv, ReceiptOfRemembered, NothingOnItsWay, NothingWaits, OnItsWay, Moment
<1>4. QED
  BY <1>1, <1>2, <1>3 DEF SwapInv

(* The steps of quote(), of the market and of the wallet's selection. *)
LEMMA QuoteMove ==
  ASSUME SwapInv,
         \/ QuoteSoon \/ TimerFires \/ SelectAccount
         \/ \E j \in jobs : Quoted(j) \/ ProofAssembled(j) \/ QuoteFails(j)
         \/ \E r \in Routes, p \in Prices : MoveOffer(r, p)
  PROVE  SwapInv'
<1>1. UNCHANGED <<txs, mined, pageTime, pendingRecord, swap>>
  BY DEF QuoteSoon, TimerFires, SelectAccount, Quoted, ProofAssembled, QuoteFails, MoveOffer,
     PageVars
<1>2. CallShape' /\ swap'.pc = swap.pc
  BY <1>1 DEF SwapInv, SwapTypes, CallShape
<1>3. QED
  BY <1>1, <1>2, QuietMove

(* The steps of swap() behind the two guards, and those that end it. *)
LEMMA CallMove ==
  ASSUME SwapInv,
         ClickSwap \/ PlanValidated \/ Requoted \/ Built \/ Simulated \/ SwapFails
  PROVE  SwapInv'
<1>1. CallShape
  BY DEF SwapInv, SwapTypes
<1>2. UNCHANGED <<txs, mined, pageTime, pendingRecord>>
  BY SMTT(40) DEF ClickSwap, PlanValidated, Requoted, Built, Simulated, SwapFails, PageVars
<1>3. CASE ClickSwap
  BY <1>1, <1>2, <1>3, CallUpdate, QuietMove DEF ClickSwap, Moments
<1>4. CASE PlanValidated
  <2>1. \/ GiveUp
        \/ swap' = [swap EXCEPT !.pc = "requote", !.retried = TRUE]
        \/ \E pc \in {"build", "approve", "refused"} :
             swap' = [swap EXCEPT !.plan = BestPlan, !.retried = FALSE, !.pc = pc]
    BY <1>4 DEF PlanValidated, AfterPlan
  <2>2. CallShape' /\ swap'.pc \in {"idle", "requote", "build", "approve", "refused"}
    BY <1>1, <2>1, CallUpdate DEF Moments
  <2>3. swap.pc = "plan"
    BY <1>4 DEF PlanValidated, Moment
  <2>4. QED
    BY <1>2, <2>2, <2>3, QuietMove
<1>5. CASE Requoted
  <2>1. CallShape' /\ swap'.pc \in {"idle", "plan"} /\ swap.pc = "requote"
    BY <1>1, <1>5, CallUpdate DEF Requoted, Moments, Moment
  <2>2. QED
    BY SMTT(40), <1>2, <2>1, QuietMove
<1>6. CASE Built
  <2>1. CallShape' /\ swap'.pc = "simulate" /\ swap.pc = "build"
    BY ZenonT(60), <1>1, <1>6, CallUpdate DEF Built, Moments, Moment
  <2>2. QED
    BY <1>2, <2>1, QuietMove
<1>7. CASE Simulated
  <2>1. CallShape' /\ swap'.pc = "submit" /\ swap.pc = "simulate"
    BY <1>1, <1>7, CallUpdate DEF Simulated, Moments, Moment
  <2>2. QED
    BY <1>2, <2>1, QuietMove
<1>8. CASE SwapFails
  <2>1. CallShape' /\ swap'.pc = "idle"
    BY <1>1, <1>8, CallUpdate DEF SwapFails, Moments
  <2>2. QED
    BY SMTT(40), <1>2, <2>1, QuietMove
<1>9. QED
  BY <1>3, <1>4, <1>5, <1>6, <1>7, <1>8

(* blockIfPendingSwap: what is on its way is remembered, and what is        *)
(* remembered is mined or old once the guard lets a swap pass.              *)
LEMMA PendingMove ==
  ASSUME SwapInv, PendingChecked PROVE SwapInv'
<1>1. /\ UNCHANGED <<txs, mined, pageTime>> /\ swap.pc = "pending"
      /\ \/ /\ Goto("network") /\ pendingRecord' = 0
            /\ \/ pendingRecord = 0 \/ txs[pendingRecord].status = "mined"
               \/ pageTime - txs[pendingRecord].sentAt > PendingLife
         \/ GiveUp /\ UNCHANGED pendingRecord
  BY DEF PendingChecked, Moment, PageVars
<1>2. CallShape /\ pageTime \in Nat /\ PendingLife \in Nat
      /\ \A i \in DOMAIN txs : Sent(txs[i])
  BY SwapAssumption DEF SwapInv, SwapTypes
<1>3. CASE GiveUp /\ UNCHANGED pendingRecord
  <2>1. CallShape' /\ swap'.pc = "idle"
    BY <1>2, <1>3, CallUpdate DEF Moments
  <2>2. QED
    BY SMTT(40), <1>1, <1>3, <2>1, QuietMove
<1>4. CASE /\ Goto("network") /\ pendingRecord' = 0
           /\ \/ pendingRecord = 0 \/ txs[pendingRecord].status = "mined"
              \/ pageTime - txs[pendingRecord].sentAt > PendingLife
  <2>1. CallShape' /\ swap'.pc = "network"
    BY <1>2, <1>4, CallUpdate DEF Moments
  <2>2. \A i \in DOMAIN txs : ~OnItsWay(i)
    <3> SUFFICES ASSUME NEW i \in DOMAIN txs, OnItsWay(i) PROVE FALSE
      OBVIOUS
    <3>1. pendingRecord = i /\ Sent(txs[i])
      BY <1>2 DEF SwapInv, UnseenIsRemembered
    <3>2. txs[i].status = "unseen" /\ pageTime - txs[i].sentAt <= PendingLife
          /\ txs[i].sentAt \in Nat
      BY <3>1 DEF OnItsWay, Sent
    <3>3. pendingRecord # 0
      BY <3>1 DEF SwapInv, SwapTypes
    <3>4. QED
      BY <1>2, <1>4, <3>1, <3>2, <3>3
  <2>3. SwapTypes'
    BY <1>1, <2>1 DEF SwapInv, SwapTypes
  <2>4. NextNonceOnly' /\ UnseenIsRemembered' /\ NothingOnItsWay'
    BY <1>1, <2>2 DEF SwapInv, NextNonceOnly, UnseenIsRemembered, NothingOnItsWay, OnItsWay
  <2>5. ReceiptOfRemembered' /\ NothingWaits'
    BY <2>1 DEF ReceiptOfRemembered, NothingWaits, Moment
  <2>6. QED
    BY SMTT(40), <2>3, <2>4, <2>5 DEF SwapInv
<1>5. QED
  BY <1>1, <1>3, <1>4

(* The node counts no transaction as pending exactly when its mempool holds *)
(* none with the account's next nonce.                                      *)
LEMMA PendingCountOf ==
  ASSUME SwapTypes
  PROVE  /\ PendingCount = mined
              <=> ~\E i \in DOMAIN txs : txs[i].status = "mempool" /\ txs[i].nonce = mined
         /\ PendingCount \in Nat
<1>1. mined \in Nat
  BY DEF SwapTypes
<1>2. (\E i \in Unresolved : txs[i].status = "mempool" /\ txs[i].nonce = mined)
        <=> \E i \in DOMAIN txs : txs[i].status = "mempool" /\ txs[i].nonce = mined
  BY DEF Unresolved
<1>3. QED
  BY <1>1, <1>2 DEF PendingCount

(* blockIfNetworkTransactionPending: what the mempool holds has the next    *)
(* nonce, so a count without it means the mempool is empty.                 *)
LEMMA NetworkMove ==
  ASSUME SwapInv, NetworkChecked PROVE SwapInv'
<1>1. /\ UNCHANGED <<txs, mined, pageTime, pendingRecord>> /\ swap.pc = "network"
      /\ \/ Goto("plan") /\ PendingCount = mined
         \/ GiveUp
  BY DEF NetworkChecked, Moment, PageVars
<1>2. CallShape /\ SwapTypes
  BY DEF SwapInv, SwapTypes
<1>3. CASE GiveUp
  <2>1. CallShape' /\ swap'.pc = "idle"
    BY <1>2, <1>3, CallUpdate DEF Moments
  <2>2. QED
    BY SMTT(40), <1>1, <2>1, QuietMove
<1>4. CASE Goto("plan") /\ PendingCount = mined
  <2>1. CallShape' /\ swap'.pc = "plan"
    BY <1>2, <1>4, CallUpdate DEF Moments
  <2>2. \A i \in DOMAIN txs : txs[i].status # "mempool"
    BY <1>2, <1>4, PendingCountOf DEF SwapInv, NextNonceOnly
  <2>3. SwapTypes'
    BY <1>1, <2>1 DEF SwapInv, SwapTypes
  <2>4. NextNonceOnly' /\ UnseenIsRemembered'
    BY <1>1 DEF SwapInv, NextNonceOnly, UnseenIsRemembered, OnItsWay
  <2>5. NothingOnItsWay'
    BY <1>1 DEF SwapInv, NothingOnItsWay, OnItsWay
  <2>6. NothingWaits' /\ ReceiptOfRemembered'
    BY <1>1, <2>1, <2>2 DEF NothingWaits, ReceiptOfRemembered, Moment
  <2>7. QED
    BY SMTT(40), <2>3, <2>4, <2>5, <2>6 DEF SwapInv
<1>5. QED
  BY <1>1, <1>3, <1>4

(* An approval uses a nonce up while nothing else may take it. *)
LEMMA ApprovalMove ==
  ASSUME SwapInv, Approved PROVE SwapInv'
<1>1. /\ UNCHANGED <<txs, pageTime, pendingRecord>> /\ swap.pc = "approve"
      /\ mined' = mined + 1 /\ swap' = [swap EXCEPT !.pc = "plan", !.approvals = @ + 1]
  BY DEF Approved, Moment
<1>2. CallShape /\ mined \in Nat
  BY SMTT(40) DEF SwapInv, SwapTypes
<1>3. CallShape' /\ swap'.pc = "plan"
  BY <1>1, <1>2, CallUpdate DEF Moments
<1>4. \A i \in DOMAIN txs : ~OnItsWay(i) /\ txs[i].status # "mempool"
  BY <1>1 DEF SwapInv, NothingOnItsWay, NothingWaits
<1>5. SwapTypes'
  BY <1>1, <1>2, <1>3 DEF SwapInv, SwapTypes
<1>6. NextNonceOnly' /\ UnseenIsRemembered' /\ NothingOnItsWay' /\ NothingWaits'
  BY <1>1, <1>4 DEF NextNonceOnly, UnseenIsRemembered, NothingOnItsWay, NothingWaits, OnItsWay
<1>7. ReceiptOfRemembered'
  BY <1>3 DEF ReceiptOfRemembered, Moment
<1>8. QED
  BY <1>5, <1>6, <1>7 DEF SwapInv

(* The wallet broadcasts: nothing else may be mined, and the swap takes the *)
(* account's next nonce and is remembered.                                  *)
LEMMA SubmitMove ==
  ASSUME SwapInv, NEW status \in {"unseen", "mempool"}, Submitted(status) PROVE SwapInv'
<1> DEFINE tx == [nonce |-> swap.nonce, minimum |-> MinimumOut(swap.plan.out),
                  spender |-> SpenderOf[swap.plan.route], deadline |-> swap.deadline,
                  sentAt |-> pageTime, status |-> status]
<1> DEFINE n == Len(txs) + 1
<1>1. /\ UNCHANGED <<mined, pageTime>> /\ swap.pc = "submit" /\ swap.nonce = PendingCount
      /\ txs' = Append(txs, tx) /\ pendingRecord' = n /\ Goto("receipt")
  BY DEF Submitted, Moment, NonceHolds
<1>2. CallShape /\ SwapTypes /\ pageTime \in Nat
  BY SMTT(40) DEF SwapInv, SwapTypes
<1>3. CallShape' /\ swap'.pc = "receipt"
  BY <1>1, <1>2, CallUpdate DEF Moments
<1>4. \A i \in DOMAIN txs : ~OnItsWay(i) /\ txs[i].status # "mempool"
  BY <1>1 DEF SwapInv, NothingOnItsWay, NothingWaits
<1>5. swap.nonce = mined /\ swap.nonce \in Nat
  BY <1>1, <1>2, <1>4, PendingCountOf DEF SwapTypes
<1>6. Sent(tx) /\ tx.nonce = mined
  BY <1>2, <1>5 DEF Sent, Fates
<1> HIDE DEF tx
<1>7. PICK S : txs \in Seq(S)
  BY <1>2 DEF SwapTypes
<1>8. /\ n \in Nat \ {0} /\ Len(txs') = n /\ DOMAIN txs' = 1 .. n /\ DOMAIN txs = 1 .. (n - 1)
      /\ txs'[n] = tx /\ \A i \in 1 .. (n - 1) : txs'[i] = txs[i]
      /\ txs' \in Seq(S \cup {tx})
  <2>1. txs \in Seq(S \cup {tx}) /\ tx \in S \cup {tx}
    BY <1>7
  <2>2. QED
    BY <1>1, <2>1, AppendProperties
<1> HIDE DEF n
<1>9. SwapTypes'
  <2>1. \A i \in DOMAIN txs' : Sent(txs'[i])
    BY <1>2, <1>6, <1>8 DEF SwapTypes
  <2>2. QED
    BY <1>1, <1>2, <1>3, <1>8, <2>1 DEF SwapTypes
<1>10. \A i \in DOMAIN txs' : i # n => ~OnItsWay(i)' /\ txs'[i].status # "mempool"
  BY <1>1, <1>4, <1>8 DEF OnItsWay
<1>11. NextNonceOnly' /\ UnseenIsRemembered'
  BY <1>1, <1>6, <1>8, <1>10 DEF NextNonceOnly, UnseenIsRemembered
<1>12. ReceiptOfRemembered' /\ NothingOnItsWay' /\ NothingWaits'
  BY <1>1, <1>3, <1>8 DEF ReceiptOfRemembered, NothingOnItsWay, NothingWaits
<1>13. QED
  BY <1>9, <1>11, <1>12 DEF SwapInv

(* The receipt of the remembered swap clears the record: nothing else was   *)
(* on its way.                                                              *)
LEMMA ReceiptMove ==
  ASSUME SwapInv, Confirmed PROVE SwapInv'
<1>1. /\ UNCHANGED <<txs, mined, pageTime>> /\ swap.pc = "receipt" /\ pendingRecord' = 0
      /\ GiveUp /\ txs[Len(txs)].status = "mined"
  BY SMTT(40) DEF Confirmed, Moment
<1>2. CallShape' /\ swap'.pc = "idle"
  BY <1>1, CallUpdate DEF SwapInv, SwapTypes, Moments
<1>3. pendingRecord = Len(txs)
  BY <1>1 DEF SwapInv, ReceiptOfRemembered, Moment
<1>4. \A i \in DOMAIN txs : ~OnItsWay(i)
  BY <1>1, <1>3 DEF SwapInv, UnseenIsRemembered, OnItsWay
<1>5. SwapTypes'
  BY <1>1, <1>2 DEF SwapInv, SwapTypes
<1>6. NextNonceOnly' /\ UnseenIsRemembered'
  BY <1>1, <1>4 DEF SwapInv, NextNonceOnly, UnseenIsRemembered, OnItsWay
<1>7. ReceiptOfRemembered' /\ NothingOnItsWay' /\ NothingWaits'
  BY <1>2 DEF ReceiptOfRemembered, NothingOnItsWay, NothingWaits, Moment
<1>8. QED
  BY <1>5, <1>6, <1>7 DEF SwapInv

(* A new fate for a transaction keeps the list in order. *)
LEMMA FateChanges ==
  ASSUME SwapTypes, UNCHANGED <<pageTime, swap>>, mined' \in Nat,
         DOMAIN txs' = DOMAIN txs,
         \A k \in DOMAIN txs : \/ txs'[k] = txs[k]
                               \/ \E f \in Fates : txs'[k] = [txs[k] EXCEPT !.status = f],
         \E g : txs' = [k \in DOMAIN txs |-> g[k]]
  PROVE  /\ SwapTypes' /\ Len(txs') = Len(txs)
         /\ \A k \in DOMAIN txs : /\ txs'[k].nonce = txs[k].nonce
                                  /\ txs'[k].sentAt = txs[k].sentAt
<1>1. \A k \in DOMAIN txs : Sent(txs[k])
  BY DEF SwapTypes
<1>2. \A k \in DOMAIN txs : /\ txs'[k].nonce = txs[k].nonce /\ txs'[k].sentAt = txs[k].sentAt
                            /\ Sent(txs'[k])
  <2> TAKE k \in DOMAIN txs
  <2>1. Sent(txs[k])
    BY <1>1
  <2> DEFINE x == txs[k]
  <2> DEFINE y == txs'[k]
  <2>3. Sent(x) /\ (y = x \/ \E f \in Fates : y = [x EXCEPT !.status = f])
    BY <2>1
  <2> HIDE DEF x, y
  <2>4. y.nonce = x.nonce /\ y.sentAt = x.sentAt /\ Sent(y)
    BY <2>3 DEF Sent
  <2>5. QED
    BY <2>4 DEF x, y
<1>3. PICK S : txs \in Seq(S)
  BY DEF SwapTypes
<1>4. PICK n \in Nat : DOMAIN txs = 1 .. n /\ n = Len(txs)
  BY <1>3
<1>5. txs' \in Seq({txs'[k] : k \in 1 .. n})
  <2>1. txs' \in [1 .. n -> {txs'[k] : k \in 1 .. n}]
    BY <1>4
  <2>2. QED
    BY <2>1, <1>4, IsASeq
<1>6. Len(txs') = n
  BY <1>4, <1>5, LenProperties
<1>7. QED
  BY <1>2, <1>4, <1>5, <1>6 DEF SwapTypes, CallShape
(* A transaction the node starts to see was on its way, so it has the next  *)
(* nonce already.                                                           *)
LEMMA AppearMove ==
  ASSUME SwapInv, NEW i \in DOMAIN txs, Appear(i) PROVE SwapInv'
<1>1. /\ UNCHANGED <<swap, pageTime, mined, pendingRecord>> /\ OnItsWay(i)
      /\ txs' = [txs EXCEPT ![i].status = "mempool"]
  BY DEF Appear, OnItsWay
<1>2. SwapTypes /\ mined \in Nat /\ \A k \in DOMAIN txs : Sent(txs[k])
  BY DEF SwapInv, SwapTypes
<1>3. /\ txs'[i] = [txs[i] EXCEPT !.status = "mempool"]
      /\ \A k \in DOMAIN txs : k # i => txs'[k] = txs[k]
      /\ DOMAIN txs' = DOMAIN txs
      /\ \E g : txs' = [k \in DOMAIN txs |-> g[k]]
  <2>1. PICK S : txs \in Seq(S)
    BY <1>2 DEF SwapTypes
  <2>2. txs' = [k \in DOMAIN txs |-> txs'[k]]
    BY <1>1, <2>1
  <2>3. QED
    BY <1>1, <2>1, <2>2
<1>4. txs'[i].status = "mempool"
  BY <1>2, <1>3 DEF Sent
<1>5. /\ SwapTypes' /\ Len(txs') = Len(txs)
      /\ \A k \in DOMAIN txs : txs'[k].nonce = txs[k].nonce /\ txs'[k].sentAt = txs[k].sentAt
  BY <1>1, <1>2, <1>3, FateChanges DEF Fates
<1>6. \A k \in DOMAIN txs : OnItsWay(k)' => OnItsWay(k)
  BY <1>1, <1>3, <1>4 DEF OnItsWay
<1>7. NextNonceOnly' /\ UnseenIsRemembered'
  BY <1>1, <1>3, <1>5, <1>6 DEF SwapInv, NextNonceOnly, UnseenIsRemembered
<1>8. ReceiptOfRemembered'
  BY <1>1, <1>5 DEF SwapInv, ReceiptOfRemembered, Moment
<1>9. NothingOnItsWay' /\ NothingWaits'
  BY <1>1, <1>3, <1>6 DEF SwapInv, NothingOnItsWay, NothingWaits
<1>10. QED
  BY <1>5, <1>7, <1>8, <1>9 DEF SwapInv

(* A swap is mined: whatever else might have been mined had its nonce and   *)
(* is gone.                                                                 *)
LEMMA MineMove ==
  ASSUME SwapInv, NEW i \in DOMAIN txs, MineSwap(i) PROVE SwapInv'
<1>1. /\ UNCHANGED <<swap, pageTime, pendingRecord>>
      /\ mined' = mined + 1 /\ txs[i].nonce = mined
      /\ txs' = [k \in DOMAIN txs |->
                   IF k = i THEN [txs[k] EXCEPT !.status = "mined"]
                   ELSE IF txs[k].nonce = txs[i].nonce THEN [txs[k] EXCEPT !.status = "gone"]
                   ELSE txs[k]]
  BY DEF MineSwap
<1>2. SwapTypes /\ mined \in Nat /\ \A k \in DOMAIN txs : Sent(txs[k])
  BY DEF SwapInv, SwapTypes
<1>3. /\ DOMAIN txs' = DOMAIN txs
      /\ \A k \in DOMAIN txs :
           IF k = i THEN txs'[k] = [txs[k] EXCEPT !.status = "mined"]
           ELSE IF txs[k].nonce = mined THEN txs'[k] = [txs[k] EXCEPT !.status = "gone"]
           ELSE txs'[k] = txs[k]
  BY <1>1
<1>4. txs' = [k \in DOMAIN txs |-> txs'[k]]
  BY <1>1
<1>5. /\ SwapTypes' /\ Len(txs') = Len(txs)
      /\ \A k \in DOMAIN txs : txs'[k].nonce = txs[k].nonce /\ txs'[k].sentAt = txs[k].sentAt
  <2>1. \A k \in DOMAIN txs : \/ txs'[k] = txs[k]
                              \/ \E f \in Fates : txs'[k] = [txs[k] EXCEPT !.status = f]
    BY <1>3 DEF Fates
  <2>2. mined' \in Nat
    BY <1>1, <1>2
  <2>3. \E g : txs' = [k \in DOMAIN txs |-> g[k]]
    BY <1>4
  <2>4. QED
    BY <1>1, <1>2, <1>3, <2>1, <2>2, <2>3, FateChanges
<1>6. \A k \in DOMAIN txs :
        /\ txs[k].nonce = mined => txs'[k].status \in {"mined", "gone"}
        /\ txs[k].nonce # mined => txs'[k] = txs[k]
  <2> TAKE k \in DOMAIN txs
  <2>1. Sent(txs[k])
    BY <1>2
  <2>2. CASE txs[k].nonce = mined
    BY <2>1, <2>2, <1>3 DEF Sent
  <2>3. CASE txs[k].nonce # mined
    BY <2>3, <1>1, <1>3
  <2>4. QED
    BY <2>2, <2>3
<1>7. \A k \in DOMAIN txs : ~OnItsWay(k)' /\ txs'[k].status # "mempool"
  BY <1>1, <1>6 DEF SwapInv, NextNonceOnly, OnItsWay
<1>8. NextNonceOnly' /\ UnseenIsRemembered' /\ NothingOnItsWay' /\ NothingWaits'
  BY <1>3, <1>7 DEF NextNonceOnly, UnseenIsRemembered, NothingOnItsWay, NothingWaits
<1>9. ReceiptOfRemembered'
  BY <1>1, <1>5 DEF SwapInv, ReceiptOfRemembered, Moment
<1>10. QED
  BY <1>5, <1>8, <1>9 DEF SwapInv

(* Time only takes transactions off their way. *)
LEMMA TickMove ==
  ASSUME SwapInv, PageTick PROVE SwapInv'
<1>1. UNCHANGED <<swap, txs, mined, pendingRecord>> /\ pageTime' = pageTime + 1
  BY DEF PageTick
<1>2. pageTime \in Nat /\ PendingLife \in Nat /\ \A k \in DOMAIN txs : Sent(txs[k])
  BY SwapAssumption DEF SwapInv, SwapTypes
<1>3. SwapTypes'
  BY <1>1, <1>2 DEF SwapInv, SwapTypes, CallShape
<1>4. \A k \in DOMAIN txs : OnItsWay(k)' => OnItsWay(k)
  BY <1>1, <1>2 DEF OnItsWay, Sent
<1>5. NextNonceOnly' /\ UnseenIsRemembered' /\ NothingOnItsWay' /\ NothingWaits'
  BY <1>1, <1>4 DEF SwapInv, NextNonceOnly, UnseenIsRemembered, NothingOnItsWay, NothingWaits
<1>6. ReceiptOfRemembered'
  BY <1>1 DEF SwapInv, ReceiptOfRemembered, Moment
<1>7. QED
  BY <1>3, <1>5, <1>6 DEF SwapInv

LEMMA SwapStarts == SwapInit => SwapInv
<1> SUFFICES ASSUME SwapInit PROVE SwapInv
  OBVIOUS
<1>1. /\ pageTime = 0 /\ mined = 0 /\ txs = <<>> /\ pendingRecord = 0
      /\ swap.pc = "idle" /\ "pc" \in DOMAIN swap
  BY DEF SwapInit, Idle
<1>2. txs \in Seq({}) /\ DOMAIN txs = {}
  BY <1>1
<1>3. SwapTypes
  BY <1>1, <1>2 DEF SwapTypes, CallShape, Moments
<1>4. QED
  BY <1>1, <1>2, <1>3 DEF SwapInv, NextNonceOnly, UnseenIsRemembered, ReceiptOfRemembered,
     NothingOnItsWay, NothingWaits, Moment

LEMMA SwapStep == SwapInv /\ [SwapNext]_swapVars => SwapInv'
<1> SUFFICES ASSUME SwapInv, [SwapNext]_swapVars PROVE SwapInv'
  OBVIOUS
<1>1. CASE UNCHANGED swapVars
  <2>1. UNCHANGED <<txs, mined, pageTime, pendingRecord, swap>>
    BY <1>1 DEF swapVars
  <2>2. CallShape' /\ swap'.pc = swap.pc
    BY <2>1 DEF SwapInv, SwapTypes, CallShape
  <2>3. QED
    BY <2>1, <2>2, QuietMove
<1>2. CASE SwapNext
  BY <1>2, QuoteMove, CallMove, PendingMove, NetworkMove, ApprovalMove, SubmitMove, ReceiptMove,
     AppearMove, MineMove, TickMove DEF SwapNext
<1>3. QED
  BY <1>1, <1>2

(* Two guards with different blind spots keep the page from having two      *)
(* different swaps under way, for every account, market and delay: what may *)
(* still be mined has one nonce, the account's next.                        *)
THEOREM OneSwapAtATime == SwapSpec => []OneSwapPending
<1>1. SwapInv => OneSwapPending
  BY DEF SwapInv, NextNonceOnly, OneSwapPending, OnItsWay, Unresolved
<1>2. QED
  BY <1>1, SwapStarts, SwapStep, PTL DEF SwapSpec

\* What is shown carries the version of its quote.
QuoteIsNewest == "version" \in DOMAIN snapshot /\ NewestQuoteShown

LEMMA QuoteStep == QuoteIsNewest /\ [SwapNext]_swapVars => QuoteIsNewest'
<1> SUFFICES ASSUME QuoteIsNewest, [SwapNext]_swapVars PROVE QuoteIsNewest'
  OBVIOUS
<1>1. CASE UNCHANGED <<snapshot, version, timer>>
  BY <1>1 DEF QuoteIsNewest, NewestQuoteShown, None
<1>2. CASE QuoteSoon
  BY <1>2 DEF QuoteIsNewest, NewestQuoteShown, QuoteSoon, None
<1>3. ASSUME snapshot' = None
      PROVE  QuoteIsNewest'
  BY <1>3 DEF QuoteIsNewest, NewestQuoteShown, None
<1>4. CASE TimerFires \/ PlanValidated \/ Confirmed
  <2>1. snapshot' = None \/ UNCHANGED <<snapshot, version, timer>>
    BY <1>4 DEF TimerFires, PlanValidated, Confirmed, StartQuote, QuoteVars
  <2>2. QED
    BY <2>1, <1>1, <1>3
<1>5. ASSUME NEW j \in jobs, Quoted(j)
      PROVE  QuoteIsNewest'
  <2>1. CASE IsLatest(j.version)
    BY <1>5, <2>1 DEF QuoteIsNewest, NewestQuoteShown, Quoted, IsLatest
  <2>2. CASE ~IsLatest(j.version)
    BY <1>1, <1>5, <2>2 DEF Quoted
  <2>3. QED
    BY <2>1, <2>2
<1>6. ASSUME NEW j \in jobs, ProofAssembled(j)
      PROVE  QuoteIsNewest'
  <2>1. UNCHANGED <<version, timer>>
        /\ \/ snapshot' = snapshot
           \/ snapshot # None /\ snapshot' = [snapshot EXCEPT !.proof = j.version]
    BY <1>6 DEF ProofAssembled
  <2>2. "version" \in DOMAIN snapshot' /\ snapshot'.version = snapshot.version
    BY <2>1 DEF QuoteIsNewest
  <2>3. QED
    BY <1>1, <2>1, <2>2 DEF QuoteIsNewest, NewestQuoteShown
<1>7. CASE \/ ClickSwap \/ PendingChecked \/ NetworkChecked \/ Requoted \/ Approved \/ Built
           \/ Simulated \/ SwapFails \/ SelectAccount \/ PageTick \/ UNCHANGED swapVars
           \/ \E j \in jobs : QuoteFails(j)
           \/ \E status \in {"unseen", "mempool"} : Submitted(status)
           \/ \E r \in Routes, p \in Prices : MoveOffer(r, p)
           \/ \E i \in DOMAIN txs : Appear(i) \/ MineSwap(i)
  BY <1>1, <1>7 DEF ClickSwap, PendingChecked, NetworkChecked, Requoted, Approved, Built,
     Simulated, SwapFails, SelectAccount, PageTick, swapVars, QuoteFails, Submitted, MoveOffer,
     Appear, MineSwap, QuoteVars
<1>8. QED
  BY <1>2, <1>4, <1>5, <1>6, <1>7 DEF SwapNext

(* In whatever order the answers of quote() come back, the quote shown is   *)
(* the one asked for last, or a newer one is already scheduled.             *)
THEOREM NewestQuoteIsShown == SwapSpec => []NewestQuoteShown
<1>1. SwapInit => QuoteIsNewest
  BY DEF SwapInit, QuoteIsNewest, NewestQuoteShown, None
<1>2. QuoteIsNewest => NewestQuoteShown
  BY DEF QuoteIsNewest
<1>3. QED
  BY <1>1, <1>2, QuoteStep, PTL DEF SwapSpec
-----------------------------------------------------------------------------
(* The operator pages.  What a page asks the wallet for is right when it is  *)
(* asked, and stays right until it is mined, whatever happens in between.    *)

Trades == {"mint", "swap", "swapBack"}
Approvals == {"approve", "approveTlqc", "approveWbnb"}
TradingPages == {"liquidity", "smoke", "reverse"}

\* The steps of each page
StepsOn(p) ==
    CASE p = "liquidity" -> {"wrap", "approveTlqc", "approveWbnb", "initialize", "mint"}
      [] p = "smoke" -> {"approve", "swap"}
      [] p = "reverse" -> {"approve", "swapBack"}
      [] p = "pool" -> {"create"}
      [] p = "safe" -> {"deploySafe"}
      [] p = "registry" -> {"deployRegistry"}
      [] p = "config" -> {"fee", "poolAllow", "register"}
      [] p = "cardinality" -> {"wrap", "approve", "swapTick"}
      [] p = "tick" -> {"wrap", "approve", "swapTick"}
      [] p = "capacity" -> {"capacity"}
      [] p = "packet" -> {"deployNext"}
      [] p = "oracle" -> {"setFeed", "setCb"}
      [] p = "pyth" -> {"deployHelper", "deployAdapter"}
      [] p = "fresh" -> {"fetch", "update"}
      [] p = "dexRegistry" -> {"deployDexRegistry"}
      [] p = "v3Adapter" -> {"deployV3Adapter"}
      [] p = "quoteRouter" -> {"deployQuoteRouter"}
      [] p = "executionRouter" -> {"deployExecutionRouter"}
      [] p = "verifier" -> {"deployVerifier"}
      [] p = "riskConfig" -> RiskSettings

PageNames == {"liquidity", "smoke", "reverse", "pool", "safe", "registry", "config",
              "cardinality", "tick", "capacity", "packet", "oracle", "pyth", "fresh",
              "dexRegistry", "v3Adapter", "quoteRouter", "executionRouter", "verifier",
              "riskConfig"}

Txns == DOMAIN requests
Done(i) == requests[i].status = "ok"

\* The trade of the page is on the chain
Traded == \E i \in Txns : requests[i].step \in Trades /\ Done(i)

\* The trade's contract may take what the trade costs
Licensed == testnet.allow = 1 /\ (page = "liquidity" => testnet.allow2 = 1)

\* What the page may ask for in this state of the chain
Right(step, minimum, nonce) ==
    /\ step \in StepsOn(page)
    /\ step \in Trades => Licensed \/ Traded
    /\ step \in {"swap", "swapBack"} => minimum \in ReviewedQuotes
    /\ step = "mint" => minimum = ConfirmedPrice
    /\ step = "deployNext" => nonce + 1 \in PacketRows /\ 1..nonce \subseteq Occupied
    /\ step = "poolAllow" => testnet.fee = 1
    /\ step = "register" => testnet.allowed = 1
    /\ step = "setCb" => testnet.feed = 1
    /\ \A j \in DOMAIN RiskSteps : step = RiskSteps[j] =>
         \A k \in 1..(j - 1) : \E i \in Txns : requests[i].step = RiskSteps[k] /\ Done(i)

Flag == {0, 1}
Code == [at : Nat, row : Nat]
Testnet == [native : Nat, wbnb : Nat, allow : Flag, allow2 : Flag, price : 0..2, liquidity : Flag,
            made : Flag, fee : Flag, allowed : Flag, registered : Flag, cardinality : {1, 2},
            risk : SUBSET RiskSettings, riskOwner : {"signer", "governance"}, feed : Flag,
            breaker : Flag, quote : 1..3, filled : SUBSET (1..3), nonce : Nat, codes : SUBSET Code,
            before : [nonce : Nat, codes : SUBSET Nat]]
Steps == UNION {StepsOn(p) : p \in PageNames}
Transaction == [step : Steps, minimum : Nat, nonce : Nat, row : Nat,
                status : {"waiting", "ok", "failed"}]
Tab == [pc : {"closed", "idle", "asking", "waiting", "refreshing"}, next : SUBSET Steps,
        step : Steps \cup {""}, minimum : Nat, nonce : Nat]

WizardTypes ==
    /\ page \in PageNames /\ testnet \in Testnet /\ requests \in Seq(Transaction)
    /\ tab \in Tab /\ saved \in BOOLEAN /\ signer \in BOOLEAN /\ trouble \in Nat
    /\ IsFiniteSet(testnet.codes) /\ IsFiniteSet(testnet.before.codes)

\* The page in memory: its buttons are its own, what it asks for is right, and
\* the transaction it waits for is the last one sent.
GoodTab(t) ==
    /\ t.next \subseteq StepsOn(page)
    /\ "setCb" \in t.next => testnet.feed = 1
    /\ t.pc = "asking" =>
         /\ Right(t.step, t.minimum, t.nonce)
         /\ page \in TradingPages /\ t.step \in Approvals =>
              \A i \in Txns : requests[i].step \notin Trades
    /\ t.pc \in {"waiting", "refreshing"} => requests # <<>> /\ LastSent.step = t.step
    /\ t.pc = "refreshing" => LastSent.status = "ok"

TabRight == GoodTab(tab)

\* The transactions: all right, mined in order, approvals before the trade.
QueueRight ==
    /\ \A i \in Txns : /\ Right(requests[i].step, requests[i].minimum, requests[i].nonce)
                       /\ requests[i].row = requests[i].nonce + 1
    /\ \A i, j \in Txns : i < j /\ i \in Waiting => j \in Waiting
    /\ page \in TradingPages => \A i, j \in Txns :
         i < j /\ requests[i].step \in Trades => requests[j].step \notin Approvals

\* After the trade the page's refresh offers nothing more
TradeOver ==
    CASE page = "liquidity" -> testnet.liquidity = 1
      [] page = "smoke" -> testnet.wbnb > 0
      [] page = "reverse" -> testnet.wbnb = 0

\* Once mined, an effect shows on the chain and prevents the second one.
EffectsShow ==
    /\ Traded => TradeOver /\ testnet.allow = 0 /\ testnet.allow2 = 0
    /\ \A i \in Txns : Done(i) =>
         /\ requests[i].step \in {"create", "deploySafe"} => testnet.made = 1
         /\ requests[i].step = "initialize" => testnet.price # 0
         /\ requests[i].step = "register" => testnet.registered = 1
         /\ requests[i].step = "setFeed" => testnet.feed = 1

OnceSteps == {"create", "deploySafe", "initialize", "mint", "swap", "swapBack", "register"}

MadeOnce ==
    \A i, j \in Txns :
        Done(i) /\ Done(j) /\ requests[i].step = requests[j].step /\ requests[i].step \in OnceSteps
            => i = j

\* What the chain shows was made by the steps that may make it.
ChainRight ==
    /\ page # "liquidity" => testnet.allow2 = 0
    /\ page = "reverse" => testnet.wbnb <= 1
    /\ testnet.filled \subseteq (IF page = "liquidity" THEN {ConfirmedPrice} ELSE ReviewedQuotes)
    /\ \A c \in testnet.codes : c.row > 0 =>
         c.at = c.row /\ c.row <= PacketLength /\ 1..(c.row - 1) \subseteq Occupied
    /\ testnet.before.codes \subseteq Occupied
    /\ testnet.allowed = 1 => testnet.fee = 1
    /\ testnet.breaker = 1 => testnet.feed = 1
    /\ \A s \in testnet.risk : \E i \in Txns : requests[i].step = s /\ Done(i)

WizardInv ==
    WizardTypes /\ TabRight /\ QueueRight /\ EffectsShow /\ MadeOnce /\ ChainRight


(* The six settings of the Risk Registry. *)
LEMMA RiskSettingNames ==
  /\ DOMAIN RiskSteps = 1..6
  /\ RiskSettings = {"setExecutor", "allowTlqc", "capTlqc", "allowWbnb", "capWbnb", "offerOwnership"}
BY SMTT(40) DEF RiskSteps, RiskSettings

\* What transaction tx, if it succeeds, makes of the chain's state c, field by field
Changed(o, ok, tx, c) ==
    /\ o.allow = IF ok /\ tx.step \in {"approve", "approveTlqc"} THEN 1
                 ELSE IF ok /\ tx.step \in Trades \cup {"swapTick"} THEN 0 ELSE c.allow
    /\ o.allow2 = IF ok /\ tx.step = "approveWbnb" THEN 1
                  ELSE IF ok /\ tx.step = "mint" THEN 0 ELSE c.allow2
    /\ o.wbnb = IF ok /\ tx.step \in {"wrap", "swap"} THEN c.wbnb + 1
                ELSE IF ok /\ tx.step \in {"mint", "swapBack", "swapTick"} THEN c.wbnb - 1
                ELSE c.wbnb
    /\ o.price = IF ok /\ tx.step = "initialize" THEN ConfirmedPrice ELSE c.price
    /\ o.liquidity = IF ok /\ tx.step = "mint" THEN 1 ELSE c.liquidity
    /\ o.made = IF ok /\ tx.step \in {"create", "deploySafe", "capacity"} THEN 1 ELSE c.made
    /\ o.fee = IF ok /\ tx.step = "fee" THEN 1 ELSE c.fee
    /\ o.allowed = IF ok /\ tx.step = "poolAllow" THEN 1 ELSE c.allowed
    /\ o.registered = IF ok /\ tx.step = "register" THEN 1 ELSE c.registered
    /\ o.feed = IF ok /\ tx.step = "setFeed" THEN 1 ELSE c.feed
    /\ o.breaker = IF ok /\ tx.step = "setCb" THEN 1 ELSE c.breaker
    /\ o.risk = IF ok /\ tx.step \in RiskSettings THEN c.risk \cup {tx.step} ELSE c.risk
    /\ o.filled = IF ok /\ tx.step = "mint" THEN {c.price}
                  ELSE IF ok /\ tx.step \in {"swap", "swapBack"} THEN c.filled \cup {c.quote}
                  ELSE c.filled
    /\ o.codes = IF ok /\ tx.step = "deployNext"
                 THEN c.codes \cup {[at |-> c.nonce + 1, row |-> tx.row]} ELSE c.codes

LEMMA OutcomeFields ==
  ASSUME NEW tx, NEW c \in Testnet, NEW wrote \in BOOLEAN, Works(tx, c)
  PROVE  /\ Changed(Outcome(tx, c, wrote), TRUE, tx, c)
         /\ Outcome(tx, c, wrote).before = c.before
BY RiskSettingNames DEF Changed, Outcome, Testnet, Trades

(* Names of the steps, once and for all. *)
LEMMA StepNames ==
  /\ \A p \in PageNames : StepsOn(p) \subseteq Steps
  /\ Steps \subseteq {"wrap", "approveTlqc", "approveWbnb", "initialize", "mint", "approve", "swap",
                      "swapBack", "create", "deploySafe", "deployRegistry", "fee", "poolAllow",
                      "register", "swapTick", "capacity", "deployNext", "setFeed", "setCb",
                      "deployHelper", "deployAdapter", "fetch", "update", "deployDexRegistry",
                      "deployV3Adapter", "deployQuoteRouter", "deployExecutionRouter",
                      "deployVerifier"} \cup RiskSettings
<1>1. \A p \in PageNames : StepsOn(p) \subseteq Steps
  BY DEF Steps
<1>2. Steps \subseteq {"wrap", "approveTlqc", "approveWbnb", "initialize", "mint", "approve", "swap",
                      "swapBack", "create", "deploySafe", "deployRegistry", "fee", "poolAllow",
                      "register", "swapTick", "capacity", "deployNext", "setFeed", "setCb",
                      "deployHelper", "deployAdapter", "fetch", "update", "deployDexRegistry",
                      "deployV3Adapter", "deployQuoteRouter", "deployExecutionRouter",
                      "deployVerifier"} \cup RiskSettings
  BY DEF Steps, StepsOn, PageNames
<1>3. QED
  BY <1>1, <1>2

(* A mined transaction leaves a state of the chain. *)
LEMMA OutcomeType ==
  ASSUME NEW tx, NEW c \in Testnet, NEW wrote \in BOOLEAN, Works(tx, c),
         tx.row \in Nat, tx.step = "mint" => tx.minimum = ConfirmedPrice,
         IsFiniteSet(c.codes)
  PROVE  /\ Outcome(tx, c, wrote) \in Testnet
         /\ IsFiniteSet(Outcome(tx, c, wrote).codes)
<1> DEFINE o == Outcome(tx, c, wrote)
<1>0. /\ tx.step = "wrap" => c.native - 1 \in Nat
      /\ tx.step \in {"mint", "swapBack", "swapTick"} => c.wbnb - 1 \in Nat
      /\ tx.step = "mint" => c.price = 1
      /\ c.wbnb + 1 \in Nat /\ 0 \in Flag /\ 1 \in Flag /\ c.quote \in 1..3
  <2>1. c.native \in Nat /\ c.wbnb \in Nat /\ c.quote \in 1..3
    BY DEF Testnet
  <2>2. tx.step = "wrap" => c.native > 0
    BY RiskSettingNames DEF Works, Settings, RouterContracts
  <2>3. tx.step \in {"mint", "swapBack", "swapTick"} => c.wbnb > 0
    BY RiskSettingNames DEF Works, Settings, RouterContracts
  <2>4. tx.step = "mint" => c.price = 1
    BY RiskSettingNames DEF Works, Settings, RouterContracts, ConfirmedPrice
  <2>5. QED
    BY <2>1, <2>2, <2>3, <2>4 DEF Flag
<1>1. tx.step = "wrap" => o \in Testnet
  <2>1. ASSUME NEW n \in Nat, NEW w \in Nat PROVE [c EXCEPT !.native = n, !.wbnb = w] \in Testnet
    BY DEF Testnet
  <2>2. tx.step = "wrap" => o = [c EXCEPT !.native = @ - 1, !.wbnb = @ + 1]
    BY RiskSettingNames DEF Outcome
  <2>3. QED
    BY <2>1, <2>2, <1>0
<1>2. tx.step \in {"mint", "swap", "swapBack", "swapTick"} => o \in Testnet
  <2>1. ASSUME NEW w \in Nat, NEW F \in SUBSET (1..3)
        PROVE  /\ [c EXCEPT !.wbnb = w, !.allow = 0, !.allow2 = 0, !.liquidity = 1,
                            !.filled = F] \in Testnet
               /\ [c EXCEPT !.wbnb = w, !.allow = 0, !.filled = F] \in Testnet
    BY <1>0 DEF Testnet
  <2>10. ASSUME NEW w \in Nat, NEW d \in {1, 2}
         PROVE  [c EXCEPT !.wbnb = w, !.allow = 0, !.cardinality = d] \in Testnet
    BY <1>0 DEF Testnet
  <2>2. {c.price} \in SUBSET (1..3) \/ tx.step # "mint"
    BY <1>0
  <2>3. c.filled \cup {c.quote} \in SUBSET (1..3)
    BY <1>0 DEF Testnet
  <2>4. (IF wrote THEN 2 ELSE c.cardinality) \in {1, 2}
    BY DEF Testnet
  <2>5. tx.step = "mint" => o \in Testnet
    <3>1. tx.step = "mint" => o = [c EXCEPT !.wbnb = @ - 1, !.allow = 0, !.allow2 = 0,
                                           !.liquidity = 1, !.filled = {c.price}]
      BY RiskSettingNames DEF Outcome
    <3>2. QED
      BY ZenonT(60), <2>1, <2>2, <3>1, <1>0
  <2>6. tx.step = "swap" => o \in Testnet
    <3>1. tx.step = "swap" => o = [c EXCEPT !.wbnb = @ + 1, !.allow = 0,
                                           !.filled = @ \cup {c.quote}]
      BY RiskSettingNames DEF Outcome
    <3>2. QED
      BY <2>1, <2>3, <3>1, <1>0
  <2>7. tx.step = "swapBack" => o \in Testnet
    <3>1. tx.step = "swapBack" => o = [c EXCEPT !.wbnb = @ - 1, !.allow = 0,
                                               !.filled = @ \cup {c.quote}]
      BY RiskSettingNames DEF Outcome
    <3>2. QED
      BY ZenonT(60), <2>1, <2>3, <3>1, <1>0
  <2>8. tx.step = "swapTick" => o \in Testnet
    <3>1. tx.step = "swapTick" => o = [c EXCEPT !.wbnb = @ - 1, !.allow = 0,
                                         !.cardinality = IF wrote THEN 2 ELSE @]
      BY RiskSettingNames DEF Outcome
    <3>2. QED
      BY ZenonT(60), <2>10, <2>4, <3>1, <1>0
  <2>9. QED
    BY <2>5, <2>6, <2>7, <2>8
<1>3. tx.step \in {"approve", "approveTlqc", "approveWbnb", "initialize", "create", "deploySafe",
                    "capacity", "fee", "poolAllow", "register", "setFeed", "setCb"} => o \in Testnet
  <2>1. ASSUME NEW f \in Flag
        PROVE  /\ [c EXCEPT !.allow = f] \in Testnet /\ [c EXCEPT !.allow2 = f] \in Testnet
               /\ [c EXCEPT !.made = f] \in Testnet /\ [c EXCEPT !.fee = f] \in Testnet
               /\ [c EXCEPT !.allowed = f] \in Testnet /\ [c EXCEPT !.registered = f] \in Testnet
               /\ [c EXCEPT !.feed = f] \in Testnet /\ [c EXCEPT !.breaker = f] \in Testnet
    BY DEF Testnet
  <2>2. [c EXCEPT !.price = ConfirmedPrice] \in Testnet
    BY SMTT(40) DEF Testnet, ConfirmedPrice
  <2>3. /\ tx.step \in {"approve", "approveTlqc"} => o = [c EXCEPT !.allow = 1]
        /\ tx.step = "approveWbnb" => o = [c EXCEPT !.allow2 = 1]
        /\ tx.step = "initialize" => o = [c EXCEPT !.price = ConfirmedPrice]
        /\ tx.step \in {"create", "deploySafe", "capacity"} => o = [c EXCEPT !.made = 1]
        /\ tx.step = "fee" => o = [c EXCEPT !.fee = 1]
        /\ tx.step = "poolAllow" => o = [c EXCEPT !.allowed = 1]
        /\ tx.step = "register" => o = [c EXCEPT !.registered = 1]
        /\ tx.step = "setFeed" => o = [c EXCEPT !.feed = 1]
        /\ tx.step = "setCb" => o = [c EXCEPT !.breaker = 1]
    BY RiskSettingNames DEF Outcome
  <2>4. QED
    BY <2>1, <2>2, <2>3, <1>0
<1>4. tx.step \in RiskSettings => o \in Testnet
  <2>1. ASSUME NEW R \in SUBSET RiskSettings PROVE [c EXCEPT !.risk = R] \in Testnet
    BY DEF Testnet
  <2>2. tx.step \in RiskSettings => c.risk \cup {tx.step} \in SUBSET RiskSettings
    BY DEF Testnet
  <2>3. tx.step \in RiskSettings => o = [c EXCEPT !.risk = @ \cup {tx.step}]
    BY RiskSettingNames DEF Outcome
  <2>4. QED
    BY <2>1, <2>2, <2>3
<1>5. tx.step = "deployNext" => o \in Testnet
  <2>1. ASSUME NEW C \in SUBSET Code PROVE [c EXCEPT !.codes = C] \in Testnet
    BY DEF Testnet
  <2>2. c.codes \cup {[at |-> c.nonce + 1, row |-> tx.row]} \in SUBSET Code
    BY DEF Testnet, Code
  <2>3. tx.step = "deployNext" =>
          o = [c EXCEPT !.codes = @ \cup {[at |-> c.nonce + 1, row |-> tx.row]}]
    BY RiskSettingNames DEF Outcome
  <2>4. QED
    BY <2>1, <2>2, <2>3
<1>8. o \in Testnet
  <2>1. \/ tx.step \in {"wrap", "mint", "swap", "swapBack", "swapTick", "approve", "approveTlqc",
                        "approveWbnb", "initialize", "create", "deploySafe", "capacity", "fee",
                        "poolAllow", "register", "setFeed", "setCb", "deployNext"}
        \/ tx.step \in RiskSettings
        \/ o = c
    BY RiskSettingNames DEF Outcome
  <2>2. QED
    BY <2>1, <1>1, <1>2, <1>3, <1>4, <1>5
<1>9. IsFiniteSet(o.codes)
  <2> DEFINE new == [at |-> c.nonce + 1, row |-> tx.row]
  <2>1. o.codes = IF tx.step = "deployNext" THEN c.codes \cup {new} ELSE c.codes
    BY RiskSettingNames DEF Outcome, Testnet
  <2>2. IsFiniteSet(c.codes \cup {new})
    BY FS_AddElement
  <2>3. QED
    BY <2>1, <2>2
<1>10. QED
  BY <1>8, <1>9

-----------------------------------------------------------------------------
(* The rules of the pages.                                                   *)

\* A page with nothing asked for shows buttons of its own only.
Quiet(t) ==
    /\ t \in Tab /\ t.pc \in {"closed", "idle"} /\ t.next \subseteq StepsOn(page)
    /\ "setCb" \in t.next => testnet.feed = 1

LEMMA QuietOpened ==
  ASSUME page \in PageNames, NEW next \in SUBSET StepsOn(page),
         "setCb" \in next => testnet.feed = 1
  PROVE  Quiet(Opened(next)) /\ Quiet(Unopened)
<1>1. next \in SUBSET Steps
  BY StepNames
<1>2. QED
  BY <1>1 DEF Quiet, Opened, Unopened, Tab

(* Some number of settings is completed. *)
LEMMA RiskCompletedNat == RiskCompleted \in Nat /\ Len(RiskSteps) = 6
<1> DEFINE D == {i \in DOMAIN RiskSteps : \A j \in 1..i : RiskSteps[j] \in testnet.risk}
<1>1. D \subseteq 1..6
  BY RiskSettingNames
<1> HIDE DEF D
<1>2. IsFiniteSet(D) /\ Cardinality(D) \in Nat
  <2>1. IsFiniteSet(1..6)
    BY FS_Interval, 1 \in Int, 6 \in Int, Zenon
  <2>2. IsFiniteSet(D)
    BY <1>1, <2>1, FS_Subset
  <2>3. QED
    BY <2>2, FS_CardinalityType
<1>3. QED
  BY <1>2 DEF RiskCompleted, RiskSteps, D

(* The next setting of the Risk Registry is one of them. *)
LEMMA RiskNextIsSetting == RiskNext \subseteq RiskSettings
<1> SUFFICES ASSUME RiskCompleted < Len(RiskSteps) PROVE RiskSteps[RiskCompleted + 1] \in RiskSettings
  BY DEF RiskNext
<1>1. RiskCompleted + 1 \in DOMAIN RiskSteps
  BY RiskCompletedNat, RiskSettingNames
<1>2. QED
  BY <1>1 DEF RiskSettings

(* Up to the settings completed, all of them are on the chain. *)
LEMMA RiskCompletedAll ==
  ASSUME NEW k \in 1..RiskCompleted
  PROVE  k \in DOMAIN RiskSteps /\ RiskSteps[k] \in testnet.risk
<1> DEFINE D == {i \in DOMAIN RiskSteps : \A j \in 1..i : RiskSteps[j] \in testnet.risk}
<1>0. D \subseteq 1..6 /\ \A i \in D : \A j \in 1..i : j \in D
  BY RiskSettingNames
<1>1. RiskCompleted = Cardinality(D)
  BY DEF RiskCompleted
<1>2. k \in D => k \in DOMAIN RiskSteps /\ RiskSteps[k] \in testnet.risk
  <2>1. k \in D => k \in 1..6 /\ k \in 1..k
    BY <1>0
  <2>2. QED
    BY <2>1
<1> HIDE DEF D
<1>3. IsFiniteSet(D) /\ Cardinality(D) \in Nat
  <2>1. IsFiniteSet(1..6)
    BY FS_Interval, 1 \in Int, 6 \in Int, Zenon
  <2>2. IsFiniteSet(D)
    BY <1>0, <2>1, FS_Subset
  <2>3. QED
    BY <2>2, FS_CardinalityType
<1>4. k \in Nat /\ k >= 1 /\ k <= Cardinality(D)
  BY <1>1, <1>3
<1>5. k \in D
  <2> SUFFICES ASSUME k \notin D PROVE FALSE
    OBVIOUS
  <2>1. D \subseteq 1..(k - 1)
    BY <1>0, <1>4
  <2>2. IsFiniteSet(1..(k - 1)) /\ Cardinality(1..(k - 1)) = k - 1
    BY <1>4, FS_Interval
  <2>3. Cardinality(D) <= k - 1
    BY ZenonT(60), <2>1, <2>2, FS_Subset
  <2>4. QED
    BY <2>3, <1>3, <1>4
<1>6. QED
  BY <1>5, <1>2

(* Connecting shows buttons of the page, and nothing is asked for. *)
LEMMA ConnectedQuiet ==
  ASSUME WizardTypes, TabRight, tab.pc \in {"closed", "idle"}, NEW t \in Connected
  PROVE  Quiet(t)
<1> DEFINE Shown(u) == \E next \in SUBSET StepsOn(page) :
                          u = Opened(next) /\ ("setCb" \in next => testnet.feed = 1)
<1> DEFINE Kept(u) == u = Unopened \/ u = tab \/ u = [tab EXCEPT !.next = {}]
<1>1. Quiet(tab) /\ Quiet([tab EXCEPT !.next = {}])
  BY DEF Quiet, TabRight, GoodTab, WizardTypes, Tab
<1>2. \A u : Shown(u) => Quiet(u)
  BY QuietOpened DEF WizardTypes
<1>3. Quiet(Unopened)
  BY QuietOpened, {} \in SUBSET StepsOn(page) DEF WizardTypes
<1>4. tab.next \subseteq StepsOn(page) /\ ("setCb" \in tab.next => testnet.feed = 1)
  BY DEF TabRight, GoodTab
<1>5. testnet.feed \in {0, 1}
  BY DEF WizardTypes, Testnet, Flag
<1>6. page = "liquidity" => Shown(t) \/ Kept(t)
  BY DEF Connected, StepsOn, LiquidityConnect, LiquidityNext
<1>7. page = "smoke" => Shown(t) \/ Kept(t)
  BY DEF Connected, StepsOn, SmokeConnect, SmokeNext
<1>8. page = "reverse" => Shown(t) \/ Kept(t)
  BY DEF Connected, StepsOn, ReverseConnect, ReverseNext
<1>9. page = "cardinality" => Shown(t) \/ Kept(t)
  BY DEF Connected, StepsOn, CardinalityConnect, CardinalityNext
<1>10. page = "tick" => Shown(t) \/ Kept(t)
  BY DEF Connected, StepsOn, TickConnect, TickNext
<1>11. page = "capacity" => Shown(t) \/ Kept(t)
  BY DEF Connected, StepsOn, CapacityConnect, CapacityNext
<1>12. page = "pool" => Shown(t) \/ Kept(t)
  BY DEF Connected, StepsOn, PoolConnect
<1>13. page = "registry" => Shown(t) \/ Kept(t)
  BY DEF Connected, StepsOn, RegistryConnect
<1>14. page = "config" => Shown(t) \/ Kept(t)
  BY DEF Connected, StepsOn, ConfigConnect, ConfigNext
<1>15. page = "oracle" => Shown(t) \/ Kept(t)
  BY <1>4, <1>5 DEF Connected, StepsOn, OracleConnect, OracleOwnerChecked
<1>16. page = "safe" => Shown(t) \/ Kept(t)
  BY DEF Connected, StepsOn, SafeConnect
<1>17. page = "pyth" => Shown(t) \/ Kept(t)
  BY DEF Connected, StepsOn, PythConnect, PythLoaded
<1>18. page = "fresh" => Shown(t) \/ Kept(t)
  BY <1>4, <1>5 DEF Connected, StepsOn, FreshConnect
<1>19. page = "dexRegistry" => Shown(t) \/ Kept(t)
  BY DEF Connected, StepsOn, DexRegistryConnect
<1>20. page = "v3Adapter" => Shown(t) \/ Kept(t)
  BY DEF Connected, StepsOn, V3AdapterConnect
<1>21. page = "quoteRouter" => Shown(t) \/ Kept(t)
  BY DEF Connected, StepsOn, QuoteRouterConnect
<1>22. page = "executionRouter" => Shown(t) \/ Kept(t)
  BY DEF Connected, StepsOn, ExecutionRouterConnect
<1>23. page = "verifier" => Shown(t) \/ Kept(t)
  BY DEF Connected, StepsOn, VerifierConnect
<1>24. page = "riskConfig" => Shown(t) \/ Kept(t)
  BY RiskNextIsSetting, RiskSettingNames DEF Connected, StepsOn, RiskConnect
<1>25. page = "packet" => Shown(t) \/ Kept(t)
  BY DEF Connected, StepsOn, PacketConnect, PacketNext
<1>26. Shown(t) \/ Kept(t)
  BY <1>6, <1>7, <1>8, <1>9, <1>10, <1>11, <1>12, <1>13, <1>14, <1>15, <1>16, <1>17, <1>18,
     <1>19, <1>20, <1>21, <1>22, <1>23, <1>24, <1>25
     DEF WizardTypes, PageNames
<1>27. QED
  BY <1>1, <1>2, <1>3, <1>26

(* After the handler of a button: the buttons it leaves are the page's own. *)
LEMMA AfterwardsQuiet ==
  ASSUME WizardTypes, TabRight, page # "packet", NEW step \in StepsOn(page),
         step = "setCb" => testnet.feed = 1
  PROVE  /\ Quiet(Opened(SendRule(step).early)) /\ Quiet(Opened(SendRule(step).late))
         /\ (step = "setFeed" => testnet.feed = 1) => Quiet(Opened(SendRule(step).done))
<1> DEFINE Own(next) == next \in SUBSET StepsOn(page) /\ ("setCb" \in next => testnet.feed = 1)
<1> DEFINE r == SendRule(step)
<1> DEFINE Fits == /\ Own(r.early) /\ Own(r.late)
                   /\ (step = "setFeed" => testnet.feed = 1) => Own(r.done)
<1>1. \A next : Own(next) => Quiet(Opened(next))
  BY QuietOpened DEF WizardTypes
<1>2. Own({}) /\ Own({step}) /\ Own(tab.next) /\ Own({step} \cup tab.next)
  BY DEF TabRight, GoodTab
<1>3. testnet.feed \in {0, 1}
  BY DEF WizardTypes, Testnet, Flag
<1>4. page = "liquidity" => Fits
  BY <1>2, <1>3 DEF SendRule, StepsOn, LiquiditySend, LiquidityNext
<1>5. page = "smoke" => Fits
  BY <1>2, <1>3 DEF SendRule, StepsOn, SmokeSend, SmokeNext
<1>6. page = "reverse" => Fits
  BY <1>2, <1>3 DEF SendRule, StepsOn, ReverseSend, ReverseNext
<1>7. page = "cardinality" => Fits
  BY <1>2, <1>3 DEF SendRule, StepsOn, CardinalitySend, CardinalityNext
<1>8. page = "tick" => Fits
  BY <1>2, <1>3 DEF SendRule, StepsOn, TickSend, TickNext
<1>9. page = "capacity" => Fits
  BY <1>2, <1>3 DEF SendRule, StepsOn, CapacitySend, CapacityNext
<1>10. page = "pool" => Fits
  BY <1>2, <1>3 DEF SendRule, StepsOn, PoolSend
<1>11. page = "registry" => Fits
  BY <1>2, <1>3 DEF SendRule, StepsOn, RegistrySend
<1>12. page = "config" => Fits
  BY <1>2, <1>3 DEF SendRule, StepsOn, ConfigSend, ConfigNext
<1>13. page = "oracle" => Fits
  BY <1>2, <1>3 DEF SendRule, StepsOn, OracleSend
<1>14. page = "safe" => Fits
  BY <1>2, <1>3 DEF SendRule, StepsOn, SafeSend
<1>15. page = "pyth" => Fits
  BY <1>2, <1>3 DEF SendRule, StepsOn, PythSend, PythLoaded
<1>16. page = "fresh" => Fits
  BY <1>2, <1>3 DEF SendRule, StepsOn, FreshSend
<1>17. page = "dexRegistry" => Fits
  BY <1>2, <1>3 DEF SendRule, StepsOn, DexRegistrySend
<1>18. page = "v3Adapter" => Fits
  BY <1>2, <1>3 DEF SendRule, StepsOn, V3AdapterSend
<1>19. page = "quoteRouter" => Fits
  BY <1>2, <1>3 DEF SendRule, StepsOn, QuoteRouterSend
<1>20. page = "executionRouter" => Fits
  BY <1>2, <1>3 DEF SendRule, StepsOn, ExecutionRouterSend
<1>21. page = "verifier" => Fits
  BY <1>2, <1>3 DEF SendRule, StepsOn, VerifierSend
<1>22. page = "riskConfig" => Fits
  BY RiskNextIsSetting, RiskSettingNames DEF SendRule, StepsOn, RiskSend
<1>23. Fits
  BY <1>4, <1>5, <1>6, <1>7, <1>8, <1>9, <1>10, <1>11, <1>12, <1>13, <1>14, <1>15, <1>16, <1>17, <1>18, <1>19, <1>20, <1>21, <1>22
     DEF WizardTypes, PageNames
<1>24. QED
  BY <1>1, <1>23

(* The packet page reads its state again. *)
LEMMA PacketRefreshQuiet ==
  ASSUME WizardTypes, page = "packet", NEW t \in Connected
  PROVE  Quiet(t)
<1>1. PICK view \in RpcViews : t = PacketConnect(view)
  BY DEF Connected
<1>2. PICK next \in {{"deployNext"}, {}} : t = Opened(next)
  BY <1>1 DEF PacketConnect, PacketNext
<1>3. next \in SUBSET StepsOn(page) /\ "setCb" \notin next
  BY <1>2 DEF StepsOn
<1>4. QED
  BY <1>2, <1>3, QuietOpened DEF WizardTypes

(* Which page a step belongs to. *)
LEMMA PageOfStep ==
  ASSUME page \in PageNames, NEW step \in StepsOn(page)
  PROVE  /\ step = "mint" => page = "liquidity"
         /\ step = "swap" => page = "smoke"
         /\ step = "swapBack" => page = "reverse"
         /\ step = "deployNext" => page = "packet"
         /\ step \in {"poolAllow", "register"} => page = "config"
         /\ step \in {"setFeed", "setCb"} => page = "oracle"
         /\ step \in RiskSettings => page = "riskConfig"
         /\ step \in {"initialize", "approveTlqc", "approveWbnb"} => page = "liquidity"
         /\ step = "create" => page = "pool"
         /\ step = "deploySafe" => page = "safe"
         /\ step = "swapTick" => page \in {"cardinality", "tick"}
         /\ step = "wrap" => page \in {"liquidity", "cardinality", "tick"}
         /\ step = "approve" => page \in {"smoke", "reverse", "cardinality", "tick"}
BY RiskSettingNames DEF StepsOn, PageNames

(* What a page asks the wallet for is right at the moment it asks. *)
LEMMA AskedRight ==
  ASSUME WizardInv, page # "packet", NEW step \in tab.next, SendRule(step).asks
  PROVE  /\ Right(step, MinimumFor(step), 0)
         /\ page \in TradingPages /\ step \in Approvals => \A i \in Txns : requests[i].step \notin Trades
<1>1. step \in StepsOn(page) /\ page \in PageNames
  BY DEF WizardInv, TabRight, GoodTab, WizardTypes
<1>2. /\ testnet.allow \in {0, 1} /\ testnet.allow2 \in {0, 1} /\ testnet.fee \in {0, 1}
      /\ testnet.allowed \in {0, 1} /\ testnet.liquidity \in {0, 1} /\ testnet.wbnb \in Nat
  BY DEF WizardInv, WizardTypes, Testnet, Flag
<1>3. page = "liquidity" => step \in LiquidityNext
  BY DEF SendRule, LiquiditySend
<1>4. page = "smoke" => step \in SmokeNext
  BY DEF SendRule, SmokeSend
<1>5. page = "reverse" => step \in ReverseNext
  BY DEF SendRule, ReverseSend
<1>6. page = "config" => step \in ConfigNext
  BY DEF SendRule, ConfigSend
<1>7. page = "riskConfig" => step \in RiskNext
  BY DEF SendRule, RiskSend
<1>8. step \in Trades => Licensed \/ Traded
  <2>1. page = "liquidity" /\ step = "mint" => testnet.allow = 1 /\ testnet.allow2 = 1
    BY <1>2, <1>3 DEF LiquidityNext
  <2>2. page = "smoke" /\ step = "swap" => testnet.allow = 1
    BY <1>2, <1>4 DEF SmokeNext
  <2>3. page = "reverse" /\ step = "swapBack" => testnet.allow = 1
    BY <1>2, <1>5 DEF ReverseNext
  <2>4. QED
    BY <2>1, <2>2, <2>3, <1>1, PageOfStep DEF Licensed, Trades
<1>9. step \in {"swap", "swapBack"} => MinimumFor(step) \in ReviewedQuotes
  <2>1. page = "smoke" /\ step = "swap" => testnet.quote \in ReviewedQuotes
    BY <1>4 DEF SmokeNext
  <2>2. page = "reverse" /\ step = "swapBack" => testnet.quote \in ReviewedQuotes
    BY <1>5 DEF ReverseNext
  <2>3. /\ page = "smoke" /\ step = "swap" => MinimumFor(step) = testnet.quote
        /\ page = "reverse" /\ step = "swapBack" => MinimumFor(step) = testnet.quote
    BY DEF MinimumFor, SendRule, SmokeSend, ReverseSend
  <2>4. QED
    BY <2>1, <2>2, <2>3, <1>1, PageOfStep
<1>10. step = "mint" => MinimumFor(step) = ConfirmedPrice
  BY <1>1, PageOfStep DEF MinimumFor, SendRule, LiquiditySend
<1>11. /\ step = "poolAllow" => testnet.fee = 1
       /\ step = "register" => testnet.allowed = 1
  <2>1. page = "config" => /\ step = "poolAllow" => testnet.fee = 1
                           /\ step = "register" => testnet.allowed = 1
    BY <1>2, <1>6 DEF ConfigNext
  <2>2. QED
    BY <2>1, <1>1, PageOfStep
<1>12. step = "setCb" => testnet.feed = 1
  BY DEF WizardInv, TabRight, GoodTab
<1>13. ASSUME NEW j \in DOMAIN RiskSteps, step = RiskSteps[j], NEW k \in 1..(j - 1)
       PROVE  \E i \in Txns : requests[i].step = RiskSteps[k] /\ Done(i)
  <2>1. page = "riskConfig"
    BY <1>1, <1>13, PageOfStep DEF RiskSettings
  <2>2. step \in RiskNext
    BY <2>1, <1>7
  <2>3. RiskCompleted < Len(RiskSteps) /\ step = RiskSteps[RiskCompleted + 1]
    BY <2>2 DEF RiskNext
  <2>4. RiskCompleted \in Nat /\ RiskCompleted + 1 \in DOMAIN RiskSteps
    BY <2>3, RiskCompletedNat, RiskSettingNames
  <2>5. \A m, n \in DOMAIN RiskSteps : RiskSteps[m] = RiskSteps[n] => m = n
    BY RiskSettingNames DEF RiskSteps
  <2>6. j = RiskCompleted + 1
    BY <2>3, <2>4, <2>5, <1>13
  <2>7. k \in 1..RiskCompleted
    BY <2>4, <2>6
  <2>8. RiskSteps[k] \in testnet.risk
    BY <2>7, RiskCompletedAll
  <2>9. QED
    BY <2>8 DEF WizardInv, ChainRight
<1>14. step # "deployNext"
  BY <1>1, PageOfStep
<1>15. Right(step, MinimumFor(step), 0)
  BY <1>1, <1>8, <1>9, <1>10, <1>11, <1>12, <1>13, <1>14 DEF Right
<1>16. ASSUME page \in TradingPages, step \in Approvals, NEW i \in Txns, requests[i].step \in Trades
       PROVE  FALSE
  <2>1. Licensed \/ Traded
    BY <1>16 DEF WizardInv, QueueRight, Right
  <2>2. Traded => TradeOver /\ testnet.allow = 0 /\ testnet.allow2 = 0
    BY DEF WizardInv, EffectsShow
  <2>3. page = "liquidity" => ~(TradeOver \/ Licensed)
    BY <1>2, <1>3, <1>16 DEF LiquidityNext, TradeOver, Licensed, Approvals
  <2>4. page = "smoke" => ~(TradeOver \/ Licensed)
    BY <1>2, <1>4, <1>16 DEF SmokeNext, TradeOver, Licensed, Approvals
  <2>5. page = "reverse" => ~(TradeOver \/ Licensed)
    BY <1>2, <1>5, <1>16 DEF ReverseNext, TradeOver, Licensed, Approvals
  <2>6. QED
    BY <2>1, <2>2, <2>3, <2>4, <2>5, <1>16 DEF TradingPages
<1>17. QED
  BY <1>15, <1>16

(* Every minimum is an amount. *)
LEMMA MinimumIsNat ==
  ASSUME WizardInv, page # "packet", NEW step \in StepsOn(page)
  PROVE  MinimumFor(step) \in Nat
<1>1. page \in PageNames /\ testnet.quote \in Nat
  BY DEF WizardInv, WizardTypes, Testnet
<1>2. /\ step = "mint" => page = "liquidity"
      /\ step = "swap" => page = "smoke"
      /\ step = "swapBack" => page = "reverse"
      /\ step = "swapTick" => page \in {"cardinality", "tick"}
  BY <1>1, PageOfStep
<1>3. QED
  BY <1>1, <1>2 DEF MinimumFor, SendRule, LiquiditySend, SmokeSend, ReverseSend, CardinalitySend,
                    TickSend, ConfirmedPrice

-----------------------------------------------------------------------------
(* Steps of the page that leave the chain and the transactions alone.        *)

LEMMA QuietIsGood ==
  ASSUME NEW t, Quiet(t)
  PROVE  t \in Tab /\ GoodTab(t)
BY DEF Quiet, GoodTab

LEMMA TabStep ==
  ASSUME WizardInv, UNCHANGED <<page, testnet, requests>>, tab' \in Tab, GoodTab(tab'),
         saved' \in BOOLEAN, signer' \in BOOLEAN, trouble' \in Nat
  PROVE  WizardInv'
<1>1. \A step, minimum, nonce : Right(step, minimum, nonce)' <=> Right(step, minimum, nonce)
  BY DEF Right, Licensed, Traded, Occupied, Txns, Done, PacketRows
<1>2. WizardTypes'
  BY DEF WizardInv, WizardTypes
<1>3. TabRight'
  <2>1. Right(tab.step, tab.minimum, tab.nonce)' <=> Right(tab'.step, tab'.minimum, tab'.nonce)
    BY DEF Right, Licensed, Traded, Occupied, Txns, Done, PacketRows
  <2>2. QED
    BY <2>1 DEF GoodTab, TabRight, Txns, LastSent
<1>4. QueueRight'
  <2>1. \A i \in Txns : Right(requests[i].step, requests[i].minimum, requests[i].nonce)'
                          <=> Right(requests[i].step, requests[i].minimum, requests[i].nonce)
    BY DEF Right, Licensed, Traded, Occupied, Txns, Done, PacketRows
  <2>2. QED
    BY <2>1 DEF WizardInv, QueueRight, Txns, Waiting
<1>5. EffectsShow' /\ MadeOnce' /\ ChainRight'
  BY DEF WizardInv, EffectsShow, MadeOnce, ChainRight, Traded, TradeOver, Txns, Done, Occupied
<1>6. QED
  BY <1>2, <1>3, <1>4, <1>5 DEF WizardInv

LEMMA ConnectKeeps == ASSUME WizardInv, Connect PROVE WizardInv'
<1>1. Quiet(tab')
  BY ConnectedQuiet DEF Connect, WizardInv
<1>2. QED
  BY <1>1, QuietIsGood, TabStep DEF Connect, WizardInv, WizardTypes

LEMMA ClickKeeps == ASSUME WizardInv, NEW step \in tab.next, Click(step) PROVE WizardInv'
<1>1. page # "packet" /\ tab.pc = "idle"
  BY DEF Click
<1>2. step \in StepsOn(page) /\ (step = "setCb" => testnet.feed = 1)
  BY DEF WizardInv, TabRight, GoodTab
<1>3. CASE tab' = Opened(SendRule(step).early)
  <2>1. Quiet(tab')
    BY <1>1, <1>2, <1>3, AfterwardsQuiet DEF WizardInv
  <2>2. QED
    BY <2>1, QuietIsGood, TabStep DEF Click, WizardInv, WizardTypes
<1>4. CASE /\ SendRule(step).asks
           /\ tab' = [tab EXCEPT !.pc = "asking", !.step = step, !.minimum = MinimumFor(step)]
  <2>1. /\ Right(step, MinimumFor(step), 0)
        /\ page \in TradingPages /\ step \in Approvals =>
             \A i \in Txns : requests[i].step \notin Trades
    BY <1>1, <1>4, AskedRight
  <2>2. Right(step, MinimumFor(step), tab.nonce)
    BY <2>1, <1>1, <1>2, PageOfStep DEF Right, WizardInv, WizardTypes
  <2>3. MinimumFor(step) \in Nat
    BY <1>1, <1>2, MinimumIsNat DEF WizardInv
  <2>4. step \in Steps
    BY <1>2, StepNames DEF WizardInv, WizardTypes
  <2>5. tab' \in Tab
    BY <1>4, <2>3, <2>4 DEF WizardInv, WizardTypes, Tab
  <2>6. /\ tab'.next = tab.next /\ tab'.pc = "asking" /\ tab'.step = step
        /\ tab'.minimum = MinimumFor(step) /\ tab'.nonce = tab.nonce
    BY <1>4 DEF WizardInv, WizardTypes, Tab
  <2>7. GoodTab(tab')
    BY <2>1, <2>2, <2>6 DEF GoodTab, WizardInv, TabRight
  <2>8. QED
    BY <2>5, <2>7, TabStep DEF Click, WizardInv, WizardTypes
<1>5. QED
  BY <1>3, <1>4 DEF Click

(* The step a page is about is one of its own, and may be offered again. *)
LEMMA StepInHand ==
  ASSUME WizardInv, tab.pc \in {"asking", "waiting", "refreshing"}
  PROVE  tab.step \in StepsOn(page) /\ (tab.step = "setCb" => testnet.feed = 1)
<1>1. CASE tab.pc = "asking"
  BY <1>1 DEF WizardInv, TabRight, GoodTab, Right
<1>2. CASE tab.pc \in {"waiting", "refreshing"}
  <2>1. requests # <<>> /\ LastSent.step = tab.step
    BY <1>2 DEF WizardInv, TabRight, GoodTab
  <2>2. Len(requests) \in Txns
    BY <2>1 DEF WizardInv, WizardTypes, Txns
  <2>3. Right(LastSent.step, LastSent.minimum, LastSent.nonce)
    BY <2>2 DEF WizardInv, QueueRight, LastSent
  <2>4. QED
    BY <2>1, <2>3 DEF Right
<1>3. QED
  BY <1>1, <1>2

(* An error leaves buttons of the page's own. *)
LEMMA AfterErrorQuiet ==
  ASSUME WizardInv, NEW step \in StepsOn(page), step = "setCb" => testnet.feed = 1
  PROVE  Quiet(Opened(AfterError(step)))
<1>1. CASE page = "packet"
  BY <1>1, QuietOpened, {} \in SUBSET StepsOn(page) DEF AfterError, WizardInv, WizardTypes
<1>2. CASE page # "packet"
  BY <1>2, AfterwardsQuiet DEF AfterError, WizardInv
<1>3. QED
  BY <1>1, <1>2

(* The addresses in use are finitely many. *)
LEMMA OccupiedFinite ==
  ASSUME WizardTypes
  PROVE  IsFiniteSet(Occupied) /\ Occupied \subseteq Nat
<1> DEFINE at(c) == c.at
<1>1. IsFiniteSet(testnet.codes)
  BY DEF WizardTypes
<1>2. IsFiniteSet({c.at : c \in testnet.codes})
  <2> DEFINE C == testnet.codes
  <2> DEFINE f == [c \in C |-> c.at]
  <2> DEFINE T == {c.at : c \in C}
  <2>1. f \in Surjection(C, T)
    BY DEF Surjection
  <2> HIDE DEF f, T, C
  <2>2. IsFiniteSet(C)
    BY <1>1 DEF C
  <2>3. IsFiniteSet(T)
    BY <2>1, <2>2, FS_Surjection
  <2>4. QED
    BY <2>3 DEF T, C
<1>3. QED
  BY <1>2 DEF Occupied, WizardTypes, Testnet, Code

(* Where both nodes show the packet's state, the next row is free and follows *)
(* the addresses in use. *)
LEMMA PacketAskedRight ==
  ASSUME WizardInv, NEW view \in RpcViews, PacketSend(view).asks
  PROVE  LET n == PacketSend(view).nonce
         IN  n \in Nat /\ n + 1 \in PacketRows /\ 1..n \subseteq Occupied
<1> DEFINE n == Completed(view.codes)
<1>1. PacketNext(view) # {}
  BY DEF PacketSend
<1>2. view.codes = 1..n /\ n + 1 \in PacketRows
  BY <1>1 DEF PacketNext, DualState
<1>3. view.codes \subseteq Occupied
  BY DEF RpcViews, WizardInv, ChainRight
<1>4. IsFiniteSet(view.codes)
  BY <1>3, OccupiedFinite, FS_Subset DEF WizardInv
<1>5. n \in Nat
  <2> DEFINE D == {i \in view.codes : 1..i \subseteq view.codes}
  <2>1. D \in SUBSET view.codes
    OBVIOUS
  <2> HIDE DEF D
  <2>2. Cardinality(D) \in Nat
    BY <2>1, <1>4, FS_Subset, FS_CardinalityType
  <2>3. QED
    BY <2>2 DEF D, Completed
<1>6. PacketSend(view).nonce = n
  BY DEF PacketSend
<1>7. QED
  BY <1>2, <1>3, <1>5, <1>6

LEMMA ClickPacketKeeps == ASSUME WizardInv, ClickPacket PROVE WizardInv'
<1>1. "deployNext" \in StepsOn(page) /\ page = "packet"
  BY PageOfStep DEF ClickPacket, WizardInv, WizardTypes, TabRight, GoodTab
<1>2. PICK view \in RpcViews :
        tab' = IF PacketSend(view).asks
               THEN [tab EXCEPT !.pc = "asking", !.step = "deployNext",
                                !.nonce = PacketSend(view).nonce]
               ELSE Opened(PacketSend(view).early)
  BY DEF ClickPacket
<1>3. CASE ~PacketSend(view).asks
  <2>1. tab' = Opened({})
    BY <1>2, <1>3 DEF PacketSend
  <2>2. Quiet(tab')
    BY <2>1, QuietOpened, {} \in SUBSET StepsOn(page) DEF WizardInv, WizardTypes
  <2>3. QED
    BY <2>2, QuietIsGood, TabStep DEF ClickPacket, WizardInv, WizardTypes
<1>4. CASE PacketSend(view).asks
  <2> DEFINE n == PacketSend(view).nonce
  <2>1. n \in Nat /\ n + 1 \in PacketRows /\ 1..n \subseteq Occupied
    BY <1>4, PacketAskedRight
  <2> HIDE DEF n
  <2>2. tab' = [tab EXCEPT !.pc = "asking", !.step = "deployNext", !.nonce = n]
    BY <1>2, <1>4 DEF n
  <2>3. "deployNext" \in Steps
    BY <1>1, StepNames DEF WizardInv, WizardTypes
  <2>4. /\ tab' \in Tab /\ tab'.pc = "asking" /\ tab'.step = "deployNext" /\ tab'.nonce = n
        /\ tab'.next = tab.next
    BY <2>1, <2>2, <2>3 DEF WizardInv, WizardTypes, Tab
  <2>5. Right("deployNext", tab'.minimum, n)
    BY <2>1, <1>1, RiskSettingNames DEF Right, Trades, RiskSettings
  <2>6. GoodTab(tab')
    BY <2>4, <2>5, <1>1 DEF GoodTab, WizardInv, TabRight, TradingPages
  <2>7. QED
    BY <2>4, <2>6, TabStep DEF ClickPacket, WizardInv, WizardTypes
<1>5. QED
  BY <1>3, <1>4

(* An answer of the wallet or of the chain that comes to nothing. *)
LEMMA ErrorKeeps ==
  ASSUME WizardInv, UNCHANGED <<page, testnet, requests>>, saved' \in BOOLEAN,
         signer' \in BOOLEAN, trouble' \in Nat, tab.pc \in {"asking", "waiting", "refreshing"},
         tab' = Opened(AfterError(tab.step))
  PROVE  WizardInv'
<1>1. tab.step \in StepsOn(page) /\ (tab.step = "setCb" => testnet.feed = 1)
  BY StepInHand
<1>2. Quiet(tab')
  BY <1>1, AfterErrorQuiet
<1>3. QED
  BY <1>2, QuietIsGood, TabStep

LEMMA RejectKeeps == ASSUME WizardInv, Reject PROVE WizardInv'
BY ErrorKeeps DEF Reject, Trouble, WizardInv, WizardTypes

LEMMA ReceiptLateKeeps == ASSUME WizardInv, ReceiptLate PROVE WizardInv'
BY ErrorKeeps DEF ReceiptLate, Trouble, WizardInv, WizardTypes

LEMMA ReloadKeeps == ASSUME WizardInv, Reload PROVE WizardInv'
<1>1. Quiet(tab')
  BY QuietOpened, {} \in SUBSET StepsOn(page) DEF Reload, WizardInv, WizardTypes
<1>2. QED
  BY <1>1, QuietIsGood, TabStep DEF Reload, Trouble, WizardInv, WizardTypes

LEMMA SwitchKeeps == ASSUME WizardInv, SwitchAccount PROVE WizardInv'
BY TabStep DEF SwitchAccount, Trouble, WizardInv, WizardTypes, TabRight

LEMMA ReceiptKeeps == ASSUME WizardInv, WizardReceipt PROVE WizardInv'
<1>1. CASE LastSent.status = "ok"
  <2>1. /\ tab' = [tab EXCEPT !.pc = "refreshing"] /\ saved' \in BOOLEAN
        /\ UNCHANGED <<page, testnet, requests, signer, trouble>>
    BY <1>1 DEF WizardReceipt, WizardInv, WizardTypes
  <2>2. /\ tab' \in Tab /\ tab'.pc = "refreshing" /\ tab'.step = tab.step
        /\ tab'.next = tab.next
    BY <2>1 DEF WizardInv, WizardTypes, Tab
  <2>3. GoodTab(tab')
    BY <2>2, <1>1 DEF WizardReceipt, WizardInv, TabRight, GoodTab
  <2>4. QED
    BY <2>1, <2>2, <2>3, TabStep DEF WizardInv, WizardTypes
<1>2. CASE LastSent.status # "ok"
  BY <1>2, ErrorKeeps DEF WizardReceipt, WizardInv, WizardTypes
<1>3. QED
  BY <1>1, <1>2

LEMMA RefreshKeeps == ASSUME WizardInv, Refresh PROVE WizardInv'
<1>1. tab.step \in StepsOn(page) /\ (tab.step = "setCb" => testnet.feed = 1)
  BY StepInHand DEF Refresh
<1>2. tab.step = "setFeed" => testnet.feed = 1
  <2>1. requests # <<>> /\ LastSent.step = tab.step /\ LastSent.status = "ok"
    BY DEF Refresh, WizardInv, TabRight, GoodTab
  <2>2. Len(requests) \in Txns
    BY <2>1 DEF WizardInv, WizardTypes, Txns
  <2>3. QED
    BY <2>1, <2>2 DEF WizardInv, EffectsShow, LastSent, Done
<1>3. Quiet(tab')
  <2>1. CASE page = "packet"
    BY <2>1, PacketRefreshQuiet DEF Refresh, WizardInv
  <2>2. CASE page # "packet"
    BY <2>2, <1>1, <1>2, AfterwardsQuiet DEF Refresh, WizardInv
  <2>3. QED
    BY <2>1, <2>2
<1>4. QED
  BY <1>3, QuietIsGood, TabStep DEF Refresh, WizardInv, WizardTypes

-----------------------------------------------------------------------------
(* What is right stays right: permissions are used up by a trade only, other *)
(* flags stay set, addresses stay occupied, done steps stay done.            *)

DoneStep(s) == \E i \in Txns : requests[i].step = s /\ Done(i)

\* How the chain and the transactions may change under a page
Onward ==
    /\ page' = page
    /\ page \in TradingPages => (Licensed \/ Traded => Licensed' \/ Traded')
    /\ Occupied \subseteq Occupied'
    /\ testnet.fee = 1 => testnet'.fee = 1
    /\ testnet.allowed = 1 => testnet'.allowed = 1
    /\ testnet.feed = 1 => testnet'.feed = 1
    /\ \A s : DoneStep(s) => DoneStep(s)'

LEMMA RightStays ==
  ASSUME page \in PageNames, Onward, NEW s, NEW m, NEW n, Right(s, m, n)
  PROVE  Right(s, m, n)'
<1>1. (s \in StepsOn(page))'
  BY DEF Onward, Right
<1>2. (s \in Trades => Licensed \/ Traded)'
  <2>1. s \in Trades => page \in TradingPages
    BY PageOfStep DEF Right, Trades, TradingPages
  <2>2. QED
    BY <2>1 DEF Onward, Right
<1>3. (s = "deployNext" => n + 1 \in PacketRows /\ 1..n \subseteq Occupied)'
  BY DEF Onward, Right, PacketRows
<1>4. (/\ s = "poolAllow" => testnet.fee = 1
       /\ s = "register" => testnet.allowed = 1
       /\ s = "setCb" => testnet.feed = 1)'
  BY DEF Onward, Right
<1>5. (\A j \in DOMAIN RiskSteps : s = RiskSteps[j] => \A k \in 1..(j - 1) : DoneStep(RiskSteps[k]))'
  BY DEF Onward, Right, DoneStep
<1>6. QED
  BY <1>1, <1>2, <1>3, <1>4, <1>5 DEF Right, DoneStep

(* A request keeps its step, so it stays right. *)
LEMMA RequestStaysRight ==
  ASSUME page \in PageNames, Onward, NEW i, NEW r, Right(r.step, r.minimum, r.nonce),
         requests'[i].step = r.step, requests'[i].minimum = r.minimum,
         requests'[i].nonce = r.nonce
  PROVE  Right(requests[i].step, requests[i].minimum, requests[i].nonce)'
<1>1. Right(r.step, r.minimum, r.nonce)'
  BY RightStays
<1>2. QED
  BY <1>1 DEF Right

LEMMA ConfirmKeeps == ASSUME WizardInv, Confirm PROVE WizardInv'
<1>0. tab.pc = "asking" /\ UNCHANGED <<page, testnet, saved, signer, trouble>>
  BY DEF Confirm
<1>1. CASE ~Signs
  BY <1>0, <1>1, ErrorKeeps DEF Confirm, WizardInv, WizardTypes
<1>2. CASE Signs
  <2> DEFINE r == [step |-> tab.step, minimum |-> tab.minimum, nonce |-> tab.nonce,
                   row |-> tab.nonce + 1, status |-> "waiting"]
  <2> DEFINE last == Len(requests) + 1
  <2>1. Right(tab.step, tab.minimum, tab.nonce) /\ tab.step \in StepsOn(page)
    BY <1>0 DEF WizardInv, TabRight, GoodTab, Right
  <2>2. r \in Transaction
    <3>1. tab.step \in Steps
      BY <2>1, StepNames DEF WizardInv, WizardTypes
    <3>2. tab.minimum \in Nat /\ tab.nonce \in Nat /\ tab.nonce + 1 \in Nat
      <4>1. tab \in Tab
        BY DEF WizardInv, WizardTypes
      <4>2. tab.minimum \in Nat /\ tab.nonce \in Nat
        BY <4>1 DEF Tab
      <4>3. QED
        BY <4>2
    <3>3. QED
      BY <3>1, <3>2 DEF Transaction
  <2>3. requests' = Append(requests, r)
    BY <1>2 DEF Confirm, Request, NonceOfRequest
  <2>4. /\ requests' \in Seq(Transaction) /\ last \in Nat /\ Txns = 1..(last - 1)
        /\ Txns' = 1..last /\ requests'[last] = r
        /\ \A i \in Txns : requests'[i] = requests[i]
    BY <2>2, <2>3 DEF WizardInv, WizardTypes, Txns
  <2>5. r.step = tab.step /\ r.minimum = tab.minimum /\ r.nonce = tab.nonce
        /\ r.row = tab.nonce + 1 /\ r.status = "waiting"
    OBVIOUS
  <2> HIDE DEF r, last
  <2>6. /\ \A i \in Txns' : Done(i)' <=> i \in Txns /\ Done(i)
        /\ \A i \in Txns' : i \in Txns \/ i = last
        /\ \A i \in Txns : i \in Txns' /\ i < last /\ i \in Nat
    BY <2>4, <2>5 DEF Done
  <2>7. (Traded' <=> Traded) /\ \A s : DoneStep(s)' <=> DoneStep(s)
    BY <2>4, <2>6 DEF Traded, DoneStep
  <2>8. Onward
    BY <1>0, <2>7 DEF Onward, Licensed, Occupied
  <2>9. WizardTypes'
    <3>1. tab' \in Tab
      <4>1. CASE page \in PythPages
        <5>1. tab' = Opened(tab.next)
          BY <1>2, <4>1 DEF Confirm
        <5>2. QED
          BY <5>1 DEF Opened, Unopened, Tab, WizardInv, WizardTypes
      <4>2. CASE page \notin PythPages
        <5>1. tab' = [tab EXCEPT !.pc = "waiting", !.next = @ \ {tab.step}]
          BY <1>2, <4>2 DEF Confirm
        <5>2. QED
          BY <5>1 DEF Tab, WizardInv, WizardTypes
      <4>3. QED
        BY <4>1, <4>2
    <3>2. QED
      BY <3>1, <1>0, <2>4 DEF WizardInv, WizardTypes
  <2>10. TabRight'
    <3>1. CASE page \in PythPages
      <4>1. tab' = Opened(tab.next)
        BY <1>2, <3>1 DEF Confirm
      <4>2. tab'.next = tab.next /\ tab'.pc = "idle"
        BY <4>1 DEF Opened, Unopened
      <4>3. QED
        BY <4>2, <1>0 DEF TabRight, GoodTab, WizardInv
    <3>2. CASE page \notin PythPages
      <4>1. tab' = [tab EXCEPT !.pc = "waiting", !.next = @ \ {tab.step}]
        BY <1>2, <3>2 DEF Confirm
      <4>2. tab'.next \subseteq tab.next /\ tab'.pc = "waiting" /\ tab'.step = tab.step
        BY <4>1 DEF WizardInv, WizardTypes, Tab
      <4>3. requests' # <<>> /\ LastSent'.step = tab.step
        <5>1. Len(requests') = last /\ requests' # <<>>
          BY <2>2, <2>3 DEF last, WizardInv, WizardTypes
        <5>2. LastSent' = r
          BY <5>1, <2>4 DEF LastSent
        <5>3. QED
          BY <5>1, <5>2, <2>5
      <4>4. QED
        BY <4>2, <4>3, <1>0 DEF TabRight, GoodTab, WizardInv
    <3>3. QED
      BY <3>1, <3>2
  <2>11. QueueRight'
    <3>1. ASSUME NEW i \in Txns'
          PROVE  /\ Right(requests[i].step, requests[i].minimum, requests[i].nonce)'
                 /\ requests'[i].row = requests'[i].nonce + 1
      <4>1. CASE i = last
        BY <4>1, <2>1, <2>4, <2>5, <2>8, RequestStaysRight DEF WizardInv, WizardTypes
      <4>2. CASE i \in Txns
        <5>1. Right(requests[i].step, requests[i].minimum, requests[i].nonce)
              /\ requests[i].row = requests[i].nonce + 1
          BY <4>2 DEF WizardInv, QueueRight
        <5> DEFINE q == requests[i]
        <5>2. requests'[i] = q
          BY <4>2, <2>4
        <5> HIDE DEF q
        <5>3. Right(q.step, q.minimum, q.nonce) /\ q.row = q.nonce + 1
          BY <5>1 DEF q
        <5>4. QED
          BY <5>2, <5>3, <2>8, RequestStaysRight DEF WizardInv, WizardTypes
      <4>3. QED
        BY <4>1, <4>2, <2>6
    <3>2. \A i, j \in Txns' : i < j /\ i \in Waiting' => j \in Waiting'
      BY <2>4, <2>5, <2>6 DEF WizardInv, QueueRight, Waiting, Txns
    <3>3. ASSUME page \in TradingPages, NEW i \in Txns', NEW j \in Txns', i < j,
                 requests'[i].step \in Trades
          PROVE  requests'[j].step \notin Approvals
      <4>1. i \in Txns /\ requests[i].step \in Trades
        BY <3>3, <2>4, <2>6
      <4>2. CASE j = last
        BY <4>1, <4>2, <3>3, <1>0, <2>4, <2>5 DEF WizardInv, TabRight, GoodTab
      <4>3. CASE j \in Txns
        BY <4>1, <4>3, <3>3, <2>4 DEF WizardInv, QueueRight
      <4>4. QED
        BY <4>2, <4>3, <2>6
    <3>4. QED
      BY <3>1, <3>2, <3>3, <1>0 DEF QueueRight
  <2>12. EffectsShow'
    <3>1. \A i \in Txns' : Done(i)' => i \in Txns /\ Done(i) /\ requests'[i] = requests[i]
      BY <2>4, <2>6
    <3>2. QED
      BY <3>1, <2>7, <1>0 DEF EffectsShow, WizardInv, TradeOver
  <2>13. MadeOnce'
    <3>1. \A i \in Txns' : Done(i)' => i \in Txns /\ Done(i) /\ requests'[i] = requests[i]
      BY <2>4, <2>6
    <3>2. QED
      BY <3>1 DEF MadeOnce, WizardInv
  <2>14. ChainRight'
    BY <1>0, <2>7 DEF ChainRight, WizardInv, Occupied, DoneStep
  <2>15. QED
    BY <2>9, <2>10, <2>11, <2>12, <2>13, <2>14 DEF WizardInv
<1>3. QED
  BY <1>1, <1>2

-----------------------------------------------------------------------------
(* A transaction is mined.                                                   *)

Mined(i, ok, wrote) ==
    /\ i \in Waiting /\ \A j \in Waiting : i <= j
    /\ ok => Works(requests[i], testnet)
    /\ requests' = [requests EXCEPT ![i].status = IF ok THEN "ok" ELSE "failed"]
    /\ \E after : /\ after = IF ok THEN Outcome(requests[i], testnet, wrote) ELSE testnet
                  /\ testnet' = IF page # "packet" THEN after
                                ELSE [after EXCEPT !.nonce = @ + 1,
                                        !.before = [nonce |-> testnet.nonce, codes |-> Occupied]]
    /\ trouble' \in Nat /\ UNCHANGED <<page, tab, saved, signer>>

LEMMA MineNextMines ==
  ASSUME WizardInv, MineNext
  PROVE  \E i \in Waiting, ok \in BOOLEAN, wrote \in BOOLEAN : Mined(i, ok, wrote)
<1>1. PICK i \in Waiting, wrote \in BOOLEAN, gasLeft \in BOOLEAN :
        /\ \A j \in Waiting : i <= j
        /\ trouble' = IF gasLeft THEN trouble ELSE trouble + 1
        /\ LET ok == gasLeft /\ Works(requests[i], testnet)
               after == IF ok THEN Outcome(requests[i], testnet, wrote) ELSE testnet
           IN  /\ requests' = [requests EXCEPT ![i].status = IF ok THEN "ok" ELSE "failed"]
               /\ testnet' = IF page # "packet" THEN after
                             ELSE [after EXCEPT !.nonce = @ + 1,
                                     !.before = [nonce |-> testnet.nonce, codes |-> Occupied]]
  BY ZenonT(60) DEF MineNext
<1> DEFINE ok == gasLeft /\ Works(requests[i], testnet)
<1>2. ok \in BOOLEAN /\ (ok => Works(requests[i], testnet))
  OBVIOUS
<1>3. PICK after : after = IF ok THEN Outcome(requests[i], testnet, wrote) ELSE testnet
  OBVIOUS
<1>4. /\ requests' = [requests EXCEPT ![i].status = IF ok THEN "ok" ELSE "failed"]
      /\ testnet' = IF page # "packet" THEN after
                    ELSE [after EXCEPT !.nonce = @ + 1,
                            !.before = [nonce |-> testnet.nonce, codes |-> Occupied]]
  BY <1>1, <1>3
<1>5. trouble' \in Nat /\ UNCHANGED <<page, tab, saved, signer>>
  BY <1>1 DEF MineNext, WizardInv, WizardTypes
<1> HIDE DEF ok
<1>6. Mined(i, ok, wrote)
  BY <1>1, <1>2, <1>3, <1>4, <1>5 DEF Mined
<1>7. QED
  BY <1>2, <1>6

(* The transactions afterwards. *)
LEMMA MinedRequests ==
  ASSUME WizardInv, NEW i, NEW ok \in BOOLEAN, NEW wrote \in BOOLEAN, Mined(i, ok, wrote)
  PROVE  /\ i \in Txns /\ Txns' = Txns /\ requests' \in Seq(Transaction)
         /\ Len(requests') = Len(requests)
         /\ \A j \in Txns : /\ requests'[j].step = requests[j].step
                            /\ requests'[j].minimum = requests[j].minimum
                            /\ requests'[j].nonce = requests[j].nonce
                            /\ requests'[j].row = requests[j].row
                            /\ Done(j)' <=> IF j = i THEN ok ELSE Done(j)
                            /\ j \in Waiting' <=> j \in Waiting /\ j # i
         /\ ~Done(i)
<1>1. i \in Txns /\ requests[i].status = "waiting" /\ requests \in Seq(Transaction)
  BY DEF Mined, Waiting, Txns, WizardInv, WizardTypes
<1> DEFINE r == [requests[i] EXCEPT !.status = IF ok THEN "ok" ELSE "failed"]
<1>2. r \in Transaction /\ r.step = requests[i].step /\ r.minimum = requests[i].minimum
      /\ r.nonce = requests[i].nonce /\ r.row = requests[i].row
      /\ r.status = IF ok THEN "ok" ELSE "failed"
  <2>1. requests[i] \in Transaction
    BY <1>1 DEF Txns
  <2>2. QED
    BY <2>1 DEF Transaction
<1>3. requests' = [requests EXCEPT ![i] = r]
  BY DEF Mined
<1> HIDE DEF r
<1>4. /\ requests' \in Seq(Transaction) /\ Txns' = Txns /\ Len(requests') = Len(requests)
      /\ requests'[i] = r /\ \A j \in Txns : j # i => requests'[j] = requests[j]
  BY <1>1, <1>2, <1>3 DEF Txns
<1>5. QED
  BY <1>1, <1>2, <1>4 DEF Done, Waiting, Txns

(* The transaction is right, and of the page. *)
LEMMA MinedIsRight ==
  ASSUME WizardInv, NEW i, NEW ok \in BOOLEAN, NEW wrote \in BOOLEAN, Mined(i, ok, wrote)
  PROVE  /\ i \in Txns /\ requests[i] \in Transaction /\ requests[i].step \in StepsOn(page)
         /\ Right(requests[i].step, requests[i].minimum, requests[i].nonce)
         /\ requests[i].row = requests[i].nonce + 1
<1>1. i \in Txns
  BY DEF Mined, Waiting, Txns
<1>2. QED
  BY <1>1 DEF WizardInv, WizardTypes, QueueRight, Right, Txns

(* The chain afterwards, field by field. *)
LEMMA MinedFields ==
  ASSUME WizardInv, NEW i, NEW ok \in BOOLEAN, NEW wrote \in BOOLEAN, Mined(i, ok, wrote)
  PROVE  /\ Changed(testnet', ok, requests[i], testnet)
         /\ testnet'.before.codes = IF page = "packet" THEN Occupied ELSE testnet.before.codes
         /\ testnet' \in Testnet
         /\ IsFiniteSet(testnet'.codes) /\ IsFiniteSet(testnet'.before.codes)
<1> DEFINE tx == requests[i]
<1>1. PICK after :
        /\ after = IF ok THEN Outcome(tx, testnet, wrote) ELSE testnet
        /\ testnet' = IF page # "packet" THEN after
                      ELSE [after EXCEPT !.nonce = @ + 1,
                              !.before = [nonce |-> testnet.nonce, codes |-> Occupied]]
  BY DEF Mined
<1>2. testnet \in Testnet /\ IsFiniteSet(testnet.codes) /\ IsFiniteSet(testnet.before.codes)
  BY DEF WizardInv, WizardTypes
<1>3. tx.row \in Nat /\ (tx.step = "mint" => tx.minimum = ConfirmedPrice)
  BY MinedIsRight DEF Right, Transaction
<1>4. ok => Works(tx, testnet)
  BY DEF Mined
<1> HIDE DEF tx
<1>5. after \in Testnet /\ IsFiniteSet(after.codes) /\ after.before = testnet.before
  <2>1. CASE ok
    BY <1>1, <1>2, <1>3, <1>4, <2>1, OutcomeType, OutcomeFields
  <2>2. CASE ~ok
    BY <1>1, <1>2, <2>2
  <2>3. QED
    BY <2>1, <2>2
<1> DEFINE kept == [nonce |-> testnet.nonce, codes |-> Occupied]
<1>6. kept \in [nonce : Nat, codes : SUBSET Nat] /\ IsFiniteSet(kept.codes) /\ kept.codes = Occupied
  BY <1>2, OccupiedFinite DEF Testnet, WizardInv
<1>7. /\ testnet' = IF page # "packet" THEN after ELSE [after EXCEPT !.nonce = @ + 1, !.before = kept]
  BY <1>1
<1> HIDE DEF kept
<1>8. ASSUME NEW n \in Nat
      PROVE  LET x == [after EXCEPT !.nonce = n, !.before = kept]
             IN  /\ x \in Testnet /\ x.before = kept
                 /\ x.allow = after.allow /\ x.allow2 = after.allow2 /\ x.wbnb = after.wbnb
                 /\ x.price = after.price /\ x.liquidity = after.liquidity /\ x.made = after.made
                 /\ x.fee = after.fee /\ x.allowed = after.allowed
                 /\ x.registered = after.registered /\ x.feed = after.feed
                 /\ x.breaker = after.breaker /\ x.risk = after.risk /\ x.filled = after.filled
                 /\ x.codes = after.codes
  BY <1>5, <1>6 DEF Testnet
<1>9. after.nonce + 1 \in Nat
  BY <1>5 DEF Testnet
<1>10. /\ testnet' \in Testnet
       /\ testnet'.before = IF page = "packet" THEN kept ELSE testnet.before
       /\ testnet'.allow = after.allow /\ testnet'.allow2 = after.allow2
       /\ testnet'.wbnb = after.wbnb /\ testnet'.price = after.price
       /\ testnet'.liquidity = after.liquidity /\ testnet'.made = after.made
       /\ testnet'.fee = after.fee /\ testnet'.allowed = after.allowed
       /\ testnet'.registered = after.registered /\ testnet'.feed = after.feed
       /\ testnet'.breaker = after.breaker /\ testnet'.risk = after.risk
       /\ testnet'.filled = after.filled /\ testnet'.codes = after.codes
  BY <1>5, <1>7, <1>8, <1>9
<1>11. IsFiniteSet(testnet'.codes) /\ IsFiniteSet(testnet'.before.codes)
  BY <1>2, <1>5, <1>6, <1>10
<1>12. testnet'.before.codes = IF page = "packet" THEN Occupied ELSE testnet.before.codes
  BY <1>6, <1>10
<1>13. Changed(testnet', ok, tx, testnet)
  <2>1. CASE ~ok
    BY <1>1, <1>10, <2>1 DEF Changed
  <2>2. CASE ok
    <3>1. Changed(after, TRUE, tx, testnet)
      BY <1>1, <1>2, <1>4, <2>2, OutcomeFields
    <3>2. QED
      BY <1>10, <2>2, <3>1 DEF Changed
  <2>3. QED
    BY <2>1, <2>2
<1>14. QED
  BY <1>10, <1>11, <1>12, <1>13 DEF tx

(* What a successful transaction needed. *)
LEMMA WorksNeeds ==
  ASSUME NEW tx, NEW c, Works(tx, c)
  PROVE  /\ tx.step \in Trades => c.allow > 0
         /\ tx.step \in {"mint", "swapBack", "swapTick"} => c.wbnb > 0
         /\ tx.step = "mint" => c.price = tx.minimum
         /\ tx.step \in {"swap", "swapBack"} => c.quote >= tx.minimum
         /\ tx.step \in {"create", "deploySafe"} => c.made = 0
         /\ tx.step = "initialize" => c.price = 0
         /\ tx.step = "register" => c.registered = 0
         /\ tx.step = "deployNext" => c.nonce = tx.nonce
BY RiskSettingNames DEF Works, Settings, RouterContracts, Trades

LEMMA MinedOnward ==
  ASSUME WizardInv, NEW i, NEW ok \in BOOLEAN, NEW wrote \in BOOLEAN, Mined(i, ok, wrote)
  PROVE  Onward
<1> DEFINE step == requests[i].step
<1>1. page' = page
  BY DEF Mined
<1>2. Changed(testnet', ok, requests[i], testnet)
  BY MinedFields
<1>3. /\ i \in Txns /\ Txns' = Txns
      /\ \A j \in Txns : /\ requests'[j].step = requests[j].step
                         /\ Done(j)' <=> IF j = i THEN ok ELSE Done(j)
      /\ ~Done(i)
  BY MinedRequests
<1>4. \A s : DoneStep(s) => DoneStep(s)'
  BY <1>3 DEF DoneStep
<1>5. Traded => Traded'
  BY <1>3 DEF Traded
<1>6. page \in TradingPages /\ Licensed => Licensed' \/ Traded'
  <2>1. CASE ok /\ step \in Trades
    BY <1>3, <2>1 DEF Traded
  <2>2. CASE ~(ok /\ step \in Trades)
    <3>1. page \in TradingPages => step # "swapTick"
      BY MinedIsRight, PageOfStep DEF WizardInv, WizardTypes, TradingPages
    <3>2. QED
      BY <1>1, <1>2, <2>2, <3>1 DEF Licensed, Changed, Trades
  <2>3. QED
    BY <2>1, <2>2
<1>7. Occupied \subseteq Occupied'
  <2>1. testnet.codes \subseteq testnet'.codes
    BY <1>2 DEF Changed
  <2>2. QED
    BY <2>1 DEF Occupied
<1>8. /\ testnet.fee = 1 => testnet'.fee = 1
      /\ testnet.allowed = 1 => testnet'.allowed = 1
      /\ testnet.feed = 1 => testnet'.feed = 1
  BY <1>2 DEF Changed
<1>9. QED
  BY <1>1, <1>4, <1>5, <1>6, <1>7, <1>8 DEF Onward

LEMMA MinedTab ==
  ASSUME WizardInv, NEW i, NEW ok \in BOOLEAN, NEW wrote \in BOOLEAN, Mined(i, ok, wrote)
  PROVE  TabRight'
<1>1. UNCHANGED <<page, tab>>
  BY DEF Mined
<1>2. Onward
  BY MinedOnward
<1>3. /\ Txns' = Txns /\ Len(requests') = Len(requests)
      /\ \A j \in Txns : /\ requests'[j].step = requests[j].step
                         /\ Done(j)' <=> IF j = i THEN ok ELSE Done(j)
      /\ ~Done(i)
  BY MinedRequests
<1>4. tab.pc = "asking" => Right(tab.step, tab.minimum, tab.nonce)'
  <2> SUFFICES ASSUME tab.pc = "asking" PROVE Right(tab.step, tab.minimum, tab.nonce)'
    OBVIOUS
  <2>1. PICK s, m, n : s = tab.step /\ m = tab.minimum /\ n = tab.nonce
    OBVIOUS
  <2>2. Right(s, m, n)
    BY <2>1 DEF WizardInv, TabRight, GoodTab
  <2>3. Right(s, m, n)'
    BY <1>2, <2>2, RightStays DEF WizardInv, WizardTypes
  <2>4. QED
    BY <1>1, <2>1, <2>3 DEF Right
<1>5. tab.pc \in {"waiting", "refreshing"} => requests' # <<>> /\ LastSent'.step = tab.step
  <2> SUFFICES ASSUME tab.pc \in {"waiting", "refreshing"}
               PROVE  requests' # <<>> /\ LastSent'.step = tab.step
    OBVIOUS
  <2>1. requests # <<>> /\ LastSent.step = tab.step
    BY DEF WizardInv, TabRight, GoodTab
  <2>2. Len(requests) \in Txns
    BY <2>1 DEF WizardInv, WizardTypes, Txns
  <2>3. QED
    BY <1>3, <2>1, <2>2 DEF LastSent, Txns
<1>6. tab.pc = "refreshing" => LastSent'.status = "ok"
  <2> SUFFICES ASSUME tab.pc = "refreshing" PROVE LastSent'.status = "ok"
    OBVIOUS
  <2>1. requests # <<>> /\ LastSent.status = "ok"
    BY DEF WizardInv, TabRight, GoodTab
  <2>2. Len(requests) \in Txns /\ Done(Len(requests))
    BY <2>1 DEF WizardInv, WizardTypes, Txns, LastSent, Done
  <2>3. QED
    BY <1>3, <2>2 DEF LastSent, Done
<1>7. tab.next \subseteq StepsOn(page) /\ ("setCb" \in tab.next => testnet'.feed = 1)
  BY <1>2 DEF Onward, WizardInv, TabRight, GoodTab
<1>8. tab.pc = "asking" /\ page \in TradingPages /\ tab.step \in Approvals =>
        \A j \in Txns' : requests'[j].step \notin Trades
  BY <1>3 DEF WizardInv, TabRight, GoodTab
<1>9. QED
  BY <1>1, <1>4, <1>5, <1>6, <1>7, <1>8 DEF TabRight, GoodTab

LEMMA MinedQueue ==
  ASSUME WizardInv, NEW i, NEW ok \in BOOLEAN, NEW wrote \in BOOLEAN, Mined(i, ok, wrote)
  PROVE  QueueRight'
<1>1. /\ i \in Txns /\ Txns' = Txns
      /\ \A j \in Txns : /\ requests'[j].step = requests[j].step
                         /\ requests'[j].minimum = requests[j].minimum
                         /\ requests'[j].nonce = requests[j].nonce
                         /\ requests'[j].row = requests[j].row
                         /\ j \in Waiting' <=> j \in Waiting /\ j # i
  BY MinedRequests
<1>2. Onward
  BY MinedOnward
<1>3. ASSUME NEW j \in Txns
      PROVE  /\ Right(requests[j].step, requests[j].minimum, requests[j].nonce)'
             /\ requests'[j].row = requests'[j].nonce + 1
  <2> DEFINE q == requests[j]
  <2>1. Right(q.step, q.minimum, q.nonce) /\ q.row = q.nonce + 1
    BY DEF WizardInv, QueueRight
  <2>2. /\ requests'[j].step = q.step /\ requests'[j].minimum = q.minimum
        /\ requests'[j].nonce = q.nonce /\ requests'[j].row = q.row
    BY <1>1
  <2> HIDE DEF q
  <2>3. QED
    BY <1>2, <2>1, <2>2, RequestStaysRight DEF WizardInv, WizardTypes
<1>4. \A x, y \in Txns : x < y /\ x \in Waiting' => y \in Waiting'
  <2>1. \A x, y \in Txns : x < y /\ x \in Waiting => y \in Waiting /\ i <= x
    BY DEF WizardInv, QueueRight, Mined
  <2>2. Txns \subseteq Nat
    BY DEF Txns, WizardInv, WizardTypes
  <2>3. QED
    BY <1>1, <2>1, <2>2
<1>5. page' \in TradingPages => \A x, y \in Txns :
        x < y /\ requests'[x].step \in Trades => requests'[y].step \notin Approvals
  BY <1>1 DEF WizardInv, QueueRight, Mined
<1>6. QED
  BY <1>1, <1>3, <1>4, <1>5 DEF QueueRight

LEMMA MinedEffects ==
  ASSUME WizardInv, NEW i, NEW ok \in BOOLEAN, NEW wrote \in BOOLEAN, Mined(i, ok, wrote)
  PROVE  EffectsShow' /\ MadeOnce'
<1> DEFINE step == requests[i].step
<1>1. page' = page /\ page \in PageNames
  BY DEF Mined, WizardInv, WizardTypes
<1>2. Changed(testnet', ok, requests[i], testnet)
  BY MinedFields
<1>3. /\ i \in Txns /\ Txns' = Txns
      /\ \A j \in Txns : /\ requests'[j].step = requests[j].step
                         /\ Done(j)' <=> IF j = i THEN ok ELSE Done(j)
      /\ ~Done(i)
  BY MinedRequests
<1>4. step \in StepsOn(page) /\ Right(step, requests[i].minimum, requests[i].nonce)
  BY MinedIsRight
<1>5. ok => Works(requests[i], testnet)
  BY DEF Mined
<1>6. /\ testnet.allow \in {0, 1} /\ testnet.wbnb \in Nat /\ testnet.allow2 \in {0, 1}
      /\ testnet.price \in 0..2
  BY DEF WizardInv, WizardTypes, Testnet, Flag
<1> HIDE DEF step
<1>7. Traded' => TradeOver' /\ testnet'.allow = 0 /\ testnet'.allow2 = 0
  <2>1. CASE ok /\ step \in Trades
    <3>1. testnet'.allow = 0
      BY <1>2, <2>1 DEF Changed, step, Trades
    <3>2. CASE step = "mint"
      BY <1>1, <1>2, <1>4, <2>1, <3>1, <3>2, PageOfStep DEF Changed, step, TradeOver
    <3>3. CASE step = "swap"
      <4>1. page = "smoke"
        BY <1>1, <1>4, <3>3, PageOfStep
      <4>2. testnet.allow2 = 0
        BY <4>1 DEF WizardInv, ChainRight
      <4>3. testnet'.allow2 = 0 /\ testnet'.wbnb = testnet.wbnb + 1
        BY <1>2, <2>1, <3>3, <4>2 DEF Changed, step
      <4>4. QED
        BY <1>1, <1>6, <3>1, <4>1, <4>3 DEF TradeOver
    <3>4. CASE step = "swapBack"
      <4>1. page = "reverse"
        BY <1>1, <1>4, <3>4, PageOfStep
      <4>2. testnet.allow2 = 0 /\ testnet.wbnb <= 1
        BY <4>1 DEF WizardInv, ChainRight
      <4>3. testnet.wbnb > 0
        BY <1>5, <2>1, <3>4, WorksNeeds DEF step
      <4>4. testnet'.allow2 = 0 /\ testnet'.wbnb = testnet.wbnb - 1
        BY <1>2, <2>1, <3>4, <4>2 DEF Changed, step
      <4>5. QED
        BY <1>1, <1>6, <3>1, <4>1, <4>2, <4>3, <4>4 DEF TradeOver
    <3>5. QED
      BY <2>1, <3>2, <3>3, <3>4 DEF Trades
  <2>2. CASE ~(ok /\ step \in Trades)
    <3> SUFFICES ASSUME Traded' PROVE TradeOver' /\ testnet'.allow = 0 /\ testnet'.allow2 = 0
      OBVIOUS
    <3>1. PICK t \in Txns : requests[t].step \in Trades /\ Done(t)
      BY <1>3, <2>2 DEF Traded, step
    <3>2. TradeOver /\ testnet.allow = 0 /\ testnet.allow2 = 0
      BY <3>1 DEF WizardInv, EffectsShow, Traded
    <3>3. page \in TradingPages
      <4>1. requests[t].step \in StepsOn(page)
        BY DEF WizardInv, QueueRight, Right
      <4>2. QED
        BY <1>1, <3>1, <4>1, PageOfStep DEF Trades, TradingPages
    <3>4. step \notin Approvals
      <4>1. i \in Nat /\ t \in Nat /\ t # i
        BY <1>3, <3>1 DEF Txns, WizardInv, WizardTypes
      <4>2. t < i => step \notin Approvals
        BY <1>3, <3>1, <3>3 DEF WizardInv, QueueRight, step
      <4>3. ~(i < t)
        <5>1. i < t => t \in Waiting
          BY <1>3 DEF WizardInv, QueueRight, Mined
        <5>2. QED
          BY <3>1, <5>1 DEF Waiting, Done
      <4>4. QED
        BY <4>1, <4>2, <4>3
    <3>5. step # "swapTick" /\ (page = "smoke" \/ page = "reverse" => step # "wrap")
      BY <1>1, <1>4, <3>3, PageOfStep DEF TradingPages
    <3>6. testnet'.allow = 0 /\ testnet'.allow2 = 0
      BY <1>2, <2>2, <3>2, <3>4, <3>5 DEF Changed, step, Approvals, Trades
    <3>7. testnet'.liquidity = testnet.liquidity
      BY <1>2, <2>2 DEF Changed, step, Trades
    <3>8. page = "smoke" \/ page = "reverse" => testnet'.wbnb = testnet.wbnb
      BY <1>2, <2>2, <3>5 DEF Changed, step, Trades
    <3>9. QED
      BY <1>1, <3>2, <3>3, <3>6, <3>7, <3>8 DEF TradeOver, TradingPages
  <2>3. QED
    BY <2>1, <2>2
<1>8. ASSUME NEW j \in Txns, Done(j)'
      PROVE  /\ requests'[j].step \in {"create", "deploySafe"} => testnet'.made = 1
             /\ requests'[j].step = "initialize" => testnet'.price # 0
             /\ requests'[j].step = "register" => testnet'.registered = 1
             /\ requests'[j].step = "setFeed" => testnet'.feed = 1
  <2>1. CASE j = i
    BY <1>2, <1>3, <1>8, <2>1 DEF Changed, ConfirmedPrice
  <2>2. CASE j # i
    <3>1. Done(j) /\ requests'[j].step = requests[j].step
      BY <1>3, <1>8, <2>2
    <3>2. /\ requests[j].step \in {"create", "deploySafe"} => testnet.made = 1
          /\ requests[j].step = "initialize" => testnet.price # 0
          /\ requests[j].step = "register" => testnet.registered = 1
          /\ requests[j].step = "setFeed" => testnet.feed = 1
      BY <3>1 DEF WizardInv, EffectsShow
    <3>3. QED
      BY <1>2, <3>1, <3>2 DEF Changed, ConfirmedPrice
  <2>3. QED
    BY <2>1, <2>2
<1>9. EffectsShow'
  BY <1>3, <1>7, <1>8 DEF EffectsShow
<1>10. ASSUME ok, NEW j \in Txns, Done(j), requests[j].step = step, step \in OnceSteps
       PROVE  FALSE
  <2>1. /\ step \in {"create", "deploySafe"} => testnet.made = 1
        /\ step = "initialize" => testnet.price # 0
        /\ step = "register" => testnet.registered = 1
        /\ step \in Trades => testnet.allow = 0
    BY <1>10 DEF WizardInv, EffectsShow, Traded
  <2>2. /\ step \in {"create", "deploySafe"} => testnet.made = 0
        /\ step = "initialize" => testnet.price = 0
        /\ step = "register" => testnet.registered = 0
        /\ step \in Trades => testnet.allow > 0
    BY <1>5, <1>10, WorksNeeds DEF step
  <2>3. QED
    BY <1>6, <1>10, <2>1, <2>2 DEF OnceSteps, Trades
<1>11. MadeOnce'
  <2> SUFFICES ASSUME NEW x \in Txns, NEW y \in Txns, Done(x)', Done(y)',
                      requests'[x].step = requests'[y].step, requests'[x].step \in OnceSteps
               PROVE  x = y
    BY <1>3 DEF MadeOnce
  <2>1. CASE x # i /\ y # i
    BY <1>3, <2>1 DEF WizardInv, MadeOnce
  <2>2. CASE x = i /\ y # i
    BY <1>3, <1>10, <2>2 DEF step
  <2>3. CASE y = i /\ x # i
    BY <1>3, <1>10, <2>3 DEF step
  <2>4. QED
    BY <2>1, <2>2, <2>3
<1>12. QED
  BY <1>9, <1>11

LEMMA MinedChain ==
  ASSUME WizardInv, NEW i, NEW ok \in BOOLEAN, NEW wrote \in BOOLEAN, Mined(i, ok, wrote)
  PROVE  ChainRight'
<1> DEFINE tx == requests[i]
<1>1. page' = page /\ page \in PageNames
  BY DEF Mined, WizardInv, WizardTypes
<1>2. /\ Changed(testnet', ok, tx, testnet)
      /\ testnet'.before.codes = IF page = "packet" THEN Occupied ELSE testnet.before.codes
  BY MinedFields
<1>3. /\ i \in Txns /\ Txns' = Txns
      /\ \A j \in Txns : /\ requests'[j].step = requests[j].step
                         /\ Done(j)' <=> IF j = i THEN ok ELSE Done(j)
      /\ ~Done(i)
  BY MinedRequests
<1>4. tx.step \in StepsOn(page) /\ Right(tx.step, tx.minimum, tx.nonce) /\ tx.row = tx.nonce + 1
      /\ tx.nonce \in Nat
  BY MinedIsRight DEF Transaction
<1>5. ok => Works(tx, testnet)
  BY DEF Mined
<1>6. testnet.wbnb \in Nat /\ testnet.quote \in 1..3 /\ testnet.nonce \in Nat
      /\ testnet.codes \subseteq Code
  BY DEF WizardInv, WizardTypes, Testnet
<1> HIDE DEF tx
<1>7. Occupied \subseteq Occupied'
  BY MinedOnward DEF Onward
<1>8. page # "liquidity" => testnet'.allow2 = 0
  BY <1>1, <1>2, <1>4, PageOfStep DEF Changed, WizardInv, ChainRight
<1>9. page = "reverse" => testnet'.wbnb <= 1
  <2>1. page = "reverse" => tx.step \notin {"wrap", "swap", "mint", "swapTick"}
    BY <1>1, <1>4, PageOfStep
  <2>2. page = "reverse" => testnet.wbnb <= 1
    BY DEF WizardInv, ChainRight
  <2>3. QED
    BY <1>2, <1>6, <2>1, <2>2 DEF Changed
<1>10. testnet'.filled \subseteq (IF page = "liquidity" THEN {ConfirmedPrice} ELSE ReviewedQuotes)
  <2>1. testnet.filled \subseteq (IF page = "liquidity" THEN {ConfirmedPrice} ELSE ReviewedQuotes)
    BY DEF WizardInv, ChainRight
  <2>2. ok /\ tx.step = "mint" => page = "liquidity" /\ testnet.price = ConfirmedPrice
    BY <1>1, <1>4, <1>5, PageOfStep, WorksNeeds DEF Right
  <2>3. ok /\ tx.step \in {"swap", "swapBack"} =>
          page # "liquidity" /\ testnet.quote \in ReviewedQuotes
    BY <1>1, <1>4, <1>5, <1>6, PageOfStep, WorksNeeds DEF Right, ReviewedQuotes
  <2>4. QED
    BY <1>2, <2>1, <2>2, <2>3 DEF Changed
<1>11. ASSUME NEW c \in testnet'.codes, c.row > 0
       PROVE  c.at = c.row /\ c.row <= PacketLength /\ 1..(c.row - 1) \subseteq Occupied'
  <2>1. CASE c \in testnet.codes
    BY <1>7, <1>11, <2>1 DEF WizardInv, ChainRight
  <2>2. CASE c \notin testnet.codes
    <3>1. ok /\ tx.step = "deployNext" /\ c = [at |-> testnet.nonce + 1, row |-> tx.row]
      BY <1>2, <1>11, <2>2 DEF Changed
    <3>2. testnet.nonce = tx.nonce
      BY <1>5, <3>1, WorksNeeds
    <3>3. tx.nonce + 1 \in PacketRows /\ 1..tx.nonce \subseteq Occupied
      BY <1>4, <3>1 DEF Right
    <3>4. c.at = tx.nonce + 1 /\ c.row = tx.nonce + 1
      BY <3>1, <3>2, <1>4
    <3>5. tx.nonce + 1 <= PacketLength
      BY <3>3, <1>4, PagesAssumption DEF PacketRows
    <3>6. QED
      BY <1>4, <1>7, <3>3, <3>4, <3>5
  <2>3. QED
    BY <2>1, <2>2
<1>12. testnet'.before.codes \subseteq Occupied'
  BY <1>2, <1>7 DEF WizardInv, ChainRight
<1>13. testnet'.allowed = 1 => testnet'.fee = 1
  BY <1>2, <1>4 DEF Changed, Right, WizardInv, ChainRight
<1>14. testnet'.breaker = 1 => testnet'.feed = 1
  BY <1>2, <1>4 DEF Changed, Right, WizardInv, ChainRight
<1>15. ASSUME NEW s \in testnet'.risk
       PROVE  \E j \in Txns' : requests'[j].step = s /\ Done(j)'
  <2>1. CASE s \in testnet.risk
    BY <1>3, <2>1 DEF WizardInv, ChainRight
  <2>2. CASE s \notin testnet.risk
    BY <1>2, <1>3, <1>15, <2>2 DEF Changed, tx
  <2>3. QED
    BY <2>1, <2>2
<1>16. QED
  BY <1>1, <1>8, <1>9, <1>10, <1>11, <1>12, <1>13, <1>14, <1>15 DEF ChainRight

LEMMA MineKeeps == ASSUME WizardInv, MineNext PROVE WizardInv'
<1>1. PICK i \in Waiting, ok \in BOOLEAN, wrote \in BOOLEAN : Mined(i, ok, wrote)
  BY SMTT(40), MineNextMines
<1>2. WizardTypes'
  BY ZenonT(60), <1>1, MinedRequests, MinedFields DEF Mined, WizardInv, WizardTypes
<1>3. QED
  BY <1>1, <1>2, MinedTab, MinedQueue, MinedEffects, MinedChain DEF WizardInv

-----------------------------------------------------------------------------
(* Others act on the chain.                                                  *)

\* What the others may do to the chain's state
OutsideStep ==
    /\ UNCHANGED <<page, requests, tab, saved, signer>> /\ trouble' \in Nat
    /\ testnet' \in Testnet /\ IsFiniteSet(testnet'.codes) /\ IsFiniteSet(testnet'.before.codes)
    /\ testnet'.allow = testnet.allow /\ testnet'.allow2 = testnet.allow2
    /\ testnet'.wbnb = testnet.wbnb /\ testnet'.made = testnet.made
    /\ testnet'.fee = testnet.fee /\ testnet'.allowed = testnet.allowed
    /\ testnet'.feed = testnet.feed /\ testnet'.breaker = testnet.breaker
    /\ testnet'.filled = testnet.filled /\ testnet'.risk \subseteq testnet.risk
    /\ page = "liquidity" => testnet'.liquidity = testnet.liquidity
    /\ testnet.price # 0 => testnet'.price # 0
    /\ page = "config" => testnet'.registered = testnet.registered
    /\ testnet.codes \subseteq testnet'.codes
    /\ \A c \in testnet'.codes : c \in testnet.codes \/ c.row = 0
    /\ testnet'.before.codes \subseteq Occupied

LEMMA OutsideKeeps == ASSUME WizardInv, OutsideStep PROVE WizardInv'
<1>1. UNCHANGED <<page, requests, tab, saved, signer>>
  BY DEF OutsideStep
<1>2. Occupied \subseteq Occupied'
  BY DEF OutsideStep, Occupied
<1>3. /\ Txns' = Txns /\ Waiting' = Waiting /\ (Traded' <=> Traded) /\ (Licensed' <=> Licensed)
      /\ \A i \in Txns : Done(i)' <=> Done(i)
      /\ \A s : DoneStep(s)' <=> DoneStep(s)
  BY <1>1 DEF OutsideStep, Txns, Waiting, Traded, Licensed, Done, DoneStep
<1>4. Onward
  BY <1>1, <1>2, <1>3 DEF Onward, OutsideStep
<1>5. WizardTypes'
  BY <1>1 DEF OutsideStep, WizardInv, WizardTypes
<1>6. TabRight'
  <2>1. tab.pc = "asking" => Right(tab.step, tab.minimum, tab.nonce)'
    <3> SUFFICES ASSUME tab.pc = "asking" PROVE Right(tab.step, tab.minimum, tab.nonce)'
      OBVIOUS
    <3>1. PICK s, m, n : s = tab.step /\ m = tab.minimum /\ n = tab.nonce
      OBVIOUS
    <3>2. Right(s, m, n)
      BY <3>1 DEF WizardInv, TabRight, GoodTab
    <3>3. Right(s, m, n)'
      BY <1>4, <3>2, RightStays DEF WizardInv, WizardTypes
    <3>4. QED
      BY <1>1, <3>1, <3>3 DEF Right
  <2>2. LastSent' = LastSent
    BY <1>1 DEF LastSent
  <2>3. testnet'.feed = testnet.feed
    BY DEF OutsideStep
  <2>4. QED
    BY <1>1, <1>3, <2>1, <2>2, <2>3 DEF WizardInv, TabRight, GoodTab
<1>7. QueueRight'
  <2>1. ASSUME NEW j \in Txns PROVE Right(requests[j].step, requests[j].minimum, requests[j].nonce)'
    <3> DEFINE q == requests[j]
    <3>1. Right(q.step, q.minimum, q.nonce) /\ requests'[j] = q
      BY <1>1 DEF WizardInv, QueueRight
    <3> HIDE DEF q
    <3>2. QED
      BY <1>4, <3>1, RequestStaysRight DEF WizardInv, WizardTypes
  <2>2. QED
    BY <1>1, <1>3, <2>1 DEF WizardInv, QueueRight
<1>8. EffectsShow'
  <2>1. page \in PageNames
    BY DEF WizardInv, WizardTypes
  <2>2. Traded => TradeOver'
    <3>1. Traded => page \in TradingPages
      <4>1. \A i \in Txns : requests[i].step \in StepsOn(page)
        BY DEF WizardInv, QueueRight, Right
      <4>2. QED
        BY <2>1, <4>1, PageOfStep DEF Traded, Trades, TradingPages
    <3>2. QED
      BY <1>1, <3>1 DEF WizardInv, EffectsShow, TradeOver, OutsideStep, TradingPages
  <2>3. ASSUME NEW i \in Txns, Done(i), requests[i].step = "register"
        PROVE  testnet'.registered = 1
    <3>1. page = "config"
      <4>1. requests[i].step \in StepsOn(page)
        BY DEF WizardInv, QueueRight, Right
      <4>2. QED
        BY <2>1, <2>3, <4>1, PageOfStep
    <3>2. QED
      BY <2>3, <3>1 DEF WizardInv, EffectsShow, OutsideStep
  <2>4. QED
    BY <1>1, <1>3, <2>2, <2>3 DEF WizardInv, EffectsShow, OutsideStep
<1>9. MadeOnce'
  BY <1>1, <1>3 DEF WizardInv, MadeOnce
<1>10. ChainRight'
  <2>1. ASSUME NEW c \in testnet'.codes, c.row > 0
        PROVE  c.at = c.row /\ c.row <= PacketLength /\ 1..(c.row - 1) \subseteq Occupied'
    <3>1. c \in testnet.codes
      BY <2>1 DEF OutsideStep
    <3>2. QED
      BY <1>2, <2>1, <3>1 DEF WizardInv, ChainRight
  <2>2. \A s \in testnet'.risk : \E j \in Txns' : requests'[j].step = s /\ Done(j)'
    BY <1>1, <1>3 DEF WizardInv, ChainRight, OutsideStep
  <2>3. testnet'.before.codes \subseteq Occupied'
    BY <1>2 DEF OutsideStep
  <2>4. QED
    BY <1>1, <2>1, <2>2, <2>3 DEF WizardInv, ChainRight, OutsideStep
<1>11. QED
  BY <1>5, <1>6, <1>7, <1>8, <1>9, <1>10 DEF WizardInv

LEMMA MarketKeeps == ASSUME WizardInv, MarketMoves PROVE WizardInv'
<1>0. UNCHANGED <<page, requests, tab, saved, signer>> /\ trouble' \in Nat
  BY DEF MarketMoves, Trouble, WizardInv, WizardTypes
<1>1. testnet \in Testnet /\ IsFiniteSet(testnet.codes) /\ IsFiniteSet(testnet.before.codes)
      /\ testnet.before.codes \subseteq Occupied
  BY DEF WizardInv, WizardTypes, ChainRight
<1>2. ASSUME \E q \in 1..3 : testnet' = [testnet EXCEPT !.quote = q] PROVE OutsideStep
  BY <1>0, <1>1, <1>2 DEF OutsideStep, Testnet
<1>3. ASSUME page \in {"smoke", "reverse", "tick"} /\ testnet' = [testnet EXCEPT !.liquidity = 0] PROVE OutsideStep
  BY <1>0, <1>1, <1>3 DEF OutsideStep, Testnet, Flag
<1>4. ASSUME \E p \in {ConfirmedPrice, 2} : testnet' = [testnet EXCEPT !.price = p] PROVE OutsideStep
  BY <1>0, <1>1, <1>4 DEF OutsideStep, Testnet, ConfirmedPrice
<1>5. OutsideStep
  BY <1>2, <1>3, <1>4 DEF MarketMoves
<1>6. QED
  BY <1>5, OutsideKeeps

LEMMA GovernanceKeeps == ASSUME WizardInv, GovernanceActs PROVE WizardInv'
<1>0. UNCHANGED <<page, requests, tab, saved, signer>> /\ trouble' \in Nat
  BY DEF GovernanceActs, Trouble, WizardInv, WizardTypes
<1>1. testnet \in Testnet /\ IsFiniteSet(testnet.codes) /\ IsFiniteSet(testnet.before.codes)
      /\ testnet.before.codes \subseteq Occupied
  BY DEF WizardInv, WizardTypes, ChainRight
<1>2. ASSUME page = "quoteRouter" /\ testnet' = [testnet EXCEPT !.registered = 0] PROVE OutsideStep
  BY <1>0, <1>1, <1>2 DEF OutsideStep, Testnet, Flag
<1>3. ASSUME testnet' = [testnet EXCEPT !.riskOwner = "governance"] PROVE OutsideStep
  BY <1>0, <1>1, <1>3 DEF OutsideStep, Testnet
<1>4. ASSUME \E R \in SUBSET testnet.risk : testnet' = [testnet EXCEPT !.risk = R] PROVE OutsideStep
  BY <1>0, <1>1, <1>4 DEF OutsideStep, Testnet
<1>5. ASSUME \E R \in SUBSET testnet.risk :
             testnet' = [testnet EXCEPT !.riskOwner = "governance", !.risk = R] PROVE OutsideStep
  BY ZenonT(60), <1>0, <1>1, <1>5 DEF OutsideStep, Testnet
<1>6. OutsideStep
  <2>1. \/ page = "quoteRouter" /\ testnet' = [testnet EXCEPT !.registered = 0]
        \/ testnet' = [testnet EXCEPT !.riskOwner = "governance"]
        \/ \E limit \in testnet.risk : testnet' = [testnet EXCEPT !.risk = @ \ {limit}]
        \/ testnet' = [testnet EXCEPT !.riskOwner = "governance", !.risk = @ \ {"offerOwnership"}]
    BY DEF GovernanceActs
  <2>2. \A x : testnet.risk \ {x} \in SUBSET testnet.risk
    OBVIOUS
  <2>3. QED
    BY <2>1, <2>2, <1>2, <1>3, <1>4, <1>5
<1>7. QED
  BY <1>6, OutsideKeeps

LEMMA OtherKeeps == ASSUME WizardInv, OtherTransaction PROVE WizardInv'
<1>0. UNCHANGED <<page, requests, tab, saved, signer>> /\ trouble' \in Nat
  BY DEF OtherTransaction, Trouble, WizardInv, WizardTypes
<1>1. testnet \in Testnet /\ IsFiniteSet(testnet.codes) /\ testnet.nonce \in Nat
      /\ testnet.codes \subseteq Code
  BY DEF WizardInv, WizardTypes, Testnet
<1>2. IsFiniteSet(Occupied) /\ Occupied \subseteq Nat
  BY OccupiedFinite DEF WizardInv
<1> DEFINE own == [at |-> testnet.nonce + 1, row |-> 0]
<1> DEFINE kept == [nonce |-> testnet.nonce, codes |-> Occupied]
<1>3. PICK codes \in {testnet.codes, testnet.codes \cup {own}} :
        testnet' = [testnet EXCEPT !.nonce = @ + 1, !.codes = codes, !.before = kept]
  BY DEF OtherTransaction
<1>4. own \in Code /\ own.row = 0
  BY <1>1 DEF Code
<1>5. kept \in [nonce : Nat, codes : SUBSET Nat] /\ kept.codes = Occupied
  BY <1>1, <1>2
<1>6. testnet.nonce + 1 \in Nat
  BY <1>1
<1> HIDE DEF own, kept
<1>7. /\ codes \in SUBSET Code /\ testnet.codes \subseteq codes
      /\ \A c \in codes : c \in testnet.codes \/ c.row = 0
  BY <1>1, <1>3, <1>4
<1>8. IsFiniteSet(codes)
  BY <1>1, <1>3, FS_AddElement
<1>9. OutsideStep
  <2>1. /\ testnet' \in Testnet /\ testnet'.codes = codes /\ testnet'.before = kept
        /\ testnet'.allow = testnet.allow /\ testnet'.allow2 = testnet.allow2
        /\ testnet'.wbnb = testnet.wbnb /\ testnet'.made = testnet.made
        /\ testnet'.fee = testnet.fee /\ testnet'.allowed = testnet.allowed
        /\ testnet'.feed = testnet.feed /\ testnet'.breaker = testnet.breaker
        /\ testnet'.filled = testnet.filled /\ testnet'.risk = testnet.risk
        /\ testnet'.liquidity = testnet.liquidity /\ testnet'.price = testnet.price
        /\ testnet'.registered = testnet.registered
    <3>1. PICK n \in Nat : n = testnet.nonce + 1
      BY <1>6
    <3>2. testnet' = [testnet EXCEPT !.nonce = n, !.codes = codes, !.before = kept]
      BY <1>3, <3>1
    <3>3. QED
      BY <1>1, <1>5, <1>7, <3>2 DEF Testnet
  <2>2. QED
    BY <1>0, <1>2, <1>5, <1>7, <1>8, <2>1 DEF OutsideStep
<1>10. QED
  BY <1>9, OutsideKeeps

-----------------------------------------------------------------------------
LEMMA WizardStarts == WizardInit => WizardInv
<1> SUFFICES ASSUME WizardInit PROVE WizardInv
  OBVIOUS
<1>1. requests = <<>> /\ Txns = {} /\ Waiting = {} /\ tab = Unopened /\ page \in PageNames
  BY PagesAssumption DEF WizardInit, Txns, Waiting, PageNames
<1>2. testnet \in Testnet
  BY DEF WizardInit, Testnet, Flag
<1>3. /\ testnet.codes = {} /\ testnet.before.codes = {} /\ testnet.filled = {} /\ testnet.risk = {}
      /\ testnet.allow2 = 0 /\ testnet.wbnb <= 1 /\ testnet.allowed = 0 /\ testnet.breaker = 0
  BY DEF WizardInit
<1>4. WizardTypes
  <2>1. tab \in Tab
    BY <1>1 DEF Unopened, Tab
  <2>2. saved \in BOOLEAN /\ signer \in BOOLEAN /\ trouble \in Nat
    BY DEF WizardInit
  <2>3. QED
    BY <1>1, <1>2, <1>3, <2>1, <2>2, FS_EmptySet DEF WizardTypes
<1>5. TabRight
  BY <1>1 DEF TabRight, GoodTab, Unopened
<1>6. QueueRight /\ EffectsShow /\ MadeOnce
  BY <1>1 DEF QueueRight, EffectsShow, MadeOnce, Traded
<1>7. ChainRight
  BY <1>1, <1>3 DEF ChainRight
<1>8. QED
  BY <1>4, <1>5, <1>6, <1>7 DEF WizardInv

LEMMA WizardStep == WizardInv /\ [WizardNext]_wizardVars => WizardInv'
<1> SUFFICES ASSUME WizardInv, [WizardNext]_wizardVars PROVE WizardInv'
  OBVIOUS
<1>1. CASE UNCHANGED wizardVars
  BY <1>1, TabStep DEF wizardVars, WizardInv, WizardTypes, TabRight
<1>2. CASE WizardNext
  BY <1>2, ConnectKeeps, ClickKeeps, ClickPacketKeeps, ConfirmKeeps, RejectKeeps, MineKeeps,
     ReceiptKeeps, RefreshKeeps, ReceiptLateKeeps, ReloadKeeps, SwitchKeeps, MarketKeeps,
     GovernanceKeeps, OtherKeeps
     DEF WizardNext
<1>3. QED
  BY <1>1, <1>2

LEMMA WizardInvariant == WizardSpec => []WizardInv
BY WizardStarts, WizardStep, PTL DEF WizardSpec

-----------------------------------------------------------------------------
(* How often a step has been done. *)
LEMMA TimesDone ==
  ASSUME WizardTypes, NEW s
  PROVE  /\ Times(s) \in Nat
         /\ Times(s) > 0 <=> \E i \in Txns : requests[i].step = s /\ Done(i)
         /\ (\A i, j \in Txns : requests[i].step = s /\ Done(i) /\ requests[j].step = s /\ Done(j)
               => i = j) => Times(s) <= 1
<1> DEFINE D == {i \in DOMAIN requests : requests[i].step = s /\ requests[i].status = "ok"}
<1>1. D \subseteq Txns /\ \A i : i \in D <=> i \in Txns /\ requests[i].step = s /\ Done(i)
  BY DEF Txns, Done
<1>2. Times(s) = Cardinality(D)
  BY DEF Times
<1> HIDE DEF D
<1>3. IsFiniteSet(Txns)
  <2>1. Txns = 1..Len(requests) /\ Len(requests) \in Int
    BY DEF Txns, WizardTypes
  <2>2. IsFiniteSet(1..Len(requests))
    BY <2>1, FS_Interval, 1 \in Int, Zenon
  <2>3. QED
    BY <2>1, <2>2
<1>4. IsFiniteSet(D)
  BY <1>1, <1>3, FS_Subset
<1>5. Cardinality(D) \in Nat /\ (Cardinality(D) = 0 <=> D = {})
  BY <1>4, FS_CardinalityType, FS_EmptySet
<1>6. ASSUME \A i, j \in D : i = j PROVE Cardinality(D) <= 1
  <2>1. CASE D = {}
    BY <1>5, <2>1
  <2>2. CASE D # {}
    <3>1. PICK i : i \in D
      BY <2>2
    <3>2. D = {i}
      BY <3>1, <1>6
    <3>3. Cardinality({i}) = 1
      BY FS_Singleton
    <3>4. QED
      BY <3>2, <3>3
  <2>3. QED
    BY <2>1, <2>2
<1>7. QED
  BY <1>1, <1>2, <1>5, <1>6

(* Every swap was filled inside the reviewed range and liquidity was added at *)
(* the reviewed price, however many transactions the page sends and whatever  *)
(* the market does between the review and the block: the minimum that the     *)
(* wallet was asked to sign is that of the review.                            *)
THEOREM TradesWithinReview == WizardSpec => []ExecutedWithinReview
<1>1. WizardInv => ExecutedWithinReview
  BY DEF WizardInv, ChainRight, ExecutedWithinReview
<1>2. QED
  BY <1>1, WizardInvariant, PTL

(* No effect is made twice, and each is made where and when it belongs: on     *)
(* every page, for any number of transactions, reloads, late receipts and      *)
(* transactions of others, and a packet of any length.                         *)
THEOREM EffectsOnceInPlace == WizardSpec => []EffectsInPlace
<1>1. WizardInv => EffectOnce
  <2> SUFFICES ASSUME WizardInv, NEW step \in OnceSteps PROVE Times(step) <= 1
    BY DEF EffectOnce, OnceSteps
  <2>1. \A i, j \in Txns : requests[i].step = step /\ Done(i) /\ requests[j].step = step /\ Done(j)
          => i = j
    BY DEF WizardInv, MadeOnce
  <2>2. QED
    BY <2>1, TimesDone DEF WizardInv
<1>2. WizardInv => PacketInOrder
  BY DEF WizardInv, ChainRight, PacketInOrder
<1>3. WizardInv => ConfiguredInOrder
  <2> SUFFICES ASSUME WizardInv PROVE ConfiguredInOrder
    OBVIOUS
  <2>1. ASSUME NEW j \in DOMAIN RiskSteps, Times(RiskSteps[j]) > 0, NEW i \in 1..j
        PROVE  Times(RiskSteps[i]) > 0
    <3>1. PICK x \in Txns : requests[x].step = RiskSteps[j] /\ Done(x)
      BY <2>1, TimesDone DEF WizardInv
    <3>2. CASE i = j
      BY <2>1, <3>2
    <3>3. CASE i # j
      <4>1. i \in 1..(j - 1)
        BY <2>1, <3>3, RiskSettingNames
      <4>2. Right(requests[x].step, requests[x].minimum, requests[x].nonce)
        BY <3>1 DEF WizardInv, QueueRight
      <4>3. \E y \in Txns : requests[y].step = RiskSteps[i] /\ Done(y)
        BY <3>1, <4>1, <4>2 DEF Right
      <4>4. QED
        BY <4>3, TimesDone DEF WizardInv
    <3>4. QED
      BY <3>2, <3>3
  <2>2. Times("register") > 0 => testnet.allowed > 0
    <3> SUFFICES ASSUME Times("register") > 0 PROVE testnet.allowed > 0
      OBVIOUS
    <3>1. PICK x \in Txns : requests[x].step = "register" /\ Done(x)
      BY TimesDone DEF WizardInv
    <3>2. Right(requests[x].step, requests[x].minimum, requests[x].nonce)
      BY <3>1 DEF WizardInv, QueueRight
    <3>3. QED
      BY <3>1, <3>2 DEF Right
  <2>3. testnet.allowed \in {0, 1} /\ testnet.breaker \in {0, 1}
    BY DEF WizardInv, WizardTypes, Testnet, Flag
  <2>4. (testnet.allowed > 0 => testnet.fee > 0) /\ (testnet.breaker > 0 => testnet.feed > 0)
    BY <2>3 DEF WizardInv, ChainRight
  <2>5. QED
    BY <2>1, <2>2, <2>4 DEF ConfiguredInOrder
<1>4. WizardInv => EffectsInPlace
  BY <1>1, <1>2, <1>3 DEF EffectsInPlace
<1>5. QED
  BY <1>4, WizardInvariant, PTL

(* Once the trade of a page is on the chain and nothing waits, no approval is  *)
(* left behind, however late its receipts came and however often the step was  *)
(* asked for again.                                                            *)
THEOREM ApprovalsAreSpent == WizardSpec => []NoStandingApproval
<1>1. WizardInv => NoStandingApproval
  <2> SUFFICES ASSUME WizardInv, Times("mint") + Times("swap") + Times("swapBack") > 0
               PROVE  /\ testnet.allow = 0 /\ testnet.allow2 = 0
                      /\ page # "liquidity" /\ testnet.liquidity > 0 => SwapsVerified
    BY DEF NoStandingApproval
  <2>1. PICK s \in Trades : Times(s) > 0
    <3>1. Times("mint") \in Nat /\ Times("swap") \in Nat /\ Times("swapBack") \in Nat
      BY TimesDone DEF WizardInv
    <3>2. Times("mint") > 0 \/ Times("swap") > 0 \/ Times("swapBack") > 0
      BY <3>1
    <3>3. QED
      BY <3>2 DEF Trades
  <2>2. PICK x \in Txns : requests[x].step = s /\ Done(x)
    BY <2>1, TimesDone DEF WizardInv
  <2>3. testnet.allow = 0 /\ testnet.allow2 = 0
    BY <2>1, <2>2 DEF WizardInv, EffectsShow, Traded
  <2>4. page # "liquidity" => requests[x].step \in {"swap", "swapBack"}
    <3>1. requests[x].step \in StepsOn(page) /\ page \in PageNames
      BY <2>2 DEF WizardInv, WizardTypes, QueueRight, Right
    <3>2. QED
      BY <2>1, <2>2, <3>1, PageOfStep DEF Trades
  <2>5. QED
    BY <2>2, <2>3, <2>4 DEF SwapsVerified, Txns, Done
<1>2. QED
  BY <1>1, WizardInvariant, PTL
-----------------------------------------------------------------------------
(* The budgets of the mobile pages.  What a page has paid, what it has sent  *)
(* and what it is asking for fit its cap, up to what its budget cannot see;  *)
(* while nothing is crowded, at most one transaction is under way.           *)

BudgetTx == [page : BudgetPages, turn : Nat, fee : Nat]
BudgetPage == [at : {"idle", "offered", "asked", "waiting"}, done : Nat, cost : Nat, turn : Nat]

MobileTypes ==
    /\ pages \in [BudgetPages -> BudgetPage]
    /\ start \in [BudgetPages -> Int] /\ balance \in Int
    /\ pending \in SUBSET BudgetTx /\ IsFiniteSet(pending) /\ receiptsDue \in SUBSET BudgetTx
    /\ paid \in [BudgetPages -> Nat] /\ unseen \in [BudgetPages -> Nat]
    /\ crowded \in BOOLEAN /\ upsets \in Nat

\* The transactions of a page, and those whose receipt it has given up
SentBy(p) == {t \in pending : t.page = p}
GivenUpBy(p) == {t \in pending : t.page = p /\ t.turn < pages[p].turn}

\* Every turn has one transaction, and the turn of one not given up is the page's.
OnePerTurn ==
    /\ \A t \in pending \cup receiptsDue :
         \/ t.turn < pages[t.page].turn
         \/ t.turn = pages[t.page].turn /\ pages[t.page].at = "waiting"
    /\ \A t, u \in pending \cup receiptsDue : t.page = u.page /\ t.turn = u.turn => t = u
    /\ pending \cap receiptsDue = {}

\* Without a baseline the page has sent nothing.
BaselineFirst ==
    \A p \in BudgetPages : start[p] <= 0 =>
        paid[p] = 0 /\ SentBy(p) = {} /\ pages[p].at \notin {"asked", "waiting"}

\* What left the account since the baseline covers what the page spent, up to
\* what the budget cannot see.
SpendingSeen ==
    \A p \in BudgetPages : start[p] > 0 =>
        balance + paid[p] + FeesOf(GivenUpBy(p)) <= start[p] + unseen[p]

Asking(p) == IF pages[p].at = "asked" THEN pages[p].cost ELSE 0

CapHolds ==
    \A p \in BudgetPages : paid[p] + FeesOf(SentBy(p)) + Asking(p) <= SpendCap[p] + unseen[p]

\* While nothing is crowded, one thing at a time is under way, and the reserve
\* is left when it is done.
ReserveLeft ==
    ~crowded =>
      /\ \A p \in BudgetPages : pages[p].at = "asked" =>
           /\ pending = {} /\ balance >= pages[p].cost + Reserve
           /\ \A q \in BudgetPages : pages[q].at = "asked" => q = p
      /\ \A t \in pending : pending = {t} /\ balance >= t.fee + Reserve
      /\ (\E p \in BudgetPages : paid[p] > 0) => balance >= Reserve

MobileInv == MobileTypes /\ OnePerTurn /\ BaselineFirst /\ SpendingSeen /\ CapHolds /\ ReserveLeft

-----------------------------------------------------------------------------
(* Fees of a set of transactions.                                            *)

(* The fees of finitely many transactions are a natural number, and of none  *)
(* they are zero. *)
LEMMA FeesAreNat ==
  ASSUME NEW S \in SUBSET BudgetTx, IsFiniteSet(S)
  PROVE  FeesOf(S) \in Nat /\ FeesOf({}) = 0
<1>1. [t \in S |-> t.fee] \in [S -> Nat]
  BY DEF BudgetTx
<1>2. FeesOf(S) \in Nat
  BY <1>1, TotalIsNat DEF FeesOf
<1>3. [t \in {} |-> t.fee] \in [{} -> Nat]
  OBVIOUS
<1>4. FeesOf({}) = 0
  BY <1>3, TotalOfNothing DEF FeesOf
<1>5. QED
  BY <1>2, <1>4

(* One more transaction adds its fee. *)
LEMMA FeesAdded ==
  ASSUME NEW S \in SUBSET BudgetTx, IsFiniteSet(S), NEW t \in BudgetTx, t \notin S
  PROVE  FeesOf(S \cup {t}) = FeesOf(S) + t.fee
<1> DEFINE T == S \cup {t}
<1> DEFINE f == [u \in T |-> u.fee]
<1> DEFINE g == [u \in S |-> u.fee]
<1>1. IsFiniteSet(T)
  BY FS_AddElement
<1>2. f \in [T -> Nat] /\ g \in [S -> Nat]
  BY DEF BudgetTx
<1>3. TotalOf(f) = Cardinality(UNION {UnitsOf(f, b) : b \in T \ {t}}) + f[t]
  <2> HIDE DEF T, f
  <2>1. t \in T
    BY DEF T
  <2>2. QED
    BY <1>1, <1>2, <2>1, TotalSplit
<1>4. T \ {t} = S
  OBVIOUS
<1>5. \A b \in S : UnitsOf(f, b) = UnitsOf(g, b)
  BY DEF UnitsOf
<1>6. {UnitsOf(f, b) : b \in S} = {UnitsOf(g, b) : b \in S}
  <2> HIDE DEF f, g
  <2>1. QED
    BY <1>5
<1>7. DOMAIN g = S /\ f[t] = t.fee
  OBVIOUS
<1>8. FeesOf(T) = TotalOf(f) /\ FeesOf(S) = TotalOf(g)
  BY DEF FeesOf
<1>9. TotalOf(g) = Cardinality(UNION {UnitsOf(g, b) : b \in S})
  <2> HIDE DEF g
  <2>1. QED
    BY <1>7 DEF TotalOf
<1> HIDE DEF f, g, T
<1>10. QED
  BY <1>3, <1>4, <1>6, <1>7, <1>8, <1>9 DEF T

(* One transaction less takes its fee away. *)
LEMMA FeesTaken ==
  ASSUME NEW S \in SUBSET BudgetTx, IsFiniteSet(S), NEW t \in S
  PROVE  FeesOf(S \ {t}) = FeesOf(S) - t.fee
<1> DEFINE R == S \ {t}
<1>1. R \in SUBSET BudgetTx /\ t \in BudgetTx /\ t \notin R /\ S = R \cup {t}
  OBVIOUS
<1>2. IsFiniteSet(R)
  BY FS_Subset
<1>3. FeesOf(R) \in Nat /\ t.fee \in Nat
  BY <1>1, <1>2, FeesAreNat DEF BudgetTx
<1> HIDE DEF R
<1>4. FeesOf(R \cup {t}) = FeesOf(R) + t.fee
  BY <1>1, <1>2, FeesAdded
<1>5. FeesOf(S) = FeesOf(R) + t.fee
  BY <1>1, <1>4
<1>6. FeesOf(R) = FeesOf(S) - t.fee
  BY <1>3, <1>5
<1>7. QED
  BY <1>6 DEF R

(* What a page has under way is finite, and its fees a natural number. *)
LEMMA SentTypes ==
  ASSUME MobileTypes, NEW p \in BudgetPages
  PROVE  /\ SentBy(p) \in SUBSET BudgetTx /\ IsFiniteSet(SentBy(p)) /\ FeesOf(SentBy(p)) \in Nat
         /\ GivenUpBy(p) \in SUBSET BudgetTx /\ IsFiniteSet(GivenUpBy(p))
         /\ FeesOf(GivenUpBy(p)) \in Nat
<1>1. SentBy(p) \in SUBSET pending /\ GivenUpBy(p) \in SUBSET pending
  BY DEF SentBy, GivenUpBy
<1>2. IsFiniteSet(SentBy(p)) /\ IsFiniteSet(GivenUpBy(p))
  BY <1>1, FS_Subset DEF MobileTypes
<1>3. SentBy(p) \in SUBSET BudgetTx /\ GivenUpBy(p) \in SUBSET BudgetTx
  BY <1>1 DEF MobileTypes
<1>4. QED
  BY <1>2, <1>3, FeesAreNat

(* The budget of either page, in one form. *)
LEMMA BudgetMeans ==
  ASSUME NEW p \in BudgetPages, NEW from \in Int, NEW cost \in Nat, balance \in Int,
         WithinBudget(p, from, cost)
  PROVE  /\ cost > 0 /\ from > 0 /\ balance >= cost + Reserve
         /\ (from - balance) + cost <= SpendCap[p]
<1>1. SpendCap[p] \in Nat /\ Reserve \in Nat
  BY MobileAssumption
<1>2. CASE p = "futures"
  BY <1>1, <1>2 DEF WithinBudget, FuturesBudget
<1>3. CASE p # "futures"
  <2>1. p = "oracle"
    BY <1>3 DEF BudgetPages
  <2>2. OracleBudget(from, cost)
    BY <2>1 DEF WithinBudget
  <2>3. QED
    BY <1>1, <2>1, <2>2 DEF OracleBudget
<1>4. QED
  BY <1>2, <1>3

(* While a page does not wait, everything it sent has been given up. *)
LEMMA NothingWaited ==
  ASSUME MobileTypes, OnePerTurn, NEW p \in BudgetPages, pages[p].at # "waiting"
  PROVE  SentBy(p) = GivenUpBy(p)
BY DEF OnePerTurn, SentBy, GivenUpBy

-----------------------------------------------------------------------------
(* The budget pages' steps.                                                  *)

(* A page that starts anew has spent nothing. *)
LEMMA MobileStarts == MobileInit => MobileInv
<1> SUFFICES ASSUME MobileInit PROVE MobileInv
  OBVIOUS
<1> USE DEF MobileInit, Unnoted
<1>1. SpendCap \in [BudgetPages -> Nat] /\ Reserve \in Nat /\ Opening \in Nat
  BY MobileAssumption
<1>2. MobileTypes
  <2>1. IdlePage \in BudgetPage
    BY DEF IdlePage, BudgetPage
  <2>2. IsFiniteSet({})
    BY FS_EmptySet
  <2>3. pages \in [BudgetPages -> BudgetPage]
    BY <2>1
  <2>4. start \in [BudgetPages -> Int] /\ paid \in [BudgetPages -> Nat]
        /\ unseen \in [BudgetPages -> Nat]
    OBVIOUS
  <2>5. pending \in SUBSET BudgetTx /\ receiptsDue \in SUBSET BudgetTx /\ IsFiniteSet(pending)
    BY <2>2
  <2>6. balance \in Int /\ upsets \in Nat
    BY <1>1
  <2>7. crowded \in BOOLEAN
    BY Zenon
  <2>8. QED
    BY <2>3, <2>4, <2>5, <2>6, <2>7 DEF MobileTypes
<1>3. \A p \in BudgetPages : pages[p].at = "idle"
  BY DEF IdlePage
<1>4. \A p \in BudgetPages : SentBy(p) = {} /\ GivenUpBy(p) = {}
  BY DEF SentBy, GivenUpBy
<1>5. FeesOf({}) = 0
  BY FeesAreNat, FS_EmptySet
<1>6. OnePerTurn /\ BaselineFirst /\ SpendingSeen
  BY <1>1, <1>3, <1>4, <1>5 DEF OnePerTurn, BaselineFirst, SpendingSeen
<1>7. CapHolds
  <2> SUFFICES ASSUME NEW p \in BudgetPages
               PROVE  paid[p] + FeesOf(SentBy(p)) + Asking(p) <= SpendCap[p] + unseen[p]
    BY DEF CapHolds
  <2>1. paid[p] = 0 /\ unseen[p] = 0 /\ Asking(p) = 0 /\ SpendCap[p] \in Nat
    BY <1>1, <1>3 DEF Asking
  <2>2. FeesOf(SentBy(p)) = 0
    BY <1>4, <1>5
  <2>3. QED
    BY <2>1, <2>2
<1>8. ReserveLeft
  BY <1>3 DEF ReserveLeft
<1>9. QED
  BY <1>2, <1>6, <1>7, <1>8 DEF MobileInv

(* A page that is only looked at: neither what it sent nor its turn changes. *)
LookedAt(p) ==
  /\ pages' \in [BudgetPages -> BudgetPage]
  /\ \A q \in BudgetPages : pages'[q].turn = pages[q].turn
  /\ \A q \in BudgetPages \ {p} : pages'[q] = pages[q]
  /\ pages[p].at # "waiting" /\ pages'[p].at \in {"idle", "offered"}

(* Inspect and decline keep the budget: nothing is sent, and a baseline is   *)
(* noted only by a page that has sent nothing. *)
LEMMA LookingIsFree ==
  ASSUME MobileInv, NEW p \in BudgetPages, LookedAt(p),
         \/ start' = start
         \/ start[p] = Unnoted /\ start' = [start EXCEPT ![p] = balance],
         UNCHANGED <<balance, pending, receiptsDue, paid, unseen, crowded, upsets>>
  PROVE  MobileInv'
<1> USE DEF MobileInv
<1>1. MobileTypes'
  BY DEF MobileTypes, LookedAt
<1>2. OnePerTurn'
  BY DEF OnePerTurn, LookedAt, MobileTypes, BudgetTx
<1>3. \A q \in BudgetPages : SentBy(q)' = SentBy(q) /\ GivenUpBy(q)' = GivenUpBy(q)
  <2> TAKE q \in BudgetPages
  <2>1. pages'[q].turn = pages[q].turn
    BY DEF LookedAt
  <2>2. QED
    BY <2>1 DEF SentBy, GivenUpBy, MobileTypes
<1>4. \A q \in BudgetPages : pages'[q].at \in {"asked", "waiting"} => pages'[q] = pages[q]
  BY DEF LookedAt
<1>5. BaselineFirst'
  <2> SUFFICES ASSUME NEW q \in BudgetPages, start'[q] <= 0
               PROVE  /\ paid'[q] = 0 /\ SentBy(q)' = {}
                      /\ pages'[q].at \notin {"asked", "waiting"}
    BY DEF BaselineFirst
  <2>1. start[q] <= 0
    BY DEF MobileTypes, Unnoted
  <2>2. QED
    BY <1>3, <1>4, <2>1 DEF BaselineFirst
<1>6. SpendingSeen'
  <2> SUFFICES ASSUME NEW q \in BudgetPages, start'[q] > 0
               PROVE  balance' + paid'[q] + FeesOf(GivenUpBy(q))' <= start'[q] + unseen'[q]
    BY DEF SpendingSeen
  <2>1. FeesOf(GivenUpBy(q))' = FeesOf(GivenUpBy(q))
    BY <1>3
  <2>2. CASE start'[q] = start[q]
    BY <2>1, <2>2 DEF SpendingSeen
  <2>3. CASE start'[q] # start[q]
    <3>1. q = p /\ start[q] = Unnoted /\ start'[q] = balance
      BY <2>3 DEF MobileTypes
    <3>2. paid[q] = 0 /\ SentBy(q) = {}
      BY <3>1 DEF BaselineFirst, Unnoted
    <3>3. GivenUpBy(q) = {}
      BY <3>2 DEF SentBy, GivenUpBy
    <3>4. FeesOf({}) = 0
      BY FeesAreNat, FS_EmptySet
    <3>5. FeesOf(GivenUpBy(q)) = 0
      BY <3>3, <3>4
    <3>6. balance \in Int /\ unseen[q] \in Nat
      BY DEF MobileTypes
    <3>7. QED
      BY <2>1, <3>1, <3>2, <3>5, <3>6
  <2>4. QED
    BY <2>2, <2>3
<1>7. CapHolds'
  <2> SUFFICES ASSUME NEW q \in BudgetPages
               PROVE  paid'[q] + FeesOf(SentBy(q))' + Asking(q)' <= SpendCap[q] + unseen'[q]
    BY DEF CapHolds
  <2>1. FeesOf(SentBy(q))' = FeesOf(SentBy(q)) /\ FeesOf(SentBy(q)) \in Nat
    BY <1>3, SentTypes
  <2>2. paid[q] + FeesOf(SentBy(q)) + Asking(q) <= SpendCap[q] + unseen[q]
    BY DEF CapHolds
  <2>3. Asking(q)' <= Asking(q) /\ Asking(q)' \in Nat /\ Asking(q) \in Nat
    BY <1>4 DEF Asking, MobileTypes, BudgetPage
  <2>4. SpendCap[q] \in Nat /\ paid[q] \in Nat /\ unseen[q] \in Nat
    BY MobileAssumption DEF MobileTypes
  <2>5. QED
    BY <2>1, <2>2, <2>3, <2>4
<1>8. ReserveLeft'
  BY <1>4 DEF ReserveLeft
<1>9. QED
  BY <1>1, <1>2, <1>5, <1>6, <1>7, <1>8

(* A check before the budget fails. *)
LEMMA TurningAwayIsFree ==
  ASSUME MobileInv, NEW p \in BudgetPages, TurnedAway(p)
  PROVE  MobileInv'
<1>1. pages[p].at = "offered" /\ pages[p] \in BudgetPage /\ pages \in [BudgetPages -> BudgetPage]
      /\ pages' = [pages EXCEPT ![p] = [@ EXCEPT !.at = "idle"]]
  BY DEF TurnedAway, MobileInv, MobileTypes
<1>2. [pages[p] EXCEPT !.at = "idle"] \in BudgetPage
  BY <1>1 DEF BudgetPage
<1>3. LookedAt(p)
  BY <1>1, <1>2 DEF LookedAt, BudgetPage
<1>4. start' = start /\ UNCHANGED <<balance, pending, receiptsDue, paid, unseen, crowded, upsets>>
  BY DEF TurnedAway
<1>5. QED
  BY <1>3, <1>4, LookingIsFree

(* connect *)
LEMMA InspectIsFree ==
  ASSUME MobileInv, NEW p \in BudgetPages, Inspect(p)
  PROVE  MobileInv'
<1>1. PICK cost \in 1 .. MaxCost :
        pages' = [pages EXCEPT ![p] =
                [@ EXCEPT !.done = pages[p].done, !.cost = 0,
                          !.at = IF pages[p].done < StepsOf(p) /\ WithinBudget(p, BaselineOf(p), cost)
                                 THEN "offered" ELSE "idle"]]
  BY DEF Inspect, Offered
<1>2. pages[p].at \in {"idle", "offered"} /\ pages[p] \in BudgetPage
      /\ pages \in [BudgetPages -> BudgetPage]
  BY DEF Inspect, MobileInv, MobileTypes
<1>3. LookedAt(p)
  <2>1. PICK a \in {"offered", "idle"} :
          pages' = [pages EXCEPT ![p] = [@ EXCEPT !.done = pages[p].done, !.cost = 0, !.at = a]]
    BY <1>1
  <2>2. [pages[p] EXCEPT !.done = pages[p].done, !.cost = 0, !.at = a] \in BudgetPage
    BY <1>2 DEF BudgetPage
  <2>3. QED
    BY <1>2, <2>1, <2>2 DEF LookedAt, BudgetPage
<1>4. start' = start \/ (start[p] = Unnoted /\ start' = [start EXCEPT ![p] = balance])
  BY DEF Inspect, BaselineOf, MobileInv, MobileTypes
<1>5. UNCHANGED <<balance, pending, receiptsDue, paid, unseen, crowded, upsets>>
  BY DEF Inspect
<1>6. QED
  BY <1>3, <1>4, <1>5, LookingIsFree

LEMMA DeclineIsFree ==
  ASSUME MobileInv, NEW p \in BudgetPages, Decline(p)
  PROVE  MobileInv'
<1>1. pages[p] \in BudgetPage /\ pages \in [BudgetPages -> BudgetPage]
  BY DEF MobileInv, MobileTypes
<1>2. [pages[p] EXCEPT !.at = "idle", !.cost = 0] \in BudgetPage
  BY <1>1 DEF BudgetPage
<1>3. LookedAt(p)
  BY <1>1, <1>2 DEF Decline, LookedAt, BudgetPage
<1>4. start' = start /\ UNCHANGED <<balance, pending, receiptsDue, paid, unseen, crowded, upsets>>
  BY DEF Decline
<1>5. QED
  BY <1>3, <1>4, LookingIsFree

(* The page asks the wallet only for what its budget allows: all it has      *)
(* sent is mined or given up, so what left the account since the baseline    *)
(* covers it, up to what the budget cannot see. *)
LEMMA AskingIsCovered ==
  ASSUME MobileInv, NEW p \in BudgetPages, AskWallet(p)
  PROVE  MobileInv'
<1> USE DEF MobileInv
<1>1. PICK cost \in 1 .. MaxCost :
        IF WithinBudget(p, start[p], cost)
        THEN /\ pages' = [pages EXCEPT ![p] = [@ EXCEPT !.at = "asked", !.cost = cost]]
             /\ crowded' = (crowded \/ pending # {}
                             \/ \E q \in BudgetPages \ {p} : pages[q].at = "asked")
        ELSE /\ pages' = [pages EXCEPT ![p] = [@ EXCEPT !.at = "idle"]]
             /\ UNCHANGED crowded
  BY DEF AskWallet
<1>2. pages[p] \in BudgetPage /\ pages \in [BudgetPages -> BudgetPage] /\ pages[p].at = "offered"
      /\ UNCHANGED <<start, balance, pending, receiptsDue, paid, unseen, upsets>>
  BY DEF AskWallet, MobileTypes
<1>3. CASE ~WithinBudget(p, start[p], cost)
  <2>1. [pages[p] EXCEPT !.at = "idle"] \in BudgetPage
    BY <1>2 DEF BudgetPage
  <2>2. LookedAt(p)
    BY <1>1, <1>2, <1>3, <2>1 DEF LookedAt, BudgetPage
  <2>3. QED
    BY <1>1, <1>2, <1>3, <2>2, LookingIsFree
<1>4. CASE WithinBudget(p, start[p], cost)
  <2>1. pages' = [pages EXCEPT ![p] = [@ EXCEPT !.at = "asked", !.cost = cost]]
        /\ crowded' = (crowded \/ pending # {}
                        \/ \E q \in BudgetPages \ {p} : pages[q].at = "asked")
    BY <1>1, <1>4
  <2>2. cost \in Nat /\ start[p] \in Int /\ balance \in Int
    BY MobileAssumption DEF MobileTypes
  <2>3. /\ cost > 0 /\ start[p] > 0 /\ balance >= cost + Reserve
        /\ (start[p] - balance) + cost <= SpendCap[p]
    BY <1>4, <2>2, BudgetMeans
  <2>4. [pages[p] EXCEPT !.at = "asked", !.cost = cost] \in BudgetPage
    BY <1>2, <2>2 DEF BudgetPage
  <2>5. pages' \in [BudgetPages -> BudgetPage] /\ pages'[p].at = "asked" /\ pages'[p].cost = cost
        /\ \A q \in BudgetPages : pages'[q].turn = pages[q].turn
        /\ \A r \in BudgetPages \ {p} : pages'[r] = pages[r]
    BY <1>2, <2>1, <2>4 DEF BudgetPage
  <2>6. MobileTypes'
    BY <1>2, <2>1, <2>5 DEF MobileTypes
  <2>7. OnePerTurn'
    BY <1>2, <2>5 DEF OnePerTurn, MobileTypes, BudgetTx
  <2>8. \A q \in BudgetPages : SentBy(q)' = SentBy(q) /\ GivenUpBy(q)' = GivenUpBy(q)
    <3> TAKE q \in BudgetPages
    <3>1. pages'[q].turn = pages[q].turn
      BY <2>5
    <3>2. QED
      BY <1>2, <3>1 DEF SentBy, GivenUpBy, MobileTypes
  <2>9. BaselineFirst'
    <3> SUFFICES ASSUME NEW q \in BudgetPages, start'[q] <= 0
                 PROVE  /\ paid'[q] = 0 /\ SentBy(q)' = {}
                        /\ pages'[q].at \notin {"asked", "waiting"}
      BY DEF BaselineFirst
    <3>1. q # p
      BY <1>2, <2>2, <2>3
    <3>2. QED
      BY <1>2, <2>5, <2>8, <3>1 DEF BaselineFirst
  <2>10. SpendingSeen'
    <3>1. \A q \in BudgetPages : FeesOf(GivenUpBy(q))' = FeesOf(GivenUpBy(q))
      BY <2>8
    <3>2. QED
      BY <1>2, <3>1 DEF SpendingSeen
  <2>11. CapHolds'
    <3> SUFFICES ASSUME NEW q \in BudgetPages
                 PROVE  paid'[q] + FeesOf(SentBy(q))' + Asking(q)' <= SpendCap[q] + unseen'[q]
      BY DEF CapHolds
    <3>1. FeesOf(SentBy(q))' = FeesOf(SentBy(q)) /\ FeesOf(SentBy(q)) \in Nat
      BY <2>8, SentTypes
    <3>2. CASE q # p
      <4>1. Asking(q)' = Asking(q)
        BY <2>5, <3>2 DEF Asking
      <4>2. QED
        BY <1>2, <3>1, <4>1 DEF CapHolds
    <3>3. CASE q = p
      <4>1. Asking(q)' = cost
        BY <2>5, <3>3 DEF Asking
      <4>2. SentBy(p) = GivenUpBy(p)
        BY <1>2, NothingWaited
      <4>3. balance + paid[p] + FeesOf(GivenUpBy(p)) <= start[p] + unseen[p]
        BY <2>3 DEF SpendingSeen
      <4>4. FeesOf(SentBy(p)) = FeesOf(GivenUpBy(p))
        BY <4>2
      <4>5. SpendCap[p] \in Nat /\ paid[p] \in Nat /\ unseen[p] \in Nat
        BY MobileAssumption DEF MobileTypes
      <4>6. QED
        BY <1>2, <2>2, <2>3, <3>1, <3>3, <4>1, <4>3, <4>4, <4>5
    <3>4. QED
      BY <3>2, <3>3
  <2>12. ReserveLeft'
    <3> SUFFICES ASSUME ~crowded'
                 PROVE  /\ \A r \in BudgetPages : pages'[r].at = "asked" =>
                             /\ pending' = {} /\ balance' >= pages'[r].cost + Reserve
                             /\ \A q \in BudgetPages : pages'[q].at = "asked" => q = r
                        /\ \A t \in pending' : pending' = {t} /\ balance' >= t.fee + Reserve
                        /\ (\E r \in BudgetPages : paid'[r] > 0) => balance' >= Reserve
      BY DEF ReserveLeft
    <3>1. ~crowded /\ pending = {} /\ \A q \in BudgetPages \ {p} : pages[q].at # "asked"
      BY <2>1
    <3>2. \A q \in BudgetPages : pages'[q].at = "asked" => q = p
      BY <2>5, <3>1
    <3>3. QED
      BY <1>2, <2>3, <2>5, <3>1, <3>2 DEF ReserveLeft
  <2>13. QED
    BY <2>6, <2>7, <2>9, <2>10, <2>11, <2>12
<1>5. QED
  BY <1>3, <1>4

(* What the wallet sends costs what the page asked for, or one more if the   *)
(* wallet raised the price, which the budget cannot see. *)
LEMMA SendingIsCovered ==
  ASSUME MobileInv, NEW p \in BudgetPages, Approve(p)
  PROVE  MobileInv'
<1> USE DEF MobileInv
<1>1. PICK rises \in BOOLEAN, cheaper \in 0 .. 1 :
        LET fee == IF rises THEN pages[p].cost + 1 ELSE pages[p].cost - cheaper
        IN /\ Upsetting(rises) /\ fee > 0 /\ (rises => cheaper = 0)
           /\ fee + FeesOf(pending) <= balance
           /\ pending' = pending \union {[page |-> p, turn |-> pages[p].turn, fee |-> fee]}
           /\ unseen' = [unseen EXCEPT ![p] = IF rises THEN @ + 1 ELSE @]
           /\ crowded' = (crowded \/ rises)
  BY DEF Approve
<1> DEFINE fee == IF rises THEN pages[p].cost + 1 ELSE pages[p].cost - cheaper
           extra == IF rises THEN 1 ELSE 0
           tx == [page |-> p, turn |-> pages[p].turn, fee |-> fee]
<1>2. /\ pages[p] \in BudgetPage /\ pages \in [BudgetPages -> BudgetPage]
      /\ pages[p].at = "asked" /\ pages[p].cost \in Nat /\ pages[p].turn \in Nat
      /\ pages' = [pages EXCEPT ![p] = [@ EXCEPT !.at = "waiting"]]
      /\ UNCHANGED <<start, balance, receiptsDue, paid>>
  BY DEF Approve, MobileTypes, BudgetPage
<1>3. fee \in Nat /\ fee <= pages[p].cost + extra /\ extra \in Nat
  BY <1>1, <1>2
<1>4. tx \in BudgetTx /\ tx.page = p /\ tx.turn = pages[p].turn /\ tx.fee = fee
  BY <1>2, <1>3 DEF BudgetTx
<1>5. /\ pending' = pending \cup {tx}
      /\ unseen' = [unseen EXCEPT ![p] = @ + extra]
      /\ crowded' = (crowded \/ rises)
      /\ upsets' \in Nat
  <2>1. upsets \in Nat /\ unseen \in [BudgetPages -> Nat]
    BY DEF MobileTypes
  <2>2. upsets' \in Nat
    BY <1>1, <2>1 DEF Upsetting, Upset
  <2>3. (IF rises THEN unseen[p] + 1 ELSE unseen[p]) = unseen[p] + extra
    BY <2>1
  <2>4. QED
    BY <1>1, <2>1, <2>2, <2>3
<1>6. tx \notin pending /\ \A u \in pending \cup receiptsDue : ~(u.page = tx.page /\ u.turn = tx.turn)
  <2>1. \A u \in pending \cup receiptsDue : u \in BudgetTx
    BY DEF MobileTypes
  <2>2. \A u \in pending \cup receiptsDue : u.page = p => u.turn < pages[p].turn
    BY <1>2 DEF OnePerTurn
  <2>3. \A u \in pending \cup receiptsDue : ~(u.page = tx.page /\ u.turn = tx.turn)
    BY <1>2, <1>4, <2>1, <2>2 DEF BudgetTx
  <2>4. QED
    BY <2>3
<1> HIDE DEF fee, extra, tx
<1>7. [pages[p] EXCEPT !.at = "waiting"] \in BudgetPage
  BY <1>2 DEF BudgetPage
<1>8. pages' \in [BudgetPages -> BudgetPage] /\ pages'[p].at = "waiting"
      /\ \A q \in BudgetPages : pages'[q].turn = pages[q].turn
      /\ \A r \in BudgetPages \ {p} : pages'[r] = pages[r]
  BY <1>2, <1>7 DEF BudgetPage
<1>9. MobileTypes'
  <2>1. IsFiniteSet(pending')
    BY <1>5, FS_AddElement DEF MobileTypes
  <2>2. pending' \in SUBSET BudgetTx
    BY <1>4, <1>5 DEF MobileTypes
  <2>3. unseen' \in [BudgetPages -> Nat]
    BY <1>3, <1>5 DEF MobileTypes
  <2>4. crowded' \in BOOLEAN
    BY <1>5 DEF MobileTypes
  <2>5. QED
    BY <1>2, <1>5, <1>8, <2>1, <2>2, <2>3, <2>4 DEF MobileTypes
<1>10. OnePerTurn'
  <2>1. \A u \in pending' \cup receiptsDue' :
           \/ u.turn < pages'[u.page].turn
           \/ u.turn = pages'[u.page].turn /\ pages'[u.page].at = "waiting"
    <3> TAKE u \in pending' \cup receiptsDue'
    <3>1. CASE u = tx
      BY <1>4, <1>8, <3>1
    <3>2. CASE u \in pending \cup receiptsDue
      <4>1. u.page \in BudgetPages
        BY <3>2 DEF MobileTypes, BudgetTx
      <4>2. \/ u.turn < pages[u.page].turn
            \/ u.turn = pages[u.page].turn /\ pages[u.page].at = "waiting"
        BY <3>2 DEF OnePerTurn
      <4>3. QED
        BY <1>2, <1>8, <4>1, <4>2
    <3>3. QED
      BY <1>2, <1>5, <3>1, <3>2
  <2>2. \A t, u \in pending' \cup receiptsDue' : t.page = u.page /\ t.turn = u.turn => t = u
    BY <1>2, <1>5, <1>6 DEF OnePerTurn
  <2>3. pending' \cap receiptsDue' = {}
    BY <1>2, <1>5, <1>6 DEF OnePerTurn
  <2>4. QED
    BY <2>1, <2>2, <2>3 DEF OnePerTurn
<1>11. \A q \in BudgetPages : SentBy(q)' = (IF q = p THEN SentBy(q) \cup {tx} ELSE SentBy(q))
                              /\ GivenUpBy(q)' = GivenUpBy(q)
  <2> TAKE q \in BudgetPages
  <2>1. SentBy(q)' = (IF q = p THEN SentBy(q) \cup {tx} ELSE SentBy(q))
    BY <1>4, <1>5 DEF SentBy
  <2>2. ~(tx.page = q /\ tx.turn < pages[q].turn)
    BY <1>2, <1>4
  <2>3. pages'[q].turn = pages[q].turn
    BY <1>8
  <2>4. QED
    BY <1>5, <2>1, <2>2, <2>3 DEF GivenUpBy
<1>12. start[p] > 0
  BY <1>2 DEF BaselineFirst, MobileTypes
<1>13. BaselineFirst'
  <2>1. \A q \in BudgetPages : start[q] <= 0 => q # p
    BY <1>12 DEF MobileTypes
  <2>2. QED
    BY <1>2, <1>8, <1>11, <2>1 DEF BaselineFirst
<1>14. \A q \in BudgetPages : unseen'[q] \in Nat /\ unseen[q] \in Nat /\ unseen'[q] >= unseen[q]
                              /\ unseen'[p] = unseen[p] + extra
  BY <1>3, <1>5 DEF MobileTypes
<1>15. SpendingSeen'
  <2> SUFFICES ASSUME NEW q \in BudgetPages, start'[q] > 0
               PROVE  balance' + paid'[q] + FeesOf(GivenUpBy(q))' <= start'[q] + unseen'[q]
    BY DEF SpendingSeen
  <2>1. FeesOf(GivenUpBy(q))' = FeesOf(GivenUpBy(q)) /\ FeesOf(GivenUpBy(q)) \in Nat
    BY <1>11, SentTypes
  <2>2. balance + paid[q] + FeesOf(GivenUpBy(q)) <= start[q] + unseen[q]
    BY <1>2 DEF SpendingSeen
  <2>3. balance \in Int /\ paid[q] \in Nat /\ start[q] \in Int
    BY DEF MobileTypes
  <2>4. QED
    BY <1>2, <1>14, <2>1, <2>2, <2>3
<1>16. CapHolds'
  <2> SUFFICES ASSUME NEW q \in BudgetPages
               PROVE  paid'[q] + FeesOf(SentBy(q))' + Asking(q)' <= SpendCap[q] + unseen'[q]
    BY DEF CapHolds
  <2>1. FeesOf(SentBy(q)) \in Nat /\ SentBy(q) \in SUBSET BudgetTx /\ IsFiniteSet(SentBy(q))
    BY SentTypes
  <2>2. paid[q] + FeesOf(SentBy(q)) + Asking(q) <= SpendCap[q] + unseen[q]
    BY DEF CapHolds
  <2>3. SpendCap[q] \in Nat /\ paid[q] \in Nat
    BY MobileAssumption DEF MobileTypes
  <2>4. CASE q # p
    <3>1. Asking(q)' = Asking(q) /\ Asking(q) \in Nat
      BY <1>8, <2>4 DEF Asking, MobileTypes, BudgetPage
    <3>2. FeesOf(SentBy(q))' = FeesOf(SentBy(q))
      BY <1>11, <2>4
    <3>3. QED
      BY <1>2, <1>14, <2>1, <2>2, <2>3, <3>1, <3>2
  <2>5. CASE q = p
    <3>1. Asking(q)' = 0 /\ Asking(q) = pages[p].cost
      BY <1>2, <1>8, <2>5 DEF Asking
    <3>2. tx \notin SentBy(q)
      BY <1>6 DEF SentBy
    <3>3. FeesOf(SentBy(q) \cup {tx}) = FeesOf(SentBy(q)) + tx.fee
      BY <1>4, <2>1, <3>2, FeesAdded
    <3>4. FeesOf(SentBy(q))' = FeesOf(SentBy(q)) + fee
      BY <1>4, <1>11, <2>5, <3>3
    <3>5. QED
      BY <1>2, <1>3, <1>14, <2>1, <2>2, <2>3, <2>5, <3>1, <3>4
  <2>6. QED
    BY <2>4, <2>5
<1>17. ReserveLeft'
  <2> SUFFICES ASSUME ~crowded'
               PROVE  /\ \A r \in BudgetPages : pages'[r].at = "asked" =>
                           /\ pending' = {} /\ balance' >= pages'[r].cost + Reserve
                           /\ \A q \in BudgetPages : pages'[q].at = "asked" => q = r
                      /\ \A t \in pending' : pending' = {t} /\ balance' >= t.fee + Reserve
                      /\ (\E r \in BudgetPages : paid'[r] > 0) => balance' >= Reserve
    BY DEF ReserveLeft
  <2>1. ~crowded /\ extra = 0
    BY <1>5 DEF extra
  <2>2. pending = {} /\ balance >= pages[p].cost + Reserve
        /\ \A q \in BudgetPages : pages[q].at = "asked" => q = p
    BY <1>2, <2>1 DEF ReserveLeft
  <2>3. \A r \in BudgetPages : pages'[r].at # "asked"
    BY <1>8, <2>2
  <2>4. Reserve \in Nat /\ balance \in Int
    BY MobileAssumption DEF MobileTypes
  <2>5. pending' = {tx} /\ balance >= tx.fee + Reserve
    BY <1>2, <1>3, <1>4, <1>5, <2>1, <2>2, <2>4
  <2>6. (\E r \in BudgetPages : paid[r] > 0) => balance >= Reserve
    BY <2>1 DEF ReserveLeft
  <2>7. QED
    BY <1>2, <2>3, <2>5, <2>6
<1>18. QED
  BY <1>9, <1>10, <1>13, <1>15, <1>16, <1>17

(* What a mined transaction cost moves from what is under way to what is     *)
(* paid. *)
LEMMA MiningMovesFees ==
  ASSUME MobileInv, MineDeployment
  PROVE  MobileInv'
<1> USE DEF MobileInv
<1>1. PICK t \in pending :
        /\ pending' = pending \ {t} /\ receiptsDue' = receiptsDue \union {t}
        /\ balance' = balance - t.fee /\ paid' = [paid EXCEPT ![t.page] = @ + t.fee]
        /\ UNCHANGED <<pages, start, unseen, crowded, upsets>>
  BY DEF MineDeployment
<1>2. t \in BudgetTx /\ t.page \in BudgetPages /\ t.fee \in Nat
  BY DEF MobileTypes, BudgetTx
<1>3. \A q \in BudgetPages : /\ paid[q] \in Nat /\ unseen[q] \in Nat /\ start[q] \in Int
                             /\ paid'[q] = IF q = t.page THEN paid[q] + t.fee ELSE paid[q]
  BY <1>1, <1>2 DEF MobileTypes
<1>4. balance \in Int
  BY DEF MobileTypes
<1>5. MobileTypes'
  <2>1. IsFiniteSet(pending') /\ pending' \in SUBSET BudgetTx
    BY <1>1, FS_Subset DEF MobileTypes
  <2>2. paid' \in [BudgetPages -> Nat]
    BY <1>1, <1>2 DEF MobileTypes
  <2>3. receiptsDue' \in SUBSET BudgetTx /\ balance' \in Int
    BY <1>1, <1>2 DEF MobileTypes
  <2>4. QED
    BY <1>1, <2>1, <2>2, <2>3 DEF MobileTypes
<1>6. OnePerTurn'
  BY <1>1 DEF OnePerTurn
<1>7. \A q \in BudgetPages : SentBy(q)' = SentBy(q) \ {t} /\ GivenUpBy(q)' = GivenUpBy(q) \ {t}
  BY <1>1 DEF SentBy, GivenUpBy
<1>8. \A q \in BudgetPages :
        FeesOf(SentBy(q))' = (IF q = t.page THEN FeesOf(SentBy(q)) - t.fee ELSE FeesOf(SentBy(q)))
  <2> TAKE q \in BudgetPages
  <2>1. SentBy(q) \in SUBSET BudgetTx /\ IsFiniteSet(SentBy(q))
    BY SentTypes
  <2>2. CASE q = t.page
    <3>1. t \in SentBy(q)
      BY <2>2 DEF SentBy
    <3>2. FeesOf(SentBy(q) \ {t}) = FeesOf(SentBy(q)) - t.fee
      BY <2>1, <3>1, FeesTaken
    <3>3. QED
      BY <1>7, <2>2, <3>2
  <2>3. CASE q # t.page
    <3>1. SentBy(q) \ {t} = SentBy(q)
      BY <2>3 DEF SentBy
    <3>2. QED
      BY <1>7, <2>3, <3>1
  <2>4. QED
    BY <2>2, <2>3
<1>9. \A q \in BudgetPages :
        /\ FeesOf(GivenUpBy(q))' \in Int
        /\ FeesOf(GivenUpBy(q))' <= FeesOf(GivenUpBy(q)) /\ FeesOf(GivenUpBy(q)) \in Nat
  <2> TAKE q \in BudgetPages
  <2>1. GivenUpBy(q) \in SUBSET BudgetTx /\ IsFiniteSet(GivenUpBy(q)) /\ FeesOf(GivenUpBy(q)) \in Nat
    BY SentTypes
  <2>2. CASE t \in GivenUpBy(q)
    <3>1. FeesOf(GivenUpBy(q) \ {t}) = FeesOf(GivenUpBy(q)) - t.fee
      BY <2>1, <2>2, FeesTaken
    <3>2. FeesOf(GivenUpBy(q))' = FeesOf(GivenUpBy(q)) - t.fee
      BY <1>7, <3>1
    <3>3. QED
      BY <1>2, <2>1, <3>2
  <2>3. CASE t \notin GivenUpBy(q)
    <3>1. GivenUpBy(q) \ {t} = GivenUpBy(q)
      BY <2>3
    <3>2. QED
      BY <1>7, <2>1, <3>1
  <2>4. QED
    BY <2>2, <2>3
<1>10. \A q \in BudgetPages : start[q] <= 0 => q # t.page
  BY DEF BaselineFirst, SentBy
<1>11. BaselineFirst'
  <2> SUFFICES ASSUME NEW q \in BudgetPages, start'[q] <= 0
               PROVE  /\ paid'[q] = 0 /\ SentBy(q)' = {}
                      /\ pages'[q].at \notin {"asked", "waiting"}
    BY DEF BaselineFirst
  <2>1. start[q] <= 0 /\ q # t.page
    BY <1>1, <1>10
  <2>2. paid[q] = 0 /\ SentBy(q) = {} /\ pages[q].at \notin {"asked", "waiting"}
    BY <2>1 DEF BaselineFirst
  <2>3. QED
    BY <1>1, <1>3, <1>7, <2>1, <2>2
<1>12. SpendingSeen'
  <2> SUFFICES ASSUME NEW q \in BudgetPages, start'[q] > 0
               PROVE  balance' + paid'[q] + FeesOf(GivenUpBy(q))' <= start'[q] + unseen'[q]
    BY DEF SpendingSeen
  <2>1. balance + paid[q] + FeesOf(GivenUpBy(q)) <= start[q] + unseen[q]
    BY <1>1 DEF SpendingSeen
  <2>2. QED
    BY <1>1, <1>2, <1>3, <1>4, <1>9, <2>1
<1>13. CapHolds'
  <2> SUFFICES ASSUME NEW q \in BudgetPages
               PROVE  paid'[q] + FeesOf(SentBy(q))' + Asking(q)' <= SpendCap[q] + unseen'[q]
    BY DEF CapHolds
  <2>1. paid[q] + FeesOf(SentBy(q)) + Asking(q) <= SpendCap[q] + unseen[q]
    BY DEF CapHolds
  <2>2. FeesOf(SentBy(q)) \in Nat /\ SpendCap[q] \in Nat
    BY SentTypes, MobileAssumption
  <2>3. Asking(q)' = Asking(q) /\ Asking(q) \in Nat
    BY <1>1 DEF Asking, MobileTypes, BudgetPage
  <2>4. QED
    BY <1>1, <1>2, <1>3, <1>8, <2>1, <2>2, <2>3
<1>14. ReserveLeft'
  <2> SUFFICES ASSUME ~crowded'
               PROVE  /\ \A r \in BudgetPages : pages'[r].at = "asked" =>
                           /\ pending' = {} /\ balance' >= pages'[r].cost + Reserve
                           /\ \A q \in BudgetPages : pages'[q].at = "asked" => q = r
                      /\ \A u \in pending' : pending' = {u} /\ balance' >= u.fee + Reserve
                      /\ (\E r \in BudgetPages : paid'[r] > 0) => balance' >= Reserve
    BY DEF ReserveLeft
  <2>1. ~crowded
    BY <1>1
  <2>2. pending = {t} /\ balance >= t.fee + Reserve
    BY <2>1 DEF ReserveLeft
  <2>3. \A r \in BudgetPages : pages[r].at # "asked"
    BY <2>1, <2>2 DEF ReserveLeft
  <2>4. Reserve \in Nat
    BY MobileAssumption
  <2>5. pending' = {} /\ balance' >= Reserve
    BY <1>1, <1>2, <1>4, <2>2, <2>4
  <2>6. QED
    BY <1>1, <2>3, <2>5
<1>15. QED
  BY <1>5, <1>6, <1>11, <1>12, <1>13, <1>14

(* Ending a page's turn. *)
LEMMA TurnEnds ==
  ASSUME NEW r \in BudgetPage
  PROVE  LET ended == [r EXCEPT !.at = "idle", !.turn = @ + 1]
         IN  ended \in BudgetPage /\ ended.at = "idle" /\ ended.turn = r.turn + 1
<1>1. r.turn + 1 \in Nat
  BY DEF BudgetPage
<1>2. ASSUME NEW n \in Nat
      PROVE  LET ended == [r EXCEPT !.at = "idle", !.turn = n]
             IN  ended \in BudgetPage /\ ended.at = "idle" /\ ended.turn = n
  BY DEF BudgetPage
<1>3. QED
  BY <1>1, <1>2

(* A receipt ends the page's turn, which has nothing left under way. *)
LEMMA ReceiptEndsTurn ==
  ASSUME MobileInv, NEW p \in BudgetPages, SeeReceipt(p)
  PROVE  MobileInv'
<1> USE DEF MobileInv
<1>1. PICK t \in receiptsDue, refused \in BOOLEAN :
       /\ t.page = p /\ t.turn = pages[p].turn /\ receiptsDue' = receiptsDue \ {t}
       /\ Upsetting(refused)
       /\ IF refused
          THEN pages' = [pages EXCEPT ![p] = [@ EXCEPT !.at = "idle", !.turn = pages[p].turn + 1]]
          ELSE \E cost \in 1 .. MaxCost :
                 LET done == pages[p].done + 1
                 IN pages' = [pages EXCEPT ![p] =
                      [at |-> IF done < StepsOf(p) /\ WithinBudget(p, start[p], cost)
                              THEN "offered" ELSE "idle",
                       done |-> done, cost |-> 0, turn |-> @.turn + 1]]
  BY DEF SeeReceipt
<1>2. /\ pages[p] \in BudgetPage /\ pages \in [BudgetPages -> BudgetPage]
      /\ pages[p].at = "waiting" /\ pages[p].turn \in Nat /\ pages[p].done \in Nat
      /\ UNCHANGED <<start, balance, pending, paid, unseen, crowded>>
  BY DEF SeeReceipt, MobileTypes, BudgetPage
<1>3. PICK changed \in BudgetPage :
        /\ pages' = [pages EXCEPT ![p] = changed]
        /\ changed.at \in {"idle", "offered"} /\ changed.turn = pages[p].turn + 1
  <2>1. CASE refused
    <3> DEFINE ended == [pages[p] EXCEPT !.at = "idle", !.turn = @ + 1]
    <3>1. ended \in BudgetPage /\ ended.at = "idle" /\ ended.turn = pages[p].turn + 1
      BY <1>2, TurnEnds
    <3>2. pages' = [pages EXCEPT ![p] = ended]
      BY <1>1, <2>1
    <3> HIDE DEF ended
    <3>3. QED
      BY <3>1, <3>2
  <2>2. CASE ~refused
    <3>1. PICK a \in {"offered", "idle"} :
            pages' = [pages EXCEPT ![p] = [at |-> a, done |-> pages[p].done + 1, cost |-> 0,
                                           turn |-> pages[p].turn + 1]]
      BY <1>1, <2>2
    <3> DEFINE next == [at |-> a, done |-> pages[p].done + 1, cost |-> 0,
                        turn |-> pages[p].turn + 1]
    <3>2. next \in BudgetPage /\ next.at = a /\ next.turn = pages[p].turn + 1
      BY <1>2 DEF BudgetPage
    <3>3. pages' = [pages EXCEPT ![p] = next]
      BY <3>1
    <3> HIDE DEF next
    <3>4. QED
      BY <3>2, <3>3
  <2>3. QED
    BY <2>1, <2>2
<1>4. pages' \in [BudgetPages -> BudgetPage] /\ pages'[p] = changed
      /\ \A q \in BudgetPages \ {p} : pages'[q] = pages[q]
  BY <1>2, <1>3
<1>5. \A u \in pending : u.page = p => u.turn < pages[p].turn
  <2> SUFFICES ASSUME NEW u \in pending, u.page = p PROVE u.turn < pages[p].turn
    OBVIOUS
  <2>1. u # t /\ ~(u.page = t.page /\ u.turn = t.turn)
    BY DEF OnePerTurn
  <2>2. u.turn < pages[p].turn \/ u.turn = pages[p].turn
    BY DEF OnePerTurn
  <2>3. QED
    BY <1>1, <2>1, <2>2
<1>6. \A u \in pending \cup receiptsDue :
        u.page \in BudgetPages /\ u.turn \in Nat
  BY DEF MobileTypes, BudgetTx
<1>7. MobileTypes'
  <2>1. upsets' \in Nat
    BY <1>1 DEF MobileTypes, Upsetting, Upset
  <2>2. receiptsDue' \in SUBSET BudgetTx
    BY <1>1 DEF MobileTypes
  <2>3. QED
    BY <1>2, <1>4, <2>1, <2>2 DEF MobileTypes
<1>8. OnePerTurn'
  <2>1. \A u \in pending' \cup receiptsDue' :
           \/ u.turn < pages'[u.page].turn
           \/ u.turn = pages'[u.page].turn /\ pages'[u.page].at = "waiting"
    <3> TAKE u \in pending' \cup receiptsDue'
    <3>1. u \in pending \cup receiptsDue
      BY <1>1, <1>2
    <3>2. \/ u.turn < pages[u.page].turn
          \/ u.turn = pages[u.page].turn /\ pages[u.page].at = "waiting"
      BY <3>1 DEF OnePerTurn
    <3>3. CASE u.page = p
      BY <1>2, <1>3, <1>4, <1>6, <3>1, <3>2, <3>3
    <3>4. CASE u.page # p
      BY <1>4, <1>6, <3>1, <3>2, <3>4
    <3>5. QED
      BY <3>3, <3>4
  <2>2. \A u, v \in pending' \cup receiptsDue' : u.page = v.page /\ u.turn = v.turn => u = v
    BY <1>1, <1>2 DEF OnePerTurn
  <2>3. pending' \cap receiptsDue' = {}
    BY <1>1, <1>2 DEF OnePerTurn
  <2>4. QED
    BY <2>1, <2>2, <2>3 DEF OnePerTurn
<1>9. \A q \in BudgetPages : SentBy(q)' = SentBy(q) /\ GivenUpBy(q)' = GivenUpBy(q)
  <2> TAKE q \in BudgetPages
  <2>1. SentBy(q)' = SentBy(q)
    BY <1>2 DEF SentBy
  <2>2. \A u \in pending : u.page = q => (u.turn < pages'[q].turn <=> u.turn < pages[q].turn)
    <3>1. CASE q = p
      BY <1>2, <1>3, <1>4, <1>5, <1>6, <3>1
    <3>2. CASE q # p
      BY <1>4, <3>2
    <3>3. QED
      BY <3>1, <3>2
  <2>3. QED
    BY <1>2, <2>1, <2>2 DEF GivenUpBy
<1>10. start[p] > 0
  BY <1>2 DEF BaselineFirst, MobileTypes
<1>11. BaselineFirst'
  <2> SUFFICES ASSUME NEW q \in BudgetPages, start'[q] <= 0
               PROVE  /\ paid'[q] = 0 /\ SentBy(q)' = {}
                      /\ pages'[q].at \notin {"asked", "waiting"}
    BY DEF BaselineFirst
  <2>1. q # p /\ start[q] <= 0
    BY <1>2, <1>10 DEF MobileTypes
  <2>2. QED
    BY <1>2, <1>4, <1>9, <2>1 DEF BaselineFirst
<1>12. SpendingSeen'
  <2>1. \A q \in BudgetPages : FeesOf(GivenUpBy(q))' = FeesOf(GivenUpBy(q))
    BY <1>9
  <2>2. QED
    BY <1>2, <2>1 DEF SpendingSeen
<1>13. CapHolds'
  <2>1. \A q \in BudgetPages : FeesOf(SentBy(q))' = FeesOf(SentBy(q)) /\ Asking(q)' = Asking(q)
    BY <1>2, <1>3, <1>4, <1>9 DEF Asking
  <2>2. QED
    BY <1>2, <2>1 DEF CapHolds
<1>14. ReserveLeft'
  <2>1. \A q \in BudgetPages : pages'[q].at = "asked" => pages'[q] = pages[q]
    BY <1>3, <1>4
  <2>2. QED
    BY <1>2, <2>1 DEF ReserveLeft
<1>15. QED
  BY <1>7, <1>8, <1>11, <1>12, <1>13, <1>14

(* Giving up a receipt: what its transaction costs is beyond the budget's    *)
(* sight from then on. *)
LEMMA GivingUpIsUnseen ==
  ASSUME MobileInv, NEW p \in BudgetPages, GiveUpWaiting(p)
  PROVE  MobileInv'
<1> USE DEF MobileInv
<1> DEFINE late == {t \in pending : t.page = p /\ t.turn = pages[p].turn}
           changed == [pages[p] EXCEPT !.at = "idle", !.turn = @ + 1]
<1>1. /\ pages[p] \in BudgetPage /\ pages \in [BudgetPages -> BudgetPage]
      /\ pages[p].at = "waiting" /\ pages[p].turn \in Nat /\ upsets' \in Nat
      /\ pages' = [pages EXCEPT ![p] = changed]
      /\ unseen' = [unseen EXCEPT ![p] = @ + FeesOf(late)]
      /\ UNCHANGED <<start, balance, pending, receiptsDue, paid, crowded>>
  <2>1. pages[p] \in BudgetPage /\ pages \in [BudgetPages -> BudgetPage] /\ pages[p].turn \in Nat
    BY DEF MobileTypes, BudgetPage
  <2>2. upsets' \in Nat
    BY DEF GiveUpWaiting, Upset, MobileTypes
  <2>3. pages' = [pages EXCEPT ![p] = changed] /\ unseen' = [unseen EXCEPT ![p] = @ + FeesOf(late)]
    BY DEF GiveUpWaiting
  <2>4. QED
    BY <2>1, <2>2, <2>3 DEF GiveUpWaiting
<1>2. changed \in BudgetPage /\ changed.at = "idle" /\ changed.turn = pages[p].turn + 1
  BY <1>1, TurnEnds
<1>3. pages' \in [BudgetPages -> BudgetPage] /\ pages'[p] = changed
      /\ \A q \in BudgetPages \ {p} : pages'[q] = pages[q]
  BY <1>1, <1>2
<1>4. late \in SUBSET BudgetTx /\ IsFiniteSet(late)
  BY FS_Subset DEF MobileTypes
<1>5. FeesOf(late) \in Nat
  BY <1>4, FeesAreNat
<1>6. \A u \in pending \cup receiptsDue : u.page \in BudgetPages /\ u.turn \in Nat /\ u \in BudgetTx
  BY DEF MobileTypes, BudgetTx
<1>7. \A q \in BudgetPages :
        /\ unseen[q] \in Nat /\ paid[q] \in Nat /\ start[q] \in Int
        /\ unseen'[q] = IF q = p THEN unseen[q] + FeesOf(late) ELSE unseen[q]
  BY <1>1 DEF MobileTypes
<1> HIDE DEF changed
<1>8. MobileTypes'
  <2>1. unseen' \in [BudgetPages -> Nat]
    BY <1>1, <1>5 DEF MobileTypes
  <2>2. QED
    BY <1>1, <1>3, <2>1 DEF MobileTypes
<1>9. OnePerTurn'
  <2>1. \A u \in pending' \cup receiptsDue' :
           \/ u.turn < pages'[u.page].turn
           \/ u.turn = pages'[u.page].turn /\ pages'[u.page].at = "waiting"
    <3> TAKE u \in pending' \cup receiptsDue'
    <3>1. u \in pending \cup receiptsDue
      BY <1>1
    <3>2. \/ u.turn < pages[u.page].turn
          \/ u.turn = pages[u.page].turn /\ pages[u.page].at = "waiting"
      BY <3>1 DEF OnePerTurn
    <3>3. CASE u.page = p
      BY <1>1, <1>2, <1>3, <1>6, <3>1, <3>2, <3>3
    <3>4. CASE u.page # p
      BY <1>3, <1>6, <3>1, <3>2, <3>4
    <3>5. QED
      BY <3>3, <3>4
  <2>2. \A u, v \in pending' \cup receiptsDue' : u.page = v.page /\ u.turn = v.turn => u = v
    BY <1>1 DEF OnePerTurn
  <2>3. pending' \cap receiptsDue' = {}
    BY <1>1 DEF OnePerTurn
  <2>4. QED
    BY <2>1, <2>2, <2>3 DEF OnePerTurn
<1>10. \A q \in BudgetPages :
         /\ SentBy(q)' = SentBy(q)
         /\ GivenUpBy(q)' = IF q = p THEN GivenUpBy(q) \cup late ELSE GivenUpBy(q)
  <2> TAKE q \in BudgetPages
  <2>1. SentBy(q)' = SentBy(q)
    BY <1>1 DEF SentBy
  <2>2. CASE q = p
    <3>1. \A u \in pending : u.page = q =>
            (u.turn < pages'[q].turn <=> (u.turn < pages[q].turn \/ u.turn = pages[q].turn))
      BY <1>1, <1>2, <1>3, <1>6, <2>2
    <3>2. GivenUpBy(q)' = GivenUpBy(q) \cup late
      BY <1>1, <2>2, <3>1 DEF GivenUpBy
    <3>3. QED
      BY <2>1, <2>2, <3>2
  <2>3. CASE q # p
    <3>1. pages'[q] = pages[q]
      BY <1>3, <2>3
    <3>2. GivenUpBy(q)' = GivenUpBy(q)
      BY <1>1, <3>1 DEF GivenUpBy
    <3>3. QED
      BY <2>1, <2>3, <3>2
  <2>4. QED
    BY <2>2, <2>3
<1>11. FeesOf(GivenUpBy(p) \cup late) = FeesOf(GivenUpBy(p)) + FeesOf(late)
  <2>1. GivenUpBy(p) \in SUBSET BudgetTx /\ IsFiniteSet(GivenUpBy(p)) /\ FeesOf(GivenUpBy(p)) \in Nat
    BY SentTypes
  <2>2. FeesOf({}) = 0 /\ IsFiniteSet({})
    BY FeesAreNat, FS_EmptySet
  <2>3. CASE late = {}
    <3>1. GivenUpBy(p) \cup late = GivenUpBy(p) /\ FeesOf(late) = 0
      BY <2>2, <2>3
    <3> HIDE DEF late
    <3>2. QED
      BY <2>1, <3>1
  <2>4. ASSUME NEW t \in late PROVE FeesOf(GivenUpBy(p) \cup late) = FeesOf(GivenUpBy(p)) + FeesOf(late)
    <3>1. \A u \in late : u = t
      BY DEF OnePerTurn
    <3>2. late = {t} /\ t \in BudgetTx /\ t.fee \in Nat
      BY <1>4, <3>1 DEF BudgetTx
    <3>3. t \notin GivenUpBy(p)
      BY <1>1 DEF GivenUpBy
    <3>4. FeesOf(GivenUpBy(p) \cup {t}) = FeesOf(GivenUpBy(p)) + t.fee
      BY <2>1, <3>2, <3>3, FeesAdded
    <3>5. FeesOf({} \cup {t}) = FeesOf({}) + t.fee
      BY <2>2, <3>2, FeesAdded
    <3>6. {} \cup {t} = {t}
      OBVIOUS
    <3>7. FeesOf({t}) = t.fee
      BY <2>2, <3>2, <3>5, <3>6
    <3> HIDE DEF late
    <3>8. FeesOf(late) = t.fee /\ FeesOf(GivenUpBy(p) \cup late) = FeesOf(GivenUpBy(p)) + t.fee
      BY <3>2, <3>4, <3>7
    <3>9. QED
      BY <3>8, Zenon
  <2>5. QED
    BY <2>3, <2>4
<1> HIDE DEF late
<1>12. start[p] > 0
  BY <1>1 DEF BaselineFirst, MobileTypes
<1>13. BaselineFirst'
  <2> SUFFICES ASSUME NEW q \in BudgetPages, start'[q] <= 0
               PROVE  /\ paid'[q] = 0 /\ SentBy(q)' = {}
                      /\ pages'[q].at \notin {"asked", "waiting"}
    BY DEF BaselineFirst
  <2>1. q # p /\ start[q] <= 0
    BY <1>1, <1>12 DEF MobileTypes
  <2>2. QED
    BY <1>1, <1>3, <1>10, <2>1 DEF BaselineFirst
<1>14. SpendingSeen'
  <2> SUFFICES ASSUME NEW q \in BudgetPages, start'[q] > 0
               PROVE  balance' + paid'[q] + FeesOf(GivenUpBy(q))' <= start'[q] + unseen'[q]
    BY DEF SpendingSeen
  <2>1. balance + paid[q] + FeesOf(GivenUpBy(q)) <= start[q] + unseen[q]
    BY <1>1 DEF SpendingSeen
  <2>2. FeesOf(GivenUpBy(q)) \in Nat /\ balance \in Int
    BY SentTypes DEF MobileTypes
  <2>3. FeesOf(GivenUpBy(q))' = IF q = p THEN FeesOf(GivenUpBy(q)) + FeesOf(late)
                                         ELSE FeesOf(GivenUpBy(q))
    BY <1>10, <1>11
  <2>4. QED
    BY <1>1, <1>5, <1>7, <2>1, <2>2, <2>3
<1>15. CapHolds'
  <2> SUFFICES ASSUME NEW q \in BudgetPages
               PROVE  paid'[q] + FeesOf(SentBy(q))' + Asking(q)' <= SpendCap[q] + unseen'[q]
    BY DEF CapHolds
  <2>1. paid[q] + FeesOf(SentBy(q)) + Asking(q) <= SpendCap[q] + unseen[q]
    BY DEF CapHolds
  <2>2. FeesOf(SentBy(q))' = FeesOf(SentBy(q)) /\ FeesOf(SentBy(q)) \in Nat /\ SpendCap[q] \in Nat
    BY <1>10, SentTypes, MobileAssumption
  <2>3. Asking(q)' = Asking(q) /\ Asking(q) \in Nat
    <3>1. CASE q = p
      BY <1>1, <1>2, <1>3, <3>1 DEF Asking
    <3>2. CASE q # p
      BY <1>1, <1>3, <3>2 DEF Asking, BudgetPage
    <3>3. QED
      BY <3>1, <3>2
  <2>4. QED
    BY <1>1, <1>5, <1>7, <2>1, <2>2, <2>3
<1>16. ReserveLeft'
  <2>1. \A q \in BudgetPages : pages'[q].at = "asked" => pages'[q] = pages[q]
    BY <1>2, <1>3
  <2>2. QED
    BY <1>1, <2>1 DEF ReserveLeft
<1>17. QED
  BY <1>8, <1>9, <1>13, <1>14, <1>15, <1>16

(* Money paid in hides as much spending from every budget. *)
LEMMA IncomeIsUnseen ==
  ASSUME MobileInv, Income
  PROVE  MobileInv'
<1> USE DEF MobileInv
<1>1. /\ balance' = balance + 1 /\ balance \in Int /\ upsets' \in Nat
      /\ unseen' = [p \in BudgetPages |-> unseen[p] + 1]
      /\ UNCHANGED <<pages, start, pending, receiptsDue, paid, crowded>>
  BY DEF Income, Upset, MobileTypes
<1>2. \A q \in BudgetPages :
        /\ unseen[q] \in Nat /\ paid[q] \in Nat /\ start[q] \in Int /\ unseen'[q] = unseen[q] + 1
  BY <1>1 DEF MobileTypes
<1>3. MobileTypes'
  BY <1>1, <1>2 DEF MobileTypes
<1>4. OnePerTurn'
  BY <1>1 DEF OnePerTurn
<1>5. \A q \in BudgetPages : SentBy(q)' = SentBy(q) /\ GivenUpBy(q)' = GivenUpBy(q)
                             /\ Asking(q)' = Asking(q)
  BY <1>1 DEF SentBy, GivenUpBy, Asking
<1>6. BaselineFirst'
  BY <1>1, <1>5 DEF BaselineFirst
<1>7. \A q \in BudgetPages :
        /\ FeesOf(SentBy(q))' = FeesOf(SentBy(q)) /\ FeesOf(SentBy(q)) \in Nat
        /\ FeesOf(GivenUpBy(q))' = FeesOf(GivenUpBy(q)) /\ FeesOf(GivenUpBy(q)) \in Nat
        /\ Asking(q) \in Nat /\ SpendCap[q] \in Nat
  BY <1>5, SentTypes, MobileAssumption DEF Asking, MobileTypes, BudgetPage
<1>8. SpendingSeen'
  <2> SUFFICES ASSUME NEW q \in BudgetPages, start'[q] > 0
               PROVE  balance' + paid'[q] + FeesOf(GivenUpBy(q))' <= start'[q] + unseen'[q]
    BY DEF SpendingSeen
  <2>1. balance + paid[q] + FeesOf(GivenUpBy(q)) <= start[q] + unseen[q]
    BY <1>1 DEF SpendingSeen
  <2>2. QED
    BY <1>1, <1>2, <1>7, <2>1
<1>9. CapHolds'
  <2> SUFFICES ASSUME NEW q \in BudgetPages
               PROVE  paid'[q] + FeesOf(SentBy(q))' + Asking(q)' <= SpendCap[q] + unseen'[q]
    BY DEF CapHolds
  <2>1. paid[q] + FeesOf(SentBy(q)) + Asking(q) <= SpendCap[q] + unseen[q]
    BY DEF CapHolds
  <2>2. QED
    BY <1>1, <1>2, <1>5, <1>7, <2>1
<1>10. ReserveLeft'
  <2>1. Reserve \in Nat /\ (\A q \in BudgetPages : pages[q].cost \in Nat)
        /\ \A t \in pending : t.fee \in Nat
    BY MobileAssumption DEF MobileTypes, BudgetPage, BudgetTx
  <2>2. QED
    BY <1>1, <2>1 DEF ReserveLeft
<1>11. QED
  BY <1>3, <1>4, <1>6, <1>8, <1>9, <1>10

(* The budget's invariant is inductive. *)
LEMMA MobileStep == MobileInv /\ [MobileNext]_mobileVars => MobileInv'
<1> SUFFICES ASSUME MobileInv, [MobileNext]_mobileVars PROVE MobileInv'
  OBVIOUS
<1>1. ASSUME NEW p \in BudgetPages,
             \/ Inspect(p) \/ AskWallet(p) \/ Approve(p) \/ Decline(p)
             \/ SeeReceipt(p) \/ GiveUpWaiting(p)
      PROVE  MobileInv'
  BY <1>1, InspectIsFree, AskingIsCovered, SendingIsCovered, DeclineIsFree, ReceiptEndsTurn,
     GivingUpIsUnseen
<1>2. ASSUME NEW p \in BudgetPages,
             WrongWallet(p) \/ RecordUnverified(p) \/ ConfigRejected(p) \/ ExternalNotReady(p)
      PROVE  MobileInv'
  BY <1>2, TurningAwayIsFree DEF WrongWallet, RecordUnverified, ConfigRejected, ExternalNotReady
<1>3. CASE MineDeployment
  BY <1>3, MiningMovesFees
<1>4. CASE Income
  BY <1>4, IncomeIsUnseen
<1>5. CASE UNCHANGED mobileVars
  BY <1>5 DEF mobileVars, MobileInv, MobileTypes, OnePerTurn, BaselineFirst, SpendingSeen,
     CapHolds, ReserveLeft, SentBy, GivenUpBy, Asking
<1>6. QED
  BY <1>1, <1>2, <1>3, <1>4, <1>5 DEF MobileNext

(* What a page's transactions cost together never passes its cap by more     *)
(* than its budget could not see, and the reserve stays while every budget   *)
(* was checked with nothing else under way, for any caps, reserve, prices    *)
(* and number of upsets (mobile-testnet-deployment.js:28-55,                 *)
(* production-oracle-mobile-deployment.js:39-49). *)
THEOREM BudgetsAreKept == MobileSpec => []BudgetKept
<1>1. MobileInv => BudgetKept
  <2> SUFFICES ASSUME MobileInv PROVE BudgetKept
    OBVIOUS
  <2>1. ASSUME NEW p \in BudgetPages PROVE paid[p] <= SpendCap[p] + unseen[p]
    <3>1. paid[p] + FeesOf(SentBy(p)) + Asking(p) <= SpendCap[p] + unseen[p]
      BY DEF MobileInv, CapHolds
    <3>2. FeesOf(SentBy(p)) \in Nat /\ paid[p] \in Nat /\ unseen[p] \in Nat /\ SpendCap[p] \in Nat
      BY SentTypes, MobileAssumption DEF MobileInv, MobileTypes
    <3>3. Asking(p) \in Nat
      BY DEF Asking, MobileInv, MobileTypes, BudgetPage
    <3>4. QED
      BY <3>1, <3>2, <3>3
  <2>2. ~crowded /\ (\E p \in BudgetPages : paid[p] > 0) => balance >= Reserve
    BY DEF MobileInv, ReserveLeft
  <2>3. QED
    BY <2>1, <2>2 DEF BudgetKept
<1>2. QED
  BY <1>1, MobileStarts, MobileStep, PTL DEF MobileSpec
=============================================================================
