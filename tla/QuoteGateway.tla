---------------------------- MODULE QuoteGateway ----------------------------
(***************************************************************************)
(* The quote API: callers using the retrying client of                     *)
(* dex/scripts/quote-api-client.mjs, a network that delays and loses their *)
(* requests and their answers, the dispatcher of quote-api-http.mjs, and   *)
(* the gateway of quote-api-gateway.mjs with its three Maps: usage (quota  *)
(* per client and window), inFlight (one provider call per request id) and *)
(* completed (the answers a retry receives again).  The metrics counters,  *)
(* which nothing reads but the health report, are left out.                *)
(*                                                                         *)
(* handleQuote runs to its first await in one step.  The two awaits of the *)
(* owner of a request, on the provider and on verifyProof, are separate    *)
(* steps; the continuations of everyone who awaits the same promise run in *)
(* the same turn and are one step.  A request hash commits to the whole    *)
(* request, so the request itself stands for it.                           *)
(***************************************************************************)
EXTENDS Integers, FiniteSets

CONSTANTS
    Callers,      \* programs that use the client
    CallerKey,    \* CallerKey[c]: the API client the caller's bearer key belongs to
    Clients,      \* the approved clients; a caller with another key is refused
    RequestIds, Contents,
    Validity,     \* expiresAt - requestedAt of a request
    Limit, Window,                  \* quota per client and fixed window
    MaxInFlight, MaxCompleted,      \* the gateway's two capacities
    MaxRetries,                     \* of the client
    MaxGatewayTime, MaxQuotes              \* bounds of the model

ASSUME GatewayAssumption ==
    /\ CallerKey \in [Callers -> Clients \cup {"unknown"}] /\ "unknown" \notin Clients
    /\ {Limit, Window, MaxInFlight, MaxCompleted} \subseteq Nat \ {0}
    /\ {Validity, MaxRetries, MaxGatewayTime, MaxQuotes} \subseteq Nat

VARIABLES
    gwTime,     \* clock()
    quotes,     \* quotes asked for so far, a bound of the model
    caller,     \* caller[c] = [request, attempt, status]
    wire,       \* requests on their way to the gateway
    usage,      \* usage[client] = [windowStart, count]
    inFlight,   \* by key: the pending promise and who waits for it
    completed,  \* by key: the answer kept for retries
    issued      \* every answer ever completed, the history the properties read

gatewayVars == <<gwTime, quotes, caller, wire, usage, inFlight, completed, issued>>

NoRequest == [id |-> "none", content |-> "none", requestedAt |-> 0]
ExpiresAt(r) == r.requestedAt + Validity
ReplayKey(c, r) == <<CallerKey[c], r.id>>

\* validateCanonicalQuoteRequest: the dates; the client sends canonical requests
InDate(r) == gwTime >= r.requestedAt /\ gwTime <= ExpiresAt(r)

WithoutEntry(f, k) == [x \in DOMAIN f \ {k} |-> f[x]]
With(f, k, v) == [x \in DOMAIN f \cup {k} |-> IF x = k THEN v ELSE f[x]]

\* Mutant: an answer that expires at this very moment is purged.
PurgedAtExpiry == [k \in {x \in DOMAIN completed : completed[x].expiresAt > gwTime} |-> completed[k]]

\* purgeExpiredCompleted: an answer expiring now is kept
Purged == [k \in {x \in DOMAIN completed : completed[x].expiresAt >= gwTime} |-> completed[k]]

WindowStart == (gwTime \div Window) * Window
Used(client) == IF usage[client].windowStart = WindowStart THEN usage[client].count ELSE 0

\* A caller hears an answer only while it still awaits that attempt; an error
\* is retried if the gateway calls it retryable and attempts are left.
Hears(m) == caller[m.caller].status = "awaiting" /\ caller[m.caller].attempt = m.attempt
StatusAfterError(retryable, attempt) ==
    IF retryable /\ attempt < MaxRetries THEN "delay" ELSE "failed"
Refused(ms, retryable) ==
    [c \in Callers |->
       IF \E m \in ms : m.caller = c /\ Hears(m)
       THEN [caller[c] EXCEPT !.status = StatusAfterError(retryable, caller[c].attempt)]
       ELSE caller[c]]

\* validateQuoteEnvelope: a proof already expired is not accepted
Answered(ms, expiresAt) ==
    [c \in Callers |->
       IF \E m \in ms : m.caller = c /\ Hears(m)
       THEN [caller[c] EXCEPT !.status = IF expiresAt >= gwTime THEN "done" ELSE "failed"]
       ELSE caller[c]]
----------------------------------------------------------------------------
GatewayInit ==
    /\ gwTime = 0 /\ quotes = 0 /\ wire = {} /\ issued = {}
    /\ caller = [c \in Callers |-> [request |-> NoRequest, attempt |-> 0, status |-> "idle"]]
    /\ usage = [k \in Clients |-> [windowStart |-> 0, count |-> 0]]
    /\ inFlight = <<>> /\ completed = <<>>

\* The client ------------------------------------------------------------

\* quote: the request is validated before each attempt and sent
SendQuote(c, r, attempt) ==
    IF InDate(r)
    THEN /\ caller' = [caller EXCEPT ![c] =
                         [request |-> r, attempt |-> attempt, status |-> "awaiting"]]
         /\ wire' = wire \cup {[caller |-> c, attempt |-> attempt, request |-> r]}
    ELSE /\ caller' = [caller EXCEPT ![c].status = "failed"]
         /\ UNCHANGED wire

AskQuote(c, id, content) ==
    /\ caller[c].status \in {"idle", "done", "failed"} /\ quotes < MaxQuotes
    /\ \A m \in wire : m.caller # c
    /\ quotes' = quotes + 1
    /\ SendQuote(c, [id |-> id, content |-> content, requestedAt |-> gwTime], 0)
    /\ UNCHANGED <<gwTime, usage, inFlight, completed, issued>>

\* The program repeats a request it was answered, or gave up, verbatim
AskAgain(c) ==
    /\ caller[c].status \in {"done", "failed"} /\ quotes < MaxQuotes
    /\ \A m \in wire : m.caller # c
    /\ quotes' = quotes + 1
    /\ SendQuote(c, caller[c].request, 0)
    /\ UNCHANGED <<gwTime, usage, inFlight, completed, issued>>

\* requestOnce aborts after timeoutMs whether the request or its answer is late
AttemptTimesOut(c) ==
    /\ caller[c].status = "awaiting"
    /\ caller' = [caller EXCEPT ![c].status = StatusAfterError(TRUE, caller[c].attempt)]
    /\ UNCHANGED <<gwTime, quotes, wire, usage, inFlight, completed, issued>>

Retry(c) ==
    /\ caller[c].status = "delay"
    /\ SendQuote(c, caller[c].request, caller[c].attempt + 1)
    /\ UNCHANGED <<gwTime, quotes, usage, inFlight, completed, issued>>

LoseMessage(m) ==
    /\ m \in wire /\ wire' = wire \ {m}
    /\ UNCHANGED <<gwTime, quotes, caller, usage, inFlight, completed, issued>>

\* handleQuote up to its first await -------------------------------------

Unauthorized(m) ==
    /\ CallerKey[m.caller] \notin Clients
    /\ caller' = Refused({m}, FALSE)
    /\ UNCHANGED <<usage, inFlight, completed>>

OutOfDate(m) ==
    /\ ~InDate(m.request)
    /\ caller' = Refused({m}, FALSE)
    /\ UNCHANGED <<usage, inFlight, completed>>

\* The request already kept or pending under the same id, if any
Prior(m) ==
    LET k == ReplayKey(m.caller, m.request) IN
    IF k \in DOMAIN Purged THEN {Purged[k].request}
    ELSE IF k \in DOMAIN inFlight THEN {inFlight[k].request} ELSE {}

Conflict(m) ==
    /\ \E r \in Prior(m) : r # m.request
    /\ completed' = Purged
    /\ caller' = Refused({m}, FALSE)
    /\ UNCHANGED <<usage, inFlight>>

Replay(m) ==
    LET k == ReplayKey(m.caller, m.request) IN
    /\ Prior(m) = {m.request} /\ k \in DOMAIN Purged
    /\ completed' = Purged
    /\ caller' = Answered({m}, Purged[k].expiresAt)
    /\ UNCHANGED <<usage, inFlight>>

Join(m) ==
    LET k == ReplayKey(m.caller, m.request) IN
    /\ Prior(m) = {m.request} /\ k \notin DOMAIN Purged
    /\ completed' = Purged
    /\ inFlight' = [inFlight EXCEPT ![k].joined = @ \cup {m}]
    /\ UNCHANGED <<caller, usage>>

RateLimited(m) ==
    /\ Prior(m) = {} /\ Used(CallerKey[m.caller]) >= Limit
    /\ completed' = Purged
    /\ caller' = Refused({m}, TRUE)
    /\ UNCHANGED <<usage, inFlight>>

Charged(client) ==
    usage' = [usage EXCEPT ![client] = [windowStart |-> WindowStart, count |-> Used(client) + 1]]

HasCapacity == Cardinality(DOMAIN inFlight) < MaxInFlight
               /\ Cardinality(DOMAIN Purged) < MaxCompleted

\* The quota is charged before the capacity is looked at
Busy(m) ==
    /\ Prior(m) = {} /\ Used(CallerKey[m.caller]) < Limit /\ ~HasCapacity
    /\ completed' = Purged /\ Charged(CallerKey[m.caller])
    /\ caller' = Refused({m}, TRUE)
    /\ UNCHANGED inFlight

AskProvider(m) ==
    /\ Prior(m) = {} /\ Used(CallerKey[m.caller]) < Limit /\ HasCapacity
    /\ completed' = Purged /\ Charged(CallerKey[m.caller])
    /\ inFlight' = With(inFlight, ReplayKey(m.caller, m.request),
                        [request |-> m.request, owner |-> m, joined |-> {}, askedAt |-> gwTime,
                         expiresAt |-> 0, verifying |-> FALSE])
    /\ UNCHANGED caller

HandleQuote(m) ==
    /\ m \in wire /\ wire' = wire \ {m}
    /\ UNCHANGED <<gwTime, quotes, issued>>
    /\ \/ Unauthorized(m)
       \/ /\ CallerKey[m.caller] \in Clients
          /\ \/ OutOfDate(m)
             \/ /\ InDate(m.request)
                /\ \/ Conflict(m) \/ Replay(m) \/ Join(m)
                   \/ RateLimited(m) \/ Busy(m) \/ AskProvider(m)

\* Its continuations ------------------------------------------------------

\* The promise of key k rejects: the owner and all who joined fail alike
Rejects(k, retryable) ==
    /\ inFlight' = WithoutEntry(inFlight, k)
    /\ caller' = Refused({inFlight[k].owner} \cup inFlight[k].joined, retryable)
    /\ UNCHANGED <<gwTime, quotes, wire, usage, completed, issued>>

\* No route, mismatched evidence, an error, or providerTimeoutMs
ProviderFails(k, retryable) ==
    /\ k \in DOMAIN inFlight /\ ~inFlight[k].verifying
    /\ Rejects(k, retryable)

ProviderAnswers(k, expiresAt) ==
    /\ k \in DOMAIN inFlight /\ ~inFlight[k].verifying
    /\ expiresAt >= gwTime /\ expiresAt <= ExpiresAt(inFlight[k].request)
    /\ inFlight' = [inFlight EXCEPT ![k].verifying = TRUE, ![k].expiresAt = expiresAt]
    /\ UNCHANGED <<gwTime, quotes, caller, wire, usage, completed, issued>>

ProofRefused(k, retryable) ==
    /\ k \in DOMAIN inFlight /\ inFlight[k].verifying
    /\ Rejects(k, retryable)

Verified(k) ==
    /\ k \in DOMAIN inFlight /\ inFlight[k].verifying
    /\ LET p == inFlight[k] IN
       /\ inFlight' = WithoutEntry(inFlight, k)
       /\ completed' = With(completed, k, [request |-> p.request, expiresAt |-> p.expiresAt])
       /\ caller' = Answered({p.owner} \cup p.joined, p.expiresAt)
       /\ issued' = issued \cup {[key |-> k, askedAt |-> p.askedAt, expiresAt |-> p.expiresAt,
                                  number |-> Cardinality(issued)]}
    /\ UNCHANGED <<gwTime, quotes, wire, usage>>

\* Four fifths of either capacity is degraded, all of it busy
LoadStatus(pending, kept) ==
    IF pending >= MaxInFlight \/ kept >= MaxCompleted THEN "busy"
    ELSE IF 5 * pending >= 4 * MaxInFlight \/ 5 * kept >= 4 * MaxCompleted THEN "degraded"
    ELSE "healthy"

HealthReport ==
    LET pending == Cardinality(DOMAIN inFlight)
        kept == Cardinality(DOMAIN Purged)
    IN  [inFlight |-> pending, completed |-> kept, status |-> LoadStatus(pending, kept)]

\* validateQuoteApiHealth, which the client applies to every report it fetches
ReportAccepted(report) ==
    /\ report.inFlight <= MaxInFlight /\ report.completed <= MaxCompleted
    /\ report.status = LoadStatus(report.inFlight, report.completed)

\* health() purges too
Health ==
    /\ completed' = Purged /\ completed' # completed
    /\ UNCHANGED <<gwTime, quotes, caller, wire, usage, inFlight, issued>>

GatewayTick ==
    /\ gwTime < MaxGatewayTime /\ gwTime' = gwTime + 1
    /\ UNCHANGED <<quotes, caller, wire, usage, inFlight, completed, issued>>

GatewayNext ==
    \/ \E c \in Callers :
          \/ \E id \in RequestIds, content \in Contents : AskQuote(c, id, content)
          \/ AskAgain(c) \/ AttemptTimesOut(c) \/ Retry(c)
    \/ \E m \in wire : LoseMessage(m) \/ HandleQuote(m)
    \/ \E k \in DOMAIN inFlight :
          \/ \E retryable \in BOOLEAN : ProviderFails(k, retryable) \/ ProofRefused(k, retryable)
          \/ \E e \in 0..(MaxGatewayTime + Validity) : ProviderAnswers(k, e)
          \/ Verified(k)
    \/ Health \/ GatewayTick

GatewaySpec == GatewayInit /\ [][GatewayNext]_gatewayVars
----------------------------------------------------------------------------
(* "A completed request id is idempotent until expiry: an exact retry       *)
(* receives the same proof" (docs/BEST_EXECUTION_PROOF.md): for one client  *)
(* and one request id, the provider is asked for a second answer only when  *)
(* the first has expired, whatever calls were concurrent, lost or retried.  *)
OneLiveAnswer ==
    \A p, q \in issued :
        p.key = q.key /\ p.number < q.number => p.expiresAt < q.askedAt

(* The two capacities bound each other: the answers kept and the answers    *)
(* still to come together exceed MaxCompleted by less than MaxInFlight.     *)
CapacityShared ==
    /\ Cardinality(DOMAIN inFlight) <= MaxInFlight
    /\ Cardinality(DOMAIN inFlight) + Cardinality(DOMAIN completed) < MaxCompleted + MaxInFlight

(* The quote API's client accepts the health report the gateway makes: the   *)
(* kept answers are bounded by maxCompletedEntries, as the report and the    *)
(* test "bounds completed replay evidence" say.  The code breaks it as soon  *)
(* as two requests may be in flight: room is looked for when a request is    *)
(* admitted, and every admitted request keeps its answer.                    *)
SnapshotAccepted == ReportAccepted(HealthReport)

=============================================================================
