------------------------------ MODULE SwapFlow ------------------------------
(***************************************************************************)
(* The swap page: quote() and swap() of dex/app/app.js with the checks of  *)
(* dex/app/router-sdk.js, in its full (proof-bound) mode, for one trade    *)
(* and one account, against a market that moves and a node that may not    *)
(* know a transaction yet.                                                 *)
(*                                                                         *)
(* quote() awaits twice: the plan, and the assembly of the best-execution  *)
(* proof; several calls may be under way.  swap() awaits at every pc.  A   *)
(* price is what the route returns net of its cost; slippage is a fixed    *)
(* difference.  The clock stands for the time and for the block number.    *)
(* Minimal mode, the display and the token selector are left out.          *)
(***************************************************************************)
EXTENDS Integers, Sequences, FiniteSets

CONSTANTS
    Routes,        \* single routes and splits, each executed through one router
    SpenderOf,     \* SpenderOf[route]: the contract that pulls the input token
    Prices, Slippage,
    QuoteMaxAge, ProofLife, PendingLife,   \* 30 s, 60 s and 15 min of the page
    MaxPageTime, MaxQuoteVersion, MaxSwaps      \* bounds of the model

ASSUME SwapAssumption ==
    /\ SpenderOf \in [Routes -> {SpenderOf[r] : r \in Routes}]
    /\ Prices \subseteq Nat /\ \A p \in Prices : p > Slippage
    /\ {Slippage, QuoteMaxAge, ProofLife, PendingLife, MaxPageTime, MaxQuoteVersion, MaxSwaps}
         \subseteq Nat

VARIABLES
    pageTime,     \* Date.now()
    offer,        \* offer[route]: what the route returns
    version,      \* quoteVersion
    timer,        \* the version of the quote scheduled by quoteSoon, 0 for none
    snapshot,     \* quoteSnapshot
    proof,        \* displayedProof
    intent,       \* the proof pendingExecutionIntent commits to
    jobs,         \* calls of quote() awaiting something
    swap,         \* the call of swap() under way
    chosen,     \* the wallet still has the trading account and chain selected
    allowed,      \* spenders with enough allowance
    mined,        \* transactions of the account on the chain ("latest" count)
    txs,          \* the swaps the page sent
    pendingRecord \* the pending swap remembered in localStorage, 0 for none

swapVars == <<pageTime, offer, version, timer, snapshot, proof, intent, jobs, swap,
              chosen, allowed, mined, txs, pendingRecord>>

None == [version |-> 0]
MinimumOut(out) == out - Slippage

\* rankRouteQuotes: the route with the best net output; ties by priority
Better(r, s) == offer[r] > offer[s]
BestRoute == CHOOSE r \in Routes : \A s \in Routes : ~Better(s, r)
BestPlan == [route |-> BestRoute, out |-> offer[BestRoute]]

ProofOf(plan, v) == [version |-> v, route |-> plan.route, minimum |-> MinimumOut(plan.out),
                     expiresAt |-> pageTime + ProofLife]

\* Mutant: the answers of earlier quotes are taken too.
AnyQuote(v) == v <= version

\* isLatestQuote
IsLatest(v) == v = version

Idle == [pc |-> "idle", plan |-> [route |-> CHOOSE r \in Routes : TRUE, out |-> 0],
         nonce |-> 0, retried |-> FALSE, approvals |-> 0, deadline |-> 0]

Unresolved == {i \in DOMAIN txs : txs[i].status \in {"unseen", "mempool"}}

\* getTransactionCount(account, "pending") of a node that sees its mempool only
PendingCount == mined + (IF \E i \in Unresolved : txs[i].status = "mempool" /\ txs[i].nonce = mined
                         THEN 1 ELSE 0)

QuoteVars == <<version, timer, snapshot, proof, intent, jobs>>
PageVars == <<pageTime, offer, chosen, allowed, mined, txs, pendingRecord>>
----------------------------------------------------------------------------
SwapInit ==
    /\ pageTime = 0 /\ version = 0 /\ timer = 0 /\ jobs = {}
    /\ offer \in [Routes -> Prices]
    /\ snapshot = None /\ proof = None /\ intent = None /\ swap = Idle
    /\ chosen = TRUE /\ allowed = {} /\ mined = 0 /\ txs = <<>> /\ pendingRecord = 0

\* quote() -----------------------------------------------------------------

\* quoteSoon: the version moves at once, the quote 300 ms later
QuoteSoon ==
    /\ version < MaxQuoteVersion /\ version' = version + 1 /\ timer' = version + 1
    /\ UNCHANGED <<snapshot, proof, intent, jobs, swap, PageVars>>

\* quote: everything shown is cleared before the first await
StartQuote(v, by) ==
    /\ snapshot' = None /\ proof' = None /\ intent' = None
    /\ jobs' = jobs \cup {[version |-> v, by |-> by, plan |-> BestPlan, proving |-> FALSE]}

TimerFires ==
    /\ timer > 0 /\ timer' = 0
    /\ StartQuote(timer, "page")
    /\ UNCHANGED <<version, swap, PageVars>>

\* The await is over: an answer that is no longer the latest is dropped
Quoted(j) ==
    /\ j \in jobs /\ ~j.proving
    /\ IF IsLatest(j.version)
       THEN /\ jobs' = (jobs \ {j}) \cup {[j EXCEPT !.plan = BestPlan, !.proving = TRUE]}
            /\ snapshot' = [version |-> j.version, minimum |-> MinimumOut(BestPlan.out),
                            quotedAt |-> pageTime, proof |-> 0]
       ELSE /\ jobs' = jobs \ {j} /\ UNCHANGED snapshot
    /\ UNCHANGED <<version, timer, proof, intent, swap, PageVars>>

\* assembleDisplayedProof sets displayedProof; whether the quote is still the
\* latest is looked at after it has.  A snapshot cleared meanwhile by an older
\* scheduled quote is an exception, shown as an error.
ProofAssembled(j) ==
    /\ j \in jobs /\ j.proving
    /\ jobs' = jobs \ {j}
    /\ proof' = ProofOf(j.plan, j.version)
    /\ snapshot' = IF IsLatest(j.version) /\ snapshot # None
                   THEN [snapshot EXCEPT !.proof = j.version] ELSE snapshot
    /\ UNCHANGED <<version, timer, intent, swap, PageVars>>

QuoteFails(j) ==
    /\ j \in jobs /\ jobs' = jobs \ {j}
    /\ UNCHANGED <<version, timer, snapshot, proof, intent, swap, PageVars>>

\* swap() ------------------------------------------------------------------

Moment(pc) == swap.pc = pc
Goto(pc) == swap' = [swap EXCEPT !.pc = pc]
GiveUp == swap' = Idle

ClickSwap ==
    /\ Moment("idle") /\ Len(txs) < MaxSwaps
    /\ Goto("pending")
    /\ UNCHANGED <<QuoteVars, PageVars>>

\* Mutant: the remembered hash keeps no second swap back.
PendingUnchecked ==
    /\ Moment("pending") /\ Goto("network") /\ UNCHANGED <<QuoteVars, PageVars>>

\* blockIfPendingSwap: the receipt, or 15 minutes, clears the record
PendingChecked ==
    /\ Moment("pending")
    /\ LET cleared == \/ pendingRecord = 0 \/ txs[pendingRecord].status = "mined"
                      \/ pageTime - txs[pendingRecord].sentAt > PendingLife
       IN IF cleared THEN Goto("network") /\ pendingRecord' = 0
          ELSE GiveUp /\ UNCHANGED pendingRecord
    /\ UNCHANGED <<QuoteVars, pageTime, offer, chosen, allowed, mined, txs>>

\* validateExecutionSession: the account and the chain of the page
SessionHolds == chosen

\* validatePendingNonce
NonceHolds == swap.nonce = PendingCount

\* requiresTokenApproval; approveExact leaves room for exactly one swap
NeedsApproval(spender) == spender \notin allowed

\* blockIfNetworkTransactionPending; then swapInFlight and the session check
NetworkChecked ==
    /\ Moment("network")
    /\ IF PendingCount = mined /\ SessionHolds THEN Goto("plan") ELSE GiveUp
    /\ UNCHANGED <<QuoteVars, PageVars>>

\* validateExecutionQuote: the same trade, young enough, still above the minimum
QuoteValid == /\ snapshot # None
              /\ pageTime - snapshot.quotedAt <= QuoteMaxAge
              /\ BestPlan.out >= snapshot.minimum

\* validateExecutionPlanProof: same route, unexpired, at or above its minimum
ProofValid == /\ proof # None
              /\ pageTime <= proof.expiresAt
              /\ BestPlan.route = proof.route /\ BestPlan.out >= proof.minimum

\* requiresTokenApproval on the spender of the plan
AfterPlan(plan) ==
    swap' = [swap EXCEPT !.plan = plan, !.retried = FALSE,
               !.pc = IF ~NeedsApproval(SpenderOf[plan.route]) THEN "build"
                      ELSE IF swap.approvals < 2 THEN "approve" ELSE "refused"]

\* freshExecutionPlan: one refresh when the quote, not the proof, is refused
PlanValidated ==
    /\ Moment("plan")
    /\ IF QuoteValid
       THEN /\ IF ProofValid THEN AfterPlan(BestPlan) ELSE GiveUp
            /\ UNCHANGED QuoteVars
       ELSE IF swap.retried
       THEN GiveUp /\ UNCHANGED QuoteVars
       ELSE /\ version < MaxQuoteVersion /\ version' = version + 1
            /\ StartQuote(version + 1, "swap")
            /\ swap' = [swap EXCEPT !.pc = "requote", !.retried = TRUE]
            /\ UNCHANGED timer
    /\ UNCHANGED PageVars

Requoted ==
    /\ Moment("requote") /\ \A j \in jobs : j.by # "swap"
    /\ IF snapshot = None THEN GiveUp ELSE Goto("plan")
    /\ UNCHANGED <<QuoteVars, PageVars>>

\* approveExact, each approval a transaction of its own, then a fresh plan;
\* a third spender is RouteChangedDuringApproval
Approved ==
    /\ Moment("approve") /\ SessionHolds
    /\ mined' = mined + 1 /\ allowed' = allowed \cup {SpenderOf[swap.plan.route]}
    /\ swap' = [swap EXCEPT !.pc = "plan", !.approvals = @ + 1]
    /\ UNCHANGED <<QuoteVars, pageTime, offer, chosen, txs, pendingRecord>>

\* Every other end of the call: a rejection, an RPC error, a failed check
SwapFails ==
    /\ swap.pc \in {"approve", "refused", "build", "simulate", "submit", "receipt"}
    /\ GiveUp
    /\ UNCHANGED <<QuoteVars, PageVars>>

\* The nonce, and the transaction with the displayed proof's expiry as deadline
Built ==
    /\ Moment("build") /\ SessionHolds /\ proof # None /\ pageTime <= proof.expiresAt
    /\ swap' = [swap EXCEPT !.pc = "simulate", !.nonce = PendingCount,
                            !.deadline = proof.expiresAt]
    /\ UNCHANGED <<QuoteVars, PageVars>>

\* simulateExecution: the intent commits to the proof displayed now
Simulated ==
    /\ Moment("simulate") /\ proof # None
    /\ intent' = proof /\ Goto("submit")
    /\ UNCHANGED <<version, timer, snapshot, proof, jobs, PageVars>>

\* The session, the nonce and the intent again; then the wallet broadcasts
Submitted(status) ==
    /\ Moment("submit") /\ SessionHolds /\ NonceHolds
    /\ proof # None /\ intent = proof
    /\ txs' = Append(txs, [nonce |-> swap.nonce, minimum |-> MinimumOut(swap.plan.out),
                           spender |-> SpenderOf[swap.plan.route], deadline |-> swap.deadline, sentAt |-> pageTime, status |-> status])
    /\ pendingRecord' = Len(txs) + 1
    /\ Goto("receipt")
    /\ UNCHANGED <<QuoteVars, pageTime, offer, chosen, allowed, mined>>

\* validateSwapReceipt; a successful swap quotes again
Confirmed ==
    /\ Moment("receipt") /\ txs[Len(txs)].status = "mined"
    /\ pendingRecord' = 0 /\ GiveUp
    /\ IF version < MaxQuoteVersion
       THEN version' = version + 1 /\ StartQuote(version + 1, "page") /\ UNCHANGED timer
       ELSE UNCHANGED QuoteVars
    /\ UNCHANGED <<pageTime, offer, chosen, allowed, mined, txs>>

\* The market, the wallet, the node and the clock --------------------------

MoveOffer(r, p) ==
    /\ offer[r] # p /\ offer' = [offer EXCEPT ![r] = p]
    /\ UNCHANGED <<QuoteVars, swap, pageTime, chosen, allowed, mined, txs, pendingRecord>>

SelectAccount ==
    /\ chosen' = ~chosen
    /\ UNCHANGED <<QuoteVars, swap, pageTime, offer, allowed, mined, txs, pendingRecord>>

\* An unseen transaction reaches the node within PendingLife, or never
Appear(i) ==
    /\ txs[i].status = "unseen" /\ pageTime - txs[i].sentAt <= PendingLife
    /\ txs' = [txs EXCEPT ![i].status = "mempool"]
    /\ UNCHANGED <<QuoteVars, swap, pageTime, offer, chosen, allowed, mined, pendingRecord>>

\* The swap is made and uses the approval up, or it reverts
MineSwap(i) ==
    /\ txs[i].status = "mempool" /\ txs[i].nonce = mined
    /\ mined' = mined + 1
    /\ allowed' \in {allowed, allowed \ {txs[i].spender}}
    /\ txs' = [k \in DOMAIN txs |->
                 IF k = i THEN [txs[k] EXCEPT !.status = "mined"]
                 ELSE IF txs[k].nonce = txs[i].nonce THEN [txs[k] EXCEPT !.status = "gone"]
                 ELSE txs[k]]
    /\ UNCHANGED <<QuoteVars, swap, pageTime, offer, chosen, pendingRecord>>

PageTick ==
    /\ pageTime < MaxPageTime /\ pageTime' = pageTime + 1
    /\ UNCHANGED <<QuoteVars, swap, offer, chosen, allowed, mined, txs, pendingRecord>>

SwapNext ==
    \/ QuoteSoon \/ TimerFires
    \/ \E j \in jobs : Quoted(j) \/ ProofAssembled(j) \/ QuoteFails(j)
    \/ ClickSwap \/ PendingChecked \/ NetworkChecked \/ PlanValidated \/ Requoted
    \/ Approved \/ Built \/ Simulated \/ Confirmed \/ SwapFails
    \/ \E status \in {"unseen", "mempool"} : Submitted(status)
    \/ \E r \in Routes, p \in Prices : MoveOffer(r, p)
    \/ SelectAccount \/ PageTick
    \/ \E i \in DOMAIN txs : Appear(i) \/ MineSwap(i)

SwapSpec == SwapInit /\ [][SwapNext]_swapVars
----------------------------------------------------------------------------
(* Two guards with different blind spots (the remembered hash, forgotten    *)
(* after 15 minutes, and the node's pending count, which misses what it has *)
(* not seen) together keep the page from having two different swaps under   *)
(* way: transactions still unresolved share their nonce, so that one at     *)
(* most is executed.                                                        *)
OneSwapPending ==
    LET MayBeMined == {i \in Unresolved :
                         txs[i].status = "mempool" \/ pageTime - txs[i].sentAt <= PendingLife}
    IN \A i, j \in MayBeMined : txs[i].nonce = txs[j].nonce

(* "accepts only the newest asynchronous quote response": whatever order    *)
(* the answers come in, the quote on the page is the one asked for last, or *)
(* a newer one is already scheduled.                                        *)
NewestQuoteShown ==
    snapshot # None => snapshot.version = version \/ timer = version
=============================================================================
