---------------------------- MODULE WizardPages ----------------------------
(***************************************************************************)
(* What each operator page of dex/app looks at before it lets the wallet   *)
(* send one transaction.  For every page:                                  *)
(*   ...Next     the buttons its refresh() leaves enabled (none where the  *)
(*               checks before it throw);                                  *)
(*   ...Connect  the page after the connect button;                        *)
(*   ...Send     its click handler: what must hold before the wallet is    *)
(*               asked, and the buttons that are enabled after an error    *)
(*               before the wallet is asked (early), after one later       *)
(*               (late), and after the confirmed transaction (done).       *)
(* Token amounts are counted in the page's own fixed amounts; a quote is   *)
(* 2 or 3 inside the reviewed range and 1 below it, and one unit is more   *)
(* than the 1 % by which the minimum lies below the quote.                 *)
(***************************************************************************)
EXTENDS Integers, Sequences, FiniteSets

CONSTANTS
    Pages,          \* the pages looked at, one per behaviour
    PacketLength    \* deployments of the Master 6 packet (10)

ASSUME PagesAssumption ==
    /\ Pages \subseteq {"liquidity", "smoke", "reverse", "pool", "safe", "registry", "config",
                        "cardinality", "tick", "capacity", "packet", "oracle", "pyth", "fresh",
                        "dexRegistry", "v3Adapter", "quoteRouter", "executionRouter", "verifier",
                        "riskConfig"}
    /\ PacketLength \in Nat

VARIABLES
    page,      \* the page of this behaviour
    testnet,     \* what the pages read
    requests,      \* the transactions the page sent, in nonce order
    tab,       \* the page in memory
    saved,     \* its entry in localStorage
    signer     \* the wallet holds the approved account on BSC Testnet

Unopened == [pc |-> "closed", next |-> {}, step |-> "", minimum |-> 0, nonce |-> 0]
Opened(next) == [Unopened EXCEPT !.pc = "idle", !.next = next]

Waiting == {i \in DOMAIN requests : requests[i].status = "waiting"}

ConfirmedPrice == 1
ReviewedQuotes == {2, 3}
----------------------------------------------------------------------------
\* pancake-v3-liquidity-testnet: the first liquidity of the pool -----------

LiquidityBase == testnet.price \in {0, ConfirmedPrice}

LiquidityNext ==
    IF ~LiquidityBase \/ testnet.liquidity > 0 THEN {}
    ELSE IF testnet.wbnb = 0 THEN IF testnet.native > 0 THEN {"wrap"} ELSE {}
    ELSE IF testnet.allow = 0 THEN {"approveTlqc"}
    ELSE IF testnet.allow2 = 0 THEN {"approveWbnb"}
    ELSE IF testnet.price = 0 THEN {"initialize"} ELSE {"mint"}

\* An error refreshes for the account connected before
LiquidityConnect ==
    IF signer \/ tab.pc = "idle" THEN Opened(LiquidityNext) ELSE Unopened

\* The amounts and their minima are those of the confirmed price
LiquiditySend(step) ==
    [asks |-> signer /\ step \in LiquidityNext, minimum |-> ConfirmedPrice,
     early |-> LiquidityNext, late |-> LiquidityNext, done |-> LiquidityNext]

\* pancake-v3-smoke-swap-testnet and -reverse-: one small swap each way -----

SmokeBase == testnet.liquidity > 0

\* Mutant: the approval is offered before the page looks for a finished swap.
SmokeNextApproves ==
    IF ~SmokeBase \/ testnet.quote \notin ReviewedQuotes THEN {}
    ELSE IF testnet.allow = 0 THEN {"approve"}
    ELSE IF saved \/ testnet.wbnb > 0 THEN {} ELSE {"swap"}

SmokeNext ==
    IF ~SmokeBase \/ testnet.quote \notin ReviewedQuotes \/ saved \/ testnet.wbnb > 0 THEN {}
    ELSE IF testnet.allow = 0 THEN {"approve"} ELSE {"swap"}

SmokeConnect == IF signer \/ tab.pc = "idle" THEN Opened(SmokeNext) ELSE Unopened

SmokeSend(step) ==
    [asks |-> signer /\ step \in SmokeNext, minimum |-> testnet.quote,
     early |-> SmokeNext, late |-> SmokeNext, done |-> SmokeNext]

ReverseBase == testnet.liquidity > 0

\* The balance must be the one the smoke swap left
ReverseNext ==
    IF ~ReverseBase \/ testnet.quote \notin ReviewedQuotes \/ saved \/ testnet.wbnb # 1 THEN {}
    ELSE IF testnet.allow = 0 THEN {"approve"} ELSE {"swapBack"}

ReverseConnect == IF signer \/ tab.pc = "idle" THEN Opened(ReverseNext) ELSE Unopened

ReverseSend(step) ==
    [asks |-> signer /\ step \in ReverseNext, minimum |-> testnet.quote,
     early |-> ReverseNext, late |-> ReverseNext, done |-> ReverseNext]

\* pancake-v3-final-state-testnet: what it takes to report success ----------

SwapsVerified ==
    /\ testnet.liquidity > 0 /\ testnet.allow = 0 /\ testnet.allow2 = 0
    /\ \E i \in DOMAIN requests : requests[i].step \in {"swap", "swapBack"} /\ requests[i].status = "ok"
----------------------------------------------------------------------------
\* pancake-v3-pool-testnet --------------------------------------------------

PoolConnect == IF ~signer THEN Unopened ELSE Opened(IF testnet.made = 0 THEN {"create"} ELSE {})

PoolSend(step) ==
    [asks |-> signer /\ testnet.made = 0, minimum |-> 0,
     early |-> {step}, late |-> {step}, done |-> {}]

\* governance-safe-testnet: nothing is read again; the salt is fixed, so a
\* second Safe of the same set-up fails in the factory
SafeConnect == IF signer THEN Opened({"deploySafe"}) ELSE Unopened

SafeSend(step) ==
    [asks |-> TRUE, minimum |-> 0, early |-> {step}, late |-> {step}, done |-> {}]

\* router2-risk-registry-testnet: the browser's record blocks a second one --

RegistryConnect ==
    IF ~signer THEN Unopened ELSE Opened(IF saved THEN {} ELSE {"deployRegistry"})

RegistrySend(step) ==
    [asks |-> signer /\ ~saved, minimum |-> 0, early |-> {}, late |-> {}, done |-> {}]

\* The other contracts of router 2, one page each, of the same form: the page
\* looks at what its contract depends on, and at its record, when it connects
\* and again before it asks the wallet.  An error leaves no button enabled.

\* router2-registry-testnet
DexRegistryConnect ==
    IF ~signer THEN Unopened ELSE Opened(IF saved THEN {} ELSE {"deployDexRegistry"})

DexRegistrySend(step) ==
    [asks |-> signer /\ ~saved, minimum |-> 0, early |-> {}, late |-> {}, done |-> {}]

\* router2-v3-adapter-testnet
V3AdapterConnect ==
    IF ~signer THEN Unopened ELSE Opened(IF saved THEN {} ELSE {"deployV3Adapter"})

V3AdapterSend(step) ==
    [asks |-> signer /\ ~saved, minimum |-> 0, early |-> {}, late |-> {}, done |-> {}]

\* router2-quote-router-testnet: the exchange is registered and enabled
QuoteReady == testnet.registered = 1

QuoteRouterConnect ==
    IF ~signer \/ ~QuoteReady THEN Unopened
    ELSE Opened(IF saved THEN {} ELSE {"deployQuoteRouter"})

QuoteRouterSend(step) ==
    [asks |-> signer /\ ~saved /\ QuoteReady, minimum |-> 0,
     early |-> {}, late |-> {}, done |-> {}]

\* router2-execution-router-testnet: the signer still owns the Risk Registry
ExecutionReady == testnet.riskOwner = "signer"

ExecutionRouterConnect ==
    IF ~signer \/ ~ExecutionReady THEN Unopened
    ELSE Opened(IF saved THEN {} ELSE {"deployExecutionRouter"})

ExecutionRouterSend(step) ==
    [asks |-> signer /\ ~saved /\ ExecutionReady, minimum |-> 0,
     early |-> {}, late |-> {}, done |-> {}]

\* router2-proof-verifier-deploy-testnet
VerifierConnect ==
    IF ~signer THEN Unopened ELSE Opened(IF saved THEN {} ELSE {"deployVerifier"})

VerifierSend(step) ==
    [asks |-> signer /\ ~saved, minimum |-> 0, early |-> {}, late |-> {}, done |-> {}]

\* router2-risk-config-testnet: six settings of the Risk Registry in order
RiskSteps == <<"setExecutor", "allowTlqc", "capTlqc", "allowWbnb", "capWbnb", "offerOwnership">>

\* completed(): up to the first setting that is not on the chain
RiskCompleted ==
    Cardinality({i \in DOMAIN RiskSteps : \A j \in 1..i : RiskSteps[j] \in testnet.risk})

RiskNext == IF RiskCompleted < Len(RiskSteps) THEN {RiskSteps[RiskCompleted + 1]} ELSE {}

\* Without the approved account the buttons stay as they are
RiskConnect == IF signer THEN Opened(RiskNext) ELSE tab

RiskSend(step) ==
    [asks |-> signer /\ step \in RiskNext, minimum |-> 0,
     early |-> RiskNext, late |-> RiskNext, done |-> RiskNext]

\* router2-governance-accept-testnet: when it leads to the governance Safe
AcceptOffered == testnet.riskOwner = "signer" /\ "offerOwnership" \in testnet.risk

\* router2-v3-config-testnet: fee tier, pool, registration, in this order ---

ConfigNext ==
    IF testnet.fee = 0 THEN {"fee"}
    ELSE IF testnet.allowed = 0 THEN {"poolAllow"}
    ELSE IF testnet.registered = 0 THEN {"register"} ELSE {}

ConfigConnect == IF signer THEN Opened(ConfigNext) ELSE [tab EXCEPT !.next = {}]

ConfigSend(step) ==
    [asks |-> signer /\ step \in ConfigNext, minimum |-> 0,
     early |-> ConfigNext, late |-> ConfigNext, done |-> ConfigNext]
----------------------------------------------------------------------------
\* The TWAP pages of the futures oracle -------------------------------------

\* The pool keeps two observations and the TWAP adapter answers
TwapReady == testnet.cardinality >= 2

\* v3-twap-observation-prep: room for more observations
CapacityNext == IF TwapReady \/ testnet.made > 0 THEN {} ELSE {"capacity"}

CapacityConnect == IF signer THEN Opened(CapacityNext) ELSE [tab EXCEPT !.next = {}]

CapacitySend(step) ==
    [asks |-> signer /\ step \in CapacityNext, minimum |-> 0,
     early |-> {}, late |-> {}, done |-> {}]

\* v3-cardinality-materialization: one swap that writes an observation
CardinalityBase == testnet.liquidity > 0

CardinalityNext ==
    IF ~CardinalityBase \/ TwapReady \/ saved THEN {}
    ELSE IF testnet.wbnb = 0 THEN IF testnet.native > 0 THEN {"wrap"} ELSE {}
    ELSE IF testnet.allow = 0 THEN {"approve"} ELSE {"swapTick"}

\* Without the approved account the buttons stay as they are
CardinalityConnect == IF signer THEN Opened(CardinalityNext) ELSE tab

CardinalitySend(step) ==
    [asks |-> signer /\ step \in CardinalityNext, minimum |-> testnet.quote,
     early |-> CardinalityNext, late |-> {}, done |-> CardinalityNext]

\* v3-bounded-tick-change: the same, when the quote says that the tick moves
TickBase == testnet.liquidity > 0
TickMoves == testnet.quote \in ReviewedQuotes

TickNext ==
    IF ~TickBase \/ TwapReady \/ saved THEN {}
    ELSE IF testnet.wbnb = 0 THEN IF testnet.native > 0 THEN {"wrap"} ELSE {}
    ELSE IF testnet.allow = 0 THEN {"approve"}
    ELSE IF TickMoves THEN {"swapTick"} ELSE {}

TickSend(step) ==
    [asks |-> signer /\ step \in TickNext, minimum |-> testnet.quote,
     early |-> TickNext, late |-> {}, done |-> TickNext]

TickConnect == IF signer THEN Opened(TickNext) ELSE tab
----------------------------------------------------------------------------
\* governance-oracle-config-page: goes by flags read when it connects -------

OracleOwnerChecked == signer

OracleConnect ==
    IF ~OracleOwnerChecked THEN tab
    ELSE Opened(IF testnet.feed = 0 THEN {"setFeed"}
                ELSE IF testnet.breaker = 0 THEN {"setCb"} ELSE {})

OracleSend(step) ==
    [asks |-> OracleOwnerChecked, minimum |-> 0,
     early |-> {step} \cup tab.next, late |-> {step} \cup tab.next,
     done |-> IF step = "setFeed" THEN {"setCb"} ELSE {}]

\* futures-pyth-testnet-deploy(-v2): the buttons are enabled by the artifacts
\* and stay so; a signer of the wrong account is kept
PythLoaded == {"deployHelper", "deployAdapter"}
PythConnect == Opened(PythLoaded)

PythSend(step) ==
    [asks |-> TRUE, minimum |-> 0, early |-> PythLoaded, late |-> PythLoaded, done |-> PythLoaded]

\* futures-pyth-fresh-update: a payload must have been fetched, which asks no
\* wallet; it stays, and the buttons once enabled stay so
FreshConnect == IF signer THEN Opened(tab.next \cup {"fetch"}) ELSE tab

FreshSend(step) ==
    [asks |-> step = "update", minimum |-> 0,
     early |-> tab.next \cup {"update"}, late |-> tab.next, done |-> tab.next]
----------------------------------------------------------------------------
\* master6-clean-lending-deploy-testnet -------------------------------------

\* The packet fixes order, nonce, address and init code of every deployment
PacketRows == 1..PacketLength

\* Two RPC nodes, each up to date, without the pending transactions, or one
\* block behind
Occupied == {c.at : c \in testnet.codes}

RpcViews ==
    {[nonce |-> testnet.nonce + Cardinality(Waiting), codes |-> Occupied],
     [nonce |-> testnet.nonce, codes |-> Occupied],
     testnet.before}

Completed(codes) == Cardinality({i \in codes : 1..i \subseteq codes})

\* dualState where both nodes answer with this view: no gap between the
\* occupied addresses, and the pending nonce is the next row's
DualState(view) == view.codes = 1..Completed(view.codes) /\ view.nonce = Completed(view.codes)

PacketNext(view) ==
    IF DualState(view) /\ Completed(view.codes) + 1 \in PacketRows THEN {"deployNext"} ELSE {}

\* The wallet's account is checked and the state read; an error disables
PacketConnect(view) == Opened(IF signer THEN PacketNext(view) ELSE {})

PacketSend(view) ==
    [asks |-> signer /\ PacketNext(view) # {}, nonce |-> Completed(view.codes),
     early |-> {}, late |-> {}]
=============================================================================
