------------------------------ MODULE Wizards ------------------------------
(***************************************************************************)
(* The operator pages of dex/app, one wallet transaction per button, in a  *)
(* browser tab, against the chain.  A page forgets everything but its      *)
(* localStorage entry on a reload.  A receipt may come after the page      *)
(* stopped polling; then the step can be asked for again while the first   *)
(* transaction waits (a second connect during the wait does the same).     *)
(* The chain runs the account's transactions in order; others may move the *)
(* market, and the wallet may change or send something of its own.         *)
(***************************************************************************)
EXTENDS WizardPages

CONSTANTS
    MaxSent,     \* bound: transactions the page sends
    MaxTrouble   \* bound: everything that goes another way than planned

ASSUME WizardAssumption == MaxSent \in Nat /\ MaxTrouble \in Nat

VARIABLE trouble \* how much went another way than planned

wizardVars == <<page, testnet, requests, tab, saved, signer, trouble>>

Times(step) == Cardinality({i \in DOMAIN requests : requests[i].step = step /\ requests[i].status = "ok"})
----------------------------------------------------------------------------
\* The rules of the page ----------------------------------------------------

Connected ==
    CASE page = "liquidity" -> {LiquidityConnect}
      [] page = "smoke" -> {SmokeConnect}
      [] page = "reverse" -> {ReverseConnect}
      [] page = "cardinality" -> {CardinalityConnect}
      [] page = "tick" -> {TickConnect}
      [] page = "capacity" -> {CapacityConnect}
      [] page = "pool" -> {PoolConnect}
      [] page = "registry" -> {RegistryConnect}
      [] page = "config" -> {ConfigConnect}
      [] page = "oracle" -> {OracleConnect}
      [] page = "safe" -> {SafeConnect}
      [] page = "pyth" -> {PythConnect}
      [] page = "fresh" -> {FreshConnect}
      [] page = "dexRegistry" -> {DexRegistryConnect}
      [] page = "v3Adapter" -> {V3AdapterConnect}
      [] page = "quoteRouter" -> {QuoteRouterConnect}
      [] page = "executionRouter" -> {ExecutionRouterConnect}
      [] page = "verifier" -> {VerifierConnect}
      [] page = "riskConfig" -> {RiskConnect}
      [] page = "packet" -> {PacketConnect(view) : view \in RpcViews}

SendRule(step) ==
    CASE page = "liquidity" -> LiquiditySend(step)
      [] page = "smoke" -> SmokeSend(step)
      [] page = "reverse" -> ReverseSend(step)
      [] page = "cardinality" -> CardinalitySend(step)
      [] page = "tick" -> TickSend(step)
      [] page = "capacity" -> CapacitySend(step)
      [] page = "pool" -> PoolSend(step)
      [] page = "registry" -> RegistrySend(step)
      [] page = "config" -> ConfigSend(step)
      [] page = "oracle" -> OracleSend(step)
      [] page = "safe" -> SafeSend(step)
      [] page = "pyth" -> PythSend(step)
      [] page = "fresh" -> FreshSend(step)
      [] page = "dexRegistry" -> DexRegistrySend(step)
      [] page = "v3Adapter" -> V3AdapterSend(step)
      [] page = "quoteRouter" -> QuoteRouterSend(step)
      [] page = "executionRouter" -> ExecutionRouterSend(step)
      [] page = "verifier" -> VerifierSend(step)
      [] page = "riskConfig" -> RiskSend(step)

AfterError(step) == IF page = "packet" THEN {} ELSE SendRule(step).late
----------------------------------------------------------------------------
\* What the contracts do (Pancake V3, WBNB, Safe factory, adapters) --------

RouterContracts == {"deployRegistry", "deployDexRegistry", "deployV3Adapter",
                    "deployQuoteRouter", "deployExecutionRouter", "deployVerifier"}

Settings == {"approve", "approveTlqc", "approveWbnb", "fee", "poolAllow", "setFeed",
             "setCb", "capacity", "deployHelper", "deployAdapter", "update"} \cup RouterContracts

RiskSettings == {RiskSteps[i] : i \in DOMAIN RiskSteps}

Works(tx, c) ==
    \/ tx.step \in Settings
    \/ tx.step = "wrap" /\ c.native > 0
    \/ tx.step = "initialize" /\ c.price = 0
    \/ tx.step = "mint" /\ c.wbnb > 0 /\ c.allow > 0 /\ c.allow2 > 0 /\ c.price = tx.minimum
    \/ tx.step = "swap" /\ c.allow > 0 /\ c.liquidity > 0 /\ c.quote >= tx.minimum
    \/ tx.step \in {"swapBack", "swapTick"}
         /\ c.allow > 0 /\ c.wbnb > 0 /\ c.liquidity > 0 /\ c.quote >= tx.minimum
    \/ tx.step = "create" /\ c.made = 0
    \/ tx.step = "deploySafe" /\ c.made = 0          \* create2 of the same proxy
    \/ tx.step = "register" /\ c.registered = 0      \* DexExists
    \/ tx.step \in RiskSettings /\ c.riskOwner = "signer"
    \/ tx.step = "deployNext" /\ c.nonce = tx.nonce

\* wrote: the swap's observation made the oracle array grow
Outcome(tx, c, wrote) ==
    CASE tx.step = "wrap" -> [c EXCEPT !.native = @ - 1, !.wbnb = @ + 1]
      [] tx.step \in {"approve", "approveTlqc"} -> [c EXCEPT !.allow = 1]
      [] tx.step = "approveWbnb" -> [c EXCEPT !.allow2 = 1]
      [] tx.step = "initialize" -> [c EXCEPT !.price = ConfirmedPrice]
      [] tx.step = "mint" -> [c EXCEPT !.wbnb = @ - 1, !.allow = 0, !.allow2 = 0,
                                       !.liquidity = 1, !.filled = {c.price}]
      [] tx.step = "swap" -> [c EXCEPT !.wbnb = @ + 1, !.allow = 0, !.filled = @ \cup {c.quote}]
      [] tx.step = "swapBack" -> [c EXCEPT !.wbnb = @ - 1, !.allow = 0,
                                           !.filled = @ \cup {c.quote}]
      [] tx.step = "swapTick" -> [c EXCEPT !.wbnb = @ - 1, !.allow = 0,
                                           !.cardinality = IF wrote THEN 2 ELSE @]
      [] tx.step \in {"create", "deploySafe", "capacity"} -> [c EXCEPT !.made = 1]
      [] tx.step = "fee" -> [c EXCEPT !.fee = 1]
      [] tx.step = "poolAllow" -> [c EXCEPT !.allowed = 1]
      [] tx.step = "register" -> [c EXCEPT !.registered = 1]
      [] tx.step = "setFeed" -> [c EXCEPT !.feed = 1]
      [] tx.step = "setCb" -> [c EXCEPT !.breaker = 1]
      [] tx.step \in RiskSettings -> [c EXCEPT !.risk = @ \cup {tx.step}]
      [] tx.step = "deployNext" ->
           [c EXCEPT !.codes = @ \cup {[at |-> c.nonce + 1, row |-> tx.row]}]
      [] OTHER -> c
----------------------------------------------------------------------------
WizardInit ==
    /\ page \in Pages
    /\ testnet = [native |-> 2, wbnb |-> IF page = "reverse" THEN 1 ELSE 0, allow |-> 0,
                allow2 |-> 0, price |-> 0, liquidity |-> IF page = "liquidity" THEN 0 ELSE 1,
                made |-> 0, fee |-> 0, allowed |-> 0,
                registered |-> IF page = "quoteRouter" THEN 1 ELSE 0, cardinality |-> 1,
                risk |-> {}, riskOwner |-> "signer",
                feed |-> 0, breaker |-> 0, quote |-> 2, filled |-> {}, nonce |-> 0, codes |-> {},
                before |-> [nonce |-> 0, codes |-> {}]]
    /\ requests = <<>> /\ tab = Unopened /\ saved = FALSE /\ signer = TRUE /\ trouble = 0

Trouble == trouble < MaxTrouble /\ trouble' = trouble + 1

Connect ==
    /\ tab.pc \in {"closed", "idle"}
    /\ tab' \in Connected
    /\ UNCHANGED <<page, testnet, requests, saved, signer, trouble>>

\* Mutant: the swap is sent without a minimum.
AnyAmount(step) == 0

\* amountOutMinimum, or the amounts the mint asks for at the confirmed price
MinimumFor(step) ==
    IF step \in {"mint", "swap", "swapBack", "swapTick"} THEN SendRule(step).minimum ELSE 0

Request(step, minimum, nonce) ==
    [step |-> step, minimum |-> minimum, nonce |-> nonce, row |-> nonce + 1,
     status |-> "waiting"]

\* sendReviewed up to the wallet: check again, then eth_estimateGas, which
\* runs the call on the latest state
Click(step) ==
    /\ tab.pc = "idle" /\ step \in tab.next /\ page # "packet"
    /\ LET rule == SendRule(step) IN
        tab' = IF rule.asks /\ Works(Request(step, MinimumFor(step), 0), testnet)
               THEN [tab EXCEPT !.pc = "asking", !.step = step, !.minimum = MinimumFor(step)]
               ELSE Opened(rule.early)
    /\ UNCHANGED <<page, testnet, requests, saved, signer, trouble>>

\* deployNext: both nodes are read again; the request carries the row's nonce
ClickPacket ==
    /\ tab.pc = "idle" /\ "deployNext" \in tab.next
    /\ \E view \in RpcViews :
        LET rule == PacketSend(view) IN
        tab' = IF rule.asks
               THEN [tab EXCEPT !.pc = "asking", !.step = "deployNext", !.nonce = rule.nonce]
               ELSE Opened(rule.early)
    /\ UNCHANGED <<page, testnet, requests, saved, signer, trouble>>

\* Mutant: the wallet chooses the nonce of the deployment.
NonceOfWallet == testnet.nonce + Cardinality(Waiting)

\* the nonce of the packet's own row
NonceOfRequest == tab.nonce

\* These pages leave their buttons enabled while the transaction waits, and
\* keep the signer of whatever account the wallet held
PythPages == {"pyth", "fresh"}

\* The wallet signs for the requested account only (the Pyth pages ask for
\* the account it holds); a node takes no nonce that is used up or waiting
Signs ==
    /\ signer \/ page \in PythPages
    /\ page = "packet" => NonceOfRequest >= testnet.nonce + Cardinality(Waiting)

Confirm ==
    /\ tab.pc = "asking" /\ Len(requests) < MaxSent
    /\ IF Signs
       THEN /\ requests' = Append(requests, [Request(tab.step, tab.minimum, NonceOfRequest) EXCEPT
                                       !.row = tab.nonce + 1])
            /\ tab' = IF page \in PythPages THEN Opened(tab.next)
                      ELSE [tab EXCEPT !.pc = "waiting", !.next = @ \ {tab.step}]
       ELSE tab' = Opened(AfterError(tab.step)) /\ UNCHANGED requests
    /\ UNCHANGED <<page, testnet, saved, signer, trouble>>

Reject ==
    /\ tab.pc = "asking" /\ Trouble
    /\ tab' = Opened(AfterError(tab.step))
    /\ UNCHANGED <<page, testnet, requests, saved, signer>>

\* The account's next transaction is in a block, where it may run out of gas.
\* A deployment comes to the address of the nonce it used.
MineNext ==
    \E i \in Waiting, wrote \in BOOLEAN, gasLeft \in BOOLEAN :
        /\ \A j \in Waiting : i <= j
        /\ gasLeft \/ trouble < MaxTrouble
        /\ trouble' = IF gasLeft THEN trouble ELSE trouble + 1
        /\ wrote => requests[i].step = "swapTick"
        /\ LET ok == gasLeft /\ Works(requests[i], testnet)
               after == IF ok THEN Outcome(requests[i], testnet, wrote) ELSE testnet
           IN  /\ requests' = [requests EXCEPT ![i].status = IF ok THEN "ok" ELSE "failed"]
               /\ testnet' = IF page # "packet" THEN after
                           ELSE [after EXCEPT !.nonce = @ + 1,
                                   !.before = [nonce |-> testnet.nonce, codes |-> Occupied]]
        /\ UNCHANGED <<page, tab, saved, signer>>

LastSent == requests[Len(requests)]

\* waitForReceipt returned; the record is kept before the page refreshes
WizardReceipt ==
    /\ tab.pc = "waiting" /\ LastSent.status # "waiting"
    /\ IF LastSent.status = "ok"
       THEN /\ saved' = (saved \/ tab.step \in {"swap", "swapBack", "swapTick"} \cup RouterContracts)
            /\ tab' = [tab EXCEPT !.pc = "refreshing"]
       ELSE tab' = Opened(AfterError(tab.step)) /\ UNCHANGED saved
    /\ UNCHANGED <<page, testnet, requests, signer, trouble>>

Refresh ==
    /\ tab.pc = "refreshing"
    /\ tab' \in IF page = "packet" THEN Connected ELSE {Opened(SendRule(tab.step).done)}
    /\ UNCHANGED <<page, testnet, requests, saved, signer, trouble>>

\* 90 polls without a receipt; the oracle page waits for ever
ReceiptLate ==
    /\ tab.pc = "waiting" /\ page # "oracle" /\ LastSent.status = "waiting" /\ Trouble
    /\ tab' = Opened(AfterError(tab.step))
    /\ UNCHANGED <<page, testnet, requests, saved, signer>>

Reload ==
    /\ tab.pc \notin {"closed", "asking"} /\ Trouble
    /\ tab' = Unopened
    /\ UNCHANGED <<page, testnet, requests, saved, signer>>

SwitchAccount ==
    /\ Trouble /\ signer' = ~signer
    /\ UNCHANGED <<page, testnet, requests, tab, saved>>

\* Others trade, take the liquidity away, or initialise the pool, whose price
\* anyone moves while it is empty.  Nobody else pays the approved account.
MarketMoves ==
    /\ Trouble
    /\ \/ \E q \in 1..3 : q # testnet.quote /\ testnet' = [testnet EXCEPT !.quote = q]
       \/ page \in {"smoke", "reverse", "tick"} /\ testnet' = [testnet EXCEPT !.liquidity = 0]
       \/ \E p \in {ConfirmedPrice, 2} :
            /\ page = "liquidity" /\ p # testnet.price /\ testnet.liquidity = 0
            /\ testnet' = [testnet EXCEPT !.price = p]
    /\ UNCHANGED <<page, requests, tab, saved, signer>>

\* The owners of router 2 act: the exchange is disabled, the Risk Safe reduces
\* a limit, the governance Safe accepts the Risk Registry it is offered.
GovernanceActs ==
    /\ Trouble
    /\ \/ page = "quoteRouter" /\ QuoteReady /\ testnet' = [testnet EXCEPT !.registered = 0]
       \/ page = "executionRouter" /\ ExecutionReady
            /\ testnet' = [testnet EXCEPT !.riskOwner = "governance"]
       \/ \E limit \in testnet.risk \ {"setExecutor", "offerOwnership"} :
            testnet' = [testnet EXCEPT !.risk = @ \ {limit}]
       \/ AcceptOffered
            /\ testnet' = [testnet EXCEPT !.riskOwner = "governance", !.risk = @ \ {"offerOwnership"}]
    /\ UNCHANGED <<page, requests, tab, saved, signer>>

\* The deployer's key sends, or deploys, something of its own
OtherTransaction ==
    /\ page = "packet" /\ Waiting = {} /\ Trouble
    /\ \E codes \in {testnet.codes, testnet.codes \cup {[at |-> testnet.nonce + 1, row |-> 0]}} :
        testnet' = [testnet EXCEPT !.nonce = @ + 1, !.codes = codes,
                               !.before = [nonce |-> testnet.nonce, codes |-> Occupied]]
    /\ UNCHANGED <<page, requests, tab, saved, signer>>

WizardNext ==
    \/ Connect \/ ClickPacket \/ Confirm \/ Reject \/ MineNext \/ WizardReceipt \/ Refresh
    \/ ReceiptLate \/ Reload \/ SwitchAccount \/ MarketMoves \/ OtherTransaction
    \/ GovernanceActs
    \/ \E step \in tab.next : Click(step)

WizardSpec == WizardInit /\ [][WizardNext]_wizardVars
----------------------------------------------------------------------------
\* A swap is filled inside the reviewed range and liquidity is added at the
\* reviewed price, although the market moves between the review and the block.
ExecutedWithinReview ==
    \A v \in testnet.filled :
        IF page = "liquidity" THEN v = ConfirmedPrice ELSE v \in ReviewedQuotes

\* Once the page's trade is on the chain and nothing waits, no approval is
\* left, and the final-state page reports success while the pool is funded.
NoStandingApproval ==
    (Times("mint") + Times("swap") + Times("swapBack") > 0 /\ Waiting = {})
        => /\ testnet.allow = 0 /\ testnet.allow2 = 0
           /\ page # "liquidity" /\ testnet.liquidity > 0 => SwapsVerified

\* The pool is created and initialised once, the Safe made once, the liquidity
\* minted once, each smoke swap made once and the adapter registered once.
EffectOnce ==
    \A step \in {"create", "deploySafe", "initialize", "mint", "swap", "swapBack", "register"} :
        Times(step) <= 1

\* A contract of the packet comes to its predicted address, after the addresses
\* before it are occupied, whatever else the deployer's account sends.
PacketInOrder ==
    \A c \in testnet.codes :
        c.row > 0 => /\ c.at = c.row /\ c.row <= PacketLength
                     /\ 1..(c.row - 1) \subseteq Occupied

\* A later setting is made only where the earlier ones have been made, and the
\* governance Safe is offered the Risk Registry only when all of them have.
ConfiguredInOrder ==
    /\ \A j \in DOMAIN RiskSteps : Times(RiskSteps[j]) > 0 =>
         \A i \in 1..j : Times(RiskSteps[i]) > 0
    /\ Times("register") > 0 => testnet.allowed > 0
    /\ testnet.allowed > 0 => testnet.fee > 0
    /\ testnet.breaker > 0 => testnet.feed > 0

\* However late receipts come and however often the pages are reloaded or the
\* account sends something else, no page makes its effect twice, and each effect
\* is made where and when it belongs.
EffectsInPlace == EffectOnce /\ PacketInOrder /\ ConfiguredInOrder
=============================================================================
