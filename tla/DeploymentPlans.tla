-------------------------- MODULE DeploymentPlans --------------------------
(***************************************************************************)
(* What the deployment scripts send to the chain, as data: the plan of a   *)
(* script is the sequence of contract deployments and owner operations it  *)
(* performs, each with the key and the configuration its checkpoint is     *)
(* bound to, what the contract call requires of the chain (needs) and what *)
(* it writes (sets).  The chain is a function from slots, "<contract>.     *)
(* <field>", to values.  The full bootstrap is deploy-testnet.mjs; the     *)
(* shorter scripts deploy.mjs, deploy-minimal-testnet.mjs and              *)
(* deploy-futures-testnet.mjs are plans of the same kind that keep no      *)
(* checkpoint.                                                             *)
(***************************************************************************)
EXTENDS Sequences, SequencesExt, TLC

Slot(contract, field) == contract \o "." \o field

NoSlots == <<>>

\* Constructing a contract leaves it owned by the deploying wallet.
Owned(contract) ==
  (Slot(contract, "owner") :> "deployer") @@ (Slot(contract, "pending") :> "none")

OwnedBy(contract, owner) == Slot(contract, "owner") :> owner

EmptyRegistry ==
  Owned("registry") @@ [slot \in {Slot("dex", dex) : dex \in {"LQC_FLOW", "PANCAKE_V2", "PANCAKE_V3"}}
                          |-> "absent"]

Deploy(key, args, sets) ==
  [kind |-> "deploy", key |-> key, config |-> args, needs |-> NoSlots, sets |-> sets,
   expires |-> FALSE]

Operate(key, config, needs, sets) ==
  [kind |-> "operate", key |-> key, config |-> config, needs |-> needs, sets |-> sets,
   expires |-> FALSE]

\* An owner call that writes one field of the contract.
Configure(contract, field, value) ==
  Operate(Slot(contract, field), value, OwnedBy(contract, "deployer"),
          Slot(contract, field) :> value)

\* The new token of the bootstrap: both test tokens come from one source.
TestToken(name) == Deploy("testnet/LQCTestToken", name, Slot(name, "allowance") :> "none")

Tokens(s) == (IF s.prepared THEN <<>> ELSE <<TestToken("lqc")>>) \o <<TestToken("usdt")>>

VaultSteps(s) ==
  << Deploy("liquidityVault", s.vaultCap,
            Owned("vault") @@ (Slot("vault", "depositCap") :> s.vaultCap)),
     Deploy("idleStrategyAdapter", "usdt", Slot("idleAdapter", "vault") :> "vault"),
     Configure("vault", "strategy", "idleAdapter"),
     Configure("vault", "strategyLimits", s.strategyCap),
     Configure("vault", "pauseAdmin", s.riskAdmin),
     Configure("vault", "strategyAdmin", s.riskAdmin) >>

RouterSteps(s) ==
  << Deploy("factory", s.owner, OwnedBy("factory", s.owner)),
     Deploy("router", "wbnb", Slot("router", "factory") :> "factory"),
     Deploy("registry", "deployer", EmptyRegistry),
     Deploy("timelock", s.owner, Slot("timelock", "proposer") :> s.owner),
     Deploy("riskRegistry", s.riskAdmin,
            Owned("riskRegistry") @@ (Slot("riskRegistry", "riskAdmin") :> s.riskAdmin)),
     Deploy("emergency", s.owner,
            OwnedBy("emergency", s.owner) @@ (Slot("emergency", "guardian") :> "none")),
     Configure("registry", "pauseAdmin", "emergency"),
     Configure("riskRegistry", "pauseAdmin", "emergency"),
     Deploy("quoteRouter", "registry", Slot("quoteRouter", "registry") :> "registry"),
     Deploy("executionRouter", "registry", Slot("executionRouter", "registry") :> "registry"),
     Deploy("nativeRouter", "executionRouter",
            Slot("nativeRouter", "execution") :> "executionRouter"),
     Configure("riskRegistry", "executor", "executionRouter"),
     Deploy("splitOptimizer", "registry", Slot("splitOptimizer", "registry") :> "registry"),
     Deploy("autoRouter", "executionRouter", Slot("autoRouter", "execution") :> "executionRouter"),
     Deploy("gasOracle", "wbnb", Owned("gasOracle")),
     Deploy("flowAdapter", "router", Slot("flowAdapter", "router") :> "router") >>

\* addDex reverts for an identifier the registry already holds.
AddDex(dex, adapter) ==
  Operate("registry.addDex." \o dex, adapter,
          OwnedBy("registry", "deployer") @@ (Slot("dex", dex) :> "absent"),
          Slot("dex", dex) :> "disabled")

V2Steps(s) ==
  IF s.v2 THEN << Deploy("v2Adapter", "v2Router", Slot("v2Adapter", "router") :> "v2Router"),
                  AddDex("PANCAKE_V2", "v2Adapter") >>
          ELSE <<>>

\* The fee tiers, then the reviewed pools, one owner call each.
V3Steps(s) ==
  IF s.pools = {} THEN <<>>
  ELSE << Deploy("v3Adapter", "v3Router", Owned("v3Adapter")),
          Configure("v3Adapter", "feeTier", "allowed") >>
       \o [i \in 1 .. Len(SetToSeq(s.pools)) |->
             Configure("v3Adapter", SetToSeq(s.pools)[i], "allowed")]
       \o << AddDex("PANCAKE_V3", "v3Adapter") >>

DexesOf(s) ==
  <<"LQC_FLOW">> \o (IF s.v2 THEN <<"PANCAKE_V2">> ELSE <<>>)
                 \o (IF s.pools # {} THEN <<"PANCAKE_V3">> ELSE <<>>)

LimitSteps(s) ==
  FlattenSeq([t \in 1 .. 3 |->
    LET token == <<"lqc", "usdt", "wbnb">>[t]
    IN  << Configure("riskRegistry", "limit." \o token, s.limit) >>
        \o [d \in 1 .. Len(DexesOf(s)) |->
              Configure("riskRegistry", "cap." \o DexesOf(s)[d] \o "." \o token, s.limit)]])

EnableSteps(s) ==
  [d \in 1 .. Len(DexesOf(s)) |->
     Operate("registry.enable." \o DexesOf(s)[d], TRUE, OwnedBy("registry", "deployer"),
             Slot("dex", DexesOf(s)[d]) :> "enabled")]

\* Two steps: the wallet offers the contract, the timelock accepts it.
HandOver(contract) ==
  << Operate(contract \o ".beginOwnershipTransfer", "timelock", OwnedBy(contract, "deployer"),
             Slot(contract, "pending") :> "timelock"),
     Operate(contract \o ".acceptOwnership", contract, Slot(contract, "pending") :> "timelock",
             OwnedBy(contract, "timelock") @@ (Slot(contract, "pending") :> "none")) >>

HandOverSteps(s) ==
  HandOver("registry") \o HandOver("riskRegistry") \o HandOver("gasOracle")
  \o (IF s.pools = {} THEN <<>> ELSE HandOver("v3Adapter"))
  \o HandOver("vault")

\* Both pools draw on the one tLQC allowance; each call spends its part.
LiquiditySteps(s) ==
  LET Mint(token) == Operate("token." \o token \o ".mint", s.supply, NoSlots,
                             Slot(token, "minted") :> TRUE)
      Approve(token, amount) == Operate("token." \o token \o ".approveLiquidity", amount,
                                        NoSlots, Slot(token, "allowance") :> amount)
  IN  (IF s.prepared THEN <<>> ELSE <<Mint("lqc")>>)
      \o << Mint("usdt"), Approve("lqc", "both"), Approve("usdt", "pool"),
            [Operate("liquidity.lqcUsdt", s.supply,
                     (Slot("lqc", "allowance") :> "both") @@ (Slot("usdt", "allowance") :> "pool"),
                     (Slot("lqc", "allowance") :> "rest") @@ (Slot("usdt", "allowance") :> "none")
                     @@ (Slot("pair", "lqcUsdt") :> "funded"))
               EXCEPT !.expires = TRUE],
            [Operate("liquidity.lqcBnb", s.supply, Slot("lqc", "allowance") :> "rest",
                     (Slot("lqc", "allowance") :> "none") @@ (Slot("pair", "lqcBnb") :> "funded"))
               EXCEPT !.expires = TRUE] >>

TestnetPlan(s) ==
  Tokens(s) \o VaultSteps(s) \o RouterSteps(s) \o <<AddDex("LQC_FLOW", "flowAdapter")>>
  \o V2Steps(s) \o V3Steps(s) \o LimitSteps(s) \o EnableSteps(s) \o HandOverSteps(s)
  \o LiquiditySteps(s)

\* deploy.mjs: no risk registry and no timelock; the registry is only offered.
PreviewPlan(s) ==
  << Deploy("factory", s.owner, OwnedBy("factory", s.owner)),
     Deploy("router", "wbnb", Slot("router", "factory") :> "factory"),
     Deploy("registry", "deployer", EmptyRegistry),
     Deploy("quoteRouter", "registry", Slot("quoteRouter", "registry") :> "registry"),
     Deploy("executionRouter", "registry", Slot("executionRouter", "registry") :> "registry"),
     Deploy("splitOptimizer", "registry", Slot("splitOptimizer", "registry") :> "registry"),
     Deploy("autoRouter", "executionRouter", Slot("autoRouter", "execution") :> "executionRouter"),
     Deploy("flowAdapter", "router", Slot("flowAdapter", "router") :> "router"),
     AddDex("LQC_FLOW", "flowAdapter") >>
  \o V2Steps(s)
  \o (IF s.owner = "deployer" THEN <<>>
      ELSE << Operate("registry.beginOwnershipTransfer", s.owner, OwnedBy("registry", "deployer"),
                      Slot("registry", "pending") :> s.owner) >>)

\* deploy-minimal-testnet.mjs: one pool of the prepared token.
MinimalPlan(s) ==
  << Deploy("factory", "deployer", OwnedBy("factory", "deployer")),
     Deploy("router", "wbnb", Slot("router", "factory") :> "factory"),
     Operate("token.lqc.approve", "rest", NoSlots, Slot("lqc", "allowance") :> "rest"),
     [Operate("liquidity.lqcBnb", s.supply, Slot("lqc", "allowance") :> "rest",
              (Slot("lqc", "allowance") :> "none") @@ (Slot("pair", "lqcBnb") :> "funded"))
        EXCEPT !.expires = TRUE] >>

\* deploy-futures-testnet.mjs: owned by governance from construction.
FuturesPlan(s) ==
  << Deploy("futuresRegistry", s.owner, OwnedBy("futuresRegistry", s.owner)),
     Deploy("futuresVault", s.owner, OwnedBy("futuresVault", s.owner)),
     Deploy("futuresOracle", "mock", Slot("futuresOracle", "kind") :> "mock"),
     Deploy("futuresEngine", "registry", Slot("futuresEngine", "vault") :> "futuresVault") >>

\* preflight-futures-testnet-deploy.mjs.  Amounts are in hundredths of a tBNB,
\* the reserve of 0.3 being the least that is accepted.
LeastReserve == 30

\* The roles apart, a reserve and a spend cap within their bounds
FuturesConfigValid(s) ==
  /\ s.owner # "deployer"
  /\ s.reserve >= LeastReserve
  /\ s.spendCap > 0 /\ s.spendCap <= 100

FuturesBudget(balance, cost, s) == cost <= s.spendCap /\ balance >= cost + s.reserve

\* The four deployments, and a fifth transaction for the vault's engine
FuturesEstimate(s) == (Len(FuturesPlan(s)) + 1) * s.gas

Plan(s) ==
  CASE s.script = "testnet" -> TestnetPlan(s)
    [] s.script = "preview" -> PreviewPlan(s)
    [] s.script = "minimal" -> MinimalPlan(s)
    [] s.script = "futures" -> FuturesPlan(s)
=============================================================================
