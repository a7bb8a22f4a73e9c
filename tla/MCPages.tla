------------------------------- MODULE MCPages -------------------------------
(***************************************************************************)
(* Model checking of the browser pages and of the services they call: the  *)
(* quote API, the swap page, the proof of a settled swap, the operator     *)
(* pages, and the budgets of the mobile pages.  They share no state: every *)
(* behaviour takes one of them, and the others stay as they start.         *)
(***************************************************************************)
EXTENDS QuoteGateway, SwapFlow, SettlementProof, Wizards, MobileDeployment

CONSTANTS a, b, c   \* callers of the quote API

VARIABLE machine

\* Two callers of one approved client, and one whose key is not approved
MCCallerKey == [x \in {a, b, c} |-> IF x = c THEN "unknown" ELSE "client"]

\* Each route of the swap page spends through a contract of its own
MCSpender == [r \in Routes |-> r]

\* The logs a watched transaction can leave: output in two transfers, in one
\* that is too little, from the native router, and from it in the wrong direction
\* (each of the former has no event, each of the latter no transfer)
MCPayments ==
  {[transfers |-> tr, events |-> <<>>] : tr \in {<<1, 1>>, <<1>>}}
    \cup {[transfers |-> <<>>, events |-> <<[sold |-> way, out |-> 2]>>] : way \in BOOLEAN}

AllPages == {"liquidity", "smoke", "reverse", "pool", "safe", "registry", "config",
             "cardinality", "tick", "capacity", "packet", "oracle", "pyth", "fresh",
             "dexRegistry", "v3Adapter", "quoteRouter", "executionRouter", "verifier", "riskConfig"}

\* The wallet's selection changes where the next step of swap() that looks at
\* it is still to come; elsewhere nothing can tell when it changed.
BeforeSession == {"pending", "plan", "approve", "simulate"}

MCSpendCap == [p \in BudgetPages |-> IF p = "futures" THEN 4 ELSE 2]

MCInit ==
  /\ machine \in {"gateway", "swap", "proof", "pages", "mobile"}
  /\ GatewayInit /\ ProofInit /\ MobileInit
  /\ SwapInit /\ (machine # "swap" => \A r \in Routes : offer[r] = 4)
  /\ WizardInit /\ (machine # "pages" => page = "liquidity")

MCNext ==
  /\ UNCHANGED machine
  /\ \/ machine = "gateway" /\ GatewayNext
          /\ UNCHANGED <<swapVars, proofVars, wizardVars, mobileVars>>
     \/ machine = "swap" /\ SwapNext /\ (SelectAccount => swap.pc \in BeforeSession)
          /\ UNCHANGED <<gatewayVars, proofVars, wizardVars, mobileVars>>
     \/ machine = "proof" /\ ProofNext
          /\ UNCHANGED <<gatewayVars, swapVars, wizardVars, mobileVars>>
     \/ machine = "pages" /\ WizardNext
          /\ UNCHANGED <<gatewayVars, swapVars, proofVars, mobileVars>>
     \/ machine = "mobile" /\ MobileNext
          /\ UNCHANGED <<gatewayVars, swapVars, proofVars, wizardVars>>

MCSpec == MCInit /\ [][MCNext]_<<machine, gatewayVars, swapVars, proofVars, wizardVars, mobileVars>>
=============================================================================
