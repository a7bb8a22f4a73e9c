-------------------------- MODULE MobileDeployment --------------------------
(***************************************************************************)
(* The two deployment pages made for a mobile wallet (the Futures contracts*)
(* and the production Oracle) and their budget: a page notes the deployer's*)
(* balance when it is first used, and before every transaction compares    *)
(* what has been spent since, and what the next one is estimated to cost,  *)
(* with a cap and a protected reserve.  Both pages use the same account and*)
(* keep their records in the browser.                                      *)
(*                                                                         *)
(* Abstracted: amounts are small integers; the checks of the wallet, of the *)
(* form, of the external contracts and of recorded deployments may turn a  *)
(* page away whenever it makes them; gas is what a transaction really      *)
(* costs, up to its estimate unless the wallet takes a higher price.       *)
(***************************************************************************)
EXTENDS Integers, FiniteSets, AccountSums

CONSTANTS
  SpendCap,   \* per page: what it may spend
  Reserve,    \* what must stay on the account
  Opening,    \* the account's first balance
  MaxCost,    \* bound: the dearest estimate
  MaxUpset    \* bound: late receipts, price rises, reverts and payments

BudgetPages == {"futures", "oracle"}
StepsOf(p) == IF p = "futures" THEN 4 ELSE 2

ASSUME MobileAssumption ==
  /\ SpendCap \in [BudgetPages -> Nat \ {0}] /\ Reserve \in Nat /\ Opening \in Nat \ {0}
  /\ MaxCost \in Nat \ {0} /\ MaxUpset \in Nat

VARIABLES
  pages,    \* per page: [at, done, cost]
  start,    \* per page: the balance it noted in the browser, or Unnoted
  balance,  \* the deployer's
  pending,  \* transactions sent and not mined: [page, turn, fee]
  receiptsDue, \* transactions mined and not seen by their page
  paid,     \* history: gas paid by a page's transactions
  unseen,   \* history: what a page's budget could not see
  crowded,  \* history: a budget passed while something else was under way
  upsets

mobileVars == <<pages, start, balance, pending, receiptsDue, paid, unseen, crowded, upsets>>

Unnoted == -1
IdlePage == [at |-> "idle", done |-> 0, cost |-> 0, turn |-> 0]

MobileInit ==
  /\ pages = [p \in BudgetPages |-> IdlePage] /\ start = [p \in BudgetPages |-> Unnoted]
  /\ balance = Opening /\ pending = {} /\ receiptsDue = {}
  /\ paid = [p \in BudgetPages |-> 0] /\ unseen = [p \in BudgetPages |-> 0]
  /\ crowded = FALSE /\ upsets = 0

Upset == upsets < MaxUpset /\ upsets' = upsets + 1
Upsetting(happens) == (happens /\ Upset) \/ (~happens /\ UNCHANGED upsets)

\* Mutant: only the estimate is held against the cap, not what was spent before.
FuturesBudgetPerStep(from, cost) ==
  /\ cost > 0 /\ cost <= SpendCap["futures"] /\ balance >= cost + Reserve
  /\ balance <= from

\* A reserve after this step, a cap on this step and on all steps together.
FuturesBudget(from, cost) ==
  /\ cost > 0 /\ cost <= SpendCap["futures"] /\ balance >= cost + Reserve
  /\ from > 0 /\ balance <= from /\ (from - balance) + cost <= SpendCap["futures"]

OracleBudget(from, cost) ==
  /\ from > 0 /\ balance > 0 /\ balance <= from /\ cost > 0
  /\ (from - balance) + cost <= SpendCap["oracle"] /\ balance - cost >= Reserve

WithinBudget(p, from, cost) ==
  IF p = "futures" THEN FuturesBudget(from, cost) ELSE OracleBudget(from, cost)

\* The baseline is noted before the first deployment, and never again; with a
\* deployment recorded and none noted, no budget is passed.
BaselineOf(p) == IF start[p] = Unnoted /\ pages[p].done = 0 THEN balance ELSE start[p]

\* A fresh estimate; the step is offered only if the budget allows it.
Offered(p, done, from) ==
  \E cost \in 1 .. MaxCost :
    pages' = [pages EXCEPT ![p] =
                [@ EXCEPT !.done = done, !.cost = 0,
                          !.at = IF done < StepsOf(p) /\ WithinBudget(p, from, cost)
                                 THEN "offered" ELSE "idle"]]

\* connect
Inspect(p) ==
  /\ pages[p].at \in {"idle", "offered"}
  /\ start' = [start EXCEPT ![p] = IF pages[p].done < StepsOf(p) THEN BaselineOf(p) ELSE @]
  /\ Offered(p, pages[p].done, BaselineOf(p))
  /\ UNCHANGED <<balance, pending, receiptsDue, paid, unseen, crowded, upsets>>

\* A check before the budget fails, in connect or in deploy.
TurnedAway(p) ==
  /\ pages[p].at = "offered" /\ pages' = [pages EXCEPT ![p] = [@ EXCEPT !.at = "idle"]]
  /\ UNCHANGED <<start, balance, pending, receiptsDue, paid, unseen, crowded, upsets>>

\* The wallet is on another chain or account.
WrongWallet(p) == TurnedAway(p)

\* A recorded contract has no code, or another owner or parameter.
RecordUnverified(p) == pages[p].done > 0 /\ TurnedAway(p)

\* The Oracle page's form is not complete, or its feed or pool not ready.
ConfigRejected(p) == p = "oracle" /\ TurnedAway(p)
ExternalNotReady(p) == p = "oracle" /\ TurnedAway(p)

FeesOf(txs) == TotalOf([t \in txs |-> t.fee])

\* deploy: the budget once more, with the price of the moment; then the wallet asks.
AskWallet(p) ==
  /\ pages[p].at = "offered"
  /\ \E cost \in 1 .. MaxCost :
       IF WithinBudget(p, start[p], cost)
       THEN /\ pages' = [pages EXCEPT ![p] = [@ EXCEPT !.at = "asked", !.cost = cost]]
            /\ crowded' = (crowded \/ pending # {}
                            \/ \E q \in BudgetPages \ {p} : pages[q].at = "asked")
       ELSE /\ pages' = [pages EXCEPT ![p] = [@ EXCEPT !.at = "idle"]]
            /\ UNCHANGED crowded
  /\ UNCHANGED <<start, balance, pending, receiptsDue, paid, unseen, upsets>>

\* The page fixes the gas limit; the price is the wallet's.
Approve(p) ==
  /\ pages[p].at = "asked"
  /\ \E rises \in BOOLEAN, saved \in 0 .. 1 :
       LET fee == IF rises THEN pages[p].cost + 1 ELSE pages[p].cost - saved
       IN /\ Upsetting(rises) /\ fee > 0 /\ (rises => saved = 0)
          /\ fee + FeesOf(pending) <= balance
          /\ pending' = pending \union {[page |-> p, turn |-> pages[p].turn, fee |-> fee]}
          /\ unseen' = [unseen EXCEPT ![p] = IF rises THEN @ + 1 ELSE @]
          /\ crowded' = (crowded \/ rises)
  /\ pages' = [pages EXCEPT ![p] = [@ EXCEPT !.at = "waiting"]]
  /\ UNCHANGED <<start, balance, receiptsDue, paid>>

Decline(p) ==
  /\ pages[p].at = "asked" /\ pages' = [pages EXCEPT ![p] = [@ EXCEPT !.at = "idle", !.cost = 0]]
  /\ UNCHANGED <<start, balance, pending, receiptsDue, paid, unseen, crowded, upsets>>

MineDeployment ==
  \E t \in pending :
    /\ pending' = pending \ {t} /\ receiptsDue' = receiptsDue \union {t}
    /\ balance' = balance - t.fee /\ paid' = [paid EXCEPT ![t.page] = @ + t.fee]
    /\ UNCHANGED <<pages, start, unseen, crowded, upsets>>

\* A good receipt is recorded and the page looks at everything again.  Nothing is
\* recorded when the transaction reverted or its contract is not as expected.
SeeReceipt(p) ==
  /\ pages[p].at = "waiting"
  /\ \E t \in receiptsDue, refused \in BOOLEAN :
       /\ t.page = p /\ t.turn = pages[p].turn /\ receiptsDue' = receiptsDue \ {t}
       /\ Upsetting(refused)
       /\ IF refused
          THEN pages' = [pages EXCEPT ![p] = [@ EXCEPT !.at = "idle", !.turn = pages[p].turn + 1]]
          ELSE \E cost \in 1 .. MaxCost :
                 LET done == pages[p].done + 1
                 IN pages' = [pages EXCEPT ![p] =
                      [at |-> IF done < StepsOf(p) /\ WithinBudget(p, start[p], cost)
                              THEN "offered" ELSE "idle",
                       done |-> done, cost |-> 0, turn |-> @.turn + 1]]
  /\ UNCHANGED <<start, balance, pending, paid, unseen, crowded>>

\* Ninety looks without a receipt, or the page is loaded again: nothing is
\* recorded, whatever becomes of the transaction.
GiveUpWaiting(p) ==
  /\ pages[p].at = "waiting" /\ Upset
  /\ pages' = [pages EXCEPT ![p] = [@ EXCEPT !.at = "idle", !.turn = pages[p].turn + 1]]
  /\ unseen' = [unseen EXCEPT ![p] = @ + FeesOf({t \in pending : t.page = p /\ t.turn = pages[p].turn})]
  /\ UNCHANGED <<start, balance, pending, receiptsDue, paid, crowded>>

\* Somebody pays the deployer.
Income ==
  /\ Upset /\ balance' = balance + 1
  /\ unseen' = [p \in BudgetPages |-> unseen[p] + 1]
  /\ UNCHANGED <<pages, start, pending, receiptsDue, paid, crowded>>

MobileNext ==
  \/ \E p \in BudgetPages : Inspect(p) \/ AskWallet(p) \/ Approve(p) \/ Decline(p)
                              \/ SeeReceipt(p) \/ GiveUpWaiting(p)
                              \/ WrongWallet(p) \/ RecordUnverified(p)
                              \/ ConfigRejected(p) \/ ExternalNotReady(p)
  \/ MineDeployment \/ Income

MobileSpec == MobileInit /\ [][MobileNext]_mobileVars

-----------------------------------------------------------------------------
(***************************************************************************)
(* What a page's transactions cost together never passes its cap by more   *)
(* than its budget could not see: earlier transactions still unmined after *)
(* their receipt was given up, a price the wallet raised, money paid in.   *)
(* And the reserve stays, as long as every budget was checked with nothing *)
(* else under way (mobile-testnet-deployment.js:28-55,                     *)
(* production-oracle-mobile-deployment.js:39-49).                          *)
(***************************************************************************)
BudgetKept ==
  /\ \A p \in BudgetPages : paid[p] <= SpendCap[p] + unseen[p]
  /\ ~crowded /\ (\E p \in BudgetPages : paid[p] > 0) => balance >= Reserve
=============================================================================
