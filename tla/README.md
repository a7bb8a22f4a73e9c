# LQC Liquidity Chain: TLA+ models and proofs

Specifications of LQC: its contracts (`src/dex/contracts`), the services and
browser pages around them (`src/dex/app`, `src/dex/scripts`) and the scripts
operators run. They are checked with TLC on small instances and, for the
properties that matter most, proved with TLAPS for every value of the constants.
The models are translated from the Solidity and JavaScript source; documents are
quoted only where a run or a property compares the code with them.

Contents: 1 inventory, 2 how code becomes a module, 3 modules, 4 runs and
bounds, 5 fairness, 6 proofs, 7 findings, 8 what is only model-checked and what
is not modelled, 9 plan.

## 1. Inventory

| component | sources | state | operations | talks to |
|---|---|---|---|---|
| Lending core | `contracts/lending/`: core, interest index, rate model, market registry, liquidation engine | per market: totals of collateral, supply, debt and bad-debt shares, reserves, realized losses, two indexes; per account: four share balances | collateral, liquidity, borrow, repay, liquidate, repay/settle/realize bad debt, reserves, configure | oracles and rate model inside each transaction; tokens |
| Lending oracles | `LQCOracleManager`, `LQCTestnetPriceFeed` | two feeds per asset | `getPrices` | lending |
| Intent escrow | `contracts/intent-v1/`: escrow, state machine, hub, binding, solver, receipts | record and status per intent, nonces, operator, binding, recorder, pause | lock, cancel, expire, execute unrouted or routed, record, administration | foreign code behind the solver, inside the transaction |
| Staking vault and rewards | `contracts/staking/` | stakes, locks, pending exits, modes; schedule, accumulator, checkpoints, reserve | stake, extend, request / cancel / complete, fund, claim, governance | the vault calls the reward module before a stake changes |
| Liquidity vault | `contracts/vault/`, idle adapter | shares, accounted assets, strategy debt, limits | deposit, withdraw, redeem, transfer, allocate, recall, reconcile | one strategy that reports its own value |
| Futures contracts | `contracts/futures/`: engine, vault, market registry | available and locked balances, funding pool, insurance, bad debt; positions, open interest, funding index; market switches | deposit, withdraw, open, reduce, close, liquidate, funding, deleverage, configure | price oracle; the engine calls the vault |
| Futures demo | `app/futures/`: desk, order/position/account/risk engines, fee, funding, liquidation and insurance controllers, oracle guard, market view, event stream, trading API | margin account, positions, resting orders, fund, source reports, selection, replay entries, event numbers | submit, fill, close, deposit, liquidate, resolve a loss, publish, select, call, deliver | the page calls the engines; prices from the guard |
| Quote API | `scripts/quote-api-*.mjs` | usage, in-flight and answered requests | quote, purge, health | callers with retries; a provider |
| Swap page | `app/app.js`, `app/router-sdk.js` | quote version, plan, proof, session, pending marker in localStorage | quote, swap, reload | wallet, node, quote service, chain |
| Settlement proof | `app/router-sdk.js` | evidence | decode, build, verify | one RPC node on a chain that reorganizes |
| Operator pages | twenty pages of `app/*-testnet.js` and their kin | buttons, localStorage entry | connect, read, send the next step | wallet, chain, strangers |
| Mobile deployment pages | `app/futures/mobile-testnet-deployment.js`, `app/futures/mobile-testnet-deployer-page.js`, `app/production-oracle-mobile-deployment.js`, `app/production-oracle-mobile-deployer-page.js` | baseline balance, records, in localStorage | deploy the next contract within a budget | wallet, chain |
| Deployment scripts | `scripts/deploy*.mjs`, `deployment-checkpoint.mjs` | checkpoint file, record | run, resume | chain |
| Release procedure | preflight, validator, monitor, smoke test, activation, drill report, evidence package | deployment record, allowance, evidence | each script once or again | chain, Guardian, Safe |
| Evidence runs | `research/futures-evaluation/*-fixture/run-linux-*.cjs` and suites | files of phases, time used | run a phase, collect | child processes |

Not modelled components (solver market, Flow AMM, router v2 and its governance,
gasless policy, oracle adapters, offline evaluation, verification scripts,
remaining pages, mocks) are listed with reasons in `PROJECT.json` and section 8.

Behaviours that are hard, and what would be correct:

- *Lending.* Ten handlers keep four mappings, six totals and two indexes in step,
  all rounded; other accounts, prices and time interleave with one's own
  transactions. Correct: the pool does not leak value by rounding; residual debt
  is on record exactly when the collateral is gone; suppliers bear a loss only
  after the reserves and within the limit; repayment stays possible in a pause.
- *Intents.* Foreign code runs in the middle of a routed execution; anything below
  may revert; deadlines race with execution. Correct: each deposit is settled
  once, delivered in time or returned whole, and sooner or later.
- *Staking, liquidity vault.* Cooldowns and modes change between request and
  completion; every division rounds; a strategy reports its own value. Correct:
  principal leaves only matured, rewards stay within the reserve, the share price
  falls only by a recognized loss, nobody trades at a price whose assets are gone.
- *Futures contracts.* Two contracts keep the books of one position, and a deficit
  is split by three functions between insurance, coverage and bad debt. Correct:
  the two books agree and every unit beyond the deposits is a deficit on record.
- *Futures demo.* Handlers throw half way through a change; one price update fills
  orders, triggers stops and liquidations while it walks over the books; loads,
  events and requests arrive late, twice or not at all. Correct: margin stays
  backed, one pass leaves nothing due, a loss is covered once, a request is
  carried out once, no gap of a stream goes unnoticed.
- *Pages and quote API.* Every `await` lets other handlers, tabs, reloads, the
  wallet and the chain act; a receipt may come after the page gave up. Correct:
  one swap under way, one live answer per idempotency key, each effect made once.
- *Operations.* Processes die between a transaction and the file that records it;
  children hang or leave damaged files. Correct: at most one repetition per lost
  hash, the chain the settings describe, verdicts that were earned.

The hazards, each at its line with the properties aimed at it, are in
`PROJECT.json`.

## 2. How code becomes a module

*Contracts.* Transactions are atomic and serialized, so an external function is
**one action**: its reverts (and the checked subtractions of Solidity 0.8) are
the guards, its storage writes the primed variables, and the calls it makes to
other contracts are part of it, such as the accrual at the start of every lending
handler. The exception is the intent escrow, where foreign code runs inside a
transaction: the routed execution is a start, steps of the others while it is
open, and an end or a revert that restores the snapshot.

*JavaScript in a browser or a server.* A handler runs alone from one `await` to
the next, so each such **stretch is one action**, with a program counter for the
place where the handler is suspended, and everything else may act in between:
other handlers, another tab, a reload that keeps only localStorage, the wallet,
the chain and the clock. A handler without `await` is one action; where it throws
half way, what it had changed before stays changed (`DemoDesk` notes the error as
`outcome`).

*Scripts.* A script is a walk over its plan. It may die between any two effects
that the outside sees: a broadcast, a file, a receipt. What survives is what is on
disk or on the chain.

Amounts are exact natural numbers, prices and rates small, time a bounded counter.
A mapping's total is defined in `AccountSums` as a count of units, which TLC
evaluates and TLAPS can reason about. Loops that change what they walk over (a
desk's handlers over their lists, a deleveraging plan over its candidates) are
recursive functions on the number of elements done; no module declares RECURSIVE
operators. Each step of a script's plan says which slots it writes, and the
intended chain is what each slot's last writer leaves.
Events, names, decimals and the width of integers (except the `uint128` totals of
the lending core) are left out. Role checks appear as the choice of who acts.

Operators whose comment begins with `Mutant:` are not part of a model. Each is a
plausible mistake in the definition that follows it; substituting it must make
TLC find the listed property violated, which shows that the property has teeth.

## 3. Modules

Contracts:

| module | contents |
|---|---|
| `AccountSums` | `TotalOf(f)`: the total of a mapping from accounts to amounts |
| `LendingRules`, `LendingCore` | pure rules (index, rates, prices, health, liquidation amounts); the core with the contracts it calls, one action per function |
| `IntentPromise`, `IntentEscrow` | abstract promise to a user; escrow, state machine, hub, binding, solver and recorder with an open call |
| `StakingVault`, `Staking` | the vault alone; the composition with the reward module (every vault action that checkpoints is conjoined with the reward update) |
| `LiquidityVault` | shares, strategy, limits, and the environment of strategy and token |
| `PerpEngine` | futures engine over its vault, and the market registry |

Futures demo:

| module | contents |
|---|---|
| `MarginAccount`, `DemoDesk` | margin account and position arithmetic as operators; the desk's handlers over account, book and resting orders |
| `FuturesSettlement` | fees, funding, cross liquidation with rollback, the insurance fund previewed and committed, deleveraging plans |
| `PriceGuard` | source reports, filters, median and mark; emergency state and exposure limit |
| `MarketView`, `StreamFeed` | selections, loads and the open stream of the page; numbered events and the client's guard |
| `TradingApi` | signed requests, their checks around two awaits, and the replay guard |

Pages, services, operations:

| module | contents |
|---|---|
| `QuoteGateway` | callers with retries, network, gateway |
| `SwapFlow`, `SettlementProof` | quote and swap of the page; evidence of a settlement read from a chain that reorganizes |
| `WizardPages`, `Wizards` | what each of twenty pages requires before it sends (as operators); page, wallet and chain around them |
| `MobileDeployment` | the two mobile pages and their budgets |
| `DeploymentPlans`, `Deployment`, `Release` | what the scripts send, as data; the script with crashes and restarts; the procedure around it (EXTENDS `Deployment`) |
| `CollectionRun` | the collection-consumption run and its inventory |
| `EvidenceSuite`, `PayoutRun`, `WithdrawalRun` | a suite; the payout phases; the withdrawal run that delegates to them (each EXTENDS the one before) |

`MC*` modules hold constants, constraints, symmetry and the combined machines;
`*_proofs` modules the theorems (`AccountSums_proofs`: lemmas on totals and
multiplication).

State and actions against the code, where it is not obvious:

- `LendingCore`: `market[m]` is `marketStates` with the other per-market totals,
  `index[m]` is `indexStates`, the `...Of` variables the per-account mappings,
  `balance` the core's token balances. `feed` is what an asset's two feeds answer;
  it moves freely within a given set. `CanAccrue` and `Accrue` are `_accrue`: all
  handlers conjoin them, so a rate model that reverts stops them, as in the code.
- `IntentEscrow`: `StartRoute` runs hub, escrow, state, payment and binding up to
  the foreign DEX, `FinishRoute` the rest of the binding with the receipt in
  `Record`, `Revert` restores everything. The operator chooses recipient, output
  token and minimum and no contract compares them with the user's wish, so the
  model does not either. Time does not pass inside a transaction.
- `Staking`: `VaultCheckpoint` is `_checkpoint`, which does nothing before
  `initializeRewardAccounting`; both roundings (accumulator and account) are kept.
- `LiquidityVault`: `managed[s]` is what adapter `s` reports, moved by `Revalue`;
  `idle` is the token balance, moved by `TokenMove`. `Exchange` is `_withdraw`;
  shares of `address(0)` are `lockedShares`.
- `PerpEngine`: `books` are the vault's balances and pools of one collateral
  token, `ok` in them says that no vault call has reverted. `due` is a history
  variable: what all accounts together paid in and made. Owner and guardian are
  two parties; `BPS` and the funding unit are 4. Deleveraging settles no funding
  and forfeits profit beyond the debt, and an empty funding pool blocks a receiver,
  liquidation included: both are in the model as they are in the code.
- `DemoDesk`: a handler is an operator on the desk as one record; it stops changing
  the record once an error is set, and what it changed before stays. `ForEach` and
  `Within` are the loops and filters of the code. A position keeps its cost,
  quantity times entry price, so that a merge needs no division; the 1e-9
  tolerances that absorb rounding of doubles are left out with the rounding.
- `FuturesSettlement`: `AdlPlan` takes the candidates of a deleveraging plan one after
  the other, the highest score of those left (`Ranked`) first, as `buildAdlPlan` does
  with its sorted list.
- `PriceGuard`: the sorted list of prices is used only through its ranks, and so
  `RankedPrice` says which price has a rank.
- `StreamFeed`: the gateway and the recovery rule are the repository's; the client
  that follows `sequenceRecovery` is not in it and is marked external. A new
  subscription starts without a number, and a snapshot can be refused while the
  oracle is unhealthy: then the client stays as it is.
- `TradingApi`: the time a call is judged by is read between its two awaits.
- `QuoteGateway`: continuations of all who await one promise run in one turn and
  are one step; the metrics are left out.
- `SwapFlow`: `pc` is the await at which `swap()` is; the clock is both time and
  block number. The stored marker is forgotten after `PendingLife` (15 minutes),
  the node's pending count misses what the node has not seen.
- `SettlementProof`: evidence is a plain settlement or one enclosed in evidence bound
  to an intent, each with its own hash, and there are two verifications, for a
  token and for the native coin. The verifier reads receipt, block and height in
  three calls.
  `raced` says that the chain reorganized between the second and the third.
- `Wizards`: the `signer` boolean says that the wallet holds the approved account
  on BSC Testnet; nobody else pays that account; a second connect during a wait
  has the effect of a late receipt and is not a step of its own.
- `MobileDeployment`: baseline (`Unnoted` before the first look) and records are the
  pages' localStorage entries; what has been spent is the baseline less the latest
  balance. The checks before the budget (wallet, recorded contract, the Oracle
  page's form and feeds) are the actions that turn a page away.
- `Deployment`: the checkpoint object and its file change together, because every
  assignment is followed by the synchronous save. `Plans` gives each step its key,
  the configuration its checkpoint is bound to, what the call requires (`needs`)
  and writes (`sets`). `IntendedChains` is what a run that nothing disturbs leaves.
- `Release`: the validator's checks are operators of a chain (`VaultMatches`,
  `DexesMatch`, ...), so that they can be asked of the chain there is and of the one
  a plan intends.
- `WithdrawalRun`: what the run remembers of its phases (`items`), what it wrote about
  them (`kept`) and what the phases themselves recorded are three accounts, and its
  collection compares them.
- `CollectionRun`, `EvidenceSuite` and above: a list of cases has two entries, time
  is counted in tens of seconds, a document is valid, damaged or absent.

## 4. Runs and bounds

| run | states | question |
|---|---|---|
| `lending_two_sizes` | 154,368 | One market, a lender and a borrower, a small and a large amount, one unit of interest: every operation of the lending core, partial repayment, partial and exhausting liquidation and the three recovery paths of bad debt. |
| `lending_bad_debt_owed` | violation | A bad debtor deposits collateral again and is liquidated: the debt falls below the bad debt on record, which can then never be cleared. |
| `lending_pause_repay` | violation | At full utilization the reserve factor lets debt outgrow supply; the rate model then reverts and with it every repayment. |
| `intents` | 230,720 | Two intents, a routed execution that may finish or fail, rotation of operator, binding and recorder inside it, stray tokens and a foreign recorder: the escrow refines IntentPromise, sells nothing without a receipt, and under fairness of the clock, of the end of transactions and of the permissionless refund no intent is pending for ever. |
| `staking_exits` | 16,800 | Locks, cooldowns that governance changes, pauses and emergency mode against the exits of two stakers: principal leaves only after the cooldown of its request, and does leave. |
| `staking_rewards` | 382,090 | The vault with its reward module: two schedules, one possibly on top of the other, staking, leaving and returning in any order, with a unit so coarse that every division rounds. |
| `vault_shares` | 782,432 | Two depositors, a strategy that gains and loses, donations and shrinking tokens, recalls with a loss, shutdown, reconciliation and every governance setting: who bears a loss, and at which price shares are traded. |
| `futures` | 897,616 | Futures, one machine per behaviour. Of the demo: the trading desk, the settlement of losses by insurance fund and auto-deleveraging, the oracle guard, the market view, the signed trading API and the event stream. Of the contracts: the engine with its vault, and the market registry. |
| `pages` | 5,134,676 | The browser pages and their services, one per behaviour: idempotent quotes, the swap page with late answers, reloads and tabs, the proof of a settlement on a chain that reorganizes, twenty operator pages with late receipts, reloads and strangers, and the budgets of the mobile pages. |
| `gateway_health` | violation | With two quote requests in flight and room for one answered entry, the gateway stores more answers than its limit and its own health report is refused by its validator. |
| `operations` | 2,214,294 | What operators run, one machine per behaviour: checkpointed deployment scripts that die anywhere and are run again with other settings on a chain that may drop transactions, the release around them, and the evidence runs whose children hang, die and damage files. |
| `release_never_validates` | violation | A finished deployment with a prepared test token records no deployment transaction for it, and the validator that has to pass before the smoke test refuses the record, whatever is done next. |

In `futures`, `pages` and `operations` several machines that share no state are
checked together: every behaviour picks one in `machine`, and the others stay as
they start. The machines' own state counts add up to the run's.

Why the bounds are enough to be interesting:

- *Lending.* `RAY = 1000` and rates of tens of percent per unit of time, so that
  every index step rounds and a unit of time opens the spread between borrowers and
  suppliers. The collateral price is high, crashed or undefined (feeds disagree);
  the crash makes one or two liquidations exhaust the collateral, which reaches bad
  debt and all three recovery paths. Amounts 1 and 6 give partial and full
  repayments. `LenderAndBorrower` cuts cash, reserves, losses and roles; the
  step that leaves the constraint is still checked. A realized loss may exceed
  the 20 % limit by one unit of rounding, and `SuppliersLoseLast` allows that
  unit and no more.
- *Intents.* Two intents of one user in one token can be confused with each other;
  one open call with everything others may do during it gives reentrancy. One
  stray unit anywhere blocks a route. `MaxTime = 2` has an instant before, at and
  after the deadline. The theorems cover more users and tokens.
- *Staking.* Stakes of 1, 3 and 4 against `RAY = 10` make `rewardPerToken` round in
  every combination; two fundings of different duration may overlap. Cooldowns 1
  and 2 and a lock of 2 put a change of cooldown between request and completion.
  `staking_rewards` explores deployments that bind the module before they fund it
  (`FundedOnceBound`, section 6).
- *Vault.* `BPS = 2` with half as the highest configured loss (instead of 10,000
  and a fifth), amounts up to 3 and at most 9 shares: prices different from one
  arise from losses, and then every division rounds.
- *Futures contracts.* Two holders and two markets make one account's locked
  balance a sum; sizes and cuts of 4 and 2 give partial liquidation, reduction and
  close; prices 2, 4, 8 reach deficits beyond margin and insurance; 10 tokens (two
  deposits, or a deposit and as much sent to the vault) and
  three openings or index updates (`MaxRounds`) suffice for coverage, bad debt and
  deleveraging. `MCEngineNext` fixes the order of configuration and funding and
  lets withdrawals produce the smaller balances; the registry is a machine of its
  own, since it only decides whether positions open. The unconfigured second
  market takes no funding.
- *Futures demo.* Marks 8 to 24 with one lever and two triggers make fills, stops
  and both liquidations meet in one pass, and 12 is off the order tick. Three
  sources, one of them wild, with a minimum of two. A replay guard whose entries
  expire, with room for the three calls made. Four events, two faults, two listeners. `MCGuardNext`
  lets market and exposure move only after prices have been published and stayed:
  they follow the price and never lead it.
- *Pages.* Two request ids, one client with two callers and an unknown one, with
  one retry; two routes, two prices, two swaps and a reload; two blocks that may be
  replaced twice; six transactions and three mishaps per page; two upsets of a
  mobile budget. The wallet's selection changes only where a later step still looks
  at it (`BeforeSession`).
- *Operations.* Two runs of a script with different settings, one dropped
  transaction, one revert; a death at any step of the script alone, and inside the
  whole release at two steps far apart (`FaultSteps`). One damaged file with two
  attempts in the collection run (two damaged files, tried once, gave no error
  in 6.7 million states), three mishaps in the payout and withdrawal runs.

Symmetry is used only in runs without liveness. Deadlock is checked in the runs
of the contracts before futures: some transaction is always possible there. It is
not checked in `futures`, `pages`, `operations` and their violation runs: their
machines end when a clock, a number of attempts or a plan is used up, as a script
or a closed page does.

## 5. Fairness

Safety runs assume none. The two liveness properties assume only what the chain
gives:

- `EveryIntentSettles`: the clock runs (SF), a transaction that has begun ends
  (WF of `EndCall`), and somebody calls `expireAndRefund`, which anyone may do,
  for each intent again and again (SF). Nothing is assumed of operator, owner,
  guardian, recorder or DEX: they may pause, rotate and fail for ever.
- `RequestedExitsEnd`: the clock runs and the account keeps calling
  `completeUnstake`. Governance may pause and change cooldowns for ever.

The other components have no liveness property: their progress depends on
governance, prices, liquidity, wallets or providers, of which the code guarantees
nothing.

## 6. Proofs

Every theorem is proved for all values of the constants under the named
assumptions of its module, for arbitrary finite sets where the module sums over
them. Together they state 38 of the 40 properties the passing runs check, all but
the two liveness properties; the other theorems are about invariants no run lists
any more because the theorem covers them.

| module | theorem | states |
|---|---|---|
| `LendingCore_proofs` | `TypeCorrect`, `TotalsAlwaysMatch` | types; totals are sums |
| | `BadDebtRecovery` | a bad debtor takes no new debt, its record shrinks only with the debt |
| | `ResidualDebtIsRecorded` | debt without collateral is on record in full, **if** every unit of debt is worth something (`DebtIsPriced`) |
| | `NobodyIsEndangered` | no transaction makes an account liquidatable while prices stand |
| | `SuppliersPayLast` | what may lower the supply index, and by how much |
| | `PoolKeepsItsValue` | what a market owes less what it owns grows only by the roundings of a step |
| | `CustodyWhenIsolated` | collateral is in custody **if** no asset serves two markets (`IsolatedAssets`) |
| `IntentEscrow_proofs` | `IntentTypeCorrect`, `CustodyAlways`, `RecordsAlwaysMatch` | custody also while foreign code runs |
| | `PromiseIsKept` | `IntentEscrow` implements `IntentPromise` |
| | `NonceNamesOneIntent`, `EverySaleHasReceipt` | nonces are not reused; nothing is sold without a receipt |
| `Staking_proofs` | `VaultTypeCorrect`, `PrincipalAlwaysBacked`, `PrincipalOnlyMatures` | the vault alone |
| | `ImplementsVault` | the composition implements the vault, so the three hold of it too |
| | `StakingTypeCorrect`, `RewardsStayCovered`, `EarnedOnlyWithTime` | solvency and earnings, the last two under `[]FundedOnceBound` |
| `LiquidityVault_proofs` | `VaultTypes`, `SupplyAlwaysMatches`, `ExposureAlwaysBounded` | types, supply, exposure |
| | `PriceOnlyFallsByLoss`, `TradesAreBacked` | price and backing of each trade |
| `Futures_proofs` | `BooksAndPositionsAgree`, `EveryLossIsExplicit`, `GuardianNeverReopens` | the futures contracts |
| | `DeskMarginBacked`, `DeskOnePassSuffices` | the demo's desk: the isolated reserve covers the margin in use; one pass leaves nothing due |
| | `GuardHoldsIndex` | one source does not move the published index out of the range of the others |
| | `FundAndReservesAgree`, `LossesResolved` | the demo's settlement: fund, fees and reserves; each loss is covered once and the plan takes what there is |
| | `StreamStaysOnSelection`, `EveryGapIsNoticed` | market view and event stream |
| | `RequestsRunOnce` | one execution per signed request, **if** `TtlCoversWindows` and `[]GuardHasRoom` |
| `Pages_proofs` | `GatewayTypeCorrect`, `IdempotentUntilExpiry`, `CapacityIsShared` | the quote API |
| | `OneSwapAtATime`, `NewestQuoteIsShown` | the swap page |
| | `VerifiedSettlementStands` | verified evidence stays true on a chain of any height |
| | `EffectsOnceInPlace`, `TradesWithinReview`, `ApprovalsAreSpent` | the operator pages |
| | `BudgetsAreKept` | cap and reserve of the mobile pages |
| `Operations_proofs` | `StepsAreNotRepeated` | checkpointed steps against crashes, reverts and reorganizations |
| | `DeployedAsConfigured` | a finished script leaves what its settings describe, **if** the plans are in order (`PlansInOrder`) |
| | `ReleaseRunsTheScript` | `Release` implements `Deployment`, so what holds of the script holds of the release |
| | `ReadySettingsValidate` | what was ready and is deployed validates, but for one piece of evidence, **if** moreover each plan's own chain would (`PlansValidate`) |
| | `SmokeLeavesNothing` | no approval after a smoke test |
| | `InventoryTellsTheTruth`, `StepOutlastsItsPhases` | the collection run |
| | `PayoutVerdictIsEarned`, `WithdrawalVerdictIsRight` | the payout and withdrawal runs |

`AccountSums_proofs` holds lemmas only: how a total moves with one entry or with
two, and the monotony of products and quotients.

What a loop does for every list is an induction over data, for which the library's
induction theorems would need an operator as argument. Where a theorem rests on it,
induction is a least counterexample: the library's `WFMin` gives every nonempty set
of naturals a least element (`LeastNatural`, and `LargestOf` for the greatest), from
which follow `UpTo` (a set that contains 0 and with each number up to n the next
contains all of them) and `StepByStep` (a loop whose passes stay within a set of
states has a last pass, so that the recursive function of the model is one). A loop
is then proved about by the set of the numbers of passes after which its invariant
holds.

The inductive invariants, and why they are needed:

*Contracts.*

- `LendingInv` is types, a clock no index is ahead of, and totals that are sums.
  The sums make the checked subtractions safe: without them a withdrawal of an
  account's shares could take a total below zero. Custody adds that the balance of
  an asset covers the collateral of its market and the reserves of the market that
  lends it; this needs isolation, because liquidity is the balance of the whole
  contract.
- `ResidualInv` adds that prices come from the listed feeds, that no borrow index
  is below its start and that every account is `Settled`: without collateral, the
  recorded debt is the debt. A withdrawal is stopped by the value of the debt, so
  `DebtIsPriced` is needed: where one unit of the debt asset is worth less than one
  unit of the oracle's 18 decimals, a dust debt has value 0 and all its collateral
  may be withdrawn, leaving debt that nobody records. An asset of 18 decimals has
  to be worth a dollar.
- `RulesInv` says that loans stop short of liquidation in every configured market.
  `NobodyIsEndangered` then follows action by action from what the borrower's own
  checks guarantee and from an accrual that charges a block once; the actions of
  others move the debt of an account only down, or only past the threshold.
- `SuppliersPayLast` is an action property proved from the one handler that lowers
  the supply index. Its proof attempt corrected the property: the index is rounded
  down, and so a loss at the limit may take one unit of the index more.
- `PoolNeverLeaks` is an action property as well: `Shortfall` is what a market owes
  (supply and reserves) less what it owns (cash and debt). An accrual charges the
  borrowers at one rate and credits the suppliers at another; `SupplierShare` shows
  that the latter times the supply is at most the former times the debt, for every
  reserve factor and whenever the rate model answers (debt at most the supply), so
  that interest moves the two sides together and only roundings are left: one unit of
  the debt index, times the debt shares, and one of each quotient (`AccrualDust`). A
  burn of shares for their rounded worth costs a unit (`BurnDust`), a realized loss
  two. The bound was
  two units before; the proof attempt showed that this holds only while the shares
  stay below `RAY`. It is stated for markets with a debt asset of their own, because
  cash is the balance of the whole contract.
- `IntentInv` is types, records that match the statuses, `CallOK` (what an open
  call has taken and what its snapshot still holds) and custody. A revert
  restores the snapshot, so custody of the restored state must already be known.
  Status and record of an intent do not change until its call ends, so beginning a
  call and reverting it are stutters of the promise. `SaleInv` says the same of
  sales: each has its receipt or is the one under way, and what a revert would
  bring back had its receipts.
- For rewards, `AccrualInv` bounds the paid checkpoints by the accumulator,
  `NothingYet` says that before the first funding there is nothing, and `Solvent`
  measures all promises in units of `1/RAY`: unrounded earnings and the rest of the
  schedule fit into the reserve, and accrual only moves amounts between parts of
  the sum. `FundedOnceBound` says that the schedule is funded only after the vault
  is bound to the module; no code enforces it, and without it a late staker earns
  for the time before its stake.
- `ShareInv` is types, `SupplyMatchesShares`, `ExposureBounded` and that an empty
  vault accounts for nothing. `PriceOnlyFallsByLoss` then is arithmetic on the
  three roundings: shares down, burned shares up, assets down.
- `EngineInv` of the futures contracts is types, closed positions without margin
  (`ClosedIsEmpty`), the sums of `BooksFollowPositions`, vault books that no call
  has refused and whose claims are backed (`Backed`), and `Net(books) = due`: what
  the accounts hold beyond insured and recorded deficits is what they paid in and
  made. Each vault function has a lemma that says what it does to the locked
  balance and to `Net` (`Effect`, `Moves`), and each engine function composes
  them. `ClosedIsEmpty` is what makes the margin of a reopened position its own.

*Futures demo.*

- `DeskInv` is types, order ids below the number of submits and
  `IsolatedMarginBacked` itself, said of the desk as one record, because every loop
  carries such a record from one element to the next: each handler keeps a record
  `Covered`, with or without an error. Keys of positions and ids of orders are
  distinct, and so the margin in use is a total over keys and ids
  (`AccountSums_proofs`) and moves by one entry. `DeskOnePassSuffices` follows one
  pass: after the i-th order, whatever is still in the list comes later or is not hit
  (nothing is added to the list while it is walked over); the same is true of the
  positions, which are looked at after all fills; and the cross liquidation comes
  last and leaves no cross position to be liquidated.
- `GuardHoldsIndex` needs no history: it counts. The price of rank k has fewer
  than k prices below it and at least k not above it, so that without one source the
  median still lies within the range of the others; and sources that agree are near
  that median and are all accepted, with or without the one, and the published median
  is in their range for the same reason.
- `LossesResolved` adds to `SettlementInv` that a position has collateral and a place
  without one costs nothing (`BookWhole`), which orders the scores. Only its own
  liquidation empties a trader's book (`OnlyLiquidationEmpties`). A plan on its way is
  `PlanSound`: what was absorbed and what is left are the debt, and while something is
  left every position asked gave its whole profit.
- `SettlementInv` adds to the two ledgers `PreviewFits`: a preview whose base is
  still the fund's version was computed from this very fund, so that its commit
  moves from balance to covered what it says, whatever was committed in between.
- `ViewInv` adds to the types that the load which may still be applied is the
  newest and of the selected market (`NewestLoad`) and that the view shows the
  selection (`ViewFollows`): a late load can then only open the right stream.
- `StreamInv` gives every listener a set of envelopes made since it subscribed in
  which events and numbers rise together (`Rising`), and of which those under way,
  those lost and the last one seen are members. Numbers are shared, so a listener
  sees gaps that are not its own; what it cannot see is a loss behind a number that
  fits.
- `ApiInv` says that a call being verified was judged a short while ago, and that
  a request carried out is still remembered by the guard or too late to pass the
  time check again. That needs entries that outlive every copy (`TtlCoversWindows`,
  true of the default time to live only for windows below half of the largest) and
  a guard that never drops a live entry for want of room (`GuardHasRoom`): the code
  enforces neither.

*Pages and services.*

- `GatewayInv` is types and four conjuncts about the history of answers: an answer
  that has not expired is the one kept for its key (`Remembered`), what is in
  flight was asked after every earlier answer for its key had expired
  (`AskedAfterExpiry`), answers are numbered in order (`NumberedInOrder`), and
  `OneLiveAnswer` itself. Without the first two, purging could make room for a
  second answer.
- `SwapInv` says where a transaction can hide: what the node does not see yet is
  the swap the page remembers, and past each of the two checks of `swap()` the
  respective hiding place is empty until the call sends. All that may still be
  mined then carries the account's next nonce.
- `ProofInv` describes a verification under way: sealed evidence is of the intended
  transaction and of enough output, the block of the evidence, if it is still the
  one read, holds the swap with the logs read (`Underway`), and after the second
  read it is canonical unless the chain raced (`StandsUnlessRaced`). Once valid,
  the block is deep enough not to be replaced (`EvidenceVerified`). `Total`, the
  sum of the logs, stays unexpanded: the sum compared and the sum paid are of the
  same logs.
- `WizardInv` rests on `Right`: what a page may ask for in a state of the chain.
  What was right when asked stays right, because the chain changes under a page
  only in ways that keep it so (`Onward`); transactions are mined in order and every
  mined effect shows on the chain (`EffectsShow`), where the next refresh finds it.
  The nonce of the request, reviewed with it, is what stops the second effect.
- `MobileInv` compares per page what it paid, what its unmined transactions will
  cost and what it is asking for with its cap and what its budget could not see:
  every budget is calculated from the balance, which knows nothing of transactions
  whose receipt was given up (`GivenUpBy`). One transaction per turn makes the sum
  of fees move by one fee.

*Operations.*

- `DeploymentInv` keeps an account per step: the successes on the chain are
  counted by `applied`, and the transactions of the step that have an effect or may
  still have one, less the one this process alone knows of, are at most the deaths
  before a hash was saved and one more if the checkpoint has the entry
  (`LossesAccounted`). A crash turns the process's own transaction into a loss, a
  save turns it into the entry; a revert and a reorganization only remove.
- `ConfiguredInv` relates three lists: what the wallet sent, what the checkpoint knows
  and what the chain holds. A recorded transaction is the newest of its entry and was
  sent with the recorded configuration (`RecordsNewest`); what precedes a step in its
  plan was on record, with an older transaction, when the step was sent
  (`SentInOrder`); what the process has passed is on record with its own
  configuration (`PassedRecorded`); a slot holds what its newest successful writer
  wrote (`ChainWritten`); and a script without checkpoint has its own run at the end
  of the wallet (`OwnRun`). When a script finishes, the last writer of a slot is on
  record with the configuration of this plan. Had another transaction written the
  slot differently since, its step would come before the last writer in the plan it
  was sent from, or the last writer's record would be newer: `PlansInOrder` says
  exactly this of the plans, `ConfigBinds` that a key and a configuration determine
  what is written, `Overwritten` that whoever writes otherwise comes earlier.
  Both are asked of plans as data and hold of the scripts' plans for the settings of
  the run: `MCOperations` assumes `PlansInOrder` and `PlansValidate`, and TLC
  evaluates assumptions. They fail for a plan that reuses a checkpoint entry whose
  configuration leaves out an argument of the call, which is the mistake they
  exclude. `PlansInOrder` asks it between different settings only of the slots that
  operations configure: contracts left from another run may differ.
- `ReleaseInv` adds that a deployment record was written from the settings of the
  script that finished (`RecordKept`) and that an active Guardian was reviewed with
  the roles apart (`GuardianReviewed`). If one environment alone has run, the chain in
  its slots is the intended one, the validator's checks read nothing else, and
  `PlansValidate` says that the intended chain passes them.
- `CollectionInv` follows the run by phases: a run begins once in a directory, what
  is ahead was never started, what is behind passed and was earned, and the child at
  hand has earned what its exit code will say. It shows that a clean inventory is
  right already because the run's own record is: the comparisons `collect` makes with
  the stored files are a second barrier, against a file that is lost or damaged
  afterwards. `TimeInv` bounds the time used at the start of the phases that look at
  the clock and of those that follow them.
- `PayoutInv`: a result PASS stands for the phase's work (`Meant`); a phase whose
  child was started still has its directory, or it is the one whose directory was
  lost and nothing before it failed (`AttemptsRecorded`). So a phase called NOT_RUN
  by a clean collection was never attempted. A suite's complete list was earned
  (`Counted`) because its directory is fresh when its bench begins.
- `WrapInv` composes these for the withdrawal run: until the run is over, all
  earlier turns passed (`PassedSoFar`), a phase process is the child of its turn
  (`ChildOfTurn`), and a suite is at work only in its own turn (`SuiteOfTurn`).

To check again: `tlapm <module>_proofs.tla`. The arithmetic leaves name products
and quotients first, because the solver is given linear facts about them
(`MulNat` and its companions in `AccountSums_proofs`).


## 7. Findings

- `lending_bad_debt_owed` (`LQCLendingCore.sol:124`). A bad debtor who deposits
  collateral again can be liquidated again; the debt shrinks and the bad-debt
  record does not. The rest of the record can never be cleared.
- `lending_pause_repay` (`LQCInterestRateModel.sol:80`). At full utilization with a
  reserve factor, total debt outgrows total supply; `rates` reverts and with it
  every handler, repayment and liquidation included.
- `gateway_health` (`quote-api-gateway.mjs:178`). The limit of answered entries is
  compared when a request is admitted, not when its answer is stored: with two in
  flight and room for one, the gateway's own health report is refused by its
  validator. `CapacityIsShared` bounds the excess by the requests in flight.
- `release_never_validates` (`deploy-testnet.mjs:312`). With a prepared test token
  the record has no deployment transaction for it, and the validator that precedes
  the smoke test refuses every such record.

Seen while modelling, with no run of its own; each is in the list of hazards or
follows from the model:

- Two markets over the same tokens can pay out each other's collateral
  (`LQCLendingCore.sol:159`); the theorem of custody assumes isolation.
- Funding the rewards before binding the vault lets a late staker earn for the time
  before its stake (`LQCStakingVault.sol:293`).
- Without a prepared token the bootstrap deploys two tokens from one source, which
  is also their checkpoint key (`deploy-testnet.mjs:116,118`): the second is
  refused in every run, and that environment never finishes.
- On the demo desk a market order at a mark off the tick reserves margin and then
  fails to open (`order-engine.js:47`), so the reserve may exceed the margin in use;
  `IsolatedMarginBacked` is the direction that holds.
- The replay guard's default time to live equals the largest window
  (`api-auth-contract.js:61`); `CarriedOutOnce` needs more than twice the window
  plus the time of a verification, and is checked there.
- `src/docs/master6/6-11-bad-debt-audit.md:45` says that `realizeBadDebtLoss`
  reverts until the reserves are zero, while `LQCLendingCore.sol:146` consumes them
  in the same call.

## 8. Limits

*Only model-checked:*

- `EveryIntentSettles` and `RequestedExitsEnd`: liveness under fairness is out of the
  prover's reach;
- `PausedDebtIsRepayable`, which is about ENABLED, and what the other violation runs
  show: a theorem could not state that a property fails;
- `PlansInOrder` and `PlansValidate` for the plans of `DeploymentPlans`: a statement
  about finite data, which TLC evaluates for the settings of the run. The theorems
  take them as hypotheses.

*Conditions stated in properties:* `SettlementStands` excludes a reorganization
between the second canonical check and the reading of the height, against which
the code has no defence. `EarnedWithTimeOnly` and `RewardsCovered` are about
deployments that bind before they fund, `PoolNeverLeaks` about markets whose debt
asset no other market uses. `VerdictIsEarned` allows one lost
directory where two would defeat the collector. `SuppliersLoseLast` allows what one
unit of the supply index moves beyond the loss limit.

*Left out of modelled components:* ownership transfers and guardian or role
setters everywhere; in lending, `initializeMarket` (every market is initialized in
`Init`) and donations to the core; in the vault, allowances; in staking, donations
and the `uint128` bound of a rate; in the futures contracts, a second collateral
token; on the pages, rendering, translation and the minimal mode; in the scripts,
compilation, the wording of records and hashes of documents; in the evidence runs,
what the children calculate. Tokens transfer exactly, except in the liquidity
vault (a shrinking balance) and the lending core's guard against inexact transfers.

*Not modelled:* the futures demo's risk tiers, partial liquidation step and fee
(pure functions that no file of the application calls together); the solver market
(no contract of the execution path calls it); the Flow AMM (a constant-product pair
of the known kind); router v2, its governance and the gasless policy (appear as the
owners, limits and Guardian a deployment sets and the validator reads); oracle
adapters (stateless conversions); offline evaluation and verification scripts
(single-process comparisons without state); the remaining pages, which only read
or repeat a modelled pattern; mocks, tests and the website. The reasons are
repeated per component in `PROJECT.json`.

*Hazards without a property:* a fee-on-transfer token in the escrow's `lock`
(tokens are exact in the model), the shared lending balance (above), and the two
refusals of an empty funding pool, against which the code promises no exit.

## 9. Plan left

1. `FlowPair`: product per share under swaps, donations, skim and sync.
2. Router governance: timelock, emergency controller, DEX and risk registries;
   gasless budgets with the same daily window.
3. `SolverBond`: policy changes against weighted bonds.
4. A form of `PlansInOrder` for every environment of `DeploymentPlans`, which would
   need the plans' recursion over pools and DEXes as lemmas.
