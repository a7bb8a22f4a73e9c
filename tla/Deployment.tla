----------------------------- MODULE Deployment -----------------------------
(***************************************************************************)
(* A deployment script at work (dex/scripts/deploy-testnet.mjs with        *)
(* deployment-checkpoint.mjs): it walks its plan, broadcasting one         *)
(* transaction at a time, and the checkpoint file lets a later run resume. *)
(* The process may die at any await, the operator may change the settings  *)
(* between runs, a transaction may revert when it is mined, and a chain    *)
(* reorganisation may move the newest transaction to another block or drop *)
(* it.  The checkpoint object and its file change together: every          *)
(* assignment is followed by the synchronous save.  What the wallet has    *)
(* broadcast is mined in nonce order.                                      *)
(***************************************************************************)
EXTENDS DeploymentPlans, Integers, FiniteSets

CONSTANTS
  Environments, \* the settings the operator runs the script with, a sequence
  MaxRuns,      \* bound: starts of the script
  MaxReorgs,    \* bound: reorganisations
  Shallow,      \* bound: the operations a reorganisation may hit
  MaxReverts    \* bound: liquidity calls mined after their deadline

VARIABLES
  settings,     \* the environment of this run, by its place in the sequence
  script,       \* [state, at, tx, why]: the process and the step it is in
  contracts,    \* checkpoint.contracts: key -> [config, tx]
  operations,   \* checkpoint.operations: key -> [config, status, tx, block]
  sent,         \* the wallet's transactions in nonce order: <<settings, step>>
  receipts,     \* receipts of the first of them: [status, block]
  chain,        \* slot -> value
  before,       \* the chain without the newest transaction
  runs,         \* [started, settings]: how often, and with which environments
  faults,       \* [reorgs, reverts, reorged]: bounds, and a reorg since the start
  applied,      \* history: how often each checkpoint entry's step took effect on the chain
  lost          \* history: how often its hash died with the process

deploymentVars == <<settings, script, contracts, operations, sent, receipts, chain, before,
                    runs, faults, applied, lost>>

AllSettings == DOMAIN Environments

Plans == [s \in AllSettings |-> Plan(Environments[s])]

Env == Environments[settings]

Checkpointed == Env.script = "testnet"

NoTx == 0

Step == Plans[settings][script.at]

StepOf(tx) == Plans[sent[tx][1]][sent[tx][2]]

\* Where the checkpoint keeps a step: contracts and operations have their own keys.
Entry(step) == <<step.kind, step.key>>

Running == script.state \in {"next", "broadcast", "waiting"}

Working == script.state = "next" /\ script.at <= Len(Plans[settings])

CountOf(f, key) == IF key \in DOMAIN f THEN f[key] ELSE 0

With(f, key, value) == [k \in DOMAIN f \cup {key} |-> IF k = key THEN value ELSE f[k]]

Increment(f, key) == With(f, key, CountOf(f, key) + 1)

\* The slots a step writes, over those that are there.
Over(sets, state) ==
  [slot \in DOMAIN sets \cup DOMAIN state |->
     IF slot \in DOMAIN sets THEN sets[slot] ELSE state[slot]]

\* What a contract call requires of the chain it runs on.
Holds(needs, state) == \A slot \in DOMAIN needs : slot \in DOMAIN state /\ state[slot] = needs[slot]

\* The newest transaction that has been mined is the tip of the chain.
Mined == Len(receipts)

Receipt(tx) == IF tx \in 1 .. Mined THEN receipts[tx] ELSE [status |-> "none", block |-> 0]

Fail(why) == script' = [script EXCEPT !.state = "stopped", !.why = why]

Advance == script' = [script EXCEPT !.state = "next", !.at = @ + 1, !.tx = NoTx]

ChainSame == UNCHANGED <<sent, receipts, chain, before, faults, applied, lost>>

DeploymentInit ==
  /\ settings \in AllSettings
  /\ script = [state |-> "stopped", at |-> 1, tx |-> NoTx, why |-> "none"]
  /\ contracts = <<>>
  /\ operations = <<>>
  /\ sent = <<>>
  /\ receipts = <<>>
  /\ chain = <<>>
  /\ before = <<>>
  /\ runs = [started |-> 0, settings |-> {}]
  /\ faults = [reorgs |-> 0, reverts |-> 0, reorged |-> FALSE]
  /\ applied = <<>>
  /\ lost = <<>>

\* What the wallet still holds: every transaction in a block costs its gas.
Balance(env) == env.funds - env.gas * Cardinality({tx \in 1 .. Mined : receipts[tx].status # "none"})

\* deploy-futures-testnet.mjs reads the balance once more, and holds a fixed
\* 0.01 tBNB, not the preflight's estimate, against the budget.
FixedCost == 1

FuturesStarts(env) == FuturesConfigValid(env) /\ FuturesBudget(Balance(env), FixedCost, env)

(***************************************************************************)
(* The operator starts the script, with the same settings or others.  The  *)
(* scripts without a checkpoint begin from nothing.                        *)
(***************************************************************************)
StartScript(s) ==
  /\ script.state = "stopped"
  /\ runs.started < MaxRuns
  /\ Environments[s].script = Env.script
  /\ Environments[s].script = "futures" => FuturesStarts(Environments[s])
  /\ settings' = s
  /\ script' = [state |-> "next", at |-> 1, tx |-> NoTx, why |-> "none"]
  /\ runs' = [started |-> runs.started + 1, settings |-> runs.settings \cup {s}]
  /\ faults' = [faults EXCEPT !.reorged = FALSE]
  /\ UNCHANGED <<contracts, operations, sent, receipts, chain, before, applied, lost>>

(***************************************************************************)
(* checkpointedDeploy: a recorded contract is reused when it was built     *)
(* from the same source and arguments and its code is still there.         *)
(***************************************************************************)
Mismatched(entry) == entry.config # Step.config

Reusable(entry) == ~Mismatched(entry) /\ Receipt(entry.tx).status = "ok"

ReuseContract ==
  /\ Working /\ Step.kind = "deploy" /\ Step.key \in DOMAIN contracts
  /\ CASE Mismatched(contracts[Step.key]) -> Fail("mismatch")
       [] Reusable(contracts[Step.key]) -> Advance
       [] OTHER -> Fail("no code")
  /\ ChainSame
  /\ UNCHANGED <<settings, contracts, operations, runs>>

(***************************************************************************)
(* checkpointedTransaction: what the checkpoint knows of the operation is  *)
(* held against its canonical receipt.                                     *)
(***************************************************************************)
Canonical(entry) ==
  /\ Receipt(entry.tx).status = "ok"
  /\ entry.status = "confirmed" => Receipt(entry.tx).block = entry.block

ReuseOperation ==
  /\ Working /\ Step.kind = "operate" /\ Step.key \in DOMAIN operations
  /\ LET entry == operations[Step.key]
     IN  CASE Mismatched(entry) -> Fail("mismatch") /\ UNCHANGED operations
           [] ~Mismatched(entry) /\ Canonical(entry) ->
                /\ Advance
                /\ operations' = [operations EXCEPT ![Step.key] =
                                    [@ EXCEPT !.status = "confirmed",
                                              !.block = Receipt(entry.tx).block]]
           [] OTHER -> Fail("not canonical") /\ UNCHANGED operations
  /\ ChainSame
  /\ UNCHANGED <<settings, contracts, runs>>

(***************************************************************************)
(* A step the checkpoint does not hold is sent.  Estimating its gas runs   *)
(* it on the current chain, so a call that would revert is never sent.     *)
(***************************************************************************)
Recorded == IF Step.kind = "deploy" THEN Step.key \in DOMAIN contracts
                                    ELSE Step.key \in DOMAIN operations

Pending == SubSeq(sent, Mined + 1, Len(sent))

Effect(state, step) == IF Holds(step.needs, state) THEN Over(step.sets, state) ELSE state

PendingChain == FoldLeft(LAMBDA state, ref : Effect(state, Plans[ref[1]][ref[2]]), chain, Pending)

Affordable == Balance(Env) >= Env.gas * (Len(Pending) + 1)

Send ==
  /\ Working /\ ~Recorded
  /\ IF Holds(Step.needs, PendingChain) /\ Affordable
     THEN /\ sent' = Append(sent, <<settings, script.at>>)
          /\ script' = [script EXCEPT !.tx = Len(sent) + 1,
                                      !.state = IF Checkpointed /\ Step.kind # "deploy"
                                                THEN "broadcast" ELSE "waiting"]
     ELSE Fail("would revert") /\ UNCHANGED sent
  /\ UNCHANGED <<settings, contracts, operations, receipts, chain, before, runs, faults,
                 applied, lost>>

\* Mutant: the operation is recorded only when it is confirmed.
SaveNothing ==
  /\ script.state = "broadcast"
  /\ script' = [script EXCEPT !.state = "waiting"]
  /\ ChainSame
  /\ UNCHANGED <<settings, contracts, operations, runs>>

\* The hash is saved before the confirmation is awaited.
SavePending ==
  /\ script.state = "broadcast"
  /\ operations' = With(operations, Step.key,
                        [config |-> Step.config, status |-> "pending", tx |-> script.tx, block |-> 0])
  /\ script' = [script EXCEPT !.state = "waiting"]
  /\ ChainSame
  /\ UNCHANGED <<settings, contracts, runs>>

\* Mutant: a transaction that was mined counts as done.
MinedAtAll(receipt) == receipt.status \in {"ok", "reverted"}

Succeeded(receipt) == receipt.status = "ok"

(***************************************************************************)
(* The receipt of the awaited transaction is here: the contract or the     *)
(* confirmation is saved, or the run ends on a revert.                     *)
(***************************************************************************)
SaveConfirmed ==
  /\ script.state = "waiting"
  /\ script.tx \in 1 .. Mined
  /\ LET receipt == Receipt(script.tx)
     IN  IF Succeeded(receipt)
         THEN /\ Advance
              /\ CASE ~Checkpointed -> UNCHANGED <<contracts, operations>>
                   [] Checkpointed /\ Step.kind = "deploy" ->
                        /\ contracts' = With(contracts, Step.key,
                                             [config |-> Step.config, tx |-> script.tx])
                        /\ UNCHANGED operations
                   [] Checkpointed /\ Step.kind # "deploy" ->
                        /\ operations' = With(operations, Step.key,
                                              [config |-> Step.config, status |-> "confirmed",
                                               tx |-> script.tx, block |-> receipt.block])
                        /\ UNCHANGED contracts
         ELSE Fail("reverted") /\ UNCHANGED <<contracts, operations>>
  /\ ChainSame
  /\ UNCHANGED <<settings, runs>>

\* After the last step: the pools must have spent the whole allowance.
Spent(token) == Slot(token, "allowance") \in DOMAIN chain => chain[Slot(token, "allowance")] = "none"

\* ... and the futures script must have left its reserve.
AccountsSettled ==
  /\ Checkpointed => Spent("lqc") /\ Spent("usdt")
  /\ Env.script = "futures" => Balance(Env) >= Env.reserve

Finish ==
  /\ script.state = "next"
  /\ script.at > Len(Plans[settings])
  /\ IF AccountsSettled
     THEN script' = [script EXCEPT !.state = "finished"]
     ELSE Fail("accounts")
  /\ ChainSame
  /\ UNCHANGED <<settings, contracts, operations, runs>>

(***************************************************************************)
(* The process dies.  Between the broadcast and the save nothing on disk   *)
(* names the transaction; a contract is unnamed until it is confirmed.     *)
(***************************************************************************)
Unnamed ==
  \/ script.state = "broadcast"
  \/ script.state = "waiting" /\ Step.kind = "deploy"

Crash ==
  /\ Running
  /\ script' = [script EXCEPT !.state = "stopped", !.tx = NoTx, !.why = "crash"]
  /\ lost' = IF Unnamed THEN Increment(lost, Entry(Step)) ELSE lost
  /\ UNCHANGED <<settings, contracts, operations, sent, receipts, chain, before, runs, faults,
                 applied>>

(***************************************************************************)
(* The network: the next transaction of the wallet is mined; the block of  *)
(* the newest one is replaced by another that has it too, or has not.      *)
(***************************************************************************)
Mine(late) ==
  /\ Pending # <<>>
  /\ late => StepOf(Mined + 1).expires /\ faults.reverts < MaxReverts
  /\ LET step == StepOf(Mined + 1)
         runsThrough == ~late /\ Holds(step.needs, chain)
     IN  /\ receipts' = Append(receipts, [status |-> IF runsThrough THEN "ok" ELSE "reverted",
                                          block |-> 1])
         /\ before' = chain
         /\ chain' = IF runsThrough THEN Over(step.sets, chain) ELSE chain
         /\ applied' = IF runsThrough THEN Increment(applied, Entry(step)) ELSE applied
  /\ faults' = [faults EXCEPT !.reverts = @ + (IF late THEN 1 ELSE 0)]
  /\ UNCHANGED <<settings, script, contracts, operations, sent, runs, lost>>

Reorg(dropped) ==
  /\ Mined > 0 /\ Receipt(Mined).status = "ok" /\ StepOf(Mined).key \in Shallow
  /\ faults.reorgs < MaxReorgs
  /\ faults' = [faults EXCEPT !.reorgs = @ + 1, !.reorged = TRUE]
  /\ IF dropped
     THEN /\ receipts' = [receipts EXCEPT ![Mined] = [status |-> "none", block |-> 0]]
          /\ chain' = before
          /\ applied' = [applied EXCEPT ![Entry(StepOf(Mined))] = @ - 1]
     ELSE /\ receipts' = [receipts EXCEPT ![Mined].block = @ + 1]
          /\ UNCHANGED <<chain, applied>>
  /\ UNCHANGED <<settings, script, contracts, operations, sent, before, runs, lost>>

DeploymentNext ==
  \/ \E s \in AllSettings : StartScript(s)
  \/ ReuseContract
  \/ ReuseOperation
  \/ Send
  \/ SavePending
  \/ SaveConfirmed
  \/ Finish
  \/ Crash
  \/ \E late \in BOOLEAN : Mine(late)
  \/ \E dropped \in BOOLEAN : Reorg(dropped)

DeploymentSpec == DeploymentInit /\ [][DeploymentNext]_deploymentVars

-----------------------------------------------------------------------------
(***************************************************************************)
(* "Transaction hashes are saved before confirmation; retries inspect      *)
(* pending receipts and skip only operations proven successful on-chain"   *)
(* (dex/README.md): whatever the sequence of crashes, retries and changed  *)
(* settings, a checkpointed run performs an operation once, and once more  *)
(* only for each time the process died before the hash was on disk.        *)
(***************************************************************************)
AtMostOnceUnlessLost ==
  Checkpointed =>
    \A entry \in DOMAIN applied : applied[entry] <= 1 + CountOf(lost, entry)

(***************************************************************************)
(* The chain a run that nothing disturbs leaves behind: every slot as the  *)
(* last step that writes it leaves it.                                     *)
(***************************************************************************)
WrittenSlots == [s \in AllSettings |-> UNION {DOMAIN Plans[s][i].sets : i \in DOMAIN Plans[s]}]

LastWriter ==
  [s \in AllSettings |-> [slot \in WrittenSlots[s] |->
     Max({i \in DOMAIN Plans[s] : slot \in DOMAIN Plans[s][i].sets})]]

LastWrite(s, slot) == Plans[s][LastWriter[s][slot]]

IntendedChains ==
  [s \in AllSettings |-> [slot \in WrittenSlots[s] |-> LastWrite(s, slot).sets[slot]]]

(***************************************************************************)
(* A script that finishes leaves the chain its own settings describe: no   *)
(* setting of an earlier, interrupted run survives in a field this run     *)
(* configures, however the runs were interleaved with crashes.  The futures*)
(* script, whose budget sees a fixed sum, has left its protected reserve.  *)
(***************************************************************************)
OperatedSlots == [s \in AllSettings |->
                    UNION {DOMAIN Plans[s][i].sets :
                             i \in {j \in DOMAIN Plans[s] : Plans[s][j].kind = "operate"}}]

Configured(s) == \A slot \in OperatedSlots[s] :
                   slot \in DOMAIN chain /\ chain[slot] = IntendedChains[s][slot]

FinishedAsConfigured ==
  script.state = "finished" /\ ~faults.reorged =>
    /\ Configured(settings)
    /\ Env.script = "futures" => Balance(Env) >= Env.reserve /\ Env.owner # "deployer"

-----------------------------------------------------------------------------
(***************************************************************************)
(* What the bootstrap's plans owe to a checkpoint that knows keys and      *)
(* configurations only.  The same key with the same configuration writes   *)
(* the same; and whatever else writes something different to a slot comes  *)
(* before the slot's last write, in the plan of every settings that makes  *)
(* it.  Between different settings this is asked of the fields that        *)
(* operations configure, and of all slots within one.                      *)
(***************************************************************************)
ConfigBinds(s, t, slot) ==
  \A i \in DOMAIN Plans[t] :
    LET step == Plans[t][i]
    IN  Entry(step) = Entry(LastWrite(s, slot)) /\ step.config = LastWrite(s, slot).config =>
          slot \in DOMAIN step.sets /\ step.sets[slot] = IntendedChains[s][slot]

Overwritten(s, t, u, slot) ==
  \A i \in DOMAIN Plans[t] :
    LET step == Plans[t][i]
    IN  /\ slot \in DOMAIN step.sets /\ step.sets[slot] # IntendedChains[s][slot]
        /\ Entry(step) # Entry(LastWrite(s, slot))
        => \A l \in DOMAIN Plans[u] :
             Entry(Plans[u][l]) = Entry(LastWrite(s, slot)) =>
               \E k \in 1 .. l - 1 : Entry(Plans[u][k]) = Entry(step)

Bootstraps == {s \in AllSettings : Environments[s].script = "testnet"}

PlansInOrder ==
  /\ \A s \in AllSettings :
       /\ Len(Plans[s]) \in Nat \ {0} /\ DOMAIN Plans[s] = 1 .. Len(Plans[s])
       /\ \A i \in DOMAIN Plans[s] : Plans[s][i].kind \in {"deploy", "operate"}
  /\ \A s, t, u \in Bootstraps :
       \A slot \in IF t = s /\ u = s THEN WrittenSlots[s] ELSE OperatedSlots[s] :
         ConfigBinds(s, t, slot) /\ Overwritten(s, t, u, slot)

=============================================================================
