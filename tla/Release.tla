------------------------------ MODULE Release ------------------------------
(***************************************************************************)
(* A testnet release around the deployment script: the preflight of the    *)
(* settings, the deployment record, the activation of the Guardian by the  *)
(* Governance Safe, the read-only validator, the monitor, the capped smoke *)
(* swap, the emergency drill and the review package (dex/scripts:          *)
(* preflight-testnet-deploy, validate-bsc-testnet, monitor-bsc-testnet,    *)
(* smoke-test-bsc-routes, prepare-operational-role-activation,             *)
(* emergency-drill-report, build-review-evidence-package).  Between any    *)
(* two of these steps the chain may change: the Guardian pauses, a Safe    *)
(* changes its signers, somebody deposits into the vault.                  *)
(***************************************************************************)
EXTENDS Deployment

CONSTANTS
  MaxSwapProbes, \* bound: executed smoke probes
  MaxReports     \* bound: monitoring reports kept

VARIABLES
  ready,       \* the settings the preflight has reported ready
  policy,      \* the governance Safe: "reviewed", "rotated" or "weak"
  captured,    \* its policy when the script started
  record,      \* deployments/bsc-testnet-97.json
  protocol,    \* [guardian, paused, disabled, deposits]: what happened since
  smoke,       \* [state, quote]: the smoke-test process
  allowance,   \* what the wallet has approved to the Execution Router
  probes,      \* smoke probes executed
  drill,       \* steps of the emergency drill done, in order
  reports,     \* monitoring reports: [of, status]
  packaged     \* the monitoring report the review package binds, or "none"

procedureVars == <<ready, policy, captured, record, protocol, smoke, allowance, probes, drill,
                   reports, packaged>>

releaseVars == <<deploymentVars, procedureVars>>

NoRecord == [of |-> "none"]

SmokeIdle == [state |-> "idle", quote |-> 0]

ReleaseInit ==
  /\ DeploymentInit
  /\ ready = {}
  /\ policy = "reviewed"
  /\ captured = "none"
  /\ record = NoRecord
  /\ protocol = [guardian |-> FALSE, paused |-> FALSE, disabled |-> FALSE, deposits |-> 0]
  /\ smoke = SmokeIdle
  /\ allowance = 0
  /\ probes = 0
  /\ drill = 0
  \* An earlier deployment left a healthy monitoring report in the archive.
  /\ reports = {[of |-> "earlier", status |-> "HEALTHY"]}
  /\ packaged = "none"

-----------------------------------------------------------------------------
(***************************************************************************)
(* Before the deployment.  assertSafeMultisig: enough signers, enough of   *)
(* them needed.  The preflight also wants the roles apart, the amounts to  *)
(* fit each other, and the pinned exchange endpoints.                      *)
(***************************************************************************)
SafeMultisig(safe) == safe # "weak"

RolesSeparated(env) ==
  LET separated == IF env.sharedRisk /\ env.riskAdmin = env.owner
                   THEN <<env.owner, env.guardian, env.treasury>>
                   ELSE <<env.owner, env.riskAdmin, env.guardian, env.treasury>>
  IN  /\ \A i, j \in DOMAIN separated : i # j => separated[i] # separated[j]
      /\ "deployer" \notin {env.owner, env.riskAdmin, env.guardian, env.treasury}

AmountsFit(env) ==
  /\ env.strategyCap <= env.vaultCap
  /\ env.vaultCap <= env.supply
  /\ env.liquidity <= env.supply

PreflightReady(env) == RolesSeparated(env) /\ AmountsFit(env) /\ SafeMultisig(policy)

\* The futures scripts have a preflight of their own
FuturesReady(env) ==
  FuturesConfigValid(env) /\ FuturesBudget(Balance(env), FuturesEstimate(env), env)

Preflight(s) ==
  /\ runs.started = 0 /\ ready = {}
  /\ \/ Environments[s].script = "testnet" /\ PreflightReady(Environments[s])
     \/ Environments[s].script = "futures" /\ FuturesReady(Environments[s])
  /\ ready' = ready \cup {s}
  /\ UNCHANGED <<deploymentVars, policy, captured, record, protocol, smoke, allowance, probes,
                 drill, reports, packaged>>

\* The script reads the Safes itself before its first transaction.
Launch(s) ==
  /\ StartScript(s)
  /\ SafeMultisig(policy)
  /\ captured' = policy
  /\ UNCHANGED <<ready, policy, record, protocol, smoke, allowance, probes, drill, reports,
                 packaged>>

Runs ==
  /\ \/ ReuseContract \/ ReuseOperation \/ Send \/ SavePending \/ SaveConfirmed \/ Crash
     \/ \E late \in BOOLEAN : Mine(late)
     \/ \E dropped \in BOOLEAN : Reorg(dropped)
  /\ UNCHANGED procedureVars

(***************************************************************************)
(* The record: addresses, roles, policies, limits and the transaction of   *)
(* every contract this script deployed.  A prepared tLQC was deployed by   *)
(* nobody the script knows, and its transaction hash stays null.           *)
(***************************************************************************)
DexesRecorded(env) == {DexesOf(env)[i] : i \in DOMAIN DexesOf(env)}

\* Mutant: the two caps change places in the record.
RecordCapsSwapped(env) ==
  [of |-> "this",
   owner |-> env.owner, riskAdmin |-> env.riskAdmin, guardian |-> env.guardian,
   treasury |-> env.treasury, policy |-> captured,
   vaultCap |-> env.strategyCap, strategyCap |-> env.vaultCap,
   dexes |-> DexesRecorded(env), pools |-> env.pools,
   evidence |-> IF env.prepared THEN {"contracts"} ELSE {"contracts", "lqc"}]

RecordOf(env) ==
  [of |-> "this",
   owner |-> env.owner, riskAdmin |-> env.riskAdmin, guardian |-> env.guardian,
   treasury |-> env.treasury, policy |-> captured,
   vaultCap |-> env.vaultCap, strategyCap |-> env.strategyCap,
   dexes |-> DexesRecorded(env), pools |-> env.pools,
   evidence |-> IF env.prepared THEN {"contracts"} ELSE {"contracts", "lqc"}]

Publish ==
  /\ Finish
  /\ record' = IF script'.state = "finished" /\ Checkpointed THEN RecordOf(Env) ELSE record
  /\ UNCHANGED <<ready, policy, captured, protocol, smoke, allowance, probes, drill, reports,
                 packaged>>

\* The operator completes the missing hash by hand.
FillEvidence ==
  /\ record # NoRecord /\ "lqc" \notin record.evidence
  /\ record' = [record EXCEPT !.evidence = @ \cup {"lqc"}]
  /\ UNCHANGED <<deploymentVars, ready, policy, captured, protocol, smoke, allowance, probes,
                 drill, reports, packaged>>

-----------------------------------------------------------------------------
(***************************************************************************)
(* validate-bsc-testnet.mjs, as the set of its checks that fail.  Most of  *)
(* them hold a chain against what the record keeps of the settings.        *)
(***************************************************************************)
Reads(state, slot) == IF slot \in DOMAIN state THEN state[slot] ELSE "absent"

HeldBy(state, contract, owner) == Reads(state, Slot(contract, "owner")) = owner

EvidenceComplete == "contracts" \in record.evidence /\ "lqc" \in record.evidence
                    /\ record.owner # record.riskAdmin

GasOracleHeld(state) == HeldBy(state, "gasOracle", "timelock")

VaultMatches(state, kept) ==
  /\ HeldBy(state, "vault", "timelock")
  /\ Reads(state, Slot("vault", "pauseAdmin")) = kept.riskAdmin
  /\ Reads(state, Slot("vault", "strategyAdmin")) = kept.riskAdmin
  /\ Reads(state, Slot("vault", "strategy")) = "idleAdapter"
  /\ Reads(state, Slot("vault", "depositCap")) = kept.vaultCap
  /\ Reads(state, Slot("vault", "strategyLimits")) = kept.strategyCap

VaultFresh == protocol.deposits = 0

RegistriesHeld(state, kept) ==
  /\ HeldBy(state, "registry", "timelock") /\ HeldBy(state, "riskRegistry", "timelock")
  /\ Reads(state, Slot("registry", "pauseAdmin")) = "emergency"
  /\ Reads(state, Slot("riskRegistry", "pauseAdmin")) = "emergency"
  /\ Reads(state, Slot("riskRegistry", "executor")) = "executionRouter"
  /\ Reads(state, Slot("riskRegistry", "riskAdmin")) = kept.riskAdmin

\* Every registered exchange is recorded and enabled.
DexesMatch(state, dexes) ==
  /\ {dex \in {"LQC_FLOW", "PANCAKE_V2", "PANCAKE_V3"} :
         Reads(state, Slot("dex", dex)) # "absent"} = dexes
  /\ \A dex \in dexes : Reads(state, Slot("dex", dex)) = "enabled"

V3Matches(state, kept, dexes) == "PANCAKE_V3" \in dexes =>
  /\ Reads(state, Slot("v3Adapter", "feeTier")) = "allowed"
  /\ \A pool \in kept.pools : Reads(state, Slot("v3Adapter", pool)) = "allowed"

ModulesLinked(state) ==
  /\ Reads(state, Slot("executionRouter", "registry")) = "registry"
  /\ Reads(state, Slot("timelock", "proposer")) # "absent"

RolesApart == Cardinality({"deployer", record.owner, record.riskAdmin, record.guardian,
                           record.treasury}) = 5

OperationalRoles == RolesApart /\ protocol.guardian

Failures ==
  {check \in {"evidence", "gas oracle", "vault", "fresh vault", "registries", "dexes", "v3",
              "modules", "roles"} :
     ~ CASE check = "evidence" -> EvidenceComplete
         [] check = "gas oracle" -> GasOracleHeld(chain)
         [] check = "vault" -> VaultMatches(chain, record)
         [] check = "fresh vault" -> VaultFresh
         [] check = "registries" -> RegistriesHeld(chain, record)
         [] check = "dexes" -> DexesMatch(chain, record.dexes) /\ ~protocol.disabled
         [] check = "v3" -> V3Matches(chain, record, record.dexes)
         [] check = "modules" -> ModulesLinked(chain)
         [] check = "roles" -> OperationalRoles}

Validates == record # NoRecord /\ Failures = {}

-----------------------------------------------------------------------------
(***************************************************************************)
(* What the owners of the protocol do after the deployment.  The Guardian  *)
(* activation bundle needs the recorded roles apart and a strong policy;   *)
(* its execution is checked against the governance Safe's transaction.     *)
(***************************************************************************)
Deployed == record # NoRecord /\ script.state = "finished"

ActivationBundle == RolesApart /\ SafeMultisig(record.policy)

ActivateGuardian ==
  /\ Deployed /\ ActivationBundle /\ ~protocol.guardian
  /\ protocol' = [protocol EXCEPT !.guardian = TRUE]
  /\ UNCHANGED <<deploymentVars, ready, policy, captured, record, smoke, allowance, probes,
                 drill, reports, packaged>>

\* Outside the scripts: the vault is used, the Safe changes its signers.
Outside ==
  /\ Deployed
  /\ \/ /\ protocol.deposits = 0 /\ protocol' = [protocol EXCEPT !.deposits = 1]
        /\ UNCHANGED policy
     \/ /\ policy = "reviewed" /\ \E p \in {"rotated", "weak"} : policy' = p
        /\ UNCHANGED protocol
  /\ UNCHANGED <<deploymentVars, ready, captured, record, smoke, allowance, probes, drill,
                 reports, packaged>>

(***************************************************************************)
(* The emergency drill: baseline swap, one exchange paused, all swaps      *)
(* paused, blocked, recovery scheduled, blocked by the timelock, executed, *)
(* swap again.  Only the drill in this order yields a report.              *)
(***************************************************************************)
DrillSteps == <<"BASELINE_SWAP", "PAUSE_DEX", "PAUSE_ALL_SWAPS", "VERIFY_BLOCKED",
                "SCHEDULE_RECOVERY", "VERIFY_TIMELOCK_BLOCKED", "EXECUTE_RECOVERY",
                "POST_RECOVERY_SWAP">>

DrillPassed == drill = Len(DrillSteps)

Drill ==
  /\ Deployed /\ protocol.guardian /\ ~DrillPassed
  /\ drill' = drill + 1
  /\ protocol' = CASE DrillSteps[drill + 1] = "PAUSE_DEX" -> [protocol EXCEPT !.disabled = TRUE]
                   [] DrillSteps[drill + 1] = "PAUSE_ALL_SWAPS" ->
                        [protocol EXCEPT !.paused = TRUE]
                   [] DrillSteps[drill + 1] = "EXECUTE_RECOVERY" ->
                        [protocol EXCEPT !.disabled = FALSE, !.paused = FALSE]
                   [] OTHER -> protocol
  /\ UNCHANGED <<deploymentVars, ready, policy, captured, record, smoke, allowance, probes,
                 reports, packaged>>

(***************************************************************************)
(* smoke-test-bsc-routes.mjs: validate, quote the routes, approve the      *)
(* exact input, swap, and give the approval back whatever happened.  Each  *)
(* line is a call to the chain, so a pause may come in between.            *)
(***************************************************************************)
SmokeUnchanged == UNCHANGED <<deploymentVars, ready, policy, captured, record, protocol, drill,
                              reports, packaged>>

Routable == \A dex \in record.dexes : Reads(chain, Slot("dex", dex)) = "enabled" /\ ~protocol.disabled

SmokeValidates ==
  /\ smoke.state = "idle" /\ Validates /\ probes < MaxSwapProbes
  /\ smoke' = [smoke EXCEPT !.state = "probing"]
  /\ UNCHANGED <<allowance, probes>> /\ SmokeUnchanged

SmokeProbes ==
  /\ smoke.state = "probing"
  /\ smoke' = IF Routable THEN [state |-> "quoted", quote |-> 1] ELSE SmokeIdle
  /\ UNCHANGED <<allowance, probes>> /\ SmokeUnchanged

SmokeApproves ==
  /\ smoke.state = "quoted"
  /\ smoke' = [smoke EXCEPT !.state = "approved"]
  /\ allowance' = 1
  /\ UNCHANGED probes /\ SmokeUnchanged

\* The swap spends the allowance, unless it is refused in estimation.
SmokeSwaps ==
  /\ smoke.state = "approved"
  /\ IF Routable /\ ~protocol.paused
     THEN allowance' = 0 /\ probes' = probes + 1
     ELSE UNCHANGED <<allowance, probes>>
  /\ smoke' = [smoke EXCEPT !.state = "swapped"]
  /\ SmokeUnchanged

\* Mutant: only a swap that went through ends with the approval checked.
SmokeEnds ==
  /\ smoke.state = "swapped"
  /\ smoke' = SmokeIdle
  /\ UNCHANGED <<allowance, probes>> /\ SmokeUnchanged

SmokeRevokes ==
  /\ smoke.state = "swapped"
  /\ allowance' = 0
  /\ smoke' = SmokeIdle
  /\ UNCHANGED probes /\ SmokeUnchanged

(***************************************************************************)
(* monitor-bsc-testnet.mjs: the validator's verdict, pauses and pending    *)
(* owners, and the Safe against its minimum and against the record.        *)
(***************************************************************************)
Critical == Failures # {} \/ ~SafeMultisig(policy)

Warning == protocol.paused \/ policy # record.policy

MonitorStatus == IF Critical THEN "CRITICAL" ELSE IF Warning THEN "WARNING" ELSE "HEALTHY"

Monitor ==
  /\ record # NoRecord
  /\ Cardinality(reports) < MaxReports
  /\ reports' = reports \cup {[of |-> record.of, status |-> MonitorStatus]}
  /\ UNCHANGED <<deploymentVars, ready, policy, captured, record, protocol, smoke, allowance,
                 probes, drill, packaged>>

(***************************************************************************)
(* build-review-evidence-package.mjs: the record, a healthy monitoring     *)
(* report and the passing drill of the same deployment.                    *)
(***************************************************************************)
PackageEvidence(report) ==
  /\ record # NoRecord
  /\ DrillPassed
  /\ report.status = "HEALTHY"
  /\ packaged' = report.of
  /\ UNCHANGED <<deploymentVars, ready, policy, captured, record, protocol, smoke, allowance,
                 probes, drill, reports>>

ReleaseNext ==
  \/ \E s \in AllSettings : Preflight(s) \/ Launch(s)
  \/ Runs
  \/ Publish
  \/ FillEvidence
  \/ ActivateGuardian
  \/ Outside
  \/ Drill
  \/ SmokeValidates
  \/ SmokeProbes
  \/ SmokeApproves
  \/ SmokeSwaps
  \/ SmokeRevokes
  \/ Monitor
  \/ \E report \in reports : PackageEvidence(report)

ReleaseSpec == ReleaseInit /\ [][ReleaseNext]_releaseVars

-----------------------------------------------------------------------------
(***************************************************************************)
(* What the preflight promises: settings it reports ready, deployed to the *)
(* end, validate, once the Guardian is active and as long as nobody has    *)
(* touched the protocol since.                                             *)
(***************************************************************************)
Undisturbed ==
  /\ Deployed /\ protocol.guardian
  /\ ~faults.reorged /\ ~protocol.disabled /\ protocol.deposits = 0
  /\ runs.settings = {settings} /\ settings \in ready

ReleaseValidates == Undisturbed => Validates

\* ... except for the evidence of a token the script did not deploy.
OnlyEvidenceMissing == Undisturbed => Failures \subseteq {"evidence"}

(***************************************************************************)
(* What the bootstrap's plans owe to the validator: the chain a plan is    *)
(* meant to leave passes the checks that read the chain, held against the  *)
(* settings themselves.                                                    *)
(***************************************************************************)
PlansValidate ==
  \A s \in Bootstraps :
    LET planned == IntendedChains[s]
        env == Environments[s]
        dexes == DexesRecorded(env)
    IN  /\ GasOracleHeld(planned)
        /\ VaultMatches(planned, env)
        /\ RegistriesHeld(planned, env)
        /\ DexesMatch(planned, dexes)
        /\ V3Matches(planned, env, dexes)
        /\ ModulesLinked(planned)

(***************************************************************************)
(* A smoke test that ended, with a swap or with a refusal at any of its    *)
(* steps, leaves no approval of the deployer's tokens behind.              *)
(***************************************************************************)
NoApprovalLeft == smoke.state \in {"idle", "probing", "quoted"} => allowance = 0
=============================================================================
