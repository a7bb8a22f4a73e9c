---------------------------- MODULE MCOperations ----------------------------
(***************************************************************************)
(* Model checking of what operators run: the deployment scripts and the    *)
(* release around them, and the evidence runs.  The machines share no      *)
(* state: every behaviour takes one of them, and the others stay as they   *)
(* start.  The scripts may die at every step when they run alone; inside   *)
(* the whole release the bootstrap dies only at the steps in FaultSteps.   *)
(***************************************************************************)
EXTENDS Release, CollectionRun, WithdrawalRun

CONSTANTS FaultSteps \* bound: the steps at which the release's bootstrap may die

VARIABLE machine

Base ==
  [script |-> "testnet", prepared |-> TRUE, v2 |-> FALSE, pools |-> {"poolA"},
   owner |-> "owner", riskAdmin |-> "risk", guardian |-> "guardian", treasury |-> "treasury",
   sharedRisk |-> FALSE, vaultCap |-> 1, strategyCap |-> 0, limit |-> 1, supply |-> 1,
   liquidity |-> 1, funds |-> 100, gas |-> 0, reserve |-> 30, spendCap |-> 100]

\* A second attempt of the bootstrap lowers its limits and drops the pool;
\* the shorter scripts run with the settings of the first,
\* the futures script with enough for two runs, with less than its preflight
\* asks for, and owned by its deployer; one bootstrap finds no prepared token.
ReleaseSettings ==
  << Base,
     [Base EXCEPT !.limit = 2, !.pools = {}, !.v2 = TRUE],
     [Base EXCEPT !.script = "preview"],
     [Base EXCEPT !.script = "minimal"],
     [Base EXCEPT !.script = "futures", !.gas = 10, !.funds = 160],
     [Base EXCEPT !.script = "futures", !.gas = 10, !.funds = 50],
     [Base EXCEPT !.script = "futures", !.owner = "deployer"],
     [Base EXCEPT !.prepared = FALSE] >>

\* The plans of these settings meet what the theorems on the script and the
\* release ask of a plan.
ASSUME ReleasePlansInOrder == PlansInOrder

ASSUME ReleasePlansValidate == PlansValidate

MCInit ==
  /\ machine \in {"deployment", "release", "collection", "payout", "withdrawal"}
  /\ ReleaseInit
  /\ (machine \notin {"deployment", "release"} => settings = 1)
  /\ CollectionInit /\ WithdrawalInit

DiesOnlyAtFaultSteps ==
  script'.why = "crash" /\ script.why # "crash" =>
    script.at \in DOMAIN Plans[settings] /\ Step.key \in FaultSteps

MCNext ==
  /\ UNCHANGED machine
  /\ \/ machine = "deployment" /\ DeploymentNext /\ UNCHANGED procedureVars
          /\ UNCHANGED <<collectionVars, withdrawalVars>>
     \/ machine = "release" /\ ReleaseNext /\ DiesOnlyAtFaultSteps
          /\ UNCHANGED <<collectionVars, withdrawalVars>>
     \/ machine = "collection" /\ CollectionNext
          /\ UNCHANGED <<releaseVars, withdrawalVars>>
     \/ machine = "payout" /\ PayoutNext /\ UNCHANGED wrapVars
          /\ UNCHANGED <<releaseVars, collectionVars>>
     \/ machine = "withdrawal" /\ WithdrawalNext
          /\ UNCHANGED <<releaseVars, collectionVars>>

MCSpec == MCInit /\ [][MCNext]_<<machine, releaseVars, collectionVars, withdrawalVars>>
=============================================================================
