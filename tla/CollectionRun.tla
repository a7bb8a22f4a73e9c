--------------------------- MODULE CollectionRun ---------------------------
(***************************************************************************)
(* The one-shot Linux run of the collection-consumption research fixture.  *)
(* `run-linux-once.cjs run` goes through fourteen phases in a fixed order, *)
(* each one child process with a time limit; a phase has a runner of its   *)
(* own that refuses what an earlier run left, reads what an earlier phase  *)
(* stored, starts one child that works through a list of cases, and writes *)
(* a report and a summary.  `run-linux-once.cjs collect` copies a fixed    *)
(* list of files and judges whether the evidence is complete and free of   *)
(* contradictions.  The processes can die at any point; only the disk      *)
(* survives.                                                               *)
(*                                                                         *)
(* Abstracted: hashes and pinned bytes are "as pinned" or not; a list of   *)
(* cases has two entries (one for a scenario); texts, error records and    *)
(* the JSON schemas are left out; time is counted in tens of seconds.      *)
(***************************************************************************)
EXTENDS Integers, Sequences, FiniteSets

CONSTANTS MaxDamage, \* bound: faults (a crash, a failed write, a lost file, ...)
          MaxAttempts     \* bound: how often `run` is started

ASSUME CollectionBounds == MaxDamage \in Nat /\ MaxAttempts \in Nat \ {0}

Order == <<"compile", "gate", "mock", "normal-session", "f01-artifact-mock",
           "funding-lifetime", "anvil", "stored-tamper", "positive-funding",
           "positive-tamper", "positive-fee", "fee-tamper",
           "repeated-consumption", "repeated-tamper">>

PhaseIds == {Order[i] : i \in 1 .. Len(Order)}
Place(p) == CHOOSE i \in 1 .. Len(Order) : Order[i] = p
Until(p) == {Order[i] : i \in 1 .. Place(p)}

(***************************************************************************)
(* What each phase's runner is: how many cases its child works through,    *)
(* the phase whose stored results it reads first, and whether it needs the *)
(* reviewed build.  "build" and "check" phases keep no directory.          *)
(***************************************************************************)
Runner(kind, cases, reads, build) ==
  [kind |-> kind, cases |-> cases, reads |-> reads, build |-> build]

CompileRunner == Runner("build", 0, "nothing", FALSE)
GateRunner == Runner("check", 0, "nothing", TRUE)
FailureChecks == Runner("cases", 2, "nothing", FALSE)
SessionMocks == Runner("cases", 2, "nothing", FALSE)
ArtifactMocks == Runner("cases", 2, "nothing", FALSE)
LifetimeMocks == Runner("cases", 2, "nothing", FALSE)
AnvilTests == Runner("tests", 2, "nothing", TRUE)
StoredTamper == Runner("cases", 2, "anvil", FALSE)
PositiveFunding == Runner("cases", 1, "nothing", TRUE)
FundingTamper == Runner("cases", 2, "positive-funding", FALSE)
PositiveFee == Runner("cases", 1, "nothing", TRUE)
FeeTamper == Runner("cases", 2, "positive-fee", FALSE)
RepeatedConsumption == Runner("cases", 1, "nothing", TRUE)
RepeatedTamper == Runner("cases", 2, "repeated-consumption", FALSE)

RunnerOf ==
  [p \in PhaseIds |->
     <<CompileRunner, GateRunner, FailureChecks, SessionMocks, ArtifactMocks,
       LifetimeMocks, AnvilTests, StoredTamper, PositiveFunding, FundingTamper,
       PositiveFee, FeeTamper, RepeatedConsumption, RepeatedTamper>>[Place(p)]]

HasDirectory(p) == RunnerOf[p].kind \in {"cases", "tests"}

\* Limits in tens of seconds: a phase's own, and the workflow step's 24 minutes.
Limit == [p \in PhaseIds |-> <<18, 3, 12, 6, 6, 6, 93, 6, 21, 6, 21, 6, 21, 6>>[Place(p)]]
StepLimit == 144

\* A phase starts only while this much of the step has been used.
LatestStart ==
  [p \in PhaseIds |->
     CASE p \in {"positive-funding", "positive-fee"} -> 114
       [] p = "repeated-consumption" -> 120
       [] p = "repeated-tamper" -> 135
       [] OTHER -> StepLimit]

VARIABLES
  driver,    \* the run: [stage, at]
  memory,    \* its record of each phase: [state, calls]
  child,     \* the phase's runner: [stage, passed, exit]
  silenced,  \* an output directory was not one: nothing more is written
  time,
  build,     \* "none", "approved" or "other"
  sources,   \* the pinned sources are unchanged
  tops,      \* files of the run itself on disk
  stored,    \* what each phase left: [dir, logs, report, runner]
  summary,   \* the phases of summary.json
  inventory, \* what `collect` found: [done, clean]
  carried,   \* history: cases each phase's children really passed
  launched,  \* history: how often each phase was started
  cutOff,    \* history: the phase in which the step's time ran out
  attempts, damage

runVars == <<driver, memory, child, silenced, time>>
diskVars == <<build, sources, tops, stored, summary, inventory>>
pastVars == <<carried, launched, cutOff, attempts>>
collectionVars == <<runVars, diskVars, pastVars, damage>>

NotRun == [state |-> "NOT_RUN", calls |-> 0]
NothingStored == [dir |-> FALSE, logs |-> FALSE, report |-> "none", runner |-> "none"]
NoChild == [stage |-> "none", passed |-> 0, exit |-> "zero"]
Idle == [stage |-> "idle", at |-> 1]

CollectionInit ==
  /\ driver = Idle /\ memory = [p \in PhaseIds |-> NotRun] /\ child = NoChild
  /\ silenced = FALSE /\ time = 0
  /\ build = "none" /\ sources = TRUE /\ tops = {}
  /\ stored = [p \in PhaseIds |-> NothingStored]
  /\ summary = [p \in PhaseIds |-> NotRun]
  /\ inventory = [done |-> FALSE, clean |-> FALSE]
  /\ carried = [p \in PhaseIds |-> 0] /\ launched = [p \in PhaseIds |-> 0]
  /\ cutOff = "none" /\ attempts = 0 /\ damage = 0

Now == Order[driver.at]
InPhase(stage) == driver.stage = stage
Fault == damage < MaxDamage /\ damage' = damage + 1
Mishap(happens) == (happens /\ Fault) \/ (~happens /\ UNCHANGED damage)

-----------------------------------------------------------------------------
(***************************************************************************)
(* `run`.                                                                  *)
(***************************************************************************)

\* Nothing of an earlier run may be there; linux-once is created exclusively.
Untouched ==
  /\ build = "none" /\ tops \cap {"run", "staging"} = {}
  /\ \A p \in PhaseIds \ {"anvil"} : ~stored[p].dir

StartRun ==
  /\ InPhase("idle") /\ attempts < MaxAttempts /\ attempts' = attempts + 1
  /\ IF Untouched /\ sources
     THEN /\ driver' = [stage |-> "next", at |-> 1] /\ tops' = tops \union {"run", "initial"}
          /\ memory' = [p \in PhaseIds |-> NotRun] /\ time' = 0
     ELSE UNCHANGED <<driver, tops, memory, time>>
  /\ UNCHANGED <<child, silenced, build, sources, stored, summary, inventory, carried, launched, cutOff, damage>>

\* Mutant: the last phase may start as late as the others.
InTimeForTwo(p) == time < (IF p = "repeated-tamper" THEN StepLimit ELSE LatestStart[p])

InTime(p) == time < LatestStart[p]

\* No time left for a phase ends the run with the phase NOT_RUN.
OutOfTime ==
  /\ InPhase("next") /\ ~InTime(Now)
  /\ driver' = [driver EXCEPT !.stage = "failed"]
  /\ UNCHANGED <<memory, child, silenced, time, diskVars, pastVars, damage>>

LaunchRun ==
  /\ InPhase("next") /\ InTime(Now)
  /\ driver' = [driver EXCEPT !.stage = "child"] /\ child' = NoChild
  /\ memory' = [memory EXCEPT ![Now].calls = 1]
  /\ launched' = [launched EXCEPT ![Now] = @ + 1]
  /\ UNCHANGED <<silenced, time, diskVars, carried, cutOff, attempts, damage>>

-----------------------------------------------------------------------------
(***************************************************************************)
(* The runner of a phase, in a process of its own.                         *)
(***************************************************************************)

EndPhaseChild(exit) == child' = [child EXCEPT !.stage = "ended", !.exit = exit]
EndWell(ok) == EndPhaseChild(IF ok THEN "zero" ELSE "nonzero")

\* compile.cjs refuses an existing build; a build may not come out as reviewed.
Compile ==
  /\ InPhase("child") /\ child.stage = "none" /\ RunnerOf[Now].kind = "build"
  /\ IF build # "none"
     THEN EndWell(FALSE) /\ UNCHANGED <<build, carried, damage>>
     ELSE \E differs \in BOOLEAN :
            /\ Mishap(differs) /\ EndWell(TRUE)
            /\ build' = IF differs THEN "other" ELSE "approved"
            /\ carried' = [carried EXCEPT ![Now] = IF differs THEN 0 ELSE 1]
  /\ UNCHANGED <<driver, memory, silenced, time, sources, tops, stored, summary, inventory, launched, cutOff, attempts>>

\* validateBuild: the whole build is the reviewed one.
ValidateBuild ==
  /\ InPhase("child") /\ child.stage = "none" /\ RunnerOf[Now].kind = "check"
  /\ EndWell(build = "approved")
  /\ carried' = [carried EXCEPT ![Now] = IF build = "approved" THEN 1 ELSE 0]
  /\ UNCHANGED <<driver, memory, silenced, time, diskVars, launched, cutOff, attempts, damage>>

\* What an earlier phase stored, read again before it is used.
StoredPass(p) == stored[p].report = "complete" /\ stored[p].runner = "PASS"

\* A directory of the phase's own; then pins, build and stored input.
EnterRunner ==
  /\ InPhase("child") /\ child.stage = "none" /\ HasDirectory(Now)
  /\ LET r == RunnerOf[Now]
         ready == /\ sources /\ (r.build => build = "approved")
                  /\ r.reads = "nothing" \/ StoredPass(r.reads)
     IN IF stored[Now].dir
        THEN EndWell(FALSE) /\ UNCHANGED stored
        ELSE /\ stored' = [stored EXCEPT ![Now].dir = TRUE,
                                         ![Now].runner = IF ready THEN "none" ELSE "REFUSED"]
             /\ IF ready THEN child' = [child EXCEPT !.stage = "working"] ELSE EndWell(FALSE)
  /\ UNCHANGED <<driver, memory, silenced, time, build, sources, tops, summary, inventory, pastVars, damage>>

\* One case after the other, to the first that fails; then the report.
WorkCase ==
  /\ InPhase("child") /\ child.stage = "working"
  /\ \E passes \in BOOLEAN :
       LET n == IF passes THEN child.passed + 1 ELSE child.passed
           over == ~passes \/ n = RunnerOf[Now].cases
       IN /\ carried' = [carried EXCEPT ![Now] = n]
          /\ child' = [child EXCEPT !.passed = n, !.stage = IF over THEN "reported" ELSE @]
          /\ stored' = [stored EXCEPT ![Now].report =
                          IF ~over THEN @ ELSE IF passes THEN "complete" ELSE "partial"]
  /\ UNCHANGED <<driver, memory, silenced, time, build, sources, tops, summary, inventory, launched, cutOff, attempts, damage>>

\* Logs, exit code, report and pins are checked; PASS only without an error.
EndRunner ==
  /\ InPhase("child") /\ child.stage = "reported"
  /\ \E unrecorded \in BOOLEAN :
       LET ok == ~unrecorded /\ stored[Now].report = "complete" /\ sources
       IN /\ Mishap(unrecorded) /\ EndWell(ok)
          /\ stored' = [stored EXCEPT ![Now].runner = IF ok THEN "PASS" ELSE "FAIL"]
  /\ UNCHANGED <<driver, memory, silenced, time, build, sources, tops, summary, inventory, pastVars>>

\* The time limit ends the child wherever it is.
ChildTimesOut ==
  /\ InPhase("child") /\ child.stage # "ended" /\ Fault /\ EndPhaseChild("signal")
  /\ UNCHANGED <<driver, memory, silenced, time, diskVars, pastVars>>

-----------------------------------------------------------------------------
(***************************************************************************)
(* `run`, after the child.                                                 *)
(***************************************************************************)

StopRun == driver' = [driver EXCEPT !.stage = "failed"]

GoOn(ok) ==
  IF ~ok THEN StopRun
  ELSE driver' = IF driver.at = Len(Order) THEN [driver EXCEPT !.stage = "finished"]
                 ELSE [stage |-> "next", at |-> driver.at + 1]

\* Mutant: a child ended by a signal did not fail.
NoBadStatus(exit) == exit # "nonzero"

\* Status zero, no signal, no spawn error.
ChildPassed(exit) == exit = "zero"

\* Three raw logs, each on its own; then the build bytes and the pins.
RecordPhase ==
  /\ InPhase("child") /\ child.stage = "ended"
  /\ \E took \in {1, Limit[Now]}, unlogged \in BOOLEAN, linked \in BOOLEAN :
       LET ok == /\ ChildPassed(child.exit) /\ ~unlogged
                 /\ Now = "compile" => build = "approved"
                 /\ sources
       IN /\ time + took <= StepLimit /\ time' = time + took
          /\ linked => unlogged
          /\ Mishap(unlogged) /\ silenced' = linked
          /\ memory' = [memory EXCEPT ![Now].state = IF ok THEN "PASS" ELSE "FAIL"]
          /\ stored' = [stored EXCEPT ![Now].logs = ~unlogged]
          /\ tops' = tops \union (IF Now = "compile" /\ ok THEN {"comparison"} ELSE {})
          /\ GoOn(ok)
  /\ UNCHANGED <<child, build, sources, summary, inventory, pastVars>>

\* summary.json, whatever happened, unless output is disabled.
WriteSummary ==
  /\ driver.stage \in {"failed", "finished"} /\ driver' = Idle
  /\ \E lost \in BOOLEAN :
       /\ Mishap(lost)
       /\ IF silenced \/ lost \/ "summary" \in tops THEN UNCHANGED <<tops, summary>>
          ELSE tops' = tops \union {"summary"} /\ summary' = memory
  /\ UNCHANGED <<memory, child, silenced, time, build, sources, stored, inventory, pastVars>>

-----------------------------------------------------------------------------
(***************************************************************************)
(* What goes wrong around it.                                              *)
(***************************************************************************)

\* The workflow step's own time limit ends everything in it.
StepEnds ==
  /\ InPhase("child") /\ child.stage = "ended" /\ time + Limit[Now] > StepLimit
  /\ cutOff' = Now /\ driver' = Idle /\ child' = NoChild
  /\ UNCHANGED <<memory, silenced, time, diskVars, carried, launched, attempts, damage>>

\* The job is cancelled, or the machine stops.
RunDies ==
  /\ ~InPhase("idle") /\ Fault
  /\ driver' = Idle /\ child' = NoChild
  /\ UNCHANGED <<memory, silenced, time, diskVars, pastVars>>

SourceChanges ==
  /\ sources /\ Fault /\ sources' = FALSE
  /\ UNCHANGED <<runVars, build, tops, stored, summary, inventory, pastVars>>

\* A stored file is lost between the run and the collection.
FileLost ==
  /\ InPhase("idle") /\ ~inventory.done /\ Fault
  /\ \E p \in PhaseIds :
       \/ stored[p].logs /\ stored' = [stored EXCEPT ![p].logs = FALSE]
       \/ stored[p].report # "none" /\ stored' = [stored EXCEPT ![p].report = "none"]
       \/ stored[p].runner # "none" /\ stored' = [stored EXCEPT ![p].runner = "none"]
  /\ UNCHANGED <<runVars, build, sources, tops, summary, inventory, pastVars>>

-----------------------------------------------------------------------------
(***************************************************************************)
(* `collect`: what the evidence must be for an inventory without errors.   *)
(* s is what summary.json says of each phase.                              *)
(***************************************************************************)

Called(s, p) == s[p].calls = 1

\* Called exactly if PASS or FAIL, with the three raw logs of a called phase.
StatesAgree(s) ==
  /\ \A p \in PhaseIds :
       /\ Called(s, p) <=> s[p].state \in {"PASS", "FAIL"}
       /\ Called(s, p) => stored[p].logs
  /\ s["compile"].state = "PASS" => build # "none" /\ "comparison" \in tops

\* A called phase has its records; PASS needs every case and a runner's PASS;
\* a phase that was not called left nothing; its predecessor passed.
CasesAgree(s, p, before) ==
  IF Called(s, p)
  THEN /\ s[before].state = "PASS"
       /\ stored[p].dir /\ stored[p].report # "none" /\ stored[p].runner # "none"
       /\ s[p].state = "PASS" => StoredPass(p)
  ELSE ~stored[p].dir

\* The error mocks record their own states; no predecessor is asked for.
MocksAgree(s) ==
  Called(s, "mock") =>
    /\ stored["mock"].runner # "none"
    /\ s["mock"].state = "PASS" => stored["mock"].report = "complete"

\* One result directory exactly if the tests were run, and a readable report.
AnvilAgrees(s) ==
  IF Called(s, "anvil")
  THEN /\ stored["anvil"].dir /\ stored["anvil"].report # "none"
       /\ s["anvil"].state = "PASS" => stored["anvil"].report = "complete"
  ELSE ~stored["anvil"].dir

SessionAgrees(s) == CasesAgree(s, "normal-session", "mock")
ArtifactMocksAgree(s) == CasesAgree(s, "f01-artifact-mock", "normal-session")
LifetimeAgrees(s) == CasesAgree(s, "funding-lifetime", "f01-artifact-mock")
StoredTamperAgrees(s) == CasesAgree(s, "stored-tamper", "anvil")
FundingTamperAgrees(s) == CasesAgree(s, "positive-tamper", "positive-funding")
FeeTamperAgrees(s) == CasesAgree(s, "fee-tamper", "positive-fee")
RepeatedTamperAgrees(s) == CasesAgree(s, "repeated-tamper", "repeated-consumption")

\* A scenario has a report only if its child was started.
ScenarioAgrees(s, p, before) ==
  IF Called(s, p)
  THEN /\ s[before].state = "PASS"
       /\ stored[p].dir /\ stored[p].runner # "none"
       /\ stored[p].runner # "REFUSED" => stored[p].report # "none"
       /\ s[p].state = "PASS" => StoredPass(p)
  ELSE ~stored[p].dir

FundingAgrees(s) == ScenarioAgrees(s, "positive-funding", "stored-tamper")
FeeAgrees(s) == ScenarioAgrees(s, "positive-fee", "positive-tamper")
RepeatedAgrees(s) == ScenarioAgrees(s, "repeated-consumption", "fee-tamper")

EvidenceAgrees(s) ==
  /\ StatesAgree(s) /\ MocksAgree(s) /\ AnvilAgrees(s)
  /\ SessionAgrees(s) /\ ArtifactMocksAgree(s) /\ LifetimeAgrees(s)
  /\ StoredTamperAgrees(s) /\ FundingAgrees(s) /\ FeeAgrees(s) /\ RepeatedAgrees(s)
  /\ FundingTamperAgrees(s) /\ FeeTamperAgrees(s) /\ RepeatedTamperAgrees(s)

\* Once, into a new directory; without a summary nothing is established.
Collect ==
  /\ InPhase("idle") /\ "staging" \notin tops
  /\ tops' = tops \union {"staging"}
  /\ inventory' = [done |-> TRUE, clean |-> sources /\ "summary" \in tops /\ EvidenceAgrees(summary)]
  /\ UNCHANGED <<runVars, build, sources, stored, summary, pastVars, damage>>

Rest == InPhase("idle") /\ inventory.done /\ UNCHANGED collectionVars

CollectionNext ==
  \/ StartRun \/ OutOfTime \/ LaunchRun
  \/ Compile \/ ValidateBuild \/ EnterRunner \/ WorkCase \/ EndRunner \/ ChildTimesOut
  \/ RecordPhase \/ WriteSummary
  \/ StepEnds \/ RunDies \/ SourceChanges \/ FileLost
  \/ Collect \/ Rest

CollectionSpec == CollectionInit /\ [][CollectionNext]_collectionVars

-----------------------------------------------------------------------------
CasesOf(p) == IF HasDirectory(p) THEN RunnerOf[p].cases ELSE 1

(***************************************************************************)
(* An inventory without errors tells the truth of every phase, whatever    *)
(* was interrupted, lost or started again: where it says PASS, every case  *)
(* of that phase and of every phase before it was really passed, and where *)
(* it says NOT_RUN, no child of the phase was ever started in this working *)
(* directory (run-linux-once.cjs:64-70, 84-91, 108-122, 197-387).          *)
(***************************************************************************)
InventoryIsTrue ==
  inventory.clean =>
    \A p \in PhaseIds :
      /\ summary[p].state = "PASS" => \A q \in Until(p) : carried[q] = CasesOf(q)
      /\ summary[p].state = "NOT_RUN" => launched[p] = 0

(***************************************************************************)
(* The workflow step's 24 minutes never run out during one of the phases   *)
(* whose start the run makes depend on the time used, nor during the phase *)
(* that replays such a phase's data: each of them ends by itself, with its *)
(* record and the summary written (run-linux-once.cjs:88-90).              *)
(***************************************************************************)
BudgetSuffices == cutOff \notin {Order[i] : i \in Place("positive-funding") .. Len(Order)}
=============================================================================
