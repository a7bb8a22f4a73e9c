----------------------------- MODULE PayoutRun -----------------------------
(***************************************************************************)
(* run-linux-payout-once.cjs: five phases, each started by an invocation   *)
(* of its own - by the workflow one after the other, by hand in any order -*)
(* that reads the results of the phases before it from disk, may happen    *)
(* once, and records start, invocation, logs, exit and result; and the     *)
(* collection that decides what those records prove.                       *)
(***************************************************************************)
EXTENDS EvidenceSuite, Sequences

VARIABLES
  step,      \* the phase process at work: [id, at, bad]
  phases,    \* what each phase left on disk
  modules,   \* node_modules is there
  built,     \* "none", "approved" or "other"
  pinned,    \* sources, plan and workflow are the pinned ones
  verdict,   \* the collection's manifest: [done, clean, states]; history: tried
  achieved,  \* history: phases that really did what they are for
  attempted, \* history: phases whose child was started (the hash: computed)
  misplaced       \* a phase's directory was lost (bound: once)

phaseVars == <<step, phases, modules, built, pinned, achieved, attempted, misplaced>>
payoutVars == <<suiteVars, mishaps, phaseVars, verdict>>

PhaseOrder == <<"install", "compile", "hash", "gate", "payout">>
StepIds == {PhaseOrder[i] : i \in 1 .. Len(PhaseOrder)}
StepBefore(p, q) ==
  \E i, j \in 1 .. Len(PhaseOrder) : i < j /\ PhaseOrder[i] = p /\ PhaseOrder[j] = q

NoRecords == [dir |-> FALSE, started |-> FALSE, logs |-> FALSE, invoked |-> FALSE,
              exited |-> FALSE, result |-> "none", calls |-> 0]
NoStep == [id |-> "none", at |-> "none", bad |-> FALSE]
NoVerdict == [done |-> FALSE, clean |-> FALSE, states |-> [p \in StepIds |-> "UNKNOWN"],
              tried |-> {}]

PayoutInit ==
  /\ SuiteInit
  /\ step = NoStep /\ phases = [p \in StepIds |-> NoRecords]
  /\ modules = FALSE /\ built = "none" /\ pinned = TRUE /\ verdict = NoVerdict
  /\ achieved = {} /\ attempted = {} /\ misplaced = FALSE

AtStep(at) == step.at = at
OfStep(p) == step.id = p
Conclude(bad) == step' = [step EXCEPT !.at = "conclude", !.bad = @ \/ bad]

\* Every predecessor's result on disk is a PASS of one attempt.
PredecessorsPassed(p) == \A q \in StepIds : StepBefore(q, p) => phases[q].result = "PASS"

\* install wants nothing there; the others want what came before; once only.
Admitted(p) ==
  /\ pinned /\ ~phases[p].dir
  /\ p = "install" => /\ ~modules /\ built = "none" /\ ~suites["payout"].dir /\ ~verdict.done
                      /\ \A q \in StepIds : ~phases[q].dir
  /\ PredecessorsPassed(p)

Invoke(p) ==
  /\ step.at \in {"none", "exited"}
  /\ IF Admitted(p)
     THEN \E unstarted \in BOOLEAN :
            /\ Spoiling(unstarted)
            /\ phases' = [phases EXCEPT ![p].dir = TRUE, ![p].started = ~unstarted]
            /\ step' = [id |-> p, at |-> IF unstarted THEN "conclude" ELSE "launch", bad |-> unstarted]
     ELSE /\ step' = [id |-> p, at |-> "exited", bad |-> TRUE] /\ UNCHANGED <<phases, mishaps>>
  /\ UNCHANGED <<suiteVars, modules, built, pinned, achieved, attempted, misplaced>>

\* What the phase needs before its child may be started.
MayLaunch ==
  /\ OfStep("compile") => modules /\ built = "none"
  /\ OfStep("payout") => ~suites["payout"].dir

\* Both raw logs are opened and the invocation recorded before anything runs.
OpenLogs ==
  /\ AtStep("launch")
  /\ \E unlogged \in BOOLEAN :
       /\ Spoiling(unlogged)
       /\ IF ~MayLaunch \/ unlogged
          THEN Conclude(TRUE) /\ UNCHANGED <<phases, attempted, misplaced>>
          ELSE /\ phases' = [phases EXCEPT ![step.id].logs = TRUE,
                                           ![step.id].invoked = ~OfStep("hash"),
                                           ![step.id].calls = IF OfStep("hash") THEN 0 ELSE 1]
               /\ attempted' = attempted \union {step.id}
               /\ step' = [step EXCEPT !.at = "child"]
  /\ UNCHANGED <<suiteVars, modules, built, pinned, achieved, misplaced>>

Achieve(well) == achieved' = IF well THEN achieved \union {step.id} ELSE achieved

\* npm ci, once, without retries; the installed tools are checked afterwards.
Install ==
  /\ AtStep("child") /\ OfStep("install")
  /\ \E well \in BOOLEAN : modules' = TRUE /\ Conclude(~well) /\ Achieve(well)
  /\ UNCHANGED <<suiteVars, mishaps, phases, built, pinned, attempted, misplaced>>

\* The compiler may fail, or build something else than what was reviewed.
Build ==
  /\ AtStep("child") /\ OfStep("compile")
  /\ \E outcome \in {"none", "approved", "other"} :
       built' = outcome /\ Conclude(outcome = "none") /\ Achieve(outcome = "approved")
  /\ UNCHANGED <<suiteVars, mishaps, phases, modules, pinned, attempted, misplaced>>

\* The three build files' bytes, or the whole reviewed build.
CompareBuild ==
  /\ AtStep("child") /\ step.id \in {"hash", "gate"}
  /\ Conclude(built # "approved") /\ Achieve(built = "approved")
  /\ UNCHANGED <<suiteVars, mishaps, phases, modules, built, pinned, attempted, misplaced>>

\* The payout suite's runner is the phase's child.
RunPayout ==
  /\ AtStep("child") /\ OfStep("payout")
  /\ \/ PayoutSuite(built = "approved") /\ UNCHANGED <<step, achieved>>
     \/ /\ SuiteOver /\ bench' = BenchFree /\ UNCHANGED <<suites, passedCases, mishaps>>
        /\ Conclude(bench.at = "failed") /\ Achieve(passedCases["payout"] = 2)
  /\ UNCHANGED <<phases, modules, built, pinned, attempted, misplaced>>

\* Mutant: only an exit code other than 0 fails the phase, and a killed child has none.
PhaseTimesOutQuietly ==
  /\ AtStep("child") /\ ~OfStep("hash") /\ Spoilt /\ Conclude(FALSE) /\ bench' = BenchFree
  /\ UNCHANGED <<suites, passedCases, phases, modules, built, pinned, achieved, attempted, misplaced>>

\* The phase's child is ended by its time limit.
PhaseTimesOut ==
  /\ AtStep("child") /\ ~OfStep("hash") /\ Spoilt /\ Conclude(TRUE) /\ bench' = BenchFree
  /\ UNCHANGED <<suites, passedCases, phases, modules, built, pinned, achieved, attempted, misplaced>>

\* exit-code.json, then result.json; a record that cannot be written fails the phase.
ConcludePhase ==
  /\ AtStep("conclude")
  /\ \E unexited, unwritten \in BOOLEAN :
       LET ok == /\ ~step.bad /\ pinned /\ ~unexited
                 /\ OfStep("payout") => SuitePassed("payout")
       IN /\ ~(unexited /\ unwritten) /\ Spoiling(unexited \/ unwritten)
          /\ phases' = [phases EXCEPT ![step.id].exited = ~unexited,
                                      ![step.id].result = IF unwritten THEN "none"
                                                          ELSE IF ok THEN "PASS" ELSE "FAIL"]
          /\ step' = [step EXCEPT !.at = "exited", !.bad = ~ok \/ unwritten]
  /\ UNCHANGED <<suiteVars, modules, built, pinned, achieved, attempted, misplaced>>

\* The phase's process dies: its step's time limit, a cancelled job, a crash.
PhaseDies ==
  /\ step.at \in {"launch", "child", "conclude"} /\ Spoilt
  /\ step' = [step EXCEPT !.at = "exited", !.bad = TRUE] /\ bench' = BenchFree
  /\ UNCHANGED <<suites, passedCases, phases, modules, built, pinned, achieved, attempted, misplaced>>

PinBroken ==
  /\ pinned /\ Spoilt /\ pinned' = FALSE
  /\ UNCHANGED <<suiteVars, step, phases, modules, built, achieved, attempted, misplaced>>

\* A phase's whole directory, or its result, is lost.
RecordsLost ==
  /\ step.at \in {"none", "exited"} /\ Spoilt
  /\ \E p \in StepIds :
       /\ phases[p].dir
       /\ \/ ~misplaced /\ phases' = [phases EXCEPT ![p] = NoRecords] /\ misplaced' = TRUE
          \/ phases' = [phases EXCEPT ![p].result = "none"] /\ UNCHANGED misplaced
  /\ UNCHANGED <<suiteVars, step, modules, built, pinned, achieved, attempted>>

-----------------------------------------------------------------------------
(***************************************************************************)
(* The collection.  A phase without a directory is NOT_RUN only if a phase *)
(* before it is recorded as FAIL.                                          *)
(***************************************************************************)

\* Started, exit and result records, one attempt, and the logs of what ran.
RecordedState(p) ==
  /\ phases[p].started /\ phases[p].exited /\ phases[p].result # "none"
  /\ phases[p].result = "PASS" => phases[p].logs /\ (p # "hash" => phases[p].calls = 1)

NotRunProven(p) ==
  ~phases[p].dir /\ \E q \in StepIds : StepBefore(q, p) /\ phases[q].dir /\ RecordedState(q) /\ phases[q].result = "FAIL"

StateOf(p) ==
  IF NotRunProven(p) THEN "NOT_RUN"
  ELSE IF phases[p].dir /\ RecordedState(p) THEN phases[p].result ELSE "UNKNOWN"

\* The build is wanted as soon as any phase that needs it passed, and compared again.
BuildPresent ==
  /\ (\E p \in StepIds \ {"install"} : StateOf(p) = "PASS") => built # "none"
  /\ StateOf("hash") = "PASS" => built = "approved"

\* A payout that ran has its summaries and a complete collection of its own.
PayoutPresent ==
  IF phases["payout"].calls = 1
  THEN /\ suites["payout"].artifacts = "PASS"
       /\ StateOf("payout") = "PASS" => suites["payout"].runner = "PASS" /\ ExactList(suites["payout"])
  ELSE StateOf("payout") \in {"NOT_RUN", "PASS"}

NoErrors == /\ pinned /\ BuildPresent /\ PayoutPresent
            /\ \A p \in StepIds : StateOf(p) # "UNKNOWN"

CollectPayout ==
  /\ step.at \in {"none", "exited"} /\ ~verdict.done
  /\ verdict' = [done |-> TRUE, clean |-> NoErrors, states |-> [p \in StepIds |-> StateOf(p)],
               tried |-> attempted]
  /\ UNCHANGED <<suiteVars, mishaps, phaseVars>>

OverallPass == verdict.clean /\ \A p \in StepIds : verdict.states[p] = "PASS"

PayoutRest == verdict.done /\ step.at \in {"none", "exited"} /\ UNCHANGED payoutVars

PhaseStep ==
  \/ OpenLogs \/ Install \/ Build \/ CompareBuild \/ RunPayout
  \/ PhaseTimesOut \/ ConcludePhase \/ PhaseDies \/ PinBroken \/ RecordsLost

PayoutNext ==
  \/ (\E p \in StepIds : Invoke(p)) /\ UNCHANGED verdict
  \/ PhaseStep /\ UNCHANGED verdict
  \/ CollectPayout \/ PayoutRest

PayoutSpec == PayoutInit /\ [][PayoutNext]_payoutVars

-----------------------------------------------------------------------------
(***************************************************************************)
(* A verdict is earned although each phase trusts only records on disk: an *)
(* overall PASS means that every phase did what it is for - the reviewed   *)
(* build was installed, compiled, compared and validated, and both cases   *)
(* passed - and a phase that a collection without errors omits as NOT_RUN  *)
(* never had its child started, even if the directory that recorded it was *)
(* lost (run-linux-payout-once.cjs:74-79, 136-151, 207).  Two lost          *)
(* directories would defeat the second half.                               *)
(***************************************************************************)
VerdictIsEarned ==
  /\ OverallPass => achieved = StepIds
  /\ verdict.clean => \A p \in StepIds : verdict.states[p] = "NOT_RUN" => p \notin verdict.tried
=============================================================================
