--------------------------- MODULE WithdrawalRun ---------------------------
(***************************************************************************)
(* run-linux-withdrawal-once.cjs: one process that runs seven phases in    *)
(* order and stops at the first failure.  The first four are delegated to  *)
(* phases of run-linux-payout-once.cjs, the others are suites of their own;*)
(* at the end it writes its summary and collects, trusting neither what it *)
(* remembers nor what the phases recorded unless the two agree.            *)
(*                                                                         *)
(* Abstracted: the copies of the upload and the names they get there; a    *)
(* record is there and valid, or it is not there.  Nothing is left of an   *)
(* earlier run but, possibly, a build.                                     *)
(***************************************************************************)
EXTENDS PayoutRun

VARIABLES
  wrapper,   \* the process: [at, turn, bad, owns]
  items,     \* what it remembers of each phase: [calls, state, code]
  kept,      \* the records it wrote of each phase: [started, invoked, logged, exit]
  compiled,  \* the build whose hashes this run's compile-result-N.json holds
  outcome    \* collection.json: [done, collection, execution, wrapped, delegated]

wrapVars == <<wrapper, items, kept, compiled, outcome>>
withdrawalVars == <<payoutVars, wrapVars>>

Delegated == {"install", "compile", "hash", "gate"}
WrapOrder == <<"install", "compile", "hash", "gate", "withdrawal", "withdrawal-tamper", "w09-link">>
WrapIds == {WrapOrder[i] : i \in 1 .. Len(WrapOrder)}
WrapBefore(p, q) ==
  \E i, j \in 1 .. Len(WrapOrder) : i < j /\ WrapOrder[i] = p /\ WrapOrder[j] = q

NoOutcome == [done |-> FALSE, collection |-> "FAIL", execution |-> "FAIL",
              wrapped |-> [p \in WrapIds |-> "UNKNOWN"],
              delegated |-> [p \in Delegated |-> "UNKNOWN"]]

WithdrawalInit ==
  /\ PayoutInit
  /\ wrapper = [at |-> "none", turn |-> 1, bad |-> FALSE, owns |-> FALSE]
  /\ items = [p \in WrapIds |-> [calls |-> 0, state |-> "NOT_RUN", code |-> "none"]]
  /\ kept = [p \in WrapIds |-> [started |-> FALSE, invoked |-> FALSE, logged |-> FALSE, exit |-> "none"]]
  /\ compiled = "none" /\ outcome = NoOutcome

Turn == WrapOrder[wrapper.turn]
Sites == <<suiteVars, phaseVars, verdict>>

\* Before any phase it is noted whether a build, and which compile results, were
\* there already: those results are left out of the collection.
StartWrapper ==
  /\ wrapper.at = "none"
  /\ \E leftover \in BOOLEAN :
       /\ Spoiling(leftover) /\ built' = IF leftover THEN "other" ELSE built
       /\ wrapper' = [wrapper EXCEPT !.at = "next", !.owns = ~leftover]
  /\ UNCHANGED <<suiteVars, step, phases, modules, pinned, achieved, attempted, misplaced, verdict>>
  /\ UNCHANGED <<items, kept, compiled, outcome>>

\* The started and the invocation record; without both no child is started.
CallPhase ==
  /\ wrapper.at = "next" /\ wrapper.turn <= Len(WrapOrder) /\ ~wrapper.bad
  /\ \E unstarted, uninvoked \in BOOLEAN :
       /\ ~(unstarted /\ uninvoked) /\ Spoiling(unstarted \/ uninvoked)
       /\ kept' = [kept EXCEPT ![Turn] = [@ EXCEPT !.started = ~unstarted,
                                                   !.invoked = ~unstarted /\ ~uninvoked]]
       /\ wrapper' = IF unstarted \/ uninvoked
                     THEN [wrapper EXCEPT !.at = "finish", !.bad = TRUE]
                     ELSE [wrapper EXCEPT !.at = "call"]
  /\ items' = [items EXCEPT ![Turn] = [calls |-> 1, state |-> "STARTED", code |-> "none"]]
  /\ UNCHANGED <<Sites, compiled, outcome>>

\* The child is one phase of run-linux-payout-once.cjs, or a suite's runner.
BeginChild ==
  /\ wrapper.at = "call"
  /\ IF Turn \in Delegated THEN Invoke(Turn) ELSE UNCHANGED <<suiteVars, mishaps, phaseVars>>
  /\ wrapper' = [wrapper EXCEPT !.at = "child"]
  /\ UNCHANGED <<items, kept, compiled, outcome, verdict>>

\* The compiler's child writes its result beside the build.
DelegatedStep ==
  /\ wrapper.at = "child" /\ Turn \in Delegated /\ PhaseStep
  /\ compiled' = IF built' = built THEN compiled ELSE built'
  /\ UNCHANGED <<wrapper, items, kept, outcome, verdict>>

SuiteChildStep ==
  /\ wrapper.at = "child"
  /\ \/ Turn = "withdrawal" /\ WithdrawalSuite(built = "approved")
     \/ Turn = "withdrawal-tamper" /\ TamperSuite
     \/ Turn = "w09-link" /\ LinkSuite
  /\ UNCHANGED <<phaseVars, wrapVars, verdict>>

\* Both raw logs, the verdict of the phase and its exit record.  After the hash
\* phase the build files are compared once more, its verdict being recorded.
EndChild(failed) ==
  \E unlogged, unrecorded \in BOOLEAN :
    LET state == IF failed \/ wrapper.bad \/ unlogged THEN "FAIL" ELSE "PASS"
        ends == state = "FAIL" \/ unrecorded \/ (Turn = "hash" /\ built # "approved")
    IN /\ ~(unlogged /\ unrecorded) /\ Spoiling(unlogged \/ unrecorded)
       /\ items' = [items EXCEPT ![Turn] = [@ EXCEPT !.state = state,
                                                     !.code = IF failed THEN "1" ELSE "0"]]
       /\ kept' = [kept EXCEPT ![Turn] = [@ EXCEPT !.logged = ~unlogged,
                                                   !.exit = IF unrecorded THEN "none" ELSE state]]
       /\ wrapper' = [wrapper EXCEPT !.at = IF ends THEN "finish" ELSE "next",
                                     !.turn = @ + 1, !.bad = ends]

ChildOver ==
  /\ wrapper.at = "child"
  /\ \/ Turn \in Delegated /\ step.at = "exited" /\ EndChild(step.bad) /\ UNCHANGED bench
     \/ Turn \notin Delegated /\ SuiteOver /\ EndChild(bench.at = "failed") /\ bench' = BenchFree
  /\ UNCHANGED <<suites, passedCases, phaseVars, verdict, compiled, outcome>>

\* The wrapper's time limit ends the child, however far it has come: a signal,
\* and no exit code.
ChildKilled ==
  /\ wrapper.at = "child" /\ Spoilt
  /\ bench' = BenchFree
  /\ step' = IF step.at = "none" THEN step ELSE [step EXCEPT !.at = "exited", !.bad = TRUE]
  /\ items' = [items EXCEPT ![Turn] = [@ EXCEPT !.state = "FAIL", !.code = "signal"]]
  /\ kept' = [kept EXCEPT ![Turn] = [@ EXCEPT !.logged = TRUE, !.exit = "FAIL"]]
  /\ wrapper' = [wrapper EXCEPT !.at = "finish", !.bad = TRUE]
  /\ UNCHANGED <<suites, passedCases, phases, modules, built, pinned, achieved, attempted, misplaced>>
  /\ UNCHANGED <<verdict, compiled, outcome>>

\* Something else writes over the build.
BuildTouched ==
  /\ wrapper.at \notin {"none", "over"} /\ built = "approved" /\ Spoilt
  /\ built' = "other"
  /\ UNCHANGED <<suiteVars, step, phases, modules, pinned, achieved, attempted, misplaced>>
  /\ UNCHANGED <<wrapVars, verdict>>

-----------------------------------------------------------------------------
(***************************************************************************)
(* The collection.                                                         *)
(***************************************************************************)

\* The summary agrees with itself: nothing ran after a phase that did not pass,
\* and what did not run has such a phase before it.
SummaryValid ==
  \A q \in WrapIds :
    LET blocked == \E p \in WrapIds : WrapBefore(p, q) /\ items[p].state # "PASS"
    IN (items[q].calls = 0) <=> blocked

\* What the wrapper's own records prove of a phase.
WrappedState(p, summarised) ==
  IF ~summarised THEN "UNKNOWN"
  ELSE IF items[p].calls = 0 THEN "NOT_RUN"
  ELSE IF kept[p].started /\ kept[p].invoked /\ kept[p].exit = items[p].state /\ kept[p].exit # "none"
  THEN kept[p].exit ELSE "UNKNOWN"

\* What a delegated phase's own records say of it.
OwnState(p) == IF phases[p].dir /\ RecordedState(p) THEN phases[p].result ELSE "UNKNOWN"

\* A delegated phase before this one was called and is not proved to have passed.
PriorBlocked(p) ==
  \E q \in Delegated : /\ WrapBefore(q, p) /\ items[q].calls = 1
                       /\ items[q].state # "PASS" \/ OwnState(q) # "PASS"

\* What they prove, in the order of the phases: nothing runs behind a block, and
\* what did not run is behind one.
DelegatedState(p, summarised) ==
  IF items[p].calls = 1
  THEN IF PriorBlocked(p) THEN "UNKNOWN" ELSE OwnState(p)
  ELSE IF ~phases[p].dir /\ WrappedState(p, summarised) = "NOT_RUN" /\ PriorBlocked(p)
       THEN "NOT_RUN" ELSE "UNKNOWN"

\* Wrapper and phase say the same of a delegated phase, to the exit code.
DelegationAgrees(p, summarised) ==
  LET inner == DelegatedState(p, summarised)
  IN /\ inner # "UNKNOWN"
     /\ items[p].calls = 1 => /\ WrappedState(p, summarised) # "UNKNOWN"
                              /\ items[p].code = IF inner = "PASS" THEN "0" ELSE "1"
                              /\ items[p].state = "PASS" => inner = "PASS"

\* A build is wanted once a phase that makes or compares it is proved.
BuildWanted(summarised) ==
  \E p \in {"compile", "hash", "gate"} : DelegatedState(p, summarised) = "PASS"

\* Mutant: a build that is there is taken for this run's.
BuildAsFound(summarised) == BuildWanted(summarised) => built # "none"

\* Only a build this run made is collected; it is compared once more if it was
\* compared before, and so are the hashes the compiler reported.
BuildOwned(summarised) ==
  LET proved(p) == DelegatedState(p, summarised) = "PASS"
  IN /\ BuildWanted(summarised) => /\ wrapper.owns /\ items["compile"].calls = 1
                                   /\ built # "none" /\ compiled # "none"
     /\ proved("hash") \/ proved("gate") => built = "approved"
     /\ proved("compile") => compiled = "approved"

\* The withdrawal suite's own collection is trusted; the stored-data suites are
\* judged again from their files, if their child ran, and must have said the same.
SuiteAgrees(p, summarised) ==
  LET files == suites[p]
      again == ArtifactsOf(p, files, TRUE)
  IN IF p = "withdrawal"
     THEN items[p].calls = 1 => files.artifacts = "PASS"
     ELSE IF items[p].calls = 0
     THEN WrappedState(p, summarised) = "NOT_RUN"
     ELSE /\ files.runner # "none"
          /\ items[p].state = "PASS" => files.runner = "PASS"
          /\ files.runner # "REFUSED" => again = "PASS" /\ files.artifacts = again
          /\ files.runner = "PASS" => ExactList(files)

CollectionClean(summarised) ==
  /\ summarised
  /\ \A p \in WrapIds : items[p].calls = 1 =>
       kept[p].started /\ kept[p].invoked /\ kept[p].logged /\ kept[p].exit # "none"
  /\ \A p \in Delegated : DelegationAgrees(p, summarised)
  /\ BuildOwned(summarised)
  /\ \A p \in WrapIds \ Delegated : SuiteAgrees(p, summarised)

\* The sources once more, the summary, then the collection: the execution is
\* judged before it, and an error in it makes the process fail all the same.
FinishWrapper ==
  /\ wrapper.at = "finish" \/ (wrapper.at = "next" /\ wrapper.turn > Len(WrapOrder))
  /\ \E unwritten, uncollected \in BOOLEAN :
       LET summarised == ~unwritten /\ SummaryValid
           clean == CollectionClean(summarised)
           bad == wrapper.bad \/ ~pinned \/ unwritten
       IN /\ ~(unwritten /\ uncollected) /\ Spoiling(unwritten \/ uncollected)
          /\ wrapper' = [wrapper EXCEPT !.at = "over", !.bad = bad \/ uncollected \/ ~clean]
          /\ outcome' = IF uncollected THEN outcome ELSE
                        [done |-> TRUE,
                         collection |-> IF clean THEN "PASS" ELSE "FAIL",
                         execution |-> IF bad THEN "FAIL" ELSE "PASS",
                         wrapped |-> [p \in WrapIds |-> WrappedState(p, summarised)],
                         delegated |-> [p \in Delegated |-> DelegatedState(p, summarised)]]
  /\ UNCHANGED <<Sites, items, kept, compiled>>

\* The job is cancelled or the process dies: nothing is collected.
WrapperDies ==
  /\ wrapper.at \notin {"none", "over"} /\ Spoilt
  /\ wrapper' = [wrapper EXCEPT !.at = "over", !.bad = TRUE]
  /\ UNCHANGED <<Sites, items, kept, compiled, outcome>>

WithdrawalRest == wrapper.at = "over" /\ UNCHANGED withdrawalVars

WithdrawalNext ==
  \/ StartWrapper \/ CallPhase \/ BeginChild \/ DelegatedStep \/ SuiteChildStep \/ ChildOver \/ ChildKilled
  \/ BuildTouched \/ FinishWrapper \/ WrapperDies \/ WithdrawalRest

WithdrawalSpec == WithdrawalInit /\ [][WithdrawalNext]_withdrawalVars

-----------------------------------------------------------------------------
(***************************************************************************)
(* A clean collection is right: a delegated phase it calls NOT_RUN was     *)
(* never started and one it calls PASS did its work on the reviewed build, *)
(* whatever was lost, left over or killed before the collection; and if    *)
(* the execution passed as well, this run made that build and every case   *)
(* of the three suites really passed                                       *)
(* (run-linux-withdrawal-once.cjs:11-22, 57-73, 83-130, 145-206, 226).     *)
(***************************************************************************)
WithdrawalVerdict ==
  outcome.collection = "PASS" =>
    /\ \A p \in Delegated :
         /\ outcome.delegated[p] = "NOT_RUN" => p \notin attempted
         /\ outcome.delegated[p] = "PASS" => p \in achieved
    /\ outcome.execution = "PASS" =>
         /\ Delegated \subseteq achieved /\ built = "approved" /\ wrapper.owns
         /\ \A s \in WrapIds \ Delegated : passedCases[s] = 2
=============================================================================
