--------------------------- MODULE EvidenceSuite ---------------------------
(***************************************************************************)
(* A suite of the funding-payout research fixture: a one-shot runner that  *)
(* refuses an earlier result, starts one child working through a fixed     *)
(* list of cases (run-payout.cjs, run-withdrawal.cjs), or through mutations*)
(* of stored data (run-withdrawal-tamper.cjs, run-w09-link.cjs), writes its*)
(* summary and then judges its own files.                                  *)
(*                                                                         *)
(* Abstracted: ten, nine, nineteen and five cases are two; a JSON document *)
(* is there and valid, or not there; digests and texts are left out.       *)
(***************************************************************************)
EXTENDS Integers, FiniteSets

CONSTANT MaxMishaps  \* bound: failed writes, timeouts, deaths and lost files

ASSUME MishapBound == MaxMishaps \in Nat

VARIABLES
  suites,      \* what each suite left on disk
  bench,       \* the runner at work: [at, case]
  passedCases, \* history: cases whose child really passed them
  mishaps

suiteVars == <<suites, bench, passedCases>>

SuiteNames == {"payout", "withdrawal", "withdrawal-tamper", "w09-link"}
SuiteCases == 1 .. 2

\* runner is "REFUSED" when its summary says that no child was started.
EmptySuite == [dir |-> FALSE, cases |-> [c \in SuiteCases |-> "none"],
               report |-> FALSE, runner |-> "none", artifacts |-> "none"]
BenchFree == [at |-> "none", case |-> 1]

SuiteInit ==
  /\ suites = [s \in SuiteNames |-> EmptySuite] /\ bench = BenchFree
  /\ passedCases = [s \in SuiteNames |-> 0] /\ mishaps = 0

Spoilt == mishaps < MaxMishaps /\ mishaps' = mishaps + 1
Spoiling(happens) == (happens /\ Spoilt) \/ (~happens /\ UNCHANGED mishaps)

\* The summary and the collection both say PASS.
SuitePassed(s) == suites[s].runner = "PASS" /\ suites[s].artifacts = "PASS"

(***************************************************************************)
(* The runner's own collection.  A case without a record is NOT_RUN only   *)
(* if no child was started, or the report is complete and names a failure; *)
(* otherwise its absence proves nothing.                                   *)
(***************************************************************************)
CaseAccounted(files, called, c) ==
  \/ files.cases[c] # "none" /\ files.report
  \/ files.cases[c] = "none"
     /\ (~called \/ (files.report /\ \E d \in SuiteCases : files.cases[d] = "FAIL"))

PayoutArtifacts(files, called) ==
  IF \A c \in SuiteCases : CaseAccounted(files, called, c) THEN "PASS" ELSE "FAIL"

WithdrawalArtifacts(files, called) == PayoutArtifacts(files, called)

\* Stored-data suites: every reported case with its record, a replay, a report.
TamperArtifacts(files, called) ==
  IF files.report \/ ~called THEN "PASS" ELSE "FAIL"

LinkArtifacts(files, called) == TamperArtifacts(files, called)

ArtifactsOf(s, files, called) ==
  CASE s = "payout" -> PayoutArtifacts(files, called)
    [] s = "withdrawal" -> WithdrawalArtifacts(files, called)
    [] s = "withdrawal-tamper" -> TamperArtifacts(files, called)
    [] s = "w09-link" -> LinkArtifacts(files, called)

\* A directory of its own, then pins and what the suite needs; then a child.
EnterSuite(s, ready) ==
  /\ bench.at = "none"
  /\ IF suites[s].dir
     THEN bench' = [bench EXCEPT !.at = "failed"] /\ UNCHANGED suites
     ELSE IF ready
     THEN bench' = [bench EXCEPT !.at = "cases"] /\ suites' = [suites EXCEPT ![s].dir = TRUE]
     ELSE /\ bench' = [bench EXCEPT !.at = "failed"]
          /\ suites' = [suites EXCEPT ![s] =
                          [@ EXCEPT !.dir = TRUE, !.runner = "REFUSED",
                                    !.artifacts = ArtifactsOf(s, EmptySuite, FALSE)]]
  /\ UNCHANGED <<passedCases, mishaps>>

\* One case after the other, to the first failure; then the report.
SuiteCase(s) ==
  /\ bench.at = "cases"
  /\ \E passes \in BOOLEAN :
       LET over == ~passes \/ bench.case = 2
       IN /\ suites' = [suites EXCEPT ![s].cases[bench.case] = IF passes THEN "PASS" ELSE "FAIL",
                                      ![s].report = over]
          /\ bench' = IF over THEN [bench EXCEPT !.at = "reported"] ELSE [bench EXCEPT !.case = 2]
          /\ passedCases' = [passedCases EXCEPT ![s] = IF passes THEN @ + 1 ELSE @]
  /\ UNCHANGED mishaps

\* The child's own time limit: the runner goes on without a report.
SuiteTimesOut(s) ==
  /\ bench.at = "cases" /\ Spoilt /\ bench' = [bench EXCEPT !.at = "reported"]
  /\ UNCHANGED <<suites, passedCases>>

\* The report lists exactly the expected cases, all passed.
ExactList(files) == files.report /\ \A c \in SuiteCases : files.cases[c] = "PASS"

\* Summary, then the collection; an unwritten record makes both fail.
EndSuite(s) ==
  /\ bench.at = "reported"
  /\ \E unrecorded \in BOOLEAN :
       LET ok == ~unrecorded /\ ExactList(suites[s])
           kept == IF unrecorded THEN "FAIL" ELSE ArtifactsOf(s, suites[s], TRUE)
       IN /\ Spoiling(unrecorded)
          /\ suites' = [suites EXCEPT ![s].runner = IF ok THEN "PASS" ELSE "FAIL",
                                      ![s].artifacts = kept]
          /\ bench' = [bench EXCEPT !.at = IF ok /\ kept = "PASS" THEN "passed" ELSE "failed"]
  /\ UNCHANGED passedCases

SuiteStep(s, ready) == EnterSuite(s, ready) \/ SuiteCase(s) \/ SuiteTimesOut(s) \/ EndSuite(s)

\* The two that start a chain want the reviewed build; the others stored data.
PayoutSuite(buildReviewed) == SuiteStep("payout", buildReviewed)
WithdrawalSuite(buildReviewed) == SuiteStep("withdrawal", buildReviewed)
TamperSuite == SuiteStep("withdrawal-tamper", SuitePassed("withdrawal"))
LinkSuite == SuiteStep("w09-link", SuitePassed("withdrawal"))

SuiteOver == bench.at \in {"passed", "failed"}
=============================================================================
