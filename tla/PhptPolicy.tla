------------------------------ MODULE PhptPolicy ------------------------------
(***************************************************************************)
(* src/scripts/check-phpt-results.php: the gate of every CI job.  It reads *)
(* the result lines of a test run one by one and lets the run pass only if *)
(* every test file has the one status it must have.  A run that is cut     *)
(* short, retried or skipped as a whole must not pass for a good one.      *)
(***************************************************************************)
EXTENDS Integers, Sequences

CONSTANTS
  Qualification,  \* 012-build-qualification.phpt
  OtherTests,     \* the other names a test may have
  MaxLines        \* how many lines a result file has at most

ASSUME PolicyAssumption == Qualification \notin OtherTests /\ MaxLines \in Nat

Names == OtherTests \cup {Qualification}
Statuses == {"PASSED", "SKIPPED", "FAILED"}

\* A line is a status and a name, or it has another form.
Lines == (Statuses \X Names) \cup {<< >>}

VARIABLES
  testFiles,             \* the test files found
  requireQualification,  \* --require-qualification was given
  resultLines,           \* the result file
  index,                 \* how many lines were read
  actual,                \* the status read for each name
  exit                   \* the exit status, or "running"

policyVars == << testFiles, requireQualification, resultLines, index, actual, exit >>

PolicyInit ==
  /\ testFiles \in SUBSET Names
  /\ requireQualification \in BOOLEAN
  /\ resultLines \in UNION { [1 .. n -> Lines] : n \in 0 .. MaxLines }
  /\ index = 0
  /\ actual = << >>
  /\ exit = "running"

FaultyExpected(name) == IF name = Qualification THEN "SKIPPED" ELSE "PASSED"
Expected(name) ==
  IF name = Qualification /\ ~ requireQualification THEN "SKIPPED" ELSE "PASSED"

Misconfigured ==
  testFiles = {} \/ (requireQualification /\ Qualification \notin testFiles)

RefuseSetup ==
  /\ exit = "running" /\ index = 0
  /\ Misconfigured
  /\ exit' = "failure"
  /\ UNCHANGED << testFiles, requireQualification, resultLines, index, actual >>

Reading == exit = "running" /\ ~ Misconfigured /\ index < Len(resultLines)

Line == resultLines[index + 1]

FaultyIsRefused == Line = << >>
IsRefused == Line # << >> => Line[2] \in DOMAIN actual

RefuseLine ==
  /\ Reading
  /\ IsRefused
  /\ exit' = "failure"
  /\ UNCHANGED << testFiles, requireQualification, resultLines, index, actual >>

ReadLine ==
  /\ Reading
  /\ ~ IsRefused
  /\ actual' = [name \in DOMAIN actual \cup {Line[2]} |->
                  IF name = Line[2] THEN Line[1] ELSE actual[name]]
  /\ index' = index + 1
  /\ UNCHANGED << testFiles, requireQualification, resultLines, exit >>

Errors ==
  {name \in testFiles : name \notin DOMAIN actual}
    \cup {name \in testFiles \cap DOMAIN actual : actual[name] # Expected(name)}
    \cup (DOMAIN actual \ testFiles)

Compare ==
  /\ exit = "running" /\ ~ Misconfigured /\ index = Len(resultLines)
  /\ exit' = IF Errors = {} THEN "success" ELSE "failure"
  /\ UNCHANGED << testFiles, requireQualification, resultLines, index, actual >>

Exited == exit # "running" /\ UNCHANGED policyVars

PolicySpec ==
  PolicyInit /\ [][RefuseSetup \/ RefuseLine \/ ReadLine \/ Compare \/ Exited]_policyVars

-------------------------------------------------------------------------------
\* Success means that the result file is a permutation of the tests with
\* their statuses: none is missing, repeated, skipped without need or new;
\* and nothing else fails.
LinesOf(name) == {i \in DOMAIN resultLines : resultLines[i] \in Statuses \X {name}}

Acceptable ==
  /\ testFiles # {}
  /\ requireQualification => Qualification \in testFiles
  /\ Len(resultLines) > 0
  /\ \A i \in DOMAIN resultLines : \E name \in testFiles : i \in LinesOf(name)
  /\ \A name \in testFiles :
       \E i \in DOMAIN resultLines :
         /\ LinesOf(name) = {i}
         /\ resultLines[i][1] =
              IF name \in OtherTests \/ requireQualification THEN "PASSED"
              ELSE "SKIPPED"

SuccessIsEarned ==
  /\ exit = "success" => Acceptable
  /\ exit = "failure" => ~ Acceptable
===============================================================================
