---------------------------- MODULE MCBuildScripts ----------------------------
(***************************************************************************)
(* The two scripts of src/scripts, a process of their own each: either     *)
(* ranges are collected, for every pattern over a small code space with a  *)
(* gap in the middle, or the results of a test run are judged.             *)
(***************************************************************************)
EXTENDS RangeGenerator, PhptPolicy

VARIABLE script  \* the script that runs

scriptsVars == << script, generatorVars, policyVars >>

SmallGap == 4 .. 5

AllPatterns == SUBSET ((0 .. LastCodePoint) \ Surrogates)

\* Of the script that does not run one initial state is enough.
ScriptsInit ==
  /\ \/ /\ script = "generator"
        /\ testFiles = {} /\ requireQualification = FALSE /\ resultLines = << >>
     \/ script = "policy" /\ matching = {}
  /\ GeneratorInit
  /\ PolicyInit

RunGenerator ==
  /\ script = "generator"
  /\ Collect \/ Collected
  /\ UNCHANGED << script, policyVars >>

RunPolicy ==
  /\ script = "policy"
  /\ RefuseSetup \/ RefuseLine \/ ReadLine \/ Compare \/ Exited
  /\ UNCHANGED << script, generatorVars >>

ScriptsSpec == ScriptsInit /\ [][RunGenerator \/ RunPolicy]_scriptsVars
===============================================================================
