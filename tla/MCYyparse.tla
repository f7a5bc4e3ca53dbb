------------------------------ MODULE MCYyparse ------------------------------
(***************************************************************************)
(* Model checking a call of yyparse: the properties of YyparseProperties,  *)
(* the trees it builds against the grammar, and the sequence of its shifts *)
(* and errors against the abstract Recognizer.                             *)
(***************************************************************************)
EXTENDS YyparseLanguage, YyparseTrees
=============================================================================
