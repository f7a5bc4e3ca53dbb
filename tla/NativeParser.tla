----------------------------- MODULE NativeParser -----------------------------
(***************************************************************************)
(* The PHP method NativeParser::parse (src/src/parser/native_parser.c):    *)
(* one call after the other checks the input, acquires the arena, the      *)
(* scanner and its buffer, runs yyparse, releases them and answers with an *)
(* array or an exception.  Composes Yyparse with the call around it.       *)
(***************************************************************************)
EXTENDS Yyparse

CONSTANT InputLengths  \* the lengths of the inputs callers pass

ASSUME InputLengthsAssumption == InputLengths \subseteq Nat

VARIABLES
  stage,         \* where the method is
  input_length,  \* ZSTR_LEN(input)
  live,          \* what the call has acquired and not yet released
  outcome        \* the array or the exception of the last call

callVars == << stage, input_length, live, outcome >>
allVars == << vars, callVars >>

Stages == {"idle", "checking", "lex_init", "scan_bytes", "yyparse", "result"}
Resources == {"arena", "scanner", "buffer"}

(***************************************************************************)
(* yumemi_ast_to_zval: the nested array of every node.                     *)
(***************************************************************************)
AstToZval(nodes) ==
  LET zval[id \in 1 .. Len(nodes)] ==
        LET node == nodes[id]
        IN  IF node.kind \in LeafKinds
            THEN [kind |-> node.kind, has_location |-> node.has_location,
                  location |-> node.location,
                  token |-> node.token, negative |-> node.negative]
            ELSE [kind |-> node.kind, has_location |-> node.has_location,
                  location |-> node.location,
                  left |-> zval[node.left], right |-> zval[node.right]]
  IN  zval

\* yumemi_native_parser_throw_syntax_error: without a message, the end of
\* the input is blamed.
SyntaxException ==
  IF HasError(error)
  THEN [kind |-> "syntax", error |-> error]
  ELSE [kind |-> "syntax",
        error |-> SetError(NoError, [start |-> input_length,
                                     end   |-> input_length], "syntax_error")]

LimitException == [kind |-> "limit", error |-> lexer.error]
RuntimeException == [kind |-> "runtime"]

(***************************************************************************)
(* The call is over: what it released and what the caller gets.  The       *)
(* locals of the method and of yyparse cease to exist.                     *)
(***************************************************************************)
DropLocals ==
  /\ stack' = << Bottom >>
  /\ yystacksize' = InitDepth
  /\ yytoken' = YYEMPTY
  /\ yy_lac_established' = FALSE
  /\ phase' = "parsing"
  /\ lexer' = EmptyContext
  /\ arena' = << >>
  /\ root' = NoNode
  /\ error' = NoError
  /\ tokens' = << >>

Return(released, result) ==
  /\ stage' = "idle"
  /\ live' = live \ released
  /\ outcome' = result
  /\ input_length' = 0
  /\ DropLocals

\* yumemi_lexer_context_init.
Call(length) ==
  /\ stage = "idle"
  /\ stage' = "checking"
  /\ input_length' = length
  /\ lexer' = ContextInit(length)
  /\ outcome' = [kind |-> "none"]
  /\ UNCHANGED << live, stack, yystacksize, yytoken, yy_lac_established,
                  phase, arena, root, error, tokens >>

RefuseInput ==
  /\ stage = "checking"
  /\ ~ InLimits(lexer)
  /\ Return({}, LimitException)

\* yumemi_parse_context_init.
InitParseContext ==
  /\ stage = "checking"
  /\ InLimits(lexer)
  /\ stage' = "lex_init"
  /\ live' = live \cup {"arena"}
  /\ arena' = << >>
  /\ root' = NoNode
  /\ error' = NoError
  /\ UNCHANGED << input_length, outcome, stack, yystacksize, yytoken,
                  yy_lac_established, phase, lexer, tokens >>

\* yumemi_lex_init_extra and yumemi__scan_bytes may fail.
InitScanner ==
  /\ stage = "lex_init"
  /\ stage' = "scan_bytes"
  /\ live' = live \cup {"scanner"}
  /\ UNCHANGED << input_length, outcome, vars >>

FailScanner ==
  /\ stage = "lex_init"
  /\ Return({"arena"}, RuntimeException)

ScanBytes ==
  /\ stage = "scan_bytes"
  /\ stage' = "yyparse"
  /\ live' = live \cup {"buffer"}
  /\ UNCHANGED << input_length, outcome, vars >>

FaultyFailBuffer ==
  /\ stage = "scan_bytes"
  /\ Return({"scanner"}, RuntimeException)

FailBuffer ==
  /\ stage = "scan_bytes"
  /\ Return({"scanner", "arena"}, RuntimeException)

\* The scanner ends with the buffer: no lexeme reaches beyond it and the
\* end of the input is where it ends.
WithinBuffer ==
  /\ lexer'.offset <= input_length
  /\ yytoken' = YYEOF /\ yytoken # YYEOF => lexer'.offset = input_length

RunYyparse ==
  /\ stage = "yyparse"
  /\ Step
  /\ WithinBuffer
  /\ UNCHANGED callVars

\* yyparse returned: yumemi__delete_buffer and yumemi_lex_destroy.
ReleaseScanner ==
  /\ stage = "yyparse"
  /\ Returned
  /\ stage' = "result"
  /\ live' = live \ {"buffer", "scanner"}
  /\ UNCHANGED << input_length, outcome, vars >>

ThrowLimit ==
  /\ stage = "result"
  /\ ~ InLimits(lexer)
  /\ Return({"arena"}, LimitException)

Failed == phase # "accepted" \/ root = NoNode \/ HasError(error)

ThrowSyntaxError ==
  /\ stage = "result"
  /\ InLimits(lexer)
  /\ Failed
  /\ Return({"arena"}, SyntaxException)

ReturnTree ==
  /\ stage = "result"
  /\ InLimits(lexer)
  /\ ~ Failed
  /\ Return({"arena"}, [kind |-> "tree", tree |-> AstToZval(arena)[root]])

CallInit ==
  /\ Init
  /\ stage = "idle"
  /\ input_length = 0
  /\ live = {}
  /\ outcome = [kind |-> "none"]

\* The steps of a call in progress.
Proceed ==
  \/ RefuseInput
  \/ InitParseContext
  \/ InitScanner
  \/ FailScanner
  \/ ScanBytes
  \/ FailBuffer
  \/ RunYyparse
  \/ ReleaseScanner
  \/ ThrowLimit
  \/ ThrowSyntaxError
  \/ ReturnTree

CallNext == Proceed \/ \E length \in InputLengths : Call(length)

CallSpec == CallInit /\ [][CallNext]_allVars

FairCallSpec == CallSpec /\ WF_allVars(Proceed)
=============================================================================
