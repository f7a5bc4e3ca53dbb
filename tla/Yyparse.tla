------------------------------- MODULE Yyparse -------------------------------
(***************************************************************************)
(* One call of yyparse (src/src/parser/parser.c) over the tokens of the    *)
(* scanner: the LALR driver with its state, value and location stacks, the *)
(* exploratory check of the lookahead (LAC), error reporting and recovery, *)
(* stack growth, and parser.y's semantic actions.                          *)
(*                                                                         *)
(* The scanner is modelled by what it may deliver next: a token of any     *)
(* kind after any gap, until it reports the end or a limit is exceeded.    *)
(*                                                                         *)
(* A definition named Faulty... stands before the one it gets wrong; it is *)
(* used by no specification and shows that a property would notice.        *)
(***************************************************************************)
EXTENDS ParseContext

CONSTANTS
  InitDepth,    \* YYINITDEPTH, 200
  MaxDepth,     \* YYMAXDEPTH, 10000
  TokenKinds,   \* the kinds of token the input may hold
  LexemeBytes,  \* the lengths of its numbers, names and superscripts
  Gaps          \* the lengths of whitespace before a token or the end

ASSUME DepthAssumption ==
  /\ InitDepth \in Nat \ {0, 1}
  /\ MaxDepth \in Nat
  /\ InitDepth <= MaxDepth

ASSUME InputAssumption ==
  /\ TokenKinds \subseteq LexemeTokens
  /\ LexemeBytes \subseteq Nat \ {0}
  /\ Gaps \subseteq Nat

VARIABLES
  stack,               \* yyss, yyvs and yyls: one entry per symbol
  yystacksize,         \* the capacity of each of them
  yytoken,             \* the lookahead, YYEMPTY if none
  yy_lac_established,  \* the lookahead passed the LAC check
  phase,               \* where the call is, or how it returned
  lexer,               \* the yumemi_lexer_context of the call
  arena,               \* the nodes of the parse context
  root,                \* context->root
  error,               \* the error of the parse context
  tokens               \* history: what yylex returned so far

vars == << stack, yystacksize, yytoken, yy_lac_established, phase, lexer,
           arena, root, error, tokens >>

Phases == {"parsing", "recovering", "accepted", "aborted", "exhausted"}
Returned == phase \in {"accepted", "aborted", "exhausted"}

Entry == [state : States, node : Nat, token : Nat, location : Location]
Token == [type : Terminals, location : Location, negative : BOOLEAN]

Top == stack[Len(stack)]
yystate == Top.state
StateStack == [i \in DOMAIN stack |-> stack[i].state]

\* yylloc keeps the location of the last token read.
yylloc == IF tokens = << >> THEN NoLocation ELSE tokens[Len(tokens)].location

(***************************************************************************)
(* The scanner (scanner.l).  Two numbers are never adjacent: the scanner   *)
(* takes the longest lexeme.                                               *)
(***************************************************************************)
Numerals == {T_INTEGER, T_FLOAT, T_INVALID_NUMBER}

Separation(type) ==
  IF /\ tokens # << >>
     /\ tokens[Len(tokens)].type \in Numerals
     /\ type \in Numerals
  THEN 1 ELSE 0

TokenBytes(type) ==
  CASE type \in SizedTokens           -> LexemeBytes
    [] type = T_MUL                   -> {1, 2}
    [] type = T_INVALID_SUPERSCRIPT   -> {3}
    [] OTHER                          -> {1}

\* YY_USER_ACTION: a location is the offset before and after the lexeme.
TokenLocations(type) ==
  { loc \in { [start |-> lexer.offset + Separation(type) + gap,
               end   |-> lexer.offset + Separation(type) + gap + bytes] :
                 gap \in Gaps, bytes \in TokenBytes(type) } :
      loc.end <= InputBytesLimit }

EndLocations ==
  { loc \in { [start |-> lexer.offset + gap, end |-> lexer.offset + gap] :
                gap \in Gaps } :
      loc.end <= InputBytesLimit }

\* Only a superscript lexeme can carry a sign of its own.
LexemeSigns(type) == IF type = T_SUPERSCRIPT_INTEGER THEN BOOLEAN ELSE {FALSE}

FaultyScannedContext(type, loc) == AcceptToken(lexer, type, loc)

ScannedContext(type, loc) ==
  AcceptToken([lexer EXCEPT !.offset = loc.end], type, loc)

(***************************************************************************)
(* yynewstate and yysetstate: push, grow the stacks when they are full,    *)
(* and notice the final state.                                             *)
(***************************************************************************)
IsFull(newStack) == Len(newStack) >= yystacksize

FaultyGrownSize(newStack) == yystacksize

GrownSize(newStack) ==
  IF ~ IsFull(newStack) \/ yystacksize >= MaxDepth THEN yystacksize
  ELSE IF 2 * yystacksize > MaxDepth THEN MaxDepth
  ELSE 2 * yystacksize

PhaseAfter(newStack) ==
  IF IsFull(newStack) /\ yystacksize >= MaxDepth THEN "exhausted"
  ELSE IF Len(newStack) >= GrownSize(newStack) THEN "aborted"
  ELSE IF newStack[Len(newStack)].state = YYFINAL THEN "accepted"
  ELSE "parsing"

EnterState(newStack) ==
  /\ stack' = newStack
  /\ yystacksize' = GrownSize(newStack)
  /\ phase' = PhaseAfter(newStack)
  /\ error' = IF PhaseAfter(newStack) = "exhausted"
              THEN SetError(error, yylloc, "memory_exhausted")
              ELSE error

(***************************************************************************)
(* The semantic action of rule r (parser.y); rhs are the entries popped    *)
(* and loc their common location (YYLLOC_DEFAULT).                         *)
(***************************************************************************)
LeafRules == {21, 22, 25}
LeafKind(r) == CASE r = 21 -> "integer" [] r = 22 -> "float"
                 [] OTHER -> "identifier"

FaultyBinaryKind(r) == CASE r \in {5, 6} -> "add" [] r = 11 -> "div"
                         [] r = 15 -> "pow" [] r = 18 -> "at" [] OTHER -> "mul"

BinaryRules == {5, 6, 8, 9, 10, 11, 15, 18}
BinaryKind(r) == CASE r = 5  -> "add" [] r = 6  -> "sub" [] r = 11 -> "div"
                   [] r = 15 -> "pow" [] r = 18 -> "at"  [] OTHER  -> "mul"

\* The node of a rule that builds none: $1, and $2 between parentheses.
FaultyPassedNode(r, rhs) == rhs[1].node
PassedNode(r, rhs) == IF r = 19 THEN rhs[2].node ELSE rhs[1].node

SemanticAction(r, rhs, loc) ==
  LET first == rhs[1]
      last  == rhs[Len(rhs)]
  IN  CASE r \in LeafRules ->
             MakeLeaf(arena, LeafKind(r), first.token, FALSE, first.location)
        [] r \in BinaryRules ->
             MakeBinary(arena, BinaryKind(r), first.node, last.node, loc)
        [] r \in {13, 24} -> MakeNegation(arena, last.node, loc)
        [] r = 20 ->
             MakePower(arena, first.node, last.token,
                       tokens[last.token].negative, last.location, loc)
        [] OTHER -> [arena |-> arena, node |-> PassedNode(r, rhs)]

\* YYLLOC_DEFAULT for the entries of a right hand side.
FaultyCommonLocation(rhs) == rhs[1].location

CommonLocation(rhs) == [start |-> rhs[1].location.start,
                        end   |-> rhs[Len(rhs)].location.end]

\* The state to enter after popping the right hand side of r.
FaultyStateAfter(r) == Goto(yystate, RuleLhs(r))

StateAfter(r) == Goto(stack[Len(stack) - RuleLength(r)].state, RuleLhs(r))

\* yyreduce.
Reduce(r) ==
  LET below == Len(stack) - RuleLength(r)
      rhs   == SubSeq(stack, below + 1, Len(stack))
      made  == SemanticAction(r, rhs, CommonLocation(rhs))
  IN  /\ arena' = made.arena
      /\ root' = IF r = 2 THEN rhs[1].node ELSE root
      /\ EnterState(
           Append(SubSeq(stack, 1, below),
                  [state    |-> StateAfter(r),
                   node     |-> made.node,
                   token    |-> rhs[1].token,
                   location |-> CommonLocation(rhs)]))

(***************************************************************************)
(* The steps of the driver.                                                *)
(***************************************************************************)
Bottom == [state |-> 0, node |-> NoNode, token |-> 0,
           location |-> NoLocation]

Init ==
  /\ stack = << Bottom >>
  /\ yystacksize = InitDepth
  /\ yytoken = YYEMPTY
  /\ yy_lac_established = FALSE
  /\ phase = "parsing"
  /\ lexer = EmptyContext
  /\ arena = << >>
  /\ root = NoNode
  /\ error = NoError
  /\ tokens = << >>

FaultyNeedsToken ==
  /\ phase = "parsing"
  /\ yytoken = YYEMPTY

NeedsToken ==
  /\ phase = "parsing"
  /\ ~ IsConsistent(yystate)
  /\ yytoken = YYEMPTY

\* yylex returns a token.
ReadToken(type, loc, negative) ==
  /\ NeedsToken
  /\ InLimits(ScannedContext(type, loc))
  /\ lexer' = ScannedContext(type, loc)
  /\ yytoken' = type
  /\ tokens' = Append(tokens, [type |-> type, location |-> loc,
                               negative |-> negative])
  /\ UNCHANGED << stack, yystacksize, yy_lac_established, phase, arena,
                  root, error >>

\* The goto yyerrlab1 on YUMEMI_PARSER_error.
FaultyPhaseOverLimit == "parsing"
PhaseOverLimit == "recovering"

\* yylex returns YUMEMI_PARSER_error: recovery starts without a message.
ReadOverLimit(type, loc) ==
  /\ NeedsToken
  /\ ~ InLimits(ScannedContext(type, loc))
  /\ lexer' = ScannedContext(type, loc)
  /\ yytoken' = YYerror
  /\ phase' = PhaseOverLimit
  /\ tokens' = Append(tokens, [type |-> YYerror, location |-> loc,
                               negative |-> FALSE])
  /\ UNCHANGED << stack, yystacksize, yy_lac_established, arena, root,
                  error >>

ReadEnd(loc) ==
  /\ NeedsToken
  /\ lexer' = [lexer EXCEPT !.offset = loc.end]
  /\ yytoken' = YYEOF
  /\ tokens' = Append(tokens, [type |-> YYEOF, location |-> loc,
                               negative |-> FALSE])
  /\ UNCHANGED << stack, yystacksize, yy_lac_established, phase, arena,
                  root, error >>

Shift ==
  /\ phase = "parsing"
  /\ yytoken # YYEMPTY
  /\ HasTableAction(yystate, yytoken)
  /\ EnterState(Append(stack, [state    |-> TableAction(yystate, yytoken),
                               node     |-> NoNode,
                               token    |-> Len(tokens),
                               location |-> yylloc]))
  /\ yytoken' = YYEMPTY
  /\ yy_lac_established' = FALSE
  /\ UNCHANGED << lexer, arena, root, tokens >>

\* A consistent state reduces before any token is read.
ReduceWithoutToken ==
  /\ phase = "parsing"
  /\ IsConsistent(yystate)
  /\ Reduce(DefaultReduction(yystate))
  /\ UNCHANGED << yytoken, yy_lac_established, lexer, tokens >>

\* yytable has no entry for the lookahead.
NoTableAction ==
  /\ phase = "parsing"
  /\ ~ IsConsistent(yystate)
  /\ yytoken # YYEMPTY
  /\ ~ HasTableAction(yystate, yytoken)

\* YY_LAC_ESTABLISH lets the lookahead pass: it was checked, or is now.
FaultyLookaheadPasses == TRUE

LookaheadPasses == yy_lac_established \/ LacAccepts(StateStack, yytoken)

ReduceOnToken ==
  /\ NoTableAction
  /\ LookaheadPasses
  /\ DefaultReduction(yystate) # 0
  /\ Reduce(DefaultReduction(yystate))
  /\ yy_lac_established' = TRUE
  /\ UNCHANGED << yytoken, lexer, tokens >>

\* The place a syntax error is reported at.
FaultyErrorLocation == Top.location
ErrorLocation == yylloc

\* yyerrlab: report the lookahead and what could have been shifted instead.
SyntaxError ==
  /\ NoTableAction
  /\ ~ LookaheadPasses \/ DefaultReduction(yystate) = 0
  /\ error' = SetSyntaxError(error, ErrorLocation, yytoken,
                             ExpectedTokens(StateStack))
  /\ yy_lac_established' = TRUE
  /\ phase' = "recovering"
  /\ UNCHANGED << stack, yystacksize, yytoken, lexer, arena, root, tokens >>

\* YYPOPSTACK (1).
FaultyPopped == stack
Popped == SubSeq(stack, 1, Len(stack) - 1)

\* yyerrlab1: no state shifts the error token, the stack unwinds.
Unwind ==
  /\ phase = "recovering"
  /\ Len(stack) > 1
  /\ stack' = Popped
  /\ UNCHANGED << yystacksize, yytoken, yy_lac_established, phase, lexer,
                  arena, root, error, tokens >>

Abort ==
  /\ phase = "recovering"
  /\ Len(stack) = 1
  /\ phase' = "aborted"
  /\ UNCHANGED << stack, yystacksize, yytoken, yy_lac_established, lexer,
                  arena, root, error, tokens >>

\* The call has returned; nothing happens any more.
Stopped == Returned /\ UNCHANGED vars

Yylex ==
  \/ \E type \in TokenKinds : \E loc \in TokenLocations(type) :
       \/ \E negative \in LexemeSigns(type) : ReadToken(type, loc, negative)
       \/ ReadOverLimit(type, loc)
  \/ \E loc \in EndLocations : ReadEnd(loc)

Step ==
  \/ Yylex
  \/ Shift
  \/ ReduceWithoutToken
  \/ ReduceOnToken
  \/ SyntaxError
  \/ Unwind
  \/ Abort

Next == Step \/ Stopped

Spec == Init /\ [][Next]_vars

FairSpec == Spec /\ WF_vars(Step)
=============================================================================
