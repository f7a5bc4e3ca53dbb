-------------------------- MODULE YyparseProperties --------------------------
(***************************************************************************)
(* What a call of yyparse keeps true, whatever the input.                  *)
(***************************************************************************)
EXTENDS Yyparse, ParserAutomaton

(***************************************************************************)
(* The semantic actions read $n as the symbol there has it: a node beside  *)
(* a nonterminal, a lexeme beside a token.  C would not notice.            *)
(***************************************************************************)
ActionsFitRules ==
  \A r \in Rules :
    LET first == RuleRhs[r][1]
        last  == RuleRhs[r][RuleLength(r)]
    IN  CASE r \in LeafRules   -> first \in Terminals
          [] r \in BinaryRules -> first \in Nonterminals /\ last \in Nonterminals
                                  /\ RuleLength(r) > 1
          [] r \in {13, 24}    -> last \in Nonterminals
          [] r = 20            -> first \in Nonterminals /\ last \in Terminals
                                  /\ RuleLength(r) > 1
          [] r = 19            -> RuleLength(r) = 3 /\ RuleRhs[r][2] \in Nonterminals
          [] OTHER             -> first \in Nonterminals

\* What a rule allocates is paid for by the symbols it pops, of which a
\* lexeme is worth two nodes and what stays on the stack is worth one.
NodesOf(r) == IF r \in LeafRules \cup BinaryRules THEN 1
              ELSE IF r \in {13, 20, 24} THEN 2 ELSE 0

SymbolsIn(r, kinds) ==
  LET One(k) == IF k <= RuleLength(r) /\ RuleRhs[r][k] \in kinds THEN 1 ELSE 0
  IN  One(1) + One(2) + One(3)

ActionsPaid ==
  \A r \in Rules : NodesOf(r) + 1 <= RuleLength(r) + SymbolsIn(r, LexemeTokens)

\* The lexeme an action copies is the last symbol of its rule.
LexemesLast ==
  \A r \in LeafRules \cup {20} :
    /\ RuleRhs[r][RuleLength(r)] \in ReducedAtOnce
    /\ r # 20 => RuleLength(r) = 1

ASSUME ActionsConsistent == ActionsFitRules /\ ActionsPaid /\ LexemesLast

\* The type of every variable.
TypeOK ==
  /\ stack \in Seq(Entry) \ {<< >>}
  /\ yystacksize \in 1 .. MaxDepth
  /\ yytoken \in {YYEMPTY} \cup Terminals
  /\ yy_lac_established \in BOOLEAN
  /\ phase \in Phases
  /\ lexer \in LexerContexts
  /\ arena \in Seq(Node)
  /\ root \in 0 .. Len(arena)
  /\ error \in ParseError
  /\ tokens \in Seq(Token)

\* The state stack is always a path of the tables' automaton from state 0,
\* so that every reduction finds its right hand side and never pops the
\* bottom: yyparse checks neither.
StackIsPath ==
  /\ stack[1].state = 0
  /\ \A i \in 2 .. Len(stack) : IsEdge(stack[i - 1].state, stack[i].state)

\* The value beside a state is what the semantic actions take it for: a
\* node already allocated beside a nonterminal, and beside a terminal the
\* token of that kind.
ValuesMatchSymbols ==
  \A i \in 2 .. Len(stack) :
    LET symbol == AccessingSymbol(stack[i].state)
    IN  IF symbol \in Nonterminals
        THEN stack[i].node \in 1 .. Len(arena)
        ELSE /\ stack[i].node = NoNode
             /\ stack[i].token \in 1 .. Len(tokens)
             /\ tokens[stack[i].token].type = symbol

\* The symbols on the stack cover disjoint stretches of the input in order.
StackInInputOrder ==
  \A i \in 1 .. Len(stack) :
    /\ stack[i].location.start <= stack[i].location.end
    /\ stack[i].location.end <= lexer.offset
    /\ i > 1 => stack[i - 1].location.end <= stack[i].location.start

Within(inner, outer) ==
  outer.start <= inner.start /\ inner.end <= outer.end

\* An operand's byte span lies within its parent's, the left one before the
\* right one; only the synthetic -1 of a negation has no span.
SpansNest ==
  \A id \in 1 .. Len(arena) :
    LET node == arena[id]
        Operand(child) == arena[child].has_location =>
                            Within(arena[child].location, node.location)
    IN  IF node.kind \in LeafKinds
        THEN node.has_location <=> node.token # 0
        ELSE /\ node.has_location
             /\ Operand(node.left)
             /\ Operand(node.right)
             /\ arena[node.left].has_location =>
                  arena[node.left].location.end
                    <= arena[node.right].location.start

\* Each way out of the call is explained by exactly one report: an accepted
\* input has a tree and no error, a rejected one either a message or a limit
\* in the lexer context, never both and never neither.  NativeParser::parse
\* picks the exception class from these alone.
OutcomeExplained ==
  /\ phase = "parsing" => ~ HasError(error) /\ InLimits(lexer)
  /\ phase = "accepted" =>
       root # NoNode /\ ~ HasError(error) /\ InLimits(lexer)
  /\ phase \in {"recovering", "aborted"} => (HasError(error) <=> InLimits(lexer))
  /\ phase = "exhausted" => HasError(error) /\ InLimits(lexer)

\* Every shift of a token pushes one symbol and no reduction adds one, so
\* the token limit of the lexer bounds the parser's stack.
StackWithinTokens ==
  Len(stack) <= lexer.token_count + 2

\* With the token limit below the depth limit, yyparse never runs out of
\* stack, and no legal input ends in "memory exhausted".
StackNeverExhausted ==
  TokenCountLimit + 2 < MaxDepth =>
    /\ phase # "exhausted"
    /\ Len(stack) < yystacksize

\* A node is paid for by a token: no token causes more than two of them, so
\* the input limits bound the arena.
ArenaWithinTokens ==
  Len(arena) <= 2 * lexer.token_count

\* The lexer's nesting counter, which never sees the grammar, agrees with
\* the parser's stack, which never sees the counter.
OnStack(type) ==
  Cardinality({ i \in 1 .. Len(stack) :
                  AccessingSymbol(stack[i].state) = type })

NestingAgrees ==
  phase = "parsing" =>
    LET ahead == IF yytoken = T_LEFT_PAREN THEN 1
                 ELSE IF yytoken = T_RIGHT_PAREN /\ OnStack(T_LEFT_PAREN) > 0
                 THEN -1 ELSE 0
    IN  lexer.nesting_depth =
          OnStack(T_LEFT_PAREN) - OnStack(T_RIGHT_PAREN) + ahead

\* A numeral leaf is negative iff an odd number of minus signs within its
\* span was folded into it; a superscript exponent keeps its own sign.
SignsWithin(loc) ==
  Cardinality({ i \in 1 .. Len(tokens) :
                  tokens[i].type = T_SUB /\ Within(tokens[i].location, loc) })

SignParity ==
  \A id \in 1 .. Len(arena) :
    LET node == arena[id]
    IN  node.kind \in NumeralKinds /\ node.token # 0 =>
          node.negative = (tokens[node.token].negative
                             # (SignsWithin(node.location) % 2 = 1))

\* A syntax error names the token last read, at its place, and never lists
\* it among the tokens that could have stood there.
ErrorNamesLastToken ==
  error.message = "syntax_error" =>
    /\ error.unexpected = tokens[Len(tokens)].type
    /\ error.location = tokens[Len(tokens)].location
    /\ error.unexpected \notin error.expected
    /\ error.expected # {}

\* A lexeme is copied into the arena before another token is read: the value
\* of a token is a pointer into the scanner's buffer, which the scanner lends
\* to its caller until it is called again.
LexemeCopiedInTime ==
  [][\A id \in 1 .. Len(arena') :
       LET node == arena'[id]
       IN  node.kind \in LeafKinds /\ node.token # 0 =>
             \/ node.token = Len(tokens)
             \/ \E old \in 1 .. Len(arena) : arena[old].token = node.token
    ]_vars

\* A lookahead that passed the exploratory check is never refused later: no
\* semantic action runs on behalf of a token that is then rejected.
LookaheadCommitment ==
  [][yy_lac_established /\ phase = "parsing" => phase' # "recovering"]_vars

\* Every call returns: there is no cycle of reductions.
Terminates == <>Returned
=============================================================================
