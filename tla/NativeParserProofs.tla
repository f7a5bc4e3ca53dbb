-------------------------- MODULE NativeParserProofs --------------------------
(***************************************************************************)
(* Proofs that a call of NativeParser::parse holds what it uses and leaves *)
(* nothing behind, and that its answer is the one the parser or the lexer  *)
(* recorded, for every limit and every input.                              *)
(***************************************************************************)
EXTENDS YyparseOutcomeProofs, NativeParserProperties

(***************************************************************************)
(* The root is stored when the last token that will be read is at hand, so *)
(* that no limit can be exceeded after it.                                 *)
(***************************************************************************)
RootIsLast ==
  root # NoNode =>
    /\ InLimits(lexer)
    /\ phase = "parsing" =>
         yytoken # YYEMPTY /\ AccessingSymbol(yystate) = N_start

\* What is about to become the root was reduced on a token.
TokenAtHand ==
  phase = "parsing" /\ DefaultReduction(yystate) = 2 => yytoken # YYEMPTY

RootEndsInput == RootIsLast /\ TokenAtHand

LEMMA StartTakesTheEnd ==
  ASSUME ParserInvariant, AccessingSymbol(yystate) = N_start
  PROVE  /\ ~ IsConsistent(yystate) /\ DefaultReduction(yystate) = 0
         /\ \A x \in Terminals :
              HasTableAction(yystate, x) => TableAction(yystate, x) = YYFINAL
BY YystateType, TablesAreConsistent DEF ParserInvariant, LrConsistent, StartIsLast

LEMMA ReadKeepsRoot ==
  ASSUME RootEndsInput, Yylex
  PROVE  RootEndsInput'
<1>1. /\ phase = "parsing" /\ yytoken = YYEMPTY /\ root' = root
      /\ yystate' = yystate
  BY DEF Yylex, ReadToken, ReadOverLimit, ReadEnd, NeedsToken, yystate, Top
<1> QED
  BY <1>1 DEF RootEndsInput, RootIsLast, TokenAtHand

LEMMA ShiftKeepsRoot ==
  ASSUME ParserInvariant, RootEndsInput, Shift
  PROVE  RootEndsInput'
<1> DEFINE entry == [state    |-> TableAction(yystate, yytoken),
                     node     |-> NoNode,
                     token    |-> Len(tokens),
                     location |-> yylloc]
           newStack == Append(stack, entry)
<1>1. /\ phase = "parsing" /\ lexer' = lexer /\ root' = root
      /\ yytoken \in Terminals /\ yystate \in States
  BY YystateType DEF Shift, ParserInvariant, TypeOK
<1>2. entry.state = TableAction(yystate, yytoken)
  OBVIOUS
<1>3. stack' = newStack /\ phase' = PhaseAfter(newStack)
  BY DEF Shift, EnterState
<1>4. stack \in Seq(Entry)
  BY DEF ParserInvariant, TypeOK
<1> HIDE DEF entry
<1>5. newStack[Len(newStack)] = entry
  BY <1>4, SMT
<1> HIDE DEF newStack
<1>6. RootIsLast'
  <2> SUFFICES ASSUME root # NoNode
               PROVE  InLimits(lexer') /\ phase' # "parsing"
    BY <1>1 DEF RootIsLast
  <2>1. InLimits(lexer') /\ AccessingSymbol(yystate) = N_start
    BY <1>1 DEF RootEndsInput, RootIsLast, InLimits
  <2>2. TableAction(yystate, yytoken) = YYFINAL
    BY <1>1, <2>1, StartTakesTheEnd DEF Shift
  <2>3. PhaseAfter(newStack) # "parsing"
    BY <1>2, <1>5, <2>2 DEF PhaseAfter
  <2> QED
    BY <1>3, <2>1, <2>3
<1>7. TokenAtHand'
  <2>1. yystate' = TableAction(yystate, yytoken)
    BY <1>2, <1>3, <1>5 DEF yystate, Top
  <2>2. /\ TableAction(yystate, yytoken) \in States
        /\ AccessingSymbol(TableAction(yystate, yytoken)) = yytoken
    BY <1>1, ShiftTarget DEF Shift
  <2>3. yytoken # N_exp
    BY <1>1 DEF Terminals, YYNTOKENS, N_exp
  <2>4. DefaultReduction(TableAction(yystate, yytoken)) # 2
    BY <2>2, <2>3, TablesAreConsistent DEF LrConsistent, StartIsLast
  <2> QED
    BY <2>1, <2>4 DEF TokenAtHand
<1> QED
  BY <1>6, <1>7 DEF RootEndsInput

LEMMA ReduceKeepsRoot ==
  ASSUME ParserInvariant, OutcomeInvariant, RootEndsInput,
         ReduceWithoutToken \/ ReduceOnToken
  PROVE  RootEndsInput'
<1> DEFINE r == DefaultReduction(yystate)
<1>1. /\ phase = "parsing" /\ Reduce(r) /\ yystate \in ReducingStates
      /\ UNCHANGED << yytoken, lexer, tokens >>
      /\ ~ IsConsistent(yystate) => yytoken # YYEMPTY
  BY ReductionStates DEF ReduceWithoutToken, ReduceOnToken, NoTableAction
<1>2. r \in Rules /\ r # 0 /\ yystate \in States
  BY <1>1, ReducingRule DEF Rules
<1>3. root = NoNode
  BY <1>1, <1>2, StartTakesTheEnd DEF RootEndsInput, RootIsLast
<1>4. /\ StackIsPath /\ stack \in Seq(Entry) /\ stack # << >>
  BY DEF ParserInvariant, TypeOK
<1>5. PICK entry \in Entry, newStack \in Seq(Entry),
           below \in 1 .. Len(stack) - 1 :
        /\ below = Len(stack) - RuleLength(r)
        /\ Len(newStack) = below + 1
        /\ \A i \in 1 .. below : newStack[i] = stack[i]
        /\ newStack[below + 1] = entry
        /\ EnterState(newStack)
        /\ entry.state = StateAfter(r)
  BY <1>1, ReduceReplacesHandle
<1>6. entry.state \in States /\ AccessingSymbol(entry.state) = RuleLhs(r)
  BY <1>1, <1>4, <1>5, HandleOnStack
<1>7. yystate' = entry.state
  <2>1. stack' = newStack
    BY <1>5 DEF EnterState
  <2>2. stack'[Len(stack')] = entry
    BY <1>5, <2>1
  <2> QED
    BY <2>2 DEF yystate, Top
<1>8. RootIsLast'
  <2>1. CASE r # 2
    BY <2>1, <1>3, <1>1 DEF Reduce, RootIsLast
  <2>2. CASE r = 2
    <3>1. yytoken' # YYEMPTY /\ InLimits(lexer')
      BY <2>2, <1>1 DEF RootEndsInput, TokenAtHand, OutcomeInvariant,
         OutcomeExplained, InLimits
    <3>2. AccessingSymbol(entry.state) = N_start
      BY <2>2, <1>6, TablesAreConsistent DEF LrConsistent, StartIsLast
    <3> QED
      BY <3>1, <3>2, <1>7 DEF RootIsLast
  <2> QED
    BY <2>1, <2>2
<1>9. TokenAtHand'
  <2> SUFFICES ASSUME DefaultReduction(entry.state) = 2
               PROVE  yytoken # YYEMPTY
    BY <1>1, <1>7 DEF TokenAtHand
  <2>1. RuleLhs(r) = N_exp
    BY <1>6, TablesAreConsistent DEF LrConsistent, StartIsLast
  <2>2. r = 3
    BY <1>2, <2>1, TablesAreConsistent DEF LrConsistent, StartIsLast
  <2>3. ~ IsConsistent(yystate)
    BY <1>2, <2>2, TablesAreConsistent DEF LrConsistent, StartIsLast
  <2> QED
    BY <1>1, <2>3
<1> QED
  BY <1>8, <1>9 DEF RootEndsInput

LEMMA StepKeepsRoot ==
  ASSUME ParserInvariant, OutcomeInvariant, RootEndsInput, Step
  PROVE  RootEndsInput'
<1>1. CASE SyntaxError \/ Unwind \/ Abort
  <2>1. UNCHANGED << root, lexer >> /\ phase' # "parsing"
        /\ phase \in {"parsing", "recovering"}
    BY <1>1 DEF SyntaxError, Unwind, Abort, NoTableAction
  <2> QED
    BY <2>1 DEF RootEndsInput, RootIsLast, TokenAtHand, InLimits
<1> QED
  BY <1>1, ReadKeepsRoot, ShiftKeepsRoot, ReduceKeepsRoot DEF Step

(***************************************************************************)
(* What the lexer reports of a limit.                                      *)
(***************************************************************************)
DepthWithinLimit == InLimits(lexer) => lexer.nesting_depth <= NestingDepthLimit

Reports(err, loc) ==
  /\ err.location = loc
  /\ \/ /\ err.category = "token_count" /\ err.limit = TokenCountLimit
        /\ err.observed = TokenCountLimit + 1
     \/ /\ err.category = "token_bytes" /\ err.limit = TokenBytesLimit
        /\ err.observed = loc.end - loc.start /\ err.observed > TokenBytesLimit
     \/ /\ err.category = "nesting_depth" /\ err.limit = NestingDepthLimit
        /\ err.observed = NestingDepthLimit + 1

LEMMA RefusalReported ==
  ASSUME NEW ctx \in LexerContexts, NEW type, NEW loc \in Location, InLimits(ctx),
         ctx.token_count <= TokenCountLimit, ctx.nesting_depth <= NestingDepthLimit
  PROVE  LET after == AcceptToken(ctx, type, loc)
         IN  \/ InLimits(after) /\ after.nesting_depth <= NestingDepthLimit
             \/ ~ InLimits(after) /\ Reports(after.error, loc)
<1> DEFINE counted == Counted(ctx)
           depth == NextDepth(ctx, type)
           nested == [counted EXCEPT !.nesting_depth = depth]
           bytes == loc.end - loc.start
<1>1. /\ counted \in LexerContexts /\ counted.token_count = ctx.token_count + 1
      /\ counted.error = ctx.error
  BY CountedType DEF Counted, LexerContexts
<1>2. depth \in Nat /\ depth <= ctx.nesting_depth + 1
      /\ (type # T_LEFT_PAREN => depth <= ctx.nesting_depth)
  BY DEF NextDepth, LexerContexts
<1> HIDE DEF depth, counted
<1>3. /\ nested \in LexerContexts /\ nested.nesting_depth = depth
      /\ nested.token_count = counted.token_count /\ nested.error = ctx.error
  BY <1>1, <1>2 DEF LexerContexts
<1> HIDE DEF nested, bytes
<1>4. CASE counted.token_count > TokenCountLimit
  <2>1. AcceptToken(ctx, type, loc) = [counted EXCEPT !.error =
          Exceeded("token_count", TokenCountLimit, counted.token_count, loc)]
    BY <1>4 DEF AcceptToken, counted
  <2>2. AcceptToken(ctx, type, loc).error =
          Exceeded("token_count", TokenCountLimit, counted.token_count, loc)
    BY <1>1, <2>1 DEF LexerContexts
  <2>3. counted.token_count = TokenCountLimit + 1
    BY <1>1, <1>4, LimitsAssumption DEF LexerContexts
  <2> QED
    BY <2>2, <2>3 DEF Reports, Exceeded, InLimits
<1>5. CASE /\ ~ counted.token_count > TokenCountLimit
           /\ bytes > TokenBytesLimit /\ type \in SizedTokens
  <2>1. AcceptToken(ctx, type, loc) = [counted EXCEPT !.error =
          Exceeded("token_bytes", TokenBytesLimit, bytes, loc)]
    BY <1>5 DEF AcceptToken, counted, bytes
  <2>2. AcceptToken(ctx, type, loc).error =
          Exceeded("token_bytes", TokenBytesLimit, bytes, loc)
    BY <1>1, <2>1 DEF LexerContexts
  <2> QED
    BY <1>5, <2>2 DEF Reports, Exceeded, InLimits, bytes
<1>6. CASE /\ ~ counted.token_count > TokenCountLimit
           /\ ~ (bytes > TokenBytesLimit /\ type \in SizedTokens)
           /\ type = T_LEFT_PAREN /\ depth > NestingDepthLimit
  <2>1. AcceptToken(ctx, type, loc) = [nested EXCEPT !.error =
          Exceeded("nesting_depth", NestingDepthLimit, nested.nesting_depth, loc)]
    BY <1>3, <1>6 DEF AcceptToken, counted, nested, depth, bytes
  <2>2. AcceptToken(ctx, type, loc).error =
          Exceeded("nesting_depth", NestingDepthLimit, depth, loc)
    BY <1>3, <2>1 DEF LexerContexts
  <2>3. depth = NestingDepthLimit + 1
    BY <1>2, <1>6, LimitsAssumption DEF LexerContexts
  <2> QED
    BY <2>2, <2>3 DEF Reports, Exceeded, InLimits
<1>7. CASE /\ ~ counted.token_count > TokenCountLimit
           /\ ~ (bytes > TokenBytesLimit /\ type \in SizedTokens)
           /\ ~ (type = T_LEFT_PAREN /\ depth > NestingDepthLimit)
  <2>1. AcceptToken(ctx, type, loc) = nested
    BY <1>3, <1>7 DEF AcceptToken, counted, nested, depth, bytes
  <2>2. depth <= NestingDepthLimit
    BY <1>2, <1>7, LimitsAssumption DEF LexerContexts
  <2> QED
    BY <1>3, <2>1, <2>2 DEF InLimits
<1> QED
  BY <1>4, <1>5, <1>6, <1>7

(***************************************************************************)
(* The call around the parser.                                             *)
(***************************************************************************)
\* Init, but for the lexer context.
FreshParser ==
  /\ stack = << Bottom >> /\ yystacksize = InitDepth /\ yytoken = YYEMPTY
  /\ yy_lac_established = FALSE /\ phase = "parsing"
  /\ arena = << >> /\ root = NoNode /\ error = NoError /\ tokens = << >>

LimitTruthful == ~ InLimits(lexer) => Promise!IsLimitOf(lexer.error, input_length)

\* What a recorded error tells of the step that recorded it.
ErrorOrigin ==
  /\ error.message = "syntax_error" => tokens # << >>
  /\ error.message = "memory_exhausted" => phase = "exhausted"

ParserSafe ==
  /\ ParserInvariant
  /\ OutcomeInvariant
  /\ SpanInvariant
  /\ SignInvariant
  /\ CoverInvariant
  /\ ErrorNamesLastToken
  /\ ErrorOrigin

\* The scanner ends with the input, and the end it reports is that one.
WithinInput ==
  /\ lexer.offset <= input_length
  /\ \A k \in 1 .. Len(tokens) :
       tokens[k].type = YYEOF =>
         tokens[k].location = [start |-> input_length, end |-> input_length]

ParserSound ==
  /\ ParserSafe
  /\ RootEndsInput
  /\ WithinInput
  /\ DepthWithinLimit
  /\ LimitTruthful

HeldIn == [idle |-> {}, checking |-> {}, lex_init |-> {"arena"},
           scan_bytes |-> {"arena", "scanner"}, yyparse |-> Resources,
           result |-> {"arena"}]

CallInvariant ==
  /\ stage \in Stages
  /\ input_length \in Nat
  /\ live = HeldIn[stage]
  /\ stage \in {"idle", "lex_init", "scan_bytes"} => Init
  /\ stage = "checking" => FreshParser /\ lexer = ContextInit(input_length)
  /\ stage \notin {"idle", "checking"} => input_length <= InputBytesLimit
  /\ stage \in {"yyparse", "result"} => ParserSound
  /\ stage = "result" => Returned

LEMMA FreshIsSound ==
  ASSUME Init, input_length \in Nat
  PROVE  ParserSound
<1>1. ParserSafe
  <2>1. error = NoError
    BY DEF Init
  <2>2. ErrorNamesLastToken /\ ErrorOrigin
    BY <2>1 DEF ErrorNamesLastToken, ErrorOrigin, NoError
  <2> QED
    BY <2>2, InitEstablishesInvariant, InitOutcome, InitSpans, InitSigns,
       InitCovers DEF ParserSafe
<1>2. root = NoNode /\ lexer = EmptyContext
  BY DEF Init
<1>3. InLimits(lexer) /\ lexer.nesting_depth <= NestingDepthLimit
  BY <1>2, LimitsAssumption DEF InLimits, EmptyContext, NoLimit, Exceeded
<1>4. DefaultReduction(yystate) # 2
  <2>1. yystate = 0 /\ 0 \in States
    BY DEF Init, yystate, Top, Bottom, States, YYNSTATES
  <2>2. AccessingSymbol(0) # N_exp
    BY DEF AccessingSymbol, yystos, N_exp
  <2> QED
    BY <2>1, <2>2, TablesAreConsistent DEF LrConsistent, StartIsLast
<1>5. WithinInput
  <2>1. lexer.offset = 0 /\ Len(tokens) = 0
    BY DEF Init, EmptyContext
  <2> QED
    BY <2>1 DEF WithinInput
<1> QED
  BY <1>1, <1>2, <1>3, <1>4, <1>5
     DEF ParserSound, RootEndsInput, RootIsLast, TokenAtHand, DepthWithinLimit,
         LimitTruthful

\* What the lexer reports is what the caller is promised.
LEMMA ReportIsTruthful ==
  ASSUME NEW err, NEW loc \in Location, loc.start < loc.end,
         loc.end <= input_length, input_length \in Nat,
         input_length <= InputBytesLimit, Reports(err, loc)
  PROVE  Promise!IsLimitOf(err, input_length)
<1> DEFINE limits == [token_count   |-> TokenCountLimit,
                      nesting_depth |-> NestingDepthLimit,
                      token_bytes   |-> TokenBytesLimit]
<1>1. Promise!LimitOf = limits
  BY DEF Promise!LimitOf
<1>2. ~ input_length > InputBytesLimit
  BY LimitsAssumption
<1>3. /\ err.category \in DOMAIN limits /\ err.limit = limits[err.category]
      /\ err.location = loc
  BY DEF Reports
<1>4. /\ err.observed = IF err.category = "token_bytes"
                        THEN err.location.end - err.location.start
                        ELSE err.limit + 1
      /\ err.observed > err.limit
  BY LimitsAssumption DEF Reports
<1>5. loc.start <= loc.end
  BY DEF Location
<1> HIDE DEF limits
<1> QED
  BY <1>1, <1>2, <1>3, <1>4, <1>5 DEF Promise!IsLimitOf, Promise!Inside

LEMMA YylexKeepsReport ==
  ASSUME ParserSound, Yylex, lexer'.offset <= input_length, input_length \in Nat,
         input_length <= InputBytesLimit, input_length' = input_length
  PROVE  DepthWithinLimit' /\ LimitTruthful'
<1>1. phase = "parsing" /\ TypeOK
  BY DEF Yylex, ReadToken, ReadOverLimit, ReadEnd, NeedsToken, ParserSound,
         ParserSafe, ParserInvariant
<1>2. /\ InLimits(lexer) /\ lexer \in LexerContexts
      /\ lexer.token_count <= TokenCountLimit
      /\ lexer.nesting_depth <= NestingDepthLimit
  BY <1>1 DEF ParserSound, ParserSafe, OutcomeInvariant, OutcomeExplained, CountWithinLimit,
     DepthWithinLimit, TypeOK
<1>3. ASSUME NEW type \in TokenKinds, NEW loc \in TokenLocations(type),
             lexer' = ScannedContext(type, loc)
      PROVE  DepthWithinLimit' /\ LimitTruthful'
  <2> DEFINE ctx == [lexer EXCEPT !.offset = loc.end]
  <2>1. loc \in Location /\ loc.start < loc.end
    BY <1>1, LexemeNotEmpty
  <2>2. /\ ctx \in LexerContexts /\ InLimits(ctx)
        /\ ctx.token_count <= TokenCountLimit
        /\ ctx.nesting_depth <= NestingDepthLimit
    BY <1>2, <2>1 DEF LexerContexts, Location, InLimits
  <2>3. lexer' = AcceptToken(ctx, type, loc)
    BY <1>3 DEF ScannedContext
  <2>4. loc.end <= input_length
    BY <1>1, <1>3, <2>1, ScannedContextType
  <2> HIDE DEF ctx
  <2>5. \/ InLimits(lexer') /\ lexer'.nesting_depth <= NestingDepthLimit
        \/ ~ InLimits(lexer') /\ Reports(lexer'.error, loc)
    BY <2>1, <2>2, <2>3, RefusalReported
  <2>6. ~ InLimits(lexer') => Promise!IsLimitOf(lexer'.error, input_length)
    BY <2>1, <2>4, <2>5, ReportIsTruthful
  <2> QED
    BY <2>5, <2>6 DEF DepthWithinLimit, LimitTruthful, InLimits
<1>4. ASSUME NEW loc \in EndLocations, ReadEnd(loc)
      PROVE  DepthWithinLimit' /\ LimitTruthful'
  <2>1. lexer' = [lexer EXCEPT !.offset = loc.end]
    BY <1>4 DEF ReadEnd
  <2>2. lexer'.error = lexer.error /\ lexer'.nesting_depth = lexer.nesting_depth
    BY <1>2, <2>1 DEF LexerContexts
  <2> QED
    BY <1>2, <2>2 DEF DepthWithinLimit, LimitTruthful, InLimits
<1> QED
  BY <1>3, <1>4 DEF Yylex, ReadToken, ReadOverLimit

LEMMA StepKeepsOrigin ==
  ASSUME ParserInvariant, OutcomeInvariant, ErrorOrigin, Step
  PROVE  ErrorOrigin'
<1>1. /\ tokens \in Seq(Token) /\ Len(tokens) \in Nat
      /\ phase \in {"parsing", "recovering"}
  <2>1. Yylex => phase = "parsing"
    BY DEF Yylex, ReadToken, ReadOverLimit, ReadEnd, NeedsToken
  <2>2. phase \in {"parsing", "recovering"}
    BY <2>1 DEF Step, Shift, ReduceWithoutToken, ReduceOnToken, SyntaxError, Unwind,
       Abort, NoTableAction
  <2> QED
    BY <2>2 DEF ParserInvariant, TypeOK
<1>2. error.message # "memory_exhausted"
  BY <1>1 DEF ErrorOrigin
<1>3. tokens # << >> => tokens' # << >>
  <2>1. CASE Yylex
    <3>1. PICK token : tokens' = Append(tokens, token)
      BY <2>1 DEF Yylex, ReadToken, ReadOverLimit, ReadEnd
    <3> QED
      BY <1>1, <3>1
  <2>2. CASE ~ Yylex
    BY <2>2 DEF Step, Shift, ReduceWithoutToken, ReduceOnToken, SyntaxError,
       Unwind, Abort
  <2> QED
    BY <2>1, <2>2
<1>4. CASE error' = error
  BY <1>2, <1>3, <1>4 DEF ErrorOrigin
<1>5. CASE SyntaxError
  <2>1. /\ yytoken # YYEMPTY /\ tokens' = tokens /\ phase = "parsing"
        /\ error' = SetSyntaxError(error, ErrorLocation, yytoken,
                                   ExpectedTokens(StateStack))
    BY <1>5 DEF SyntaxError, NoTableAction
  <2>2. tokens # << >>
    BY <2>1 DEF ParserInvariant, LookaheadRead
  <2>3. error'.message # "memory_exhausted"
    BY <1>2, <2>1 DEF SetSyntaxError
  <2> QED
    BY <2>1, <2>2, <2>3, Zenon DEF ErrorOrigin
<1>6. ASSUME NEW newStack, EnterState(newStack), phase = "parsing"
      PROVE  ErrorOrigin'
  <2>1. CASE PhaseAfter(newStack) = "exhausted"
    <3>1. /\ phase' = "exhausted"
          /\ error' = SetError(error, yylloc, "memory_exhausted")
      BY <1>6, <2>1 DEF EnterState
    <3>2. error'.message = "syntax_error" => error.message = "syntax_error"
      BY <3>1 DEF SetError
    <3> QED
      BY <1>3, <3>1, <3>2, Zenon DEF ErrorOrigin
  <2>2. CASE PhaseAfter(newStack) # "exhausted"
    <3>1. error' = error
      BY <1>6, <2>2 DEF EnterState
    <3> QED
      BY <1>4, <3>1
  <2> QED
    BY <2>1, <2>2
<1>7. CASE Shift \/ ReduceWithoutToken \/ ReduceOnToken
  <2>1. phase = "parsing" /\ \E newStack : EnterState(newStack)
    BY <1>7, Zenon DEF Shift, ReduceWithoutToken, ReduceOnToken, NoTableAction, Reduce
  <2> QED
    BY <1>6, <2>1
<1>8. CASE Yylex \/ Unwind \/ Abort
  <2>1. error' = error
    BY <1>8 DEF Yylex, ReadToken, ReadOverLimit, ReadEnd, Unwind, Abort
  <2> QED
    BY <1>4, <2>1
<1> QED
  BY <1>5, <1>7, <1>8 DEF Step

LEMMA ParserStaysSafe ==
  ASSUME ParserSafe, [Next]_vars
  PROVE  ParserSafe'
<1>1. ErrorOrigin'
  <2>1. CASE Step
    BY <2>1, StepKeepsOrigin DEF ParserSafe
  <2>2. CASE UNCHANGED vars
    <3>1. UNCHANGED << error, tokens, phase >>
      BY <2>2 DEF vars
    <3> QED
      BY <3>1 DEF ParserSafe, ErrorOrigin
  <2> QED
    BY <2>1, <2>2 DEF Next, Stopped
<1> QED
  BY <1>1, NextKeepsInvariant, NextOutcome, NextSpans, NextSigns, NextCovers,
     NextNamesToken DEF ParserSafe

LEMMA StepStaysWithinInput ==
  ASSUME TypeOK, WithinInput, Step, WithinBuffer, input_length \in Nat,
         input_length' = input_length
  PROVE  WithinInput'
<1>1. tokens \in Seq(Token) /\ Len(tokens) \in Nat
  BY DEF TypeOK
<1> DEFINE end == [start |-> input_length, end |-> input_length]
<1>2. ASSUME NEW token, tokens' = Append(tokens, token),
             token.type = YYEOF => token.location = end
      PROVE  \A k \in 1 .. Len(tokens') : tokens'[k].type = YYEOF =>
                                         tokens'[k].location = end
  <2> HIDE DEF end
  <2>1. /\ Len(tokens') = Len(tokens) + 1 /\ tokens'[Len(tokens) + 1] = token
        /\ \A k \in 1 .. Len(tokens) : tokens'[k] = tokens[k]
    BY <1>1, <1>2
  <2>2. \A k \in 1 .. Len(tokens) : tokens[k].type = YYEOF => tokens[k].location = end
    BY DEF WithinInput, end
  <2>3. \A k \in 1 .. Len(tokens') : k = Len(tokens) + 1 \/ k \in 1 .. Len(tokens)
    BY <1>1, <2>1
  <2> QED
    BY <1>2, <2>1, <2>2, <2>3, Zenon
<1>3. ASSUME NEW token, tokens' = Append(tokens, token),
             token.type = YYEOF => token.location = end
      PROVE  WithinInput'
  BY <1>2, <1>3 DEF WithinInput, WithinBuffer
<1>4. CASE tokens' = tokens
  BY <1>4 DEF WithinInput, WithinBuffer
<1>5. ASSUME NEW type \in TokenKinds, NEW loc \in TokenLocations(type),
             \/ \E negative \in LexemeSigns(type) : ReadToken(type, loc, negative)
             \/ ReadOverLimit(type, loc)
      PROVE  WithinInput'
  <2>1. type # YYEOF /\ YYerror # YYEOF
    BY InputAssumption DEF LexemeTokens, T_INTEGER, YYEOF, YYerror, T_INVALID_NUMBER
  <2>2. PICK token : tokens' = Append(tokens, token) /\ token.type # YYEOF
    <3>1. CASE \E negative \in LexemeSigns(type) : ReadToken(type, loc, negative)
      <4>1. PICK negative : ReadToken(type, loc, negative)
        BY <3>1
      <4> DEFINE t == [type |-> type, location |-> loc, negative |-> negative]
      <4>2. tokens' = Append(tokens, t) /\ t.type # YYEOF
        BY <2>1, <4>1 DEF ReadToken
      <4> HIDE DEF t
      <4> QED
        BY <4>2
    <3>2. CASE ReadOverLimit(type, loc)
      <4> DEFINE t == [type |-> YYerror, location |-> loc, negative |-> FALSE]
      <4>1. tokens' = Append(tokens, t) /\ t.type # YYEOF
        BY <2>1, <3>2 DEF ReadOverLimit
      <4> HIDE DEF t
      <4> QED
        BY <4>1
    <3> QED
      BY <1>5, <3>1, <3>2
  <2> QED
    BY <1>3, <2>2
<1>6. ASSUME NEW loc \in EndLocations, ReadEnd(loc)
      PROVE  WithinInput'
  <2> DEFINE t == [type |-> YYEOF, location |-> loc, negative |-> FALSE]
  <2>1. /\ tokens' = Append(tokens, t) /\ t.location = loc
        /\ yytoken' = YYEOF /\ yytoken = YYEMPTY
        /\ lexer' = [lexer EXCEPT !.offset = loc.end]
    BY <1>6 DEF ReadEnd, NeedsToken
  <2>2. lexer'.offset = loc.end
    BY <2>1 DEF TypeOK, LexerContexts
  <2>3. lexer'.offset = input_length
    BY <2>1 DEF WithinBuffer, YYEOF, YYEMPTY
  <2>4. PICK gap \in Gaps :
          loc = [start |-> lexer.offset + gap, end |-> lexer.offset + gap]
    BY DEF EndLocations
  <2>5. loc = end
    BY <2>2, <2>3, <2>4
  <2> HIDE DEF t, end
  <2> QED
    BY <1>3, <2>1, <2>5
<1>7. CASE Yylex
  BY <1>5, <1>6, <1>7 DEF Yylex
<1>8. CASE ~ Yylex
  <2>1. tokens' = tokens
    BY <1>8 DEF Step, Shift, ReduceWithoutToken, ReduceOnToken, SyntaxError,
       Unwind, Abort
  <2> QED
    BY <1>4, <2>1
<1> QED
  BY <1>7, <1>8

LEMMA RunYyparseKeepsSound ==
  ASSUME ParserSound, RunYyparse, input_length \in Nat,
         input_length <= InputBytesLimit
  PROVE  ParserSound'
<1>1. /\ Step /\ WithinBuffer /\ lexer'.offset <= input_length
      /\ input_length' = input_length
  BY DEF RunYyparse, WithinBuffer, callVars
<1>2. ParserSafe' /\ RootEndsInput' /\ WithinInput'
  <2>1. [Next]_vars
    BY <1>1 DEF Next
  <2>2. ParserInvariant /\ OutcomeInvariant /\ TypeOK
    BY DEF ParserSound, ParserSafe, ParserInvariant
  <2> QED
    BY <1>1, <2>1, <2>2, ParserStaysSafe, StepKeepsRoot, StepStaysWithinInput
       DEF ParserSound
<1>3. DepthWithinLimit' /\ LimitTruthful'
  <2>1. CASE Yylex
    BY <1>1, <2>1, YylexKeepsReport
  <2>2. CASE ~ Yylex
    <3>1. lexer' = lexer
      BY <1>1, <2>2 DEF Step, Shift, ReduceWithoutToken, ReduceOnToken, SyntaxError,
         Unwind, Abort
    <3> QED
      BY <1>1, <3>1 DEF ParserSound, DepthWithinLimit, LimitTruthful, InLimits
  <2> QED
    BY <2>1, <2>2
<1> QED
  BY <1>2, <1>3 DEF ParserSound

\* What is sound stays so while the parser rests.
LEMMA RestKeepsSound ==
  ASSUME ParserSound, UNCHANGED << vars, input_length >>
  PROVE  ParserSound'
<1>1. [Next]_vars
  OBVIOUS
<1>2. ParserSafe'
  BY <1>1, ParserStaysSafe DEF ParserSound
<1> QED
  BY <1>2 DEF vars, ParserSound, RootEndsInput, RootIsLast, TokenAtHand, WithinInput,
     DepthWithinLimit, LimitTruthful, yystate, Top, InLimits

LEMMA ReturnKeepsInvariant ==
  ASSUME NEW released, NEW result, Return(released, result), live \ released = {}
  PROVE  CallInvariant'
<1>1. Init'
  BY DEF Return, DropLocals, Init
<1>2. /\ stage' = "idle" /\ input_length' = 0 /\ live' = {}
  BY DEF Return
<1> QED
  BY <1>1, <1>2 DEF CallInvariant, Stages, HeldIn

LEMMA OversizeRefused ==
  ASSUME NEW length \in Nat
  PROVE  /\ InLimits(ContextInit(length)) =>
              length <= InputBytesLimit /\ ContextInit(length) = EmptyContext
         /\ ~ InLimits(ContextInit(length)) =>
              Promise!IsLimitOf(ContextInit(length).error, length)
<1>1. CASE IsOversize(length)
  <2> DEFINE report == Exceeded("input_bytes", InputBytesLimit, length,
                                [start |-> 0, end |-> length])
  <2>1. ContextInit(length) = [EmptyContext EXCEPT !.error = report]
    BY <1>1 DEF ContextInit
  <2>2. ContextInit(length).error = report
    BY <2>1 DEF EmptyContext
  <2>3. ~ InLimits(ContextInit(length))
    BY <2>2 DEF InLimits, Exceeded
  <2>4. length > InputBytesLimit
    BY <1>1 DEF IsOversize
  <2>5. Promise!IsLimitOf(report, length)
    BY <2>4 DEF Promise!IsLimitOf, Promise!Exceeded, Exceeded
  <2> QED
    BY <2>2, <2>3, <2>5
<1>2. CASE ~ IsOversize(length)
  <2>1. ContextInit(length) = EmptyContext
    BY <1>2 DEF ContextInit
  <2>2. InLimits(EmptyContext)
    BY DEF InLimits, EmptyContext, NoLimit, Exceeded
  <2>3. length <= InputBytesLimit
    BY <1>2, LimitsAssumption DEF IsOversize
  <2> QED
    BY <2>1, <2>2, <2>3
<1> QED
  BY <1>1, <1>2

LEMMA InitKeepsCall == CallInit => CallInvariant
BY DEF CallInit, CallInvariant, Stages, HeldIn

LEMMA AcquireKeepsInvariant ==
  ASSUME CallInvariant,
         \/ \E length \in InputLengths : Call(length)
         \/ InitParseContext \/ InitScanner \/ ScanBytes
  PROVE  CallInvariant'
<1>1. CASE \E length \in InputLengths : Call(length)
  <2>1. PICK length \in InputLengths : Call(length)
    BY <1>1
  <2>2. /\ stage = "idle" /\ stage' = "checking" /\ input_length' = length
        /\ length \in Nat /\ lexer' = ContextInit(length)
        /\ UNCHANGED << live, stack, yystacksize, yytoken, yy_lac_established,
                        phase, arena, root, error, tokens >>
    BY <2>1, InputLengthsAssumption DEF Call
  <2>3. FreshParser'
    BY <2>2 DEF CallInvariant, Init, FreshParser
  <2> QED
    BY <2>2, <2>3 DEF CallInvariant, Stages, HeldIn
<1>2. CASE InitParseContext
  <2>1. /\ stage = "checking" /\ stage' = "lex_init" /\ InLimits(lexer)
        /\ live' = live \cup {"arena"} /\ arena' = << >> /\ root' = NoNode
        /\ error' = NoError
        /\ UNCHANGED << input_length, stack, yystacksize, yytoken,
                        yy_lac_established, phase, lexer, tokens >>
    BY <1>2 DEF InitParseContext
  <2>2. lexer = EmptyContext /\ input_length <= InputBytesLimit
    BY <2>1, OversizeRefused DEF CallInvariant
  <2>3. Init'
    BY <2>1, <2>2 DEF CallInvariant, FreshParser, Init
  <2> QED
    BY <2>1, <2>2, <2>3 DEF CallInvariant, Stages, HeldIn
<1>3. CASE InitScanner \/ ScanBytes
  <2>1. /\ UNCHANGED << input_length, vars >>
        /\ \/ /\ stage = "lex_init" /\ stage' = "scan_bytes"
              /\ live' = live \cup {"scanner"}
           \/ /\ stage = "scan_bytes" /\ stage' = "yyparse"
              /\ live' = live \cup {"buffer"}
    BY <1>3 DEF InitScanner, ScanBytes
  <2>2. Init /\ Init'
    BY <2>1 DEF CallInvariant, Init, vars
  <2>3. (Init /\ input_length \in Nat => ParserSound)'
    BY FreshIsSound, PTL
  <2>4. live' = HeldIn[stage']
    BY <2>1 DEF CallInvariant, HeldIn, Resources
  <2> QED
    BY <2>1, <2>2, <2>3, <2>4 DEF CallInvariant, Stages
<1> QED
  BY <1>1, <1>2, <1>3

LEMMA CallNextKeepsInvariant ==
  ASSUME CallInvariant, [CallNext]_allVars
  PROVE  CallInvariant'
<1>1. CASE RefuseInput \/ FailScanner \/ FailBuffer \/ ThrowLimit
           \/ ThrowSyntaxError \/ ReturnTree
  <2>1. PICK released, result : Return(released, result) /\ live \ released = {}
    BY <1>1 DEF CallInvariant, HeldIn, RefuseInput, FailScanner, FailBuffer,
       ThrowLimit, ThrowSyntaxError, ReturnTree
  <2> QED
    BY <2>1, ReturnKeepsInvariant
<1>2. CASE RunYyparse
  <2>1. ParserSound'
    BY <1>2, RunYyparseKeepsSound DEF CallInvariant, RunYyparse
  <2>2. stage = "yyparse" /\ UNCHANGED callVars
    BY <1>2 DEF RunYyparse
  <2> QED
    BY <2>1, <2>2 DEF CallInvariant, callVars
<1>3. CASE ReleaseScanner
  <2>1. /\ stage = "yyparse" /\ stage' = "result" /\ Returned
        /\ live' = live \ {"buffer", "scanner"}
        /\ UNCHANGED << input_length, vars >>
    BY <1>3 DEF ReleaseScanner
  <2>2. ParserSound' /\ Returned'
    BY <2>1, RestKeepsSound DEF CallInvariant, vars, Returned
  <2>3. live' = HeldIn[stage']
    BY <2>1 DEF CallInvariant, HeldIn, Resources
  <2> QED
    BY <2>1, <2>2, <2>3 DEF CallInvariant, Stages
<1>4. CASE UNCHANGED allVars
  <2>1. UNCHANGED vars /\ UNCHANGED callVars
    BY <1>4 DEF allVars
  <2>2. ParserSound => ParserSound'
    BY <2>1, RestKeepsSound DEF callVars
  <2>3. (Init => Init') /\ (FreshParser => FreshParser') /\ (Returned => Returned')
    BY <2>1 DEF vars, Init, FreshParser, Returned
  <2> QED
    BY <2>1, <2>2, <2>3 DEF CallInvariant, callVars, vars
<1> QED
  BY <1>1, <1>2, <1>3, <1>4, AcquireKeepsInvariant DEF CallNext, Proceed

LEMMA CallIsSound == CallSpec => []CallInvariant
<1>1. CallInvariant /\ [CallNext]_allVars => CallInvariant'
  BY CallNextKeepsInvariant
<1> QED
  BY <1>1, InitKeepsCall, PTL DEF CallSpec

(***************************************************************************)
(* The theorems.                                                           *)
(***************************************************************************)
\* The parser runs only while all it reads is held, and on no path, failed
\* or not, does a call leave something behind.
THEOREM ResourcesCorrect == CallSpec => []ResourcesHeld
<1>1. CallInvariant => ResourcesHeld
  BY DEF CallInvariant, ResourcesHeld, HeldIn
<1> QED
  BY <1>1, CallIsSound, PTL

LEMMA ReportsNeverMixed ==
  ASSUME CallInvariant
  PROVE  ErrorsNeverMixed
<1> SUFFICES ASSUME stage = "result"
             PROVE  /\ Failed /\ InLimits(lexer) => HasError(error)
                    /\ ~ InLimits(lexer) => ~ HasError(error) /\ root = NoNode
  BY DEF ErrorsNeverMixed
<1>1. OutcomeExplained /\ RootEndsInput /\ Returned
  BY DEF CallInvariant, ParserSound, ParserSafe, OutcomeInvariant
<1> QED
  BY <1>1 DEF OutcomeExplained, RootEndsInput, RootIsLast, TokenAtHand, Returned, Failed

\* The caller gets the parser's message or the lexer's limit, whichever was
\* recorded, and there is never both.
THEOREM ReportsCorrect == CallSpec => []ErrorsNeverMixed
  BY ReportsNeverMixed, CallIsSound, PTL

(***************************************************************************)
(* What ast_to_zval makes of a node.  Operands are older than their node,  *)
(* so there is a function that takes every node to its array; nothing more *)
(* about it is needed than that it keeps a node's span.                    *)
(***************************************************************************)
Zval(nodes, zval, id) ==
  IF nodes[id].kind \in LeafKinds
  THEN [kind |-> nodes[id].kind, has_location |-> nodes[id].has_location,
        location |-> nodes[id].location,
        token |-> nodes[id].token, negative |-> nodes[id].negative]
  ELSE [kind |-> nodes[id].kind, has_location |-> nodes[id].has_location,
        location |-> nodes[id].location,
        left |-> zval[nodes[id].left], right |-> zval[nodes[id].right]]

IsZval(zval, nodes, n) == zval = [id \in 1 .. n |-> Zval(nodes, zval, id)]

LEMMA ZvalExists ==
  ASSUME NEW nodes, NEW len \in Nat,
         \A id \in 1 .. len : OperandsOlder(nodes, id)
  PROVE  \E zval : IsZval(zval, nodes, len)
<1> DEFINE Fails == {n \in 0 .. len : ~ \E zval : IsZval(zval, nodes, n)}
<1> SUFFICES ASSUME Fails # {}
             PROVE  FALSE
  <2>1. len \in 0 .. len
    OBVIOUS
  <2> QED
    BY <2>1, Zenon
<1>1. PICK least \in Fails : \A n \in Fails : least <= n
  <2>1. Fails \subseteq Nat
    BY SMT
  <2> HIDE DEF Fails
  <2> QED
    BY <2>1, LeastNumber, Zenon
<1>2. least \in 0 .. len /\ ~ \E zval : IsZval(zval, nodes, least)
  BY Zenon
<1>3. least # 0
  <2> SUFFICES ASSUME least = 0
               PROVE  FALSE
    OBVIOUS
  <2> DEFINE none == [id \in 1 .. 0 |-> 0]
  <2>1. none = [id \in 1 .. 0 |-> Zval(nodes, none, id)]
    <3> HIDE DEF none
    <3>1. \A id \in 1 .. 0 : FALSE
      OBVIOUS
    <3>2. none = [id \in 1 .. 0 |-> 0]
      BY DEF none
    <3> QED
      BY <3>1, <3>2, Zenon
  <2> HIDE DEF none
  <2> QED
    BY <1>2, <2>1, Zenon DEF IsZval
<1> DEFINE n == least - 1
<1>4. n \in Nat /\ least = n + 1 /\ n + 1 \in 1 .. len /\ n \in 0 .. len
      /\ ~ least <= n
  BY <1>2, <1>3, SMT
<1> HIDE DEF n
<1>5. PICK f : IsZval(f, nodes, n)
  <2>1. n \notin Fails
    <3> HIDE DEF Fails
    <3> QED
      BY <1>1, <1>4, Zenon
  <2> QED
    BY <1>4, <2>1, Zenon
<1> HIDE DEF Fails
<1> DEFINE g == [id \in 1 .. n + 1 |-> IF id = n + 1 THEN Zval(nodes, f, n + 1)
                                       ELSE f[id]]
<1>6. \A id \in 1 .. n : g[id] = f[id]
  <2>1. \A id \in 1 .. n : id \in 1 .. n + 1 /\ id # n + 1
    BY <1>4, SMT
  <2> QED
    BY <2>1, Zenon
<1>7. g[n + 1] = Zval(nodes, f, n + 1)
  <2>1. n + 1 \in 1 .. n + 1
    BY <1>4, SMT
  <2> QED
    BY <2>1, Zenon
<1>8. g = [id \in 1 .. n + 1 |-> g[id]]
  BY Zenon
<1> HIDE DEF g
<1>9. ASSUME NEW id \in 1 .. n + 1
      PROVE  Zval(nodes, f, id) = Zval(nodes, g, id)
  <2>1. CASE nodes[id].kind \in LeafKinds
    BY <2>1, Zenon DEF Zval
  <2>2. CASE nodes[id].kind \notin LeafKinds
    <3>1. id \in 1 .. len
      BY <1>4, SMT
    <3>2. nodes[id].left \in 1 .. id - 1 /\ nodes[id].right \in 1 .. id - 1
      BY <2>2, <3>1, Zenon DEF OperandsOlder
    <3>3. nodes[id].left \in 1 .. n /\ nodes[id].right \in 1 .. n
      BY <1>4, <3>2, SMT
    <3>4. f[nodes[id].left] = g[nodes[id].left]
          /\ f[nodes[id].right] = g[nodes[id].right]
      BY <1>6, <3>3, Zenon
    <3> QED
      BY <2>2, <3>4, Zenon DEF Zval
  <2> QED
    BY <2>1, <2>2, Zenon
<1>10. \A id \in 1 .. n + 1 : g[id] = Zval(nodes, g, id)
  <2> SUFFICES ASSUME NEW id \in 1 .. n + 1
               PROVE  g[id] = Zval(nodes, f, id)
    BY <1>9, Zenon
  <2>1. CASE id = n + 1
    BY <1>7, <2>1, Zenon
  <2>2. CASE id # n + 1
    <3>1. id \in 1 .. n
      BY <1>4, <2>2, SMT
    <3>2. f[id] = Zval(nodes, f, id)
      BY <1>5, <3>1, Zenon DEF IsZval
    <3> QED
      BY <1>6, <3>1, <3>2, Zenon
  <2> QED
    BY <2>1, <2>2, Zenon
<1>11. IsZval(g, nodes, n + 1)
  BY <1>8, <1>10, Zenon DEF IsZval
<1> QED
  BY <1>2, <1>4, <1>11, Zenon

LEMMA ZvalKeepsSpan ==
  ASSUME NEW nodes \in Seq(Node), \A id \in 1 .. Len(nodes) : OperandsOlder(nodes, id),
         NEW id \in 1 .. Len(nodes)
  PROVE  /\ AstToZval(nodes)[id].has_location = nodes[id].has_location
         /\ AstToZval(nodes)[id].location = nodes[id].location
<1> DEFINE zval[i \in 1 .. Len(nodes)] ==
             LET node == nodes[i]
             IN  IF node.kind \in LeafKinds
                 THEN [kind |-> node.kind, has_location |-> node.has_location,
                       location |-> node.location,
                       token |-> node.token, negative |-> node.negative]
                 ELSE [kind |-> node.kind, has_location |-> node.has_location,
                       location |-> node.location,
                       left |-> zval[node.left], right |-> zval[node.right]]
<1>1. AstToZval(nodes) = zval
  BY DEF AstToZval
<1>2. zval = CHOOSE f : IsZval(f, nodes, Len(nodes))
  BY Zenon DEF IsZval, Zval
<1> HIDE DEF zval
<1>3. IsZval(zval, nodes, Len(nodes))
  <2>1. Len(nodes) \in Nat
    OBVIOUS
  <2>2. \E f : IsZval(f, nodes, Len(nodes))
    BY <2>1, ZvalExists
  <2> QED
    BY <1>2, <2>2, Zenon
<1>4. zval[id] = Zval(nodes, zval, id)
  BY <1>3, Zenon DEF IsZval
<1>5. /\ Zval(nodes, zval, id).has_location = nodes[id].has_location
      /\ Zval(nodes, zval, id).location = nodes[id].location
  BY DEF Zval
<1> QED
  BY <1>1, <1>4, <1>5, Zenon

(***************************************************************************)
(* The answers.                                                            *)
(***************************************************************************)
LEMMA SyntaxErrorTruthful ==
  ASSUME CallInvariant, stage = "result", HasError(error),
         TokenCountLimit + 2 < MaxDepth
  PROVE  Promise!IsSyntaxErrorOf(error, input_length)
<1> DEFINE last == tokens[Len(tokens)]
<1>1. /\ ParserSafe /\ WithinInput /\ input_length \in Nat
      /\ input_length <= InputBytesLimit
  BY DEF CallInvariant, ParserSound
<1>2. /\ error \in ParseError /\ tokens \in Seq(Token) /\ lexer.offset \in Nat
  BY <1>1 DEF ParserSafe, ParserInvariant, TypeOK, LexerContexts
<1>3. error.message = "syntax_error"
  <2>1. error.message \in {"syntax_error", "memory_exhausted"}
    BY <1>2 DEF ParseError, HasError
  <2>2. phase # "exhausted"
    BY <1>1 DEF ParserSafe, OutcomeInvariant, StackNeverExhausted
  <2> QED
    BY <1>1, <2>1, <2>2 DEF ParserSafe, ErrorOrigin
<1>4. /\ error.unexpected = last.type /\ error.location = last.location
      /\ error.unexpected \notin error.expected /\ error.expected # {}
      /\ Len(tokens) \in 1 .. Len(tokens)
  <2>1. tokens # << >>
    BY <1>1, <1>3 DEF ParserSafe, ErrorOrigin
  <2>2. Len(tokens) \in 1 .. Len(tokens)
    BY <1>2, <2>1
  <2> QED
    BY <1>1, <1>3, <2>2 DEF ParserSafe, ErrorNamesLastToken
<1>5. last \in Token
  BY <1>2, <1>4
<1>6. error.unexpected # YYEMPTY
  BY <1>4, <1>5 DEF Token, Terminals, YYNTOKENS, YYEMPTY
<1>7. Promise!Inside(error.location, input_length)
  <2>1. last.location.start <= last.location.end
        /\ last.location.end <= lexer.offset
    BY <1>1, <1>4 DEF ParserSafe, SignInvariant, TokensInOrder
  <2>2. last.location \in Location /\ lexer.offset <= input_length
    BY <1>1, <1>5 DEF Token, WithinInput
  <2> HIDE DEF last
  <2>3. last.location.end <= input_length
    BY <1>1, <1>2, <2>1, <2>2 DEF Location
  <2> QED
    BY <1>4, <2>1, <2>3 DEF Promise!Inside
<1>8. error.unexpected = YYEOF =>
        error.location = [start |-> input_length, end |-> input_length]
  BY <1>1, <1>4 DEF WithinInput
<1>9. Promise!YYEOF = YYEOF /\ Promise!YYEMPTY = YYEMPTY
  BY DEF Promise!YYEOF, Promise!YYEMPTY, YYEOF, YYEMPTY
<1> QED
  BY <1>1, <1>3, <1>4, <1>6, <1>7, <1>8, <1>9, Zenon DEF Promise!IsSyntaxErrorOf

LEMMA TreeTruthful ==
  ASSUME CallInvariant, stage = "result", root # NoNode
  PROVE  Promise!IsTreeOf(AstToZval(arena)[root], input_length)
<1>1. /\ ParserSafe /\ WithinInput /\ input_length \in Nat
      /\ input_length <= InputBytesLimit
  BY DEF CallInvariant, ParserSound
<1>2. /\ arena \in Seq(Node) /\ lexer.offset \in Nat /\ root \in 1 .. Len(arena)
      /\ \A id \in 1 .. Len(arena) : OperandsOlder(arena, id)
  BY <1>1 DEF ParserSafe, ParserInvariant, TypeOK, LexerContexts, NoNode,
     ArenaIsAcyclic, OperandsOlder
<1> DEFINE tree == AstToZval(arena)[root]
           loc  == arena[root].location
<1>3. tree.has_location = arena[root].has_location /\ tree.location = loc
  BY <1>2, ZvalKeepsSpan
<1>4. arena[root].has_location /\ Covers(loc)
  BY <1>1, <1>2 DEF ParserSafe, CoverInvariant, RootCovers, NodesCover
<1>5. loc \in Location
  <2>1. arena[root] \in Node
    BY <1>2
  <2> QED
    BY <2>1 DEF Node
<1>6. lexer.offset <= input_length
  BY <1>1 DEF WithinInput
<1> HIDE DEF tree, loc
<1>7. /\ loc.start <= loc.end /\ loc.end <= input_length /\ loc.start < loc.end
  BY <1>1, <1>2, <1>4, <1>5, <1>6 DEF Covers, Location
<1>8. Promise!IsTreeOf(tree, input_length)
  BY <1>1, <1>3, <1>4, <1>7, Zenon DEF Promise!IsTreeOf, Promise!Inside
<1> QED
  BY <1>8 DEF tree

(***************************************************************************)
(* What an answer is, whatever the limits: a message about syntax may also *)
(* say that the parser's stack was full, unless no input within the token  *)
(* limit can fill it.                                                      *)
(***************************************************************************)
Busy == IF stage = "idle" THEN -1 ELSE input_length

HonestAnswer ==
  \/ /\ outcome'.kind = "limit"
     /\ Promise!IsLimitOf(outcome'.error, Busy)
  \/ /\ outcome'.kind = "syntax"
     /\ Busy <= InputBytesLimit /\ HasError(outcome'.error)
     /\ TokenCountLimit + 2 < MaxDepth =>
          Promise!IsSyntaxErrorOf(outcome'.error, Busy)
  \/ /\ outcome'.kind = "tree"
     /\ Promise!IsTreeOf(outcome'.tree, Busy)
  \/ /\ outcome'.kind = "runtime"
     /\ Busy <= InputBytesLimit

AnswersOnce ==
  \/ \E length \in InputLengths : Promise!Invoke(length)
  \/ Busy # -1 /\ Busy' = -1 /\ HonestAnswer

AnswersHonestly == [][AnswersOnce]_<< Busy, outcome >>

LEMMA StepAnswers ==
  ASSUME CallInvariant, [CallNext]_allVars
  PROVE  [AnswersOnce]_<< Busy, outcome >>
<1>1. input_length \in Nat /\ stage \in Stages
  BY DEF CallInvariant
<1>2. stage # "idle" => Busy = input_length /\ Busy # -1
  BY <1>1 DEF Busy
<1>3. ASSUME NEW released, NEW result, Return(released, result), stage # "idle"
      PROVE  Busy = input_length /\ Busy # -1 /\ Busy' = -1 /\ outcome' = result
  BY <1>2, <1>3 DEF Return, Busy
<1>4. CASE \E length \in InputLengths : Call(length)
  <2>1. PICK length \in InputLengths : Call(length)
    BY <1>4
  <2>2. /\ stage = "idle" /\ stage' = "checking" /\ input_length' = length
        /\ outcome' = [kind |-> "none"]
    BY <2>1 DEF Call
  <2>3. Promise!Invoke(length)
    BY <2>2 DEF Promise!Invoke, Promise!NoOutcome
  <2> QED
    BY <2>3 DEF AnswersOnce
<1>5. CASE RefuseInput \/ ThrowLimit
  <2>1. PICK released : Return(released, LimitException) /\ stage # "idle"
    BY <1>5 DEF RefuseInput, ThrowLimit
  <2>2. Promise!IsLimitOf(lexer.error, input_length)
    BY <1>1, <1>5, OversizeRefused
       DEF RefuseInput, ThrowLimit, CallInvariant, ParserSound, LimitTruthful
  <2>3. outcome' = [kind |-> "limit", error |-> lexer.error]
        /\ Busy = input_length /\ Busy # -1 /\ Busy' = -1
    BY <1>3, <2>1 DEF LimitException
  <2> QED
    BY <2>2, <2>3 DEF AnswersOnce, HonestAnswer
<1>6. CASE FailScanner \/ FailBuffer
  <2>1. PICK released : Return(released, RuntimeException) /\ stage # "idle"
    BY <1>6 DEF FailScanner, FailBuffer
  <2>2. outcome' = [kind |-> "runtime"]
        /\ Busy = input_length /\ Busy # -1 /\ Busy' = -1
    BY <1>3, <2>1 DEF RuntimeException
  <2>3. input_length <= InputBytesLimit
    BY <1>6 DEF CallInvariant, FailScanner, FailBuffer
  <2> QED
    BY <2>2, <2>3 DEF AnswersOnce, HonestAnswer
<1>7. CASE ThrowSyntaxError
  <2>1. Return({"arena"}, SyntaxException) /\ stage = "result"
    BY <1>7 DEF ThrowSyntaxError
  <2>2. HasError(error)
    BY <1>7, <2>1, ReportsNeverMixed DEF ThrowSyntaxError, ErrorsNeverMixed
  <2>3. outcome' = [kind |-> "syntax", error |-> error]
        /\ Busy = input_length /\ Busy # -1 /\ Busy' = -1
    BY <1>3, <2>1, <2>2 DEF SyntaxException
  <2>4. input_length <= InputBytesLimit
    BY <2>1 DEF CallInvariant
  <2>5. TokenCountLimit + 2 < MaxDepth =>
          Promise!IsSyntaxErrorOf(error, input_length)
    BY <2>1, <2>2, SyntaxErrorTruthful
  <2> QED
    BY <2>2, <2>3, <2>4, <2>5 DEF AnswersOnce, HonestAnswer
<1>8. CASE ReturnTree
  <2> DEFINE answer == [kind |-> "tree", tree |-> AstToZval(arena)[root]]
  <2>1. Return({"arena"}, answer) /\ stage = "result"
    BY <1>8 DEF ReturnTree
  <2>2. answer.kind = "tree" /\ answer.tree = AstToZval(arena)[root]
    OBVIOUS
  <2>3. root # NoNode
    BY <1>8 DEF ReturnTree, Failed
  <2>4. Promise!IsTreeOf(AstToZval(arena)[root], input_length)
    BY <2>1, <2>3, TreeTruthful
  <2> HIDE DEF answer
  <2>5. outcome' = answer /\ Busy = input_length /\ Busy # -1 /\ Busy' = -1
    BY <1>3, <2>1
  <2>6. Promise!IsTreeOf(outcome'.tree, Busy) /\ outcome'.kind = "tree"
    BY <2>2, <2>4, <2>5
  <2> QED
    BY <2>5, <2>6 DEF AnswersOnce, HonestAnswer
<1>9. CASE \/ InitParseContext \/ InitScanner \/ ScanBytes \/ RunYyparse
           \/ ReleaseScanner \/ UNCHANGED allVars
  <2>1. outcome' = outcome /\ input_length' = input_length
        /\ (stage = "idle" <=> stage' = "idle")
    BY <1>9 DEF InitParseContext, InitScanner, ScanBytes, RunYyparse,
       ReleaseScanner, allVars, callVars
  <2> QED
    BY <2>1 DEF Busy
<1> QED
  BY <1>4, <1>5, <1>6, <1>7, <1>8, <1>9 DEF CallNext, Proceed

\* Seen from PHP a call is one question and one answer, about this input:
\* a limit was exceeded with this value at this place, a tree has a span of
\* the input, and a syntax error is one the parser recorded.
THEOREM AnswersCorrect == CallSpec => AnswersHonestly
<1>1. CallInvariant /\ [CallNext]_allVars => [AnswersOnce]_<< Busy, outcome >>
  BY StepAnswers
<1> QED
  BY <1>1, CallIsSound, PTL DEF CallSpec, AnswersHonestly

\* A sequence of calls implements the service: atomic calls, each with one
\* truthful outcome.  The token limit must leave the parser's stack room, as
\* 256 does within YYMAXDEPTH, or a full stack would be blamed on syntax.
THEOREM ServiceImplemented ==
  ASSUME TokenCountLimit + 2 < MaxDepth
  PROVE  CallSpec => ImplementsService
<1>1. CallInit => Promise!ServiceInit
  BY DEF CallInit, Promise!ServiceInit, Promise!NoOutcome
<1>2. CallInvariant /\ [CallNext]_allVars =>
        [Promise!ServiceNext]_(Promise!serviceVars)
  <2> SUFFICES ASSUME CallInvariant, [CallNext]_allVars
               PROVE  [Promise!ServiceNext]_(Promise!serviceVars)
    OBVIOUS
  <2>1. CASE UNCHANGED << Busy, outcome >>
    BY <2>1 DEF Busy, Promise!serviceVars
  <2>2. CASE \E length \in InputLengths : Promise!Invoke(length)
    BY <2>2 DEF Promise!ServiceNext
  <2>3. CASE Busy # -1 /\ Busy' = -1 /\ HonestAnswer
    <3>1. Promise!IsOutcomeOf(outcome', Busy)
      BY <2>3 DEF HonestAnswer, Promise!IsOutcomeOf
    <3>2. Promise!Respond
      BY <2>3, <3>1 DEF Busy, Promise!Respond
    <3> QED
      BY <3>2 DEF Promise!ServiceNext
  <2> QED
    BY <2>1, <2>2, <2>3, StepAnswers DEF AnswersOnce
<1> QED
  BY <1>1, <1>2, CallIsSound, PTL DEF CallSpec, ImplementsService,
     Promise!ServiceSpec

===============================================================================
