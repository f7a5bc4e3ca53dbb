------------------------ MODULE YyparseOutcomeProofs ------------------------
(***************************************************************************)
(* Proofs that every way out of a call of yyparse is explained by exactly  *)
(* one report, that the lexer's token limit bounds the parser's stack and  *)
(* its arena, that the lexer's nesting counter agrees with that stack,     *)
(* that a lexeme is copied before the scanner moves past it, that a        *)
(* lookahead which passed the exploratory check is shifted, that a syntax  *)
(* error names the token it refuses and something else, and that shifts    *)
(* and errors are those of the abstract Recognizer.                        *)
(***************************************************************************)
EXTENDS YyparseProofs, YyparseLanguage, NaturalsInduction, WellFoundedInduction

(***************************************************************************)
(* The invariant.  An accepted input has a root because `start' is on the  *)
(* stack only once rule 2 has run; the stack never outgrows the tokens     *)
(* because a token that was counted but not yet shifted has paid for its   *)
(* symbol in advance.                                                      *)
(***************************************************************************)
RootFound ==
  \A i \in 2 .. Len(stack) :
    AccessingSymbol(stack[i].state) = N_start => root # NoNode

RoomLeft == phase = "parsing" => Len(stack) < yystacksize

Unshifted == IF yytoken \in LexemeTokens THEN 1 ELSE 0

ShiftsPaid ==
  phase = "parsing" => Len(stack) + Unshifted <= lexer.token_count + 1

CountWithinLimit == InLimits(lexer) => lexer.token_count <= TokenCountLimit

OutcomeInvariant ==
  /\ OutcomeExplained
  /\ RootFound
  /\ RoomLeft
  /\ ShiftsPaid
  /\ CountWithinLimit
  /\ StackWithinTokens
  /\ StackNeverExhausted

(***************************************************************************)
(* Entering a state with at most one symbol more.                          *)
(***************************************************************************)
LEMMA EnterStateOutcome ==
  ASSUME ParserInvariant, OutcomeInvariant, phase = "parsing",
         NEW newStack \in Seq(Entry),
         Len(newStack) \in 1 .. Len(stack) + 1,
         Len(newStack) <= lexer.token_count + 2,
         EnterState(newStack),
         newStack[Len(newStack)].state = YYFINAL => root' # NoNode,
         lexer' = lexer
  PROVE  /\ OutcomeExplained'
         /\ RoomLeft'
         /\ phase' = "parsing" => newStack[Len(newStack)].state # YYFINAL
         /\ CountWithinLimit'
         /\ StackWithinTokens'
         /\ StackNeverExhausted'
<1> DEFINE len == Len(newStack)
<1>1. /\ TypeOK
      /\ len \in Nat
      /\ Len(stack) \in Nat
      /\ yystacksize \in 1 .. MaxDepth /\ MaxDepth \in Nat
      /\ error \in ParseError
      /\ lexer.token_count \in Nat
  BY DepthAssumption DEF ParserInvariant, TypeOK, LexerContexts
<1>2. /\ ~ HasError(error) /\ InLimits(lexer)
      /\ Len(stack) < yystacksize
      /\ lexer.token_count <= TokenCountLimit
  BY DEF OutcomeInvariant, OutcomeExplained, RoomLeft, CountWithinLimit
<1>3. len <= yystacksize
  BY <1>1, <1>2
<1>4. /\ stack' = newStack
      /\ yystacksize' = GrownSize(newStack)
      /\ phase' = PhaseAfter(newStack)
      /\ error' = IF PhaseAfter(newStack) = "exhausted"
                  THEN SetError(error, yylloc, "memory_exhausted")
                  ELSE error
  BY DEF EnterState
<1>5. CASE len >= yystacksize /\ yystacksize >= MaxDepth
  <2>1. phase' = "exhausted"
    BY <1>4, <1>5 DEF PhaseAfter, IsFull
  <2>2. HasError(error')
    <3>1. yylloc \in Location
      BY <1>1, YyllocType
    <3> QED
      BY <2>1, <3>1, <1>1, <1>4, SetErrorType
  <2>3. OutcomeExplained'
    BY <2>1, <2>2, <1>2 DEF OutcomeExplained
  <2>4. ~ TokenCountLimit + 2 < MaxDepth
    BY <1>1, <1>2, <1>3, <1>5, LimitsAssumption
  <2> QED
    BY <2>1, <2>3, <2>4, <1>2, <1>4
       DEF RoomLeft, CountWithinLimit, StackWithinTokens, StackNeverExhausted
<1>6. CASE ~ (len >= yystacksize /\ yystacksize >= MaxDepth)
  <2>1. GrownSize(newStack) \in Nat /\ len < GrownSize(newStack)
    BY <1>1, <1>3, <1>6 DEF GrownSize, IsFull
  <2>2. phase' = IF newStack[len].state = YYFINAL THEN "accepted" ELSE "parsing"
    BY <2>1, <1>1, <1>4, <1>6 DEF PhaseAfter, IsFull
  <2>3. phase' \in {"parsing", "accepted"} /\ error' = error
    BY <2>2, <1>4
  <2>4. phase' = "accepted" => root' # NoNode
    BY <2>2
  <2>5. OutcomeExplained'
    BY <2>3, <2>4, <1>2 DEF OutcomeExplained
  <2>6. Len(stack') < yystacksize'
    BY <2>1, <1>4
  <2> QED
    BY <2>2, <2>3, <2>5, <2>6, <1>2, <1>4
       DEF RoomLeft, CountWithinLimit, StackWithinTokens, StackNeverExhausted
<1> QED
  BY <1>5, <1>6

(***************************************************************************)
(* The steps.                                                              *)
(***************************************************************************)
LEMMA InitOutcome ==
  ASSUME Init
  PROVE  OutcomeInvariant
<1>1. /\ Len(stack) = 1
      /\ lexer.token_count = 0
      /\ lexer.error.category = "none"
      /\ error.message = "none"
      /\ phase = "parsing"
      /\ yytoken \notin LexemeTokens
      /\ yystacksize \in Nat /\ yystacksize > 1
  BY DepthAssumption DEF Init, EmptyContext, NoLimit, Exceeded, NoError,
     LexemeTokens, T_INTEGER, T_INVALID_NUMBER, YYEMPTY
<1> QED
  BY <1>1, LimitsAssumption
     DEF OutcomeInvariant, OutcomeExplained, RootFound, RoomLeft, ShiftsPaid,
         Unshifted, CountWithinLimit, StackWithinTokens, StackNeverExhausted,
         HasError, InLimits

\* A token counted by the lexer, refused or not, pays for one symbol more.
LEMMA ReadTokenOutcome ==
  ASSUME ParserInvariant, OutcomeInvariant, NEW type \in TokenKinds,
         NEW loc \in TokenLocations(type),
         \/ \E negative \in LexemeSigns(type) : ReadToken(type, loc, negative)
         \/ ReadOverLimit(type, loc)
  PROVE  OutcomeInvariant'
<1>1. /\ TypeOK /\ loc \in Location /\ Len(stack) \in Nat
      /\ lexer.token_count \in Nat
  BY TokenLocationType DEF ParserInvariant, TypeOK, LexerContexts
<1>2. /\ phase = "parsing" /\ yytoken = YYEMPTY
      /\ UNCHANGED << stack, yystacksize, root, error >>
      /\ lexer' = ScannedContext(type, loc)
  BY DEF ReadToken, ReadOverLimit, NeedsToken
<1>3. /\ lexer'.token_count = lexer.token_count + 1
      /\ InLimits(lexer') => lexer.token_count + 1 <= TokenCountLimit
  BY <1>1, <1>2, ScannedContextType
<1>4. Unshifted = 0 /\ Unshifted' \in {0, 1}
  BY <1>2 DEF Unshifted, LexemeTokens, T_INTEGER, T_INVALID_NUMBER, YYEMPTY
<1>5. /\ ~ HasError(error) /\ Len(stack) <= lexer.token_count + 1
      /\ Len(stack) < yystacksize
  BY <1>1, <1>2, <1>4
     DEF OutcomeInvariant, OutcomeExplained, ShiftsPaid, RoomLeft
<1>6. \/ phase' = "parsing" /\ InLimits(lexer')
      \/ phase' = "recovering" /\ ~ InLimits(lexer')
  BY <1>2 DEF ReadToken, ReadOverLimit, PhaseOverLimit
<1>7. OutcomeExplained'
  BY <1>2, <1>5, <1>6 DEF OutcomeExplained, InLimits
<1>8. RootFound' /\ RoomLeft'
  BY <1>2, <1>5 DEF OutcomeInvariant, RootFound, RoomLeft
<1>9. CountWithinLimit'
  BY <1>3 DEF CountWithinLimit, InLimits
<1>10. ShiftsPaid' /\ StackWithinTokens'
  BY <1>1, <1>2, <1>3, <1>4, <1>5 DEF ShiftsPaid, StackWithinTokens
<1>11. StackNeverExhausted'
  BY <1>2, <1>5, <1>6 DEF StackNeverExhausted
<1> QED
  BY <1>7, <1>8, <1>9, <1>10, <1>11 DEF OutcomeInvariant

LEMMA ReadEndOutcome ==
  ASSUME ParserInvariant, OutcomeInvariant, NEW loc \in EndLocations,
         ReadEnd(loc)
  PROVE  OutcomeInvariant'
<1>1. /\ lexer'.token_count = lexer.token_count
      /\ lexer'.error = lexer.error
  BY DEF ParserInvariant, TypeOK, LexerContexts, ReadEnd
<1>2. Unshifted = 0 /\ Unshifted' = 0
  BY DEF Unshifted, LexemeTokens, T_INTEGER, T_INVALID_NUMBER, YYEMPTY,
         YYEOF, ReadEnd, NeedsToken
<1> QED
  BY <1>1, <1>2 DEF ReadEnd, OutcomeInvariant, OutcomeExplained, RootFound,
     RoomLeft, ShiftsPaid, CountWithinLimit, StackWithinTokens,
     StackNeverExhausted, InLimits

LEMMA ReduceOutcome ==
  ASSUME ParserInvariant, OutcomeInvariant, phase = "parsing",
         yystate \in ReducingStates, Reduce(DefaultReduction(yystate)),
         UNCHANGED << yytoken, lexer, tokens >>
  PROVE  OutcomeInvariant'
<1> DEFINE r == DefaultReduction(yystate)
<1>1. /\ TypeOK /\ StackIsPath
      /\ stack \in Seq(Entry) /\ stack # << >> /\ Len(stack) \in Nat
      /\ lexer.token_count \in Nat
      /\ root \in Nat
  BY DEF ParserInvariant, TypeOK, LexerContexts
<1>2. r \in Rules /\ RuleLhs(r) \in Nonterminals
  BY ReducingRule
<1>3. PICK entry \in Entry, newStack \in Seq(Entry),
           below \in 1 .. Len(stack) - 1 :
        /\ below = Len(stack) - RuleLength(r)
        /\ Len(newStack) = below + 1
        /\ \A i \in 1 .. below : newStack[i] = stack[i]
        /\ newStack[below + 1] = entry
        /\ EnterState(newStack)
        /\ entry.state = StateAfter(r)
  BY ReduceReplacesHandle
<1>4. AccessingSymbol(entry.state) = RuleLhs(r)
  BY <1>1, <1>3, HandleOnStack
<1>5. entry.state # YYFINAL
  <2>1. AccessingSymbol(YYFINAL) = YYEOF
    BY TablesAreConsistent DEF LrConsistent, FinalStateIsAcceptance
  <2>2. YYEOF \notin Nonterminals
    BY DEF Nonterminals, YYEOF, YYNTOKENS, N_identifier
  <2> QED
    BY <2>1, <2>2, <1>2, <1>4
<1>6. /\ Len(newStack) \in 1 .. Len(stack)
      /\ newStack[Len(newStack)] = entry
      /\ Len(newStack) <= lexer.token_count + 2
      /\ stack' = newStack
  BY <1>1, <1>3 DEF OutcomeInvariant, StackWithinTokens, EnterState
<1>7. /\ OutcomeExplained' /\ RoomLeft' /\ CountWithinLimit'
      /\ StackWithinTokens' /\ StackNeverExhausted'
  BY <1>1, <1>3, <1>5, <1>6, EnterStateOutcome
<1>8. ShiftsPaid'
  BY <1>1, <1>6 DEF OutcomeInvariant, ShiftsPaid, Unshifted
<1>9. RootFound'
  <2>1. root' = IF r = 2 THEN Handle(r)[1].node ELSE root
    BY DEF Reduce, Handle
  <2>2. CASE r = 2
    <3>1. Handle(r)[1].node \in 1 .. Len(arena)
      BY <2>2, RootOfHandle
    <3> HIDE DEF r
    <3>2. root' # NoNode
      BY <2>1, <2>2, <3>1 DEF NoNode
    <3> QED
      BY <3>2 DEF RootFound
  <2>3. CASE r # 2
    <3>1. RuleLhs(r) # N_start
      BY <2>3, <1>2, TablesAreConsistent DEF LrConsistent, FinalStateIsAcceptance
    <3>2. root' = root
      BY <2>1, <2>3
    <3>3. ASSUME NEW i \in 2 .. Len(stack'),
                 AccessingSymbol(stack'[i].state) = N_start
          PROVE  root # NoNode
      <4>1. i # below + 1
        BY <3>1, <3>3, <1>3, <1>4, <1>6
      <4>2. i \in 1 .. below /\ i \in 2 .. Len(stack)
        BY <4>1, <1>1, <1>3, <1>6
      <4> QED
        BY <3>3, <4>2, <1>3, <1>6 DEF OutcomeInvariant, RootFound
    <3> QED
      BY <3>2, <3>3 DEF RootFound
  <2> QED
    BY <2>2, <2>3
<1> QED
  BY <1>7, <1>8, <1>9 DEF OutcomeInvariant

\* A shift pushes the symbol its token has paid for; only the end of the
\* input pushes an unpaid one, and it is the last.
LEMMA ShiftOutcome ==
  ASSUME ParserInvariant, OutcomeInvariant, Shift
  PROVE  OutcomeInvariant'
<1> DEFINE target == TableAction(yystate, yytoken)
           entry == [state |-> target, node |-> NoNode,
                     token |-> Len(tokens), location |-> yylloc]
           newStack == Append(stack, entry)
<1>1. /\ TypeOK /\ StackIsPath
      /\ stack \in Seq(Entry) /\ stack # << >>
      /\ Len(stack) \in Nat /\ Len(stack) \in 1 .. Len(stack)
      /\ lexer.token_count \in Nat /\ Len(tokens) \in Nat
      /\ phase = "parsing"
      /\ yytoken \in Terminals
  BY DEF ParserInvariant, TypeOK, LexerContexts, Shift
<1>2. yystate \in States /\ yystate = stack[Len(stack)].state
  BY <1>1, YystateType
<1>3. /\ IsEdge(yystate, target) /\ target \in States
      /\ AccessingSymbol(target) = yytoken /\ target # 0
  BY <1>1, <1>2, ShiftTarget, EdgeStates DEF Shift
<1>4. entry \in Entry /\ entry.state = target
  <2>1. yylloc \in Location
    BY <1>1, YyllocType
  <2> HIDE DEF target
  <2> QED
    BY <1>1, <1>3, <2>1 DEF Entry, NoNode
<1>5. /\ EnterState(newStack)
      /\ root' = root /\ lexer' = lexer /\ yytoken' = YYEMPTY
  BY DEF Shift
<1> HIDE DEF entry
<1>6. /\ newStack \in Seq(Entry)
      /\ Len(newStack) = Len(stack) + 1
      /\ \A i \in 1 .. Len(stack) : newStack[i] = stack[i]
      /\ newStack[Len(stack) + 1] = entry
  BY <1>1, <1>4, AppendProperties
<1> HIDE DEF newStack, target
<1>7. target = YYFINAL => root # NoNode
  <2> SUFFICES ASSUME target = YYFINAL
               PROVE  root # NoNode
    OBVIOUS
  <2>1. AccessingSymbol(yystate) = N_start
    BY <1>2, <1>3, TablesAreConsistent DEF LrConsistent, FinalStateIsAcceptance
  <2>2. AccessingSymbol(0) # N_start
    BY DEF AccessingSymbol, yystos, N_start
  <2>3. Len(stack) \in 2 .. Len(stack)
    BY <2>1, <2>2, <1>1, <1>2 DEF StackIsPath
  <2> QED
    BY <2>1, <2>3, <1>2 DEF OutcomeInvariant, RootFound
<1>8. yytoken \in LexemeTokens \/ target = YYFINAL
  <2>1. yytoken \notin {YYerror, YYUNDEF, T_SKIP}
    BY <1>2, TablesAreConsistent DEF LrConsistent, NoErrorProductions, Shift
  <2>2. yytoken = YYEOF => target = YYFINAL
    BY <1>3, TablesAreConsistent DEF LrConsistent, FinalStateIsAcceptance
  <2> QED
    BY <2>1, <2>2, <1>1 DEF Terminals, YYNTOKENS, LexemeTokens, T_INTEGER,
       T_INVALID_NUMBER, T_SKIP, YYEOF, YYerror, YYUNDEF
<1>9. /\ Unshifted \in {0, 1} /\ Unshifted' = 0
      /\ yytoken \in LexemeTokens => Unshifted = 1
      /\ Len(stack) + Unshifted <= lexer.token_count + 1
  BY <1>1, <1>5 DEF OutcomeInvariant, ShiftsPaid, Unshifted, LexemeTokens,
     T_INTEGER, T_INVALID_NUMBER, YYEMPTY
<1>10. /\ OutcomeExplained' /\ RoomLeft' /\ CountWithinLimit'
       /\ StackWithinTokens' /\ StackNeverExhausted'
       /\ phase' = "parsing" => newStack[Len(newStack)].state # YYFINAL
  <2>1. /\ Len(newStack) \in 1 .. Len(stack) + 1
        /\ Len(newStack) <= lexer.token_count + 2
        /\ newStack[Len(newStack)].state = YYFINAL => root' # NoNode
    BY <1>1, <1>4, <1>5, <1>6, <1>7, <1>9
  <2> QED
    BY <2>1, <1>1, <1>5, <1>6, EnterStateOutcome
<1>11. stack' = newStack
  BY <1>5 DEF EnterState
<1>12. ShiftsPaid'
  <2> SUFFICES ASSUME phase' = "parsing"
               PROVE  Len(stack') + Unshifted' <= lexer'.token_count + 1
    BY DEF ShiftsPaid
  <2>1. yytoken \in LexemeTokens
    BY <1>4, <1>6, <1>8, <1>10
  <2> QED
    BY <2>1, <1>1, <1>5, <1>6, <1>9, <1>11
<1>13. RootFound'
  <2> SUFFICES ASSUME NEW i \in 2 .. Len(stack'),
                      AccessingSymbol(stack'[i].state) = N_start
               PROVE  root' # NoNode
    BY DEF RootFound
  <2>1. yytoken # N_start
    BY <1>1 DEF Terminals, YYNTOKENS, N_start
  <2>2. i # Len(stack) + 1
    BY <2>1, <1>3, <1>4, <1>6, <1>11
  <2>3. i \in 1 .. Len(stack) /\ i \in 2 .. Len(stack)
    BY <2>2, <1>1, <1>6, <1>11
  <2> QED
    BY <2>3, <1>5, <1>6, <1>11 DEF OutcomeInvariant, RootFound
<1> QED
  BY <1>10, <1>12, <1>13 DEF OutcomeInvariant

LEMMA SyntaxErrorOutcome ==
  ASSUME OutcomeInvariant, SyntaxError
  PROVE  OutcomeInvariant'
<1>1. /\ phase = "parsing" /\ phase' = "recovering"
      /\ UNCHANGED << stack, yystacksize, yytoken, lexer, root >>
  BY DEF SyntaxError, NoTableAction
<1>2. ~ HasError(error) /\ InLimits(lexer) /\ Len(stack) < yystacksize
  BY <1>1 DEF OutcomeInvariant, OutcomeExplained, RoomLeft
<1>3. HasError(error')
  <2>1. error'.message = "syntax_error"
    BY <1>2 DEF SyntaxError, SetSyntaxError
  <2> QED
    BY <2>1 DEF HasError
<1>4. OutcomeExplained'
  BY <1>1, <1>2, <1>3 DEF OutcomeExplained, InLimits
<1> QED
  BY <1>1, <1>2, <1>4 DEF OutcomeInvariant, RootFound, RoomLeft, ShiftsPaid,
     CountWithinLimit, StackWithinTokens, StackNeverExhausted, InLimits

LEMMA UnwindOutcome ==
  ASSUME ParserInvariant, OutcomeInvariant, Unwind
  PROVE  OutcomeInvariant'
<1>1. /\ phase = "recovering"
      /\ UNCHANGED << yystacksize, yytoken, phase, lexer, root, error >>
      /\ lexer.token_count \in Nat /\ yystacksize \in Nat
      /\ Len(stack) \in Nat
  BY DEF Unwind, ParserInvariant, TypeOK, LexerContexts
<1>2. /\ Len(stack') = Len(stack) - 1
      /\ \A i \in 1 .. Len(stack') : stack'[i] = stack[i]
  BY UnwindPops
<1>3. RootFound'
  BY <1>1, <1>2 DEF OutcomeInvariant, RootFound
<1>4. /\ RoomLeft' /\ ShiftsPaid' /\ StackWithinTokens' /\ StackNeverExhausted'
  BY <1>1, <1>2 DEF OutcomeInvariant, RoomLeft, ShiftsPaid, StackWithinTokens,
     StackNeverExhausted
<1> QED
  BY <1>1, <1>3, <1>4 DEF OutcomeInvariant, OutcomeExplained, CountWithinLimit,
     InLimits

LEMMA AbortOutcome ==
  ASSUME OutcomeInvariant, Abort
  PROVE  OutcomeInvariant'
  BY DEF Abort, OutcomeInvariant, OutcomeExplained, RootFound, RoomLeft,
     ShiftsPaid, CountWithinLimit, StackWithinTokens, StackNeverExhausted, InLimits

LEMMA NextOutcome ==
  ASSUME ParserInvariant, OutcomeInvariant, [Next]_vars
  PROVE  OutcomeInvariant'
<1>1. CASE UNCHANGED vars
  BY <1>1 DEF vars, OutcomeInvariant, OutcomeExplained, RootFound, RoomLeft,
     ShiftsPaid, Unshifted, CountWithinLimit, StackWithinTokens,
     StackNeverExhausted, InLimits
<1>2. CASE Yylex
  BY <1>2, ReadTokenOutcome, ReadEndOutcome DEF Yylex
<1>3. CASE ReduceWithoutToken
  BY <1>3, ReductionStates, ReduceOutcome DEF ReduceWithoutToken
<1>4. CASE ReduceOnToken
  BY <1>4, ReductionStates, ReduceOutcome DEF ReduceOnToken, NoTableAction
<1>5. CASE Step
  BY <1>2, <1>3, <1>4, <1>5, ShiftOutcome, SyntaxErrorOutcome, UnwindOutcome,
     AbortOutcome DEF Step
<1> QED
  BY <1>1, <1>5 DEF Next, Stopped

(***************************************************************************)
(* The theorems about the outcome and the stack.                           *)
(***************************************************************************)
LEMMA OutcomeIsSafe == Spec => []OutcomeInvariant
<1>1. Init => OutcomeInvariant
  BY InitOutcome
<1>2. ParserInvariant /\ OutcomeInvariant /\ [Next]_vars => OutcomeInvariant'
  BY NextOutcome
<1> QED
  BY <1>1, <1>2, ParserIsSafe, PTL DEF Spec

\* Whatever the input and the limits: an accepted input has a tree and no
\* error, and a refused one either a message or an exceeded limit, never
\* both and never neither.
THEOREM OutcomeCorrect == Spec => []OutcomeExplained
<1>1. OutcomeInvariant => OutcomeExplained
  BY DEF OutcomeInvariant
<1> QED
  BY <1>1, OutcomeIsSafe, PTL

\* The parser's stack never holds more symbols than tokens were counted,
\* besides its bottom and the end of the input.
THEOREM StackBounded == Spec => []StackWithinTokens
<1>1. OutcomeInvariant => StackWithinTokens
  BY DEF OutcomeInvariant
<1> QED
  BY <1>1, OutcomeIsSafe, PTL

\* The token limit of 256 lies below YYMAXDEPTH, so yyparse cannot run out
\* of stack: this holds of any two limits so ordered.
THEOREM NeverExhausted == Spec => []StackNeverExhausted
<1>1. OutcomeInvariant => StackNeverExhausted
  BY DEF OutcomeInvariant
<1> QED
  BY <1>1, OutcomeIsSafe, PTL

(***************************************************************************)
(* Counting the symbols of some kinds on the stack.                        *)
(***************************************************************************)
CountIn(list, n, kinds) ==
  Cardinality({ i \in 1 .. n : AccessingSymbol(list[i].state) \in kinds })

IsOf(symbol, kinds) == IF symbol \in kinds THEN 1 ELSE 0

LEMMA CountNext ==
  ASSUME NEW list, NEW n \in Nat, NEW kinds
  PROVE  /\ CountIn(list, n, kinds) \in Nat
         /\ CountIn(list, n + 1, kinds)
              = CountIn(list, n, kinds)
                  + IsOf(AccessingSymbol(list[n + 1].state), kinds)
<1> DEFINE Of(m) == { i \in 1 .. m : AccessingSymbol(list[i].state) \in kinds }
<1>1. IsFiniteSet(Of(n)) /\ Cardinality(Of(n)) \in Nat
  <2>1. IsFiniteSet(1 .. n)
    BY FS_Interval
  <2>2. Of(n) \subseteq 1 .. n
    OBVIOUS
  <2>3. IsFiniteSet(Of(n))
    BY <2>1, <2>2, FS_Subset
  <2> QED
    BY <2>3, FS_CardinalityType
<1>2. n + 1 \notin Of(n)
  OBVIOUS
<1>3. CASE AccessingSymbol(list[n + 1].state) \in kinds
  <2>1. Of(n + 1) = Of(n) \cup {n + 1}
    BY <1>3
  <2>2. Cardinality(Of(n + 1)) = Cardinality(Of(n)) + 1
    BY <1>1, <1>2, <2>1, FS_AddElement
  <2> QED
    BY <1>1, <1>3, <2>2 DEF CountIn, IsOf
<1>4. CASE AccessingSymbol(list[n + 1].state) \notin kinds
  <2>1. Of(n + 1) = Of(n)
    BY <1>4
  <2> HIDE DEF Of
  <2>2. Cardinality(Of(n + 1)) = Cardinality(Of(n)) + 0
    BY <1>1, <2>1
  <2> QED
    BY <1>1, <1>4, <2>2 DEF CountIn, IsOf, Of
<1> QED
  BY <1>3, <1>4

LEMMA CountSame ==
  ASSUME NEW list, NEW other, NEW n \in Nat, NEW kinds,
         \A i \in 1 .. n : other[i] = list[i]
  PROVE  CountIn(other, n, kinds) = CountIn(list, n, kinds)
<1>1. { i \in 1 .. n : AccessingSymbol(other[i].state) \in kinds }
        = { i \in 1 .. n : AccessingSymbol(list[i].state) \in kinds }
  OBVIOUS
<1> QED
  BY <1>1 DEF CountIn

LEMMA CountPositive ==
  ASSUME NEW list, NEW n \in Nat, NEW kinds, NEW i \in 1 .. n,
         AccessingSymbol(list[i].state) \in kinds
  PROVE  CountIn(list, n, kinds) > 0
<1> DEFINE found == { j \in 1 .. n : AccessingSymbol(list[j].state) \in kinds }
<1>1. IsFiniteSet(found)
  <2>1. IsFiniteSet(1 .. n) /\ found \subseteq 1 .. n
    BY FS_Interval
  <2> QED
    BY <2>1, FS_Subset
<1>2. found # {}
  OBVIOUS
<1>3. Cardinality(found) # 0 /\ Cardinality(found) \in Nat
  BY <1>1, <1>2, FS_EmptySet, FS_CardinalityType
<1> QED
  BY <1>3 DEF CountIn

LEMMA CountNone ==
  ASSUME NEW list, NEW n \in Nat, NEW kinds,
         \A i \in 1 .. n : AccessingSymbol(list[i].state) \notin kinds
  PROVE  CountIn(list, n, kinds) = 0
<1>1. { i \in 1 .. n : AccessingSymbol(list[i].state) \in kinds } = {}
  OBVIOUS
<1> QED
  BY <1>1, FS_EmptySet DEF CountIn

OnAll(kinds) == CountIn(stack, Len(stack), kinds)

LEMMA OnStackCounts ==
  ASSUME NEW type
  PROVE  OnStack(type) = OnAll({type})
<1>1. { i \in 1 .. Len(stack) : AccessingSymbol(stack[i].state) = type }
        = { i \in 1 .. Len(stack) : AccessingSymbol(stack[i].state) \in {type} }
  OBVIOUS
<1> QED
  BY <1>1 DEF OnStack, OnAll, CountIn

\* A handle has the symbols of its rule.
LEMMA HandleCounted ==
  ASSUME ParserInvariant, yystate \in ReducingStates,
         NEW r, r = DefaultReduction(yystate), NEW kinds
  PROVE  OnAll(kinds) = CountIn(stack, Len(stack) - RuleLength(r), kinds)
                          + SymbolsIn(r, kinds)
<1> DEFINE len == Len(stack)
           below == len - RuleLength(r)
           Kind(i) == AccessingSymbol(stack[i].state)
           C(n) == CountIn(stack, n, kinds)
<1>1. /\ len \in Nat /\ RuleLength(r) \in 1 .. 3
      /\ below \in 1 .. len - 1
      /\ \A k \in 1 .. RuleLength(r) : Kind(below + k) = RuleRhs[r][k]
  BY HandleOnStack, ReducingRule DEF ParserInvariant, TypeOK
<1>2. below \in Nat
  BY <1>1
<1>3. \A n \in Nat : C(n) \in Nat /\ C(n + 1) = C(n) + IsOf(Kind(n + 1), kinds)
  BY CountNext
<1>4. \A k \in 1 .. 3 : k <= RuleLength(r) =>
        IsOf(Kind(below + k), kinds)
          = IF k <= RuleLength(r) /\ RuleRhs[r][k] \in kinds THEN 1 ELSE 0
  BY <1>1 DEF IsOf
<1>5. /\ IsOf(Kind(below + 1), kinds) \in {0, 1}
      /\ IsOf(Kind(below + 2), kinds) \in {0, 1}
      /\ IsOf(Kind(below + 3), kinds) \in {0, 1}
  BY DEF IsOf
<1> HIDE DEF C, Kind, below
<1>6. /\ C(below) \in Nat
      /\ C(below + 1) = C(below) + IsOf(Kind(below + 1), kinds)
      /\ C(below + 2) = C(below + 1) + IsOf(Kind(below + 2), kinds)
      /\ C(below + 3) = C(below + 2) + IsOf(Kind(below + 3), kinds)
  <2>1. below + 1 \in Nat /\ below + 2 \in Nat
        /\ (below + 1) + 1 = below + 2 /\ (below + 2) + 1 = below + 3
    BY <1>2
  <2> QED
    BY <1>2, <1>3, <2>1
<1>7. C(len) = C(below) + SymbolsIn(r, kinds)
  <2>1. CASE RuleLength(r) = 1
    <3>1. len = below + 1
      BY <1>1, <2>1 DEF below
    <3>2. SymbolsIn(r, kinds) = IsOf(Kind(below + 1), kinds)
      BY <1>4, <1>5, <2>1 DEF SymbolsIn
    <3> QED
      BY <1>6, <3>1, <3>2
  <2>2. CASE RuleLength(r) = 2
    <3>1. len = below + 2
      BY <1>1, <2>2 DEF below
    <3>2. SymbolsIn(r, kinds)
            = IsOf(Kind(below + 1), kinds) + IsOf(Kind(below + 2), kinds)
      BY <1>4, <1>5, <2>2 DEF SymbolsIn
    <3> QED
      BY <1>5, <1>6, <3>1, <3>2
  <2>3. CASE RuleLength(r) = 3
    <3>1. len = below + 3
      BY <1>1, <2>3 DEF below
    <3>2. SymbolsIn(r, kinds)
            = IsOf(Kind(below + 1), kinds) + IsOf(Kind(below + 2), kinds)
                + IsOf(Kind(below + 3), kinds)
      BY <1>4, <1>5, <2>3 DEF SymbolsIn
    <3> QED
      BY <1>5, <1>6, <3>1, <3>2
  <2> QED
    BY <1>1, <2>1, <2>2, <2>3
<1> QED
  BY <1>7 DEF OnAll, C, below

\* A reduction takes the tokens of its rule from the stack and adds none.
LEMMA ReduceCounts ==
  ASSUME ParserInvariant, yystate \in ReducingStates,
         NEW r, r = DefaultReduction(yystate), Reduce(r),
         NEW kinds \in SUBSET Terminals
  PROVE  /\ Len(stack') = Len(stack) - RuleLength(r) + 1
         /\ OnAll(kinds)' + SymbolsIn(r, kinds) = OnAll(kinds)
         /\ SymbolsIn(r, kinds) \in Nat
         /\ AccessingSymbol(yystate') \in Nonterminals
<1>1. /\ StackIsPath /\ stack \in Seq(Entry) /\ stack # << >>
      /\ r \in Rules /\ RuleLhs(r) \in Nonterminals /\ RuleLength(r) \in 1 .. 3
  BY ReducingRule DEF ParserInvariant, TypeOK
<1>2. PICK entry \in Entry, newStack \in Seq(Entry),
           below \in 1 .. Len(stack) - 1 :
        /\ below = Len(stack) - RuleLength(r)
        /\ Len(newStack) = below + 1
        /\ \A i \in 1 .. below : newStack[i] = stack[i]
        /\ newStack[below + 1] = entry
        /\ EnterState(newStack)
        /\ entry.state = StateAfter(r)
  BY ReduceReplacesHandle
<1>3. stack' = newStack
  BY <1>2 DEF EnterState
<1>4. AccessingSymbol(entry.state) \in Nonterminals
  BY <1>1, <1>2, HandleOnStack
<1>5. below \in Nat
  BY <1>1, <1>2
<1>6. AccessingSymbol(entry.state) \notin kinds
  BY <1>4 DEF Terminals, Nonterminals, YYNTOKENS, N_identifier
<1>7. /\ CountIn(newStack, below, kinds) = CountIn(stack, below, kinds)
      /\ CountIn(newStack, below, kinds) \in Nat
      /\ CountIn(newStack, below + 1, kinds)
           = CountIn(newStack, below, kinds) + IsOf(AccessingSymbol(entry.state), kinds)
  <2>1. CountIn(newStack, below, kinds) = CountIn(stack, below, kinds)
    BY <1>2, <1>5, CountSame
  <2>2. /\ CountIn(newStack, below, kinds) \in Nat
        /\ CountIn(newStack, below + 1, kinds)
             = CountIn(newStack, below, kinds)
                 + IsOf(AccessingSymbol(newStack[below + 1].state), kinds)
    BY <1>5, CountNext
  <2> QED
    BY <2>1, <2>2, <1>2
<1>8. OnAll(kinds)' = CountIn(stack, below, kinds)
  BY <1>2, <1>3, <1>6, <1>7 DEF OnAll, IsOf
<1>9. SymbolsIn(r, kinds) \in Nat
  BY DEF SymbolsIn
<1>10. OnAll(kinds) = CountIn(stack, below, kinds) + SymbolsIn(r, kinds)
  BY <1>2, HandleCounted
<1>11. yystate' = entry.state
  BY <1>2, <1>3 DEF yystate, Top
<1> QED
  BY <1>1, <1>2, <1>3, <1>4, <1>7, <1>8, <1>9, <1>10, <1>11

LEMMA ShiftCounts ==
  ASSUME ParserInvariant, Shift, NEW kinds
  PROVE  /\ Len(stack') = Len(stack) + 1
         /\ OnAll(kinds)' = OnAll(kinds) + IsOf(yytoken, kinds)
         /\ AccessingSymbol(yystate') = yytoken
         /\ yystate' = TableAction(yystate, yytoken)
         /\ Top'.token = Len(tokens)
<1> DEFINE target == TableAction(yystate, yytoken)
           entry == [state |-> target, node |-> NoNode,
                     token |-> Len(tokens), location |-> yylloc]
<1>1. /\ stack \in Seq(Entry) /\ Len(stack) \in Nat
      /\ yytoken \in Terminals /\ yystate \in States
  BY YystateType DEF ParserInvariant, TypeOK, Shift
<1>2. AccessingSymbol(target) = yytoken
  BY <1>1, ShiftTarget DEF Shift
<1>3. stack' = Append(stack, entry)
  BY DEF Shift, EnterState
<1>4. entry.state = target /\ entry.token = Len(tokens)
  OBVIOUS
<1> HIDE DEF entry, target
<1>5. /\ Len(stack') = Len(stack) + 1
      /\ \A i \in 1 .. Len(stack) : stack'[i] = stack[i]
      /\ stack'[Len(stack) + 1] = entry
  BY <1>1, <1>3, SMT
<1>6. /\ CountIn(stack', Len(stack), kinds) = CountIn(stack, Len(stack), kinds)
      /\ CountIn(stack', Len(stack) + 1, kinds)
           = CountIn(stack', Len(stack), kinds)
               + IsOf(AccessingSymbol(entry.state), kinds)
  <2>1. CountIn(stack', Len(stack), kinds) = CountIn(stack, Len(stack), kinds)
    BY <1>1, <1>5, CountSame
  <2>2. CountIn(stack', Len(stack) + 1, kinds)
          = CountIn(stack', Len(stack), kinds)
              + IsOf(AccessingSymbol(stack'[Len(stack) + 1].state), kinds)
    BY <1>1, CountNext
  <2> QED
    BY <2>1, <2>2, <1>5
<1>7. yystate' = target /\ Top' = entry
  BY <1>4, <1>5 DEF yystate, Top
<1> QED
  BY <1>2, <1>4, <1>5, <1>6, <1>7 DEF OnAll, target

(***************************************************************************)
(* What the makers allocate, and the lexemes they copy: `token' is the one *)
(* token whose lexeme an action may use.                                   *)
(***************************************************************************)
Copies(nodes, new, token) ==
  \A id \in 1 .. Len(new) :
    new[id].kind \in LeafKinds /\ new[id].token # 0 =>
      \/ new[id].token = token
      \/ \E old \in 1 .. Len(nodes) : nodes[old].token = new[id].token

Frugal(nodes, new, most, token) ==
  Len(new) <= Len(nodes) + most /\ Copies(nodes, new, token)

LEMMA FrugalAppend ==
  ASSUME NEW nodes \in Seq(Node), NEW new \in Seq(Node), NEW most \in Nat,
         NEW token, Frugal(nodes, new, most, token), NEW node \in Node,
         node.kind \in LeafKinds /\ node.token # 0 =>
           \/ node.token = token
           \/ \E old \in 1 .. Len(nodes) : nodes[old].token = node.token
  PROVE  /\ Append(new, node) \in Seq(Node)
         /\ Frugal(nodes, Append(new, node), most + 1, token)
<1>1. /\ Append(new, node) \in Seq(Node)
      /\ Len(Append(new, node)) = Len(new) + 1
      /\ \A id \in 1 .. Len(new) : Append(new, node)[id] = new[id]
      /\ Append(new, node)[Len(new) + 1] = node
      /\ Len(new) \in Nat /\ Len(nodes) \in Nat
  BY AppendProperties
<1>2. \A id \in 1 .. Len(new) + 1 : id \in 1 .. Len(new) \/ id = Len(new) + 1
  BY <1>1
<1> QED
  BY <1>1, <1>2 DEF Frugal, Copies

LEMMA FrugalReflexive ==
  ASSUME NEW nodes \in Seq(Node), NEW token
  PROVE  Frugal(nodes, nodes, 0, token)
BY DEF Frugal, Copies

LEMMA MakeLeafFrugal ==
  ASSUME NEW nodes \in Seq(Node), NEW kind \in LeafKinds, NEW token \in Nat,
         NEW negative \in BOOLEAN, NEW loc \in Location, NEW current,
         \/ token = current
         \/ token = 0
         \/ \E old \in 1 .. Len(nodes) : nodes[old].token = token
  PROVE  Frugal(nodes, MakeLeaf(nodes, kind, token, negative, loc).arena, 1, current)
<1> DEFINE node == LeafNode(kind, token, negative, loc)
<1>1. node \in Node /\ node.token = token
  BY LeafNodeType DEF LeafNode
<1> HIDE DEF node
<1>2. Frugal(nodes, Append(nodes, node), 0 + 1, current)
  BY <1>1, FrugalReflexive, FrugalAppend
<1> QED
  BY <1>2 DEF MakeLeaf, Made, node

LEMMA MakeBinaryFrugal ==
  ASSUME NEW nodes \in Seq(Node), NEW new \in Seq(Node), NEW most \in Nat,
         NEW current, Frugal(nodes, new, most, current),
         NEW kind \in BinaryKinds, NEW left \in Nat, NEW right \in Nat,
         NEW loc \in Location
  PROVE  Frugal(nodes, MakeBinary(new, kind, left, right, loc).arena, most + 1,
                current)
<1> DEFINE node == BinaryNode(kind, left, right, loc)
<1>1. node \in Node /\ node.kind \notin LeafKinds
  BY BinaryNodeType
<1> HIDE DEF node
<1>2. Frugal(nodes, Append(new, node), most + 1, current)
  BY <1>1, FrugalAppend
<1> QED
  BY <1>2 DEF MakeBinary, Made, node

LEMMA MakeNegationFrugal ==
  ASSUME NEW nodes \in Seq(Node), NEW node \in 1 .. Len(nodes),
         NEW loc \in Location, NEW current
  PROVE  Frugal(nodes, MakeNegation(nodes, node, loc).arena, 2, current)
<1>1. nodes[node] \in Node
  OBVIOUS
<1>2. CASE nodes[node].kind \in NumeralKinds
  <2>1. /\ nodes[node].kind \in LeafKinds
        /\ nodes[node].token \in Nat
        /\ NegatedSign(nodes[node].negative) \in BOOLEAN
    BY <1>1, <1>2 DEF Node, NumeralKinds, LeafKinds, NegatedSign
  <2>2. Frugal(nodes, MakeNegation(nodes, node, loc).arena, 1, current)
    BY <1>2, <2>1, MakeLeafFrugal DEF MakeNegation
  <2> QED
    BY <2>2 DEF Frugal
<1>3. CASE nodes[node].kind \notin NumeralKinds
  <2>1. MinusOne \in Node /\ MinusOne.token = 0
    BY DEF MinusOne, LeafNode, Node, LeafKinds, Location, NoLocation, NoNode
  <2> DEFINE new == Append(nodes, MinusOne)
  <2>2. new \in Seq(Node) /\ Frugal(nodes, new, 0 + 1, current)
    BY <2>1, FrugalReflexive, FrugalAppend
  <2>3. "mul" \in BinaryKinds /\ NegationFactor(nodes) \in Nat /\ node \in Nat
    BY DEF BinaryKinds, NegationFactor
  <2> HIDE DEF new
  <2>4. Frugal(nodes, MakeBinary(new, "mul", NegationFactor(nodes), node, loc).arena,
               1 + 1, current)
    BY <2>2, <2>3, MakeBinaryFrugal
  <2> QED
    BY <1>3, <2>4 DEF MakeNegation, new
<1> QED
  BY <1>2, <1>3

LEMMA MakePowerFrugal ==
  ASSUME NEW nodes \in Seq(Node), NEW base \in Nat,
         NEW token \in Nat, NEW negative \in BOOLEAN,
         NEW tokenLoc \in Location, NEW loc \in Location
  PROVE  Frugal(nodes, MakePower(nodes, base, token, negative, tokenLoc, loc).arena,
                2, token)
<1> DEFINE new == MakeLeaf(nodes, "integer", token, negative, tokenLoc).arena
<1>1. "integer" \in LeafKinds /\ "pow" \in BinaryKinds /\ Len(nodes) + 1 \in Nat
  BY DEF LeafKinds, BinaryKinds
<1>2. new \in Seq(Node) /\ Frugal(nodes, new, 1, token)
  <2>1. new \in Seq(Node)
    BY <1>1, MakeLeafExtends DEF MadeFrom, Extends
  <2> QED
    BY <1>1, <2>1, MakeLeafFrugal
<1> HIDE DEF new
<1>3. Frugal(nodes, MakeBinary(new, "pow", base, Len(nodes) + 1, loc).arena, 1 + 1, token)
  BY <1>1, <1>2, MakeBinaryFrugal
<1> QED
  BY <1>3 DEF MakePower, new

\* A lexeme on top of the stack is the one read last, and nothing was read
\* behind it.
FreshTop ==
  phase = "parsing" /\ AccessingSymbol(yystate) \in ReducedAtOnce =>
    yytoken = YYEMPTY /\ Top.token = Len(tokens)

LEMMA SemanticActionFrugal ==
  ASSUME ParserInvariant, FreshTop, phase = "parsing", yystate \in ReducingStates,
         NEW r, r = DefaultReduction(yystate)
  PROVE  Frugal(arena, SemanticAction(r, Handle(r), CommonLocation(Handle(r))).arena,
                NodesOf(r), Len(tokens))
<1> DEFINE rhs   == Handle(r)
           loc   == CommonLocation(rhs)
           first == rhs[1]
           last  == rhs[Len(rhs)]
           made  == SemanticAction(r, rhs, loc)
<1>1. arena \in Seq(Node) /\ tokens \in Seq(Token) /\ stack \in Seq(Entry)
      /\ stack # << >> /\ StackIsPath
  BY DEF ParserInvariant, TypeOK
<1>2. r \in Rules /\ RuleLength(r) \in 1 .. 3
  BY ReducingRule
<1>3. 1 \in 1 .. RuleLength(r) /\ RuleLength(r) \in 1 .. RuleLength(r)
  BY <1>2
<1>4. /\ Len(rhs) = RuleLength(r)
      /\ loc \in Location
      /\ first \in Entry /\ last \in Entry
      /\ last = stack[Len(stack) - RuleLength(r) + RuleLength(r)]
      /\ RuleRhs[r][1] \in Nonterminals => first.node \in 1 .. Len(arena)
      /\ RuleRhs[r][RuleLength(r)] \in Nonterminals => last.node \in 1 .. Len(arena)
      /\ RuleRhs[r][RuleLength(r)] \in Terminals => last.token \in 1 .. Len(tokens)
  BY <1>3, HandleValues
<1>5. /\ first.location \in Location /\ last.location \in Location
      /\ first.token \in Nat /\ first.node \in Nat
      /\ last.token \in Nat /\ last.node \in Nat
  BY <1>4 DEF Entry
<1>6. last = Top
  BY <1>1, <1>2, <1>4 DEF Top
<1>7. AccessingSymbol(yystate) = RuleRhs[r][RuleLength(r)]
  <2> DEFINE below == Len(stack) - RuleLength(r)
  <2>1. AccessingSymbol(stack[below + RuleLength(r)].state) = RuleRhs[r][RuleLength(r)]
    BY <1>1, <1>3, HandleOnStack
  <2>2. below + RuleLength(r) = Len(stack)
    BY <1>1, <1>2
  <2> QED
    BY <2>1, <2>2 DEF yystate, Top
<1>8. ActionsFitRules /\ LexemesLast
  BY ActionsConsistent
<1>9. r \in LeafRules \cup {20} => last.token = Len(tokens)
  BY <1>6, <1>7, <1>8 DEF LexemesLast, FreshTop
<1> HIDE DEF rhs, loc
<1>10. CASE r \in LeafRules
  <2>1. LeafKind(r) \in LeafKinds
    BY DEF LeafKind, LeafKinds
  <2>2. r \notin BinaryRules /\ r \notin {13, 24} /\ r # 20
    BY <1>10 DEF BinaryRules, LeafRules
  <2>3. made = MakeLeaf(arena, LeafKind(r), first.token, FALSE, first.location)
    BY <1>10, <2>2, Zenon DEF SemanticAction
  <2>4. first.token = Len(tokens)
    BY <1>4, <1>8, <1>9, <1>10, <2>2 DEF LexemesLast
  <2>5. Frugal(arena, MakeLeaf(arena, LeafKind(r), first.token, FALSE,
                               first.location).arena, 1, Len(tokens))
    BY <1>1, <1>5, <2>1, <2>4, MakeLeafFrugal
  <2> QED
    BY <1>10, <2>3, <2>5 DEF NodesOf, rhs, loc
<1>11. CASE r \in BinaryRules
  <2>1. BinaryKind(r) \in BinaryKinds
    BY DEF BinaryKind, BinaryKinds
  <2>2. made = MakeBinary(arena, BinaryKind(r), first.node, last.node, loc)
    BY <1>11 DEF SemanticAction, BinaryRules, LeafRules
  <2>3. Frugal(arena, MakeBinary(arena, BinaryKind(r), first.node, last.node,
                                 loc).arena, 0 + 1, Len(tokens))
    BY <1>1, <1>4, <1>5, <2>1, FrugalReflexive, MakeBinaryFrugal
  <2> QED
    BY <1>11, <2>2, <2>3 DEF NodesOf, rhs, loc
<1>12. CASE r \in {13, 24}
  <2>1. made = MakeNegation(arena, last.node, loc)
    BY <1>12 DEF SemanticAction, BinaryRules, LeafRules
  <2>2. last.node \in 1 .. Len(arena)
    BY <1>2, <1>4, <1>8, <1>12 DEF ActionsFitRules, LeafRules, BinaryRules
  <2>3. Frugal(arena, MakeNegation(arena, last.node, loc).arena, 2, Len(tokens))
    BY <1>1, <1>4, <2>2, MakeNegationFrugal
  <2> QED
    BY <1>12, <2>1, <2>3 DEF NodesOf, BinaryRules, LeafRules, rhs, loc
<1>13. CASE r = 20
  <2>1. made = MakePower(arena, first.node, last.token,
                         tokens[last.token].negative, last.location, loc)
    BY <1>13 DEF SemanticAction, BinaryRules, LeafRules
  <2>2. last.token \in 1 .. Len(tokens)
    BY <1>2, <1>4, <1>8, <1>13 DEF ActionsFitRules, LeafRules, BinaryRules
  <2>3. tokens[last.token].negative \in BOOLEAN
    <3>1. tokens[last.token] \in Token
      BY <1>1, <2>2
    <3> QED
      BY <3>1 DEF Token
  <2>4. Frugal(arena, made.arena, 2, last.token)
    BY <1>1, <1>4, <1>5, <2>1, <2>3, MakePowerFrugal
  <2> QED
    BY <1>9, <1>13, <2>4 DEF NodesOf, BinaryRules, LeafRules, rhs, loc
<1>14. CASE r \notin LeafRules \cup BinaryRules \cup {13, 20, 24}
  <2>1. made = [arena |-> arena, node |-> PassedNode(r, rhs)]
    BY <1>14 DEF SemanticAction
  <2> QED
    BY <1>1, <1>14, <2>1, FrugalReflexive DEF NodesOf, rhs, loc
<1> QED
  BY <1>10, <1>11, <1>12, <1>13, <1>14

(***************************************************************************)
(* The counting invariant.  What is allocated was paid for by tokens: a    *)
(* token counted but not yet shifted is worth two nodes, a lexeme on the   *)
(* stack still two, and a nonterminal one.                                 *)
(***************************************************************************)
Lefts == OnAll({T_LEFT_PAREN})
Rights == OnAll({T_RIGHT_PAREN})
Lexemes == OnAll(LexemeTokens)

Ahead ==
  IF yytoken = T_LEFT_PAREN THEN 1
  ELSE IF yytoken = T_RIGHT_PAREN /\ Lefts > 0 THEN -1 ELSE 0

NestingBalanced ==
  phase = "parsing" => lexer.nesting_depth = Lefts - Rights + Ahead

Owed == Len(arena) + Len(stack) + Lexemes + 2 * Unshifted

NodesPaid == phase = "parsing" => Owed <= 2 * lexer.token_count + 1

CountInvariant ==
  /\ NestingBalanced
  /\ NodesPaid
  /\ FreshTop
  /\ ArenaWithinTokens

LEMMA CountTypes ==
  ASSUME ParserInvariant
  PROVE  /\ Lefts \in Nat /\ Rights \in Nat /\ Lexemes \in Nat
         /\ Len(arena) \in Nat /\ Len(stack) \in Nat /\ Len(stack) > 0
         /\ Unshifted \in Nat /\ Ahead \in {-1, 0, 1}
         /\ lexer.token_count \in Nat /\ lexer.nesting_depth \in Nat
<1>1. stack \in Seq(Entry) /\ stack # << >> /\ arena \in Seq(Node)
      /\ lexer \in LexerContexts
  BY DEF ParserInvariant, TypeOK
<1>2. Len(stack) \in Nat /\ Len(stack) > 0 /\ Len(arena) \in Nat
  BY <1>1
<1>3. Lefts \in Nat /\ Rights \in Nat /\ Lexemes \in Nat
  BY <1>2, CountNext DEF Lefts, Rights, Lexemes, OnAll
<1> QED
  BY <1>1, <1>2, <1>3 DEF Unshifted, Ahead, LexerContexts

LEMMA InitCounts ==
  ASSUME Init
  PROVE  CountInvariant
<1>1. /\ stack = << Bottom >> /\ Len(stack) = 1 /\ arena = << >>
      /\ yytoken = YYEMPTY /\ lexer = EmptyContext
      /\ \A i \in 1 .. 1 : AccessingSymbol(stack[i].state) = YYEOF
  <2>1. AccessingSymbol(0) = YYEOF
    BY DEF AccessingSymbol, yystos, YYEOF
  <2>2. Bottom.state = 0
    BY DEF Bottom
  <2> QED
    BY <2>1, <2>2 DEF Init
<1>2. YYEOF \notin LexemeTokens \cup {T_LEFT_PAREN, T_RIGHT_PAREN}
  BY DEF LexemeTokens, T_INTEGER, T_INVALID_NUMBER, YYEOF, T_LEFT_PAREN,
         T_RIGHT_PAREN
<1>3. /\ CountIn(stack, 1, LexemeTokens) = 0
      /\ CountIn(stack, 1, {T_LEFT_PAREN}) = 0
      /\ CountIn(stack, 1, {T_RIGHT_PAREN}) = 0
  BY <1>1, <1>2, CountNone
<1>4. Lefts = 0 /\ Rights = 0 /\ Lexemes = 0
  BY <1>1, <1>3 DEF Lefts, Rights, Lexemes, OnAll
<1>5. Ahead = 0 /\ Unshifted = 0
  BY <1>1 DEF Ahead, Unshifted, LexemeTokens, T_INTEGER, T_INVALID_NUMBER,
              YYEMPTY, T_LEFT_PAREN, T_RIGHT_PAREN
<1>6. lexer.nesting_depth = 0 /\ lexer.token_count = 0 /\ Len(arena) = 0
  BY <1>1 DEF EmptyContext
<1>7. AccessingSymbol(yystate) \notin ReducedAtOnce
  BY <1>1, <1>2 DEF yystate, Top, ReducedAtOnce, YYEOF, T_INTEGER, T_FLOAT,
     T_IDENTIFIER, T_SUPERSCRIPT_INTEGER, T_RIGHT_PAREN
<1> QED
  BY <1>1, <1>4, <1>5, <1>6, <1>7
     DEF CountInvariant, NestingBalanced, NodesPaid, Owed, FreshTop,
         ArenaWithinTokens

\* A token within the limits leaves the counter where NextDepth puts it.
LEMMA AcceptedDepth ==
  ASSUME NEW ctx \in LexerContexts, NEW type, NEW loc,
         InLimits(AcceptToken(ctx, type, loc))
  PROVE  AcceptToken(ctx, type, loc).nesting_depth = NextDepth(ctx, type)
<1> DEFINE counted == Counted(ctx)
           nested  == [counted EXCEPT !.nesting_depth = NextDepth(ctx, type)]
           Refused(c, category, limit, observed) ==
             [c EXCEPT !.error = Exceeded(category, limit, observed, loc)]
<1>1. counted \in LexerContexts
  BY CountedType
<1>2. nested.nesting_depth = NextDepth(ctx, type)
  BY <1>1 DEF LexerContexts
<1>3. ASSUME NEW c, c \in {counted, nested}, NEW category \in Limits,
             NEW limit, NEW observed
      PROVE  ~ InLimits(Refused(c, category, limit, observed))
  <2>1. Refused(c, category, limit, observed).error.category = category
    BY <1>1, <1>3 DEF LexerContexts, Exceeded
  <2> QED
    BY <2>1 DEF InLimits, Limits
<1>4. \/ AcceptToken(ctx, type, loc) = nested
      \/ \E c \in {counted, nested}, category \in Limits : \E limit, observed :
           AcceptToken(ctx, type, loc) = Refused(c, category, limit, observed)
  <2>1. CASE counted.token_count > TokenCountLimit
    <3>1. AcceptToken(ctx, type, loc)
            = Refused(counted, "token_count", TokenCountLimit, counted.token_count)
      BY <2>1 DEF AcceptToken
    <3> QED
      BY <3>1 DEF Limits
  <2>2. CASE ~ counted.token_count > TokenCountLimit
             /\ loc.end - loc.start > TokenBytesLimit /\ type \in SizedTokens
    <3>1. AcceptToken(ctx, type, loc)
            = Refused(counted, "token_bytes", TokenBytesLimit, loc.end - loc.start)
      BY <2>2 DEF AcceptToken
    <3> QED
      BY <3>1 DEF Limits
  <2>3. CASE ~ counted.token_count > TokenCountLimit
             /\ ~ (loc.end - loc.start > TokenBytesLimit /\ type \in SizedTokens)
    <3>1. \/ AcceptToken(ctx, type, loc) = nested
          \/ AcceptToken(ctx, type, loc)
               = Refused(nested, "nesting_depth", NestingDepthLimit,
                         nested.nesting_depth)
      BY <2>3 DEF AcceptToken
    <3> QED
      BY <3>1 DEF Limits
  <2> QED
    BY <2>1, <2>2, <2>3
<1> HIDE DEF counted, nested, Refused
<1> QED
  BY <1>2, <1>3, <1>4

\* While a token is needed, no closing parenthesis is on the stack.
LEMMA NoneToReduce ==
  ASSUME ParserInvariant, NeedsToken
  PROVE  Rights = 0 /\ AccessingSymbol(yystate) \notin ReducedAtOnce
<1>1. stack \in Seq(Entry) /\ stack # << >> /\ Len(stack) \in Nat /\ StackIsPath
      /\ yystate \in States /\ yystate = stack[Len(stack)].state
  BY YystateType DEF ParserInvariant, TypeOK
<1>2. AccessingSymbol(yystate) \notin ReducedAtOnce
  BY <1>1, TablesAreConsistent DEF LrConsistent, LexemesReducedAtOnce, NeedsToken
<1>3. ASSUME NEW i \in 1 .. Len(stack)
      PROVE  AccessingSymbol(stack[i].state) \notin ReducedAtOnce
  <2>1. CASE i = Len(stack)
    BY <2>1, <1>1, <1>2
  <2>2. CASE i # Len(stack)
    <3>1. i + 1 \in 2 .. Len(stack) /\ (i + 1) - 1 = i
      BY <2>2, <1>1
    <3>2. IsEdge(stack[i].state, stack[i + 1].state)
      BY <3>1, <1>1 DEF StackIsPath
    <3> QED
      BY <3>2, EdgeStates, TablesAreConsistent DEF LrConsistent, LexemesReducedAtOnce
  <2> QED
    BY <2>1, <2>2
<1>4. Rights = 0
  BY <1>1, <1>3, CountNone DEF Rights, OnAll, ReducedAtOnce
<1> QED
  BY <1>2, <1>4

(***************************************************************************)
(* The steps of the counting invariant.                                    *)
(***************************************************************************)
\* A token within the limits is ahead of the stack; it pays for two nodes.
LEMMA ReadTokenCounts ==
  ASSUME ParserInvariant, CountInvariant, NEW type \in TokenKinds,
         NEW loc \in TokenLocations(type), NEW negative,
         ReadToken(type, loc, negative)
  PROVE  CountInvariant'
<1> DEFINE ctx == [lexer EXCEPT !.offset = loc.end]
<1>1. TypeOK /\ loc \in Location
  BY TokenLocationType DEF ParserInvariant
<1>2. /\ phase = "parsing" /\ yytoken = YYEMPTY /\ yytoken' = type
      /\ UNCHANGED << stack, arena, phase >>
      /\ lexer' = ScannedContext(type, loc) /\ InLimits(lexer')
  BY DEF ReadToken, NeedsToken
<1>3. lexer'.token_count = lexer.token_count + 1
  BY <1>1, <1>2, ScannedContextType
<1>4. lexer'.nesting_depth = NextDepth(ctx, type)
  <2>1. ctx \in LexerContexts
    BY <1>1 DEF TypeOK, LexerContexts, Location
  <2> QED
    BY <2>1, <1>2, AcceptedDepth DEF ScannedContext
<1>5. ctx.nesting_depth = lexer.nesting_depth
  BY <1>1 DEF TypeOK, LexerContexts
<1>6. Rights = 0 /\ AccessingSymbol(yystate) \notin ReducedAtOnce
  BY NoneToReduce DEF ReadToken
<1>7. Lefts' = Lefts /\ Rights' = Rights
      /\ Lexemes' = Lexemes
      /\ yystate' = yystate
  BY <1>2 DEF Lefts, Rights, Lexemes, OnAll, yystate, Top
<1>8. Unshifted = 0 /\ Unshifted' \in {0, 1} /\ Ahead = 0
  BY <1>2 DEF Unshifted, Ahead, LexemeTokens, T_INTEGER, T_INVALID_NUMBER,
              YYEMPTY, T_LEFT_PAREN, T_RIGHT_PAREN
<1>9. NestingBalanced'
  <2>1. lexer.nesting_depth = Lefts /\ Lefts \in Nat
    BY <1>2, <1>6, <1>8, CountTypes DEF CountInvariant, NestingBalanced
  <2>2. lexer'.nesting_depth = Lefts - 0 + Ahead'
    BY <1>2, <1>4, <1>5, <1>7, <2>1 DEF NextDepth, Ahead, T_LEFT_PAREN, T_RIGHT_PAREN
  <2> QED
    BY <1>6, <1>7, <2>2 DEF NestingBalanced
<1>10. NodesPaid' /\ ArenaWithinTokens'
  <2>1. /\ Owed <= 2 * lexer.token_count + 1
        /\ Len(arena) <= 2 * lexer.token_count
        /\ lexer.token_count \in Nat /\ Len(arena) \in Nat
        /\ Len(stack) \in Nat /\ Lexemes \in Nat
    BY <1>2, CountTypes DEF CountInvariant, NodesPaid, ArenaWithinTokens
  <2>2. Owed = Len(arena) + Len(stack) + Lexemes
    BY <2>1, <1>8 DEF Owed
  <2>3. Owed' = Len(arena) + Len(stack) + Lexemes + 2 * Unshifted'
    BY <1>2, <1>7 DEF Owed
  <2>4. Unshifted' = 0 \/ Unshifted' = 1
    BY <1>8
  <2>5. Owed' <= 2 * lexer'.token_count + 1
    BY <1>3, <2>1, <2>2, <2>3, <2>4
  <2>6. Len(arena') <= 2 * lexer'.token_count
    BY <1>2, <1>3, <2>1
  <2> QED
    BY <2>5, <2>6 DEF NodesPaid, ArenaWithinTokens
<1>11. FreshTop'
  BY <1>6, <1>7 DEF FreshTop
<1> QED
  BY <1>9, <1>10, <1>11 DEF CountInvariant

LEMMA ReadOverLimitCounts ==
  ASSUME ParserInvariant, CountInvariant, NEW type \in TokenKinds,
         NEW loc \in TokenLocations(type), ReadOverLimit(type, loc)
  PROVE  CountInvariant'
<1>1. TypeOK /\ loc \in Location
  BY TokenLocationType DEF ParserInvariant
<1>2. /\ phase' = "recovering" /\ arena' = arena
      /\ lexer'.token_count = lexer.token_count + 1
  BY <1>1, ScannedContextType DEF ReadOverLimit, PhaseOverLimit
<1> QED
  BY <1>2, CountTypes DEF CountInvariant, NestingBalanced, NodesPaid, FreshTop,
                          ArenaWithinTokens

LEMMA ReadEndCounts ==
  ASSUME ParserInvariant, CountInvariant, NEW loc \in EndLocations, ReadEnd(loc)
  PROVE  CountInvariant'
<1>1. /\ lexer'.token_count = lexer.token_count
      /\ lexer'.nesting_depth = lexer.nesting_depth
  BY DEF ParserInvariant, TypeOK, LexerContexts, ReadEnd
<1>2. /\ phase = "parsing" /\ yytoken = YYEMPTY /\ yytoken' = YYEOF
      /\ UNCHANGED << stack, arena, phase >>
  BY DEF ReadEnd, NeedsToken
<1>3. AccessingSymbol(yystate) \notin ReducedAtOnce
  BY NoneToReduce DEF ReadEnd
<1>4. Lefts' = Lefts /\ Rights' = Rights
      /\ Lexemes' = Lexemes
      /\ yystate' = yystate
  BY <1>2 DEF Lefts, Rights, Lexemes, OnAll, yystate, Top
<1>5. Unshifted = 0 /\ Unshifted' = 0 /\ Ahead = 0 /\ Ahead' = 0
  BY <1>2 DEF Unshifted, Ahead, LexemeTokens, T_INTEGER, T_INVALID_NUMBER,
              YYEMPTY, YYEOF, T_LEFT_PAREN, T_RIGHT_PAREN
<1> QED
  BY <1>1, <1>2, <1>3, <1>4, <1>5 DEF CountInvariant, NestingBalanced, NodesPaid,
     Owed, FreshTop, ArenaWithinTokens

\* A token that is shifted keeps its credit as a lexeme on the stack.
LEMMA ShiftKeepsCounts ==
  ASSUME ParserInvariant, CountInvariant, Shift
  PROVE  CountInvariant'
<1>1. /\ phase = "parsing" /\ yytoken \in Terminals /\ yytoken' = YYEMPTY
      /\ UNCHANGED << lexer, arena, tokens >>
      /\ yystate \in States /\ yystate = stack[Len(stack)].state
      /\ stack \in Seq(Entry) /\ stack # << >> /\ Len(stack) \in Nat
      /\ StackIsPath /\ TypeOK
  BY YystateType DEF ParserInvariant, TypeOK, Shift
<1>2. /\ Len(stack') = Len(stack) + 1
      /\ Lexemes' = Lexemes + IsOf(yytoken, LexemeTokens)
      /\ Lefts' = Lefts + IsOf(yytoken, {T_LEFT_PAREN})
      /\ Rights' = Rights + IsOf(yytoken, {T_RIGHT_PAREN})
      /\ AccessingSymbol(yystate') = yytoken
      /\ Top'.token = Len(tokens)
  BY ShiftCounts DEF Lefts, Rights, Lexemes
<1>3. Unshifted' = 0 /\ Ahead' = 0
  BY <1>1 DEF Unshifted, Ahead, LexemeTokens, T_INTEGER, T_INVALID_NUMBER,
              YYEMPTY, T_LEFT_PAREN, T_RIGHT_PAREN
<1>4. NestingBalanced'
  <2>1. lexer.nesting_depth = Lefts - Rights + Ahead
    BY <1>1 DEF CountInvariant, NestingBalanced
  <2>2. yytoken = T_RIGHT_PAREN => Lefts > 0
    <3> SUFFICES ASSUME yytoken = T_RIGHT_PAREN
                 PROVE  Lefts > 0
      OBVIOUS
    <3>1. /\ yystate # 0
          /\ \A p \in States : IsEdge(p, yystate) => AccessingSymbol(p) = T_LEFT_PAREN
      BY <1>1, TablesAreConsistent DEF LrConsistent, ParenthesesInPairs, Shift
    <3>2. Len(stack) \in 2 .. Len(stack) /\ Len(stack) - 1 \in 1 .. Len(stack)
      BY <1>1, <3>1 DEF StackIsPath
    <3>3. IsEdge(stack[Len(stack) - 1].state, yystate)
      BY <1>1, <3>2 DEF StackIsPath
    <3>4. AccessingSymbol(stack[Len(stack) - 1].state) = T_LEFT_PAREN
      BY <3>1, <3>3, EdgeStates
    <3> QED
      BY <1>1, <3>2, <3>4, CountPositive DEF Lefts, OnAll
  <2>3. Lefts' - Rights' = Lefts - Rights + Ahead
    <3>1. /\ Lefts' = Lefts + IsOf(yytoken, {T_LEFT_PAREN})
          /\ Rights' = Rights + IsOf(yytoken, {T_RIGHT_PAREN})
          /\ Lefts \in Nat /\ Rights \in Nat
      BY <1>2, CountTypes
    <3> QED
      BY <3>1, <2>2 DEF IsOf, Ahead, T_LEFT_PAREN, T_RIGHT_PAREN
  <2>4. lexer'.nesting_depth = Lefts' - Rights' + Ahead'
    BY <1>1, <1>2, <1>3, <2>1, <2>3, CountTypes DEF IsOf
  <2> QED
    BY <2>4 DEF NestingBalanced
<1>5. NodesPaid'
  <2> SUFFICES ASSUME phase' = "parsing"
               PROVE  Owed' <= 2 * lexer'.token_count + 1
    BY DEF NodesPaid
  <2>1. yytoken \in LexemeTokens
    <3>1. yystate' # YYFINAL
      <4>1. ParserInvariant'
        BY ShiftKeepsInvariant
      <4> QED
        BY <4>1 DEF ParserInvariant, NotYetFinal
    <3>2. yytoken \notin {YYerror, YYUNDEF, T_SKIP}
      BY <1>1, TablesAreConsistent DEF LrConsistent, NoErrorProductions, Shift
    <3>3. yytoken # YYEOF
      <4>1. IsEdge(yystate, TableAction(yystate, yytoken))
        BY <1>1, ShiftTarget DEF Shift
      <4>2. TableAction(yystate, yytoken) \in States \ {0}
        BY <4>1, EdgeStates
      <4>3. AccessingSymbol(TableAction(yystate, yytoken)) = yytoken
        BY <1>1, ShiftTarget DEF Shift
      <4>4. yystate' = TableAction(yystate, yytoken)
        BY ShiftCounts
      <4>5. TableAction(yystate, yytoken) # YYFINAL
        BY <3>1, <4>4, Zenon
      <4> QED
        BY <4>2, <4>3, <4>5, TablesAreConsistent DEF LrConsistent, FinalStateIsAcceptance
    <3> QED
      BY <3>2, <3>3, <1>1 DEF Terminals, YYNTOKENS, LexemeTokens, T_INTEGER,
         T_INVALID_NUMBER, T_SKIP, YYEOF, YYerror, YYUNDEF
  <2>2. Unshifted = 1 /\ IsOf(yytoken, LexemeTokens) = 1
    BY <2>1 DEF Unshifted, IsOf
  <2> QED
    BY <1>1, <1>2, <1>3, <2>2, CountTypes DEF CountInvariant, NodesPaid, Owed
<1>6. FreshTop'
  BY <1>1, <1>2 DEF FreshTop
<1>7. ArenaWithinTokens'
  BY <1>1 DEF CountInvariant, ArenaWithinTokens
<1> QED
  BY <1>4, <1>5, <1>6, <1>7 DEF CountInvariant

\* What a reduction allocates was paid for by the symbols it pops.
LEMMA ReduceKeepsCounts ==
  ASSUME ParserInvariant, CountInvariant, phase = "parsing",
         yystate \in ReducingStates, Reduce(DefaultReduction(yystate)),
         UNCHANGED << yytoken, lexer, tokens >>
  PROVE  CountInvariant'
<1> DEFINE r == DefaultReduction(yystate)
<1>1. /\ r \in Rules /\ RuleLength(r) \in 1 .. 3
      /\ stack \in Seq(Entry) /\ stack # << >> /\ Len(stack) \in Nat
      /\ StackIsPath
  BY ReducingRule DEF ParserInvariant, TypeOK
<1>2. /\ {T_LEFT_PAREN} \in SUBSET Terminals
      /\ {T_RIGHT_PAREN} \in SUBSET Terminals
      /\ LexemeTokens \in SUBSET Terminals
  BY DEF Terminals, YYNTOKENS, LexemeTokens, T_INTEGER, T_INVALID_NUMBER,
         T_LEFT_PAREN, T_RIGHT_PAREN
<1>3. /\ Len(stack') = Len(stack) - RuleLength(r) + 1
      /\ Lexemes' + SymbolsIn(r, LexemeTokens) = Lexemes
      /\ Lefts' + SymbolsIn(r, {T_LEFT_PAREN}) = Lefts
      /\ Rights' + SymbolsIn(r, {T_RIGHT_PAREN}) = Rights
      /\ SymbolsIn(r, LexemeTokens) \in Nat
  BY <1>2, ReduceCounts DEF Lefts, Rights, Lexemes
<1>4. /\ Lefts' \in Nat /\ Rights' \in Nat /\ Lexemes' \in Nat
      /\ Len(arena') \in Nat /\ Len(stack') \in Nat /\ Len(stack') > 0
      /\ arena' \in Seq(Node) /\ stack' \in Seq(Entry)
  <2>1. arena' \in Seq(Node) /\ stack' \in Seq(Entry) /\ Len(stack') > 0
    BY ReduceReplacesHandle DEF Extends, EnterState
  <2>2. Len(stack') \in Nat
    BY <2>1
  <2> QED
    BY <2>1, <2>2, CountNext DEF Lefts, Rights, Lexemes, OnAll
<1>5. Len(arena') <= Len(arena) + NodesOf(r)
  <2>1. arena' = SemanticAction(r, Handle(r), CommonLocation(Handle(r))).arena
    BY DEF Reduce, Handle
  <2>2. Frugal(arena, SemanticAction(r, Handle(r), CommonLocation(Handle(r))).arena,
               NodesOf(r), Len(tokens))
    BY SemanticActionFrugal DEF CountInvariant
  <2> QED
    BY <2>1, <2>2 DEF Frugal
<1> HIDE DEF r
<1>6. Owed' <= Owed
  <2>1. NodesOf(r) + 1 <= RuleLength(r) + SymbolsIn(r, LexemeTokens)
    BY <1>1, ActionsConsistent DEF ActionsPaid
  <2>2. NodesOf(r) \in Nat
    BY DEF NodesOf
  <2>3. Unshifted' = Unshifted
    BY DEF Unshifted
  <2>4. /\ Owed = Len(arena) + Len(stack) + Lexemes + 2 * Unshifted
        /\ Owed' = Len(arena') + Len(stack') + Lexemes' + 2 * Unshifted'
    BY DEF Owed
  <2>5. /\ Len(arena) \in Nat /\ Len(stack) \in Nat /\ Lexemes \in Nat
        /\ Unshifted \in Nat
    BY CountTypes
  <2>6. Len(arena') + Len(stack') + Lexemes' <= Len(arena) + Len(stack) + Lexemes
    <3>1. /\ Len(stack') = Len(stack) - RuleLength(r) + 1
          /\ Lexemes' + SymbolsIn(r, LexemeTokens) = Lexemes
          /\ SymbolsIn(r, LexemeTokens) \in Nat
          /\ RuleLength(r) \in Nat
      BY <1>1, <1>3
    <3>2. Lexemes' \in Nat /\ Len(arena') \in Nat
      BY <1>4
    <3> QED
      BY <1>5, <2>1, <2>2, <2>5, <3>1, <3>2, SMTT(30)
  <2> QED
    BY <1>4, <2>3, <2>4, <2>5, <2>6, SMTT(30)
<1>7. Owed' \in Nat /\ Owed' <= 2 * lexer'.token_count + 1
  <2>1. Owed <= 2 * lexer.token_count + 1 /\ lexer' = lexer
    BY DEF CountInvariant, NodesPaid
  <2>2. Owed \in Nat /\ Owed' \in Nat
    <3>1. Unshifted' \in Nat
      BY DEF Unshifted
    <3>2. Owed' = Len(arena') + Len(stack') + Lexemes' + 2 * Unshifted'
      BY DEF Owed
    <3>3. Owed \in Nat
      BY CountTypes DEF Owed
    <3> QED
      BY <1>4, <3>1, <3>2, <3>3, SMTT(30)
  <2> QED
    BY <1>6, <2>1, <2>2, CountTypes
<1>8. NodesPaid' /\ ArenaWithinTokens'
  <2>1. Unshifted' \in Nat /\ lexer' = lexer
    BY DEF Unshifted
  <2>2. Owed' = Len(arena') + Len(stack') + Lexemes' + 2 * Unshifted'
    BY DEF Owed
  <2>3. Len(arena') + 1 <= Owed'
    BY <1>4, <2>1, <2>2, SMTT(30)
  <2>4. Len(arena') <= 2 * lexer'.token_count
    <3>1. lexer'.token_count \in Nat
      BY <2>1, CountTypes
    <3> QED
      BY <1>4, <1>7, <2>3, <3>1
  <2> QED
    BY <1>7, <2>4 DEF NodesPaid, ArenaWithinTokens
<1>9. FreshTop'
  <2>1. AccessingSymbol(yystate') \in Nonterminals
    BY <1>2, ReduceCounts DEF r
  <2>2. AccessingSymbol(yystate') \notin ReducedAtOnce
    BY <2>1 DEF ReducedAtOnce, Nonterminals, YYNTOKENS, N_identifier, T_INTEGER,
       T_FLOAT, T_IDENTIFIER, T_SUPERSCRIPT_INTEGER, T_RIGHT_PAREN
  <2> QED
    BY <2>2 DEF FreshTop
<1>10. Lefts' - Rights' = Lefts - Rights /\ Ahead' = Ahead
  <2>1. CASE r = 19
    <3>1. /\ RuleRhs[r] = << T_LEFT_PAREN, N_exp, T_RIGHT_PAREN >>
          /\ RuleLength(r) = 3
      BY <1>1, <2>1, TablesAreConsistent
         DEF LrConsistent, ParenthesesInPairs, RulesConsistent
    <3>2. SymbolsIn(r, {T_LEFT_PAREN}) = 1 /\ SymbolsIn(r, {T_RIGHT_PAREN}) = 1
      BY <3>1 DEF SymbolsIn, T_LEFT_PAREN, T_RIGHT_PAREN, N_exp
    <3>3. AccessingSymbol(yystate) = T_RIGHT_PAREN
      <4> DEFINE below == Len(stack) - RuleLength(r)
      <4>1. AccessingSymbol(stack[below + 3].state) = RuleRhs[r][3]
        BY <1>1, <3>1, HandleOnStack DEF r
      <4>2. below + 3 = Len(stack)
        BY <1>1, <3>1
      <4> QED
        BY <3>1, <4>1, <4>2 DEF yystate, Top
    <3>4. yytoken = YYEMPTY
      BY <3>3 DEF CountInvariant, FreshTop, ReducedAtOnce
    <3>5. Ahead = 0 /\ Ahead' = 0
      BY <3>4 DEF Ahead, YYEMPTY, T_LEFT_PAREN, T_RIGHT_PAREN
    <3> QED
      BY <1>3, <1>4, <3>2, <3>5, CountTypes
  <2>2. CASE r # 19
    <3>1. \A k \in 1 .. RuleLength(r) :
            RuleRhs[r][k] \notin {T_LEFT_PAREN, T_RIGHT_PAREN}
      BY <1>1, <2>2, TablesAreConsistent DEF LrConsistent, ParenthesesInPairs
    <3>2. SymbolsIn(r, {T_LEFT_PAREN}) = 0 /\ SymbolsIn(r, {T_RIGHT_PAREN}) = 0
      BY <1>1, <3>1 DEF SymbolsIn
    <3>3. Lefts' = Lefts /\ Rights' = Rights
      BY <1>3, <1>4, <3>2, CountTypes
    <3> QED
      BY <3>3 DEF Ahead
  <2> QED
    BY <2>1, <2>2
<1>11. NestingBalanced'
  <2>1. lexer.nesting_depth = Lefts - Rights + Ahead
    BY DEF CountInvariant, NestingBalanced
  <2>2. lexer'.nesting_depth = Lefts' - Rights' + Ahead'
    BY <1>10, <2>1
  <2> QED
    BY <2>2 DEF NestingBalanced
<1> QED
  BY <1>8, <1>9, <1>11 DEF CountInvariant

LEMMA NextCounts ==
  ASSUME ParserInvariant, CountInvariant, [Next]_vars
  PROVE  CountInvariant'
<1>1. CASE UNCHANGED vars
  BY <1>1 DEF vars, CountInvariant, NestingBalanced, NodesPaid, Owed, FreshTop,
     ArenaWithinTokens, Lefts, Rights, Lexemes, OnAll, Ahead, Unshifted, yystate, Top
<1>2. CASE Yylex
  <2>1. ASSUME NEW type \in TokenKinds, NEW loc \in TokenLocations(type),
               \/ \E negative \in LexemeSigns(type) : ReadToken(type, loc, negative)
               \/ ReadOverLimit(type, loc)
        PROVE  CountInvariant'
    BY <2>1, ReadTokenCounts, ReadOverLimitCounts
  <2> QED
    BY <1>2, <2>1, ReadEndCounts DEF Yylex
<1>3. CASE ReduceWithoutToken \/ ReduceOnToken
  <2>1. /\ phase = "parsing" /\ Reduce(DefaultReduction(yystate))
        /\ UNCHANGED << yytoken, lexer, tokens >>
    BY <1>3 DEF ReduceWithoutToken, ReduceOnToken, NoTableAction
  <2>2. yystate \in ReducingStates
    BY <1>3, ReductionStates
  <2> QED
    BY <2>1, <2>2, ReduceKeepsCounts
<1>4. CASE SyntaxError \/ Unwind \/ Abort
  <2>1. phase' # "parsing" /\ UNCHANGED << arena, lexer >>
    BY <1>4 DEF SyntaxError, Unwind, Abort
  <2> QED
    BY <2>1 DEF CountInvariant, NestingBalanced, NodesPaid, FreshTop,
                ArenaWithinTokens
<1>5. CASE Step
  BY <1>2, <1>3, <1>4, <1>5, ShiftKeepsCounts DEF Step
<1> QED
  BY <1>1, <1>5 DEF Next, Stopped

(***************************************************************************)
(* The theorems about what is counted and copied.                          *)
(***************************************************************************)
LEMMA CountsAreSafe == Spec => []CountInvariant
<1>1. Init => CountInvariant
  BY InitCounts
<1>2. ParserInvariant /\ CountInvariant /\ [Next]_vars => CountInvariant'
  BY NextCounts
<1> QED
  BY <1>1, <1>2, ParserIsSafe, PTL DEF Spec

\* The lexer's counter is the number of parentheses open on the parser's
\* stack, for every input: neither looks at the other.
THEOREM NestingCorrect == Spec => []NestingAgrees
<1>1. CountInvariant => NestingAgrees
  <2>1. /\ OnStack(T_LEFT_PAREN) = Lefts /\ OnStack(T_RIGHT_PAREN) = Rights
    BY OnStackCounts DEF Lefts, Rights
  <2> QED
    BY <2>1 DEF CountInvariant, NestingBalanced, NestingAgrees, Ahead
<1> QED
  BY <1>1, CountsAreSafe, PTL

\* No input makes the parser allocate more than two nodes for each of its
\* tokens, so that the token limit bounds the arena.
THEOREM ArenaBounded == Spec => []ArenaWithinTokens
<1>1. CountInvariant => ArenaWithinTokens
  BY DEF CountInvariant
<1> QED
  BY <1>1, CountsAreSafe, PTL

\* A semantic action copies the lexeme read last or one that was copied
\* before.
THEOREM LexemesCopied == Spec => LexemeCopiedInTime
<1> DEFINE InTime ==
      \A id \in 1 .. Len(arena') :
        LET node == arena'[id]
        IN  node.kind \in LeafKinds /\ node.token # 0 =>
              \/ node.token = Len(tokens)
              \/ \E old \in 1 .. Len(arena) : arena[old].token = node.token
<1>1. ParserInvariant /\ CountInvariant /\ [Next]_vars => [InTime]_vars
  <2> SUFFICES ASSUME ParserInvariant, CountInvariant, [Next]_vars
               PROVE  InTime
    OBVIOUS
  <2>1. CASE arena' = arena
    BY <2>1
  <2>2. CASE ReduceWithoutToken \/ ReduceOnToken
    <3> DEFINE r == DefaultReduction(yystate)
    <3>1. phase = "parsing" /\ Reduce(r)
      BY <2>2 DEF ReduceWithoutToken, ReduceOnToken, NoTableAction
    <3>2. yystate \in ReducingStates
      BY <2>2, ReductionStates
    <3>3. arena' = SemanticAction(r, Handle(r), CommonLocation(Handle(r))).arena
      BY <3>1 DEF Reduce, Handle
    <3>4. Copies(arena, SemanticAction(r, Handle(r), CommonLocation(Handle(r))).arena,
                 Len(tokens))
      BY <3>1, <3>2, SemanticActionFrugal DEF CountInvariant, Frugal
    <3> HIDE DEF r
    <3> QED
      BY <3>3, <3>4 DEF Copies
  <2>3. arena' = arena \/ ReduceWithoutToken \/ ReduceOnToken
    BY DEF Next, Step, Stopped, Yylex, ReadToken, ReadOverLimit, ReadEnd, Shift,
       SyntaxError, Unwind, Abort, vars
  <2> QED
    BY <2>1, <2>2, <2>3
<1>2. LexemeCopiedInTime <=> [][InTime]_vars
  BY DEF LexemeCopiedInTime
<1> HIDE DEF InTime
<1> QED
  BY <1>1, <1>2, ParserIsSafe, CountsAreSafe, PTL DEF Spec

(***************************************************************************)
(* The exploratory check of a lookahead.  yy_lac is a loop; LacAccepts     *)
(* says of it that what it answers from a state is what it answers from    *)
(* the state after the next default reduction.  There is a function that   *)
(* does so, the least one, whether or not the loop ends.                   *)
(***************************************************************************)
\* The two answers, under names the provers can compare.
LacPasses == TRUE
LacRefuses == FALSE

IsLoop(f, D, yes, no, next) ==
  f = [at \in D |-> IF at \in yes THEN LacPasses
                    ELSE IF at \in no THEN LacRefuses ELSE f[next[at]]]

LEMMA LoopExists ==
  ASSUME NEW D, NEW yes, NEW no, NEW next,
         \A at \in D : at \notin yes /\ at \notin no => next[at] \in D
  PROVE  \E f : IsLoop(f, D, yes, no, next)
<1> DEFINE Leads(at, S) == \/ at \in yes
                           \/ at \notin no /\ next[at] \in S
           Closed(S) == \A at \in D : Leads(at, S) => at \in S
           W == {at \in D : \A S \in SUBSET D : Closed(S) => at \in S}
           f == [at \in D |-> IF at \in W THEN LacPasses ELSE LacRefuses]
<1>1. Closed(W)
  <2> SUFFICES ASSUME NEW at \in D, Leads(at, W), NEW S \in SUBSET D, Closed(S)
               PROVE  at \in S
    BY Zenon
  <2>1. W \subseteq S
    BY Zenon
  <2>2. Leads(at, S)
    BY <2>1, Zenon
  <2> QED
    BY <2>2, Zenon
<1>2. \A at \in W : Leads(at, W)
  <2> SUFFICES ASSUME NEW at \in W, ~ Leads(at, W)
               PROVE  FALSE
    BY Zenon
  <2> DEFINE S == W \ {at}
  <2>1. S \in SUBSET D /\ W \subseteq D
    BY Zenon
  <2>2. ASSUME NEW b \in D, Leads(b, S)
        PROVE  b \in S
    <3>1. S \subseteq W
      BY Zenon
    <3>2. Leads(b, W)
      <4> HIDE DEF S, W
      <4> QED
        BY <2>2, <3>1, Zenon
    <3>3. b \in W
      <4> HIDE DEF W
      <4> QED
        BY <3>2, <1>1, Zenon
    <3>4. b # at
      <4> HIDE DEF W, S, Leads
      <4> QED
        BY <3>2, Zenon
    <3> HIDE DEF W
    <3> QED
      BY <3>3, <3>4, Zenon
  <2>3. at \in S
    <3>1. Closed(S)
      <4> HIDE DEF S, Leads
      <4> QED
        BY <2>2, Zenon
    <3> HIDE DEF S, Closed
    <3> QED
      BY <3>1, <2>1, Zenon
  <2> QED
    BY <2>3, Zenon
<1>3. ASSUME NEW at \in D
      PROVE  f[at] = IF at \in yes THEN LacPasses
                     ELSE IF at \in no THEN LacRefuses ELSE f[next[at]]
  <2>1. at \in W <=> Leads(at, W)
    <3> HIDE DEF W, Leads
    <3> QED
      BY <1>1, <1>2, Zenon
  <2>2. f[at] = IF at \in W THEN LacPasses ELSE LacRefuses
    BY Zenon
  <2>3. CASE at \in yes
    <3> HIDE DEF W, f
    <3> QED
      BY <2>1, <2>2, <2>3, Zenon
  <2>4. CASE at \notin yes /\ at \in no
    <3> HIDE DEF W, f
    <3> QED
      BY <2>1, <2>2, <2>4, Zenon
  <2>5. CASE at \notin yes /\ at \notin no
    <3>1. f[next[at]] = IF next[at] \in W THEN LacPasses ELSE LacRefuses
      BY <2>5, Zenon
    <3> HIDE DEF W, f
    <3> QED
      BY <2>1, <2>2, <2>5, <3>1, Zenon
  <2> QED
    BY <2>3, <2>4, <2>5, Zenon
<1>4. f = [at \in D |-> f[at]]
  BY Zenon
<1> HIDE DEF f
<1>5. IsLoop(f, D, yes, no, next)
  BY <1>3, <1>4, Zenon DEF IsLoop
<1> QED
  BY <1>5

\* Where yy_lac goes on from << d, s >>.
LacNext(states, d, s) ==
  << d - (RuleLength(DefaultReduction(s)) - 1),
     Goto(states[d - (RuleLength(DefaultReduction(s)) - 1)],
          RuleLhs(DefaultReduction(s))) >>

IsLac(lac, states, x) ==
  lac = [at \in Int \X States |->
           IF HasTableAction(at[2], x) THEN LacPasses
           ELSE IF DefaultReduction(at[2]) = 0 THEN LacRefuses
           ELSE lac[LacNext(states, at[1], at[2])]]

LEMMA GotoIsState ==
  ASSUME NEW p, NEW a \in Nonterminals
  PROVE  Goto(p, a) \in States
  BY TablesAreConsistent DEF LrConsistent, EntriesInRange, Goto

LEMMA LacNextType ==
  ASSUME NEW states, NEW d \in Int, NEW s \in States, DefaultReduction(s) # 0
  PROVE  LacNext(states, d, s) \in Int \X States
<1> DEFINE r == DefaultReduction(s)
           below == d - (RuleLength(r) - 1)
<1>1. r \in Rules
  BY TablesAreConsistent, SMT DEF LrConsistent, RulesConsistent, Rules
<1>2. RuleLength(r) \in 1 .. 3 /\ RuleLhs(r) \in Nonterminals
  BY <1>1, TablesAreConsistent, Zenon DEF LrConsistent, RulesConsistent
<1> HIDE DEF r
<1>3. below \in Int
  BY <1>2, SMT
<1> HIDE DEF below
<1>4. Goto(states[below], RuleLhs(r)) \in States
  BY <1>2, GotoIsState
<1>5. LacNext(states, d, s) = << below, Goto(states[below], RuleLhs(r)) >>
  BY Zenon DEF LacNext, below, r
<1> QED
  BY <1>3, <1>4, <1>5

LEMMA LacExists ==
  ASSUME NEW states, NEW x
  PROVE  \E lac : IsLac(lac, states, x)
<1> DEFINE D == Int \X States
           yes == {at \in D : HasTableAction(at[2], x)}
           no == {at \in D : DefaultReduction(at[2]) = 0}
           next == [at \in D |-> LacNext(states, at[1], at[2])]
<1>1. \A at \in D : /\ at \in yes <=> HasTableAction(at[2], x)
                    /\ at \in no <=> DefaultReduction(at[2]) = 0
                    /\ next[at] = LacNext(states, at[1], at[2])
  BY Zenon
<1>2. \A at \in D : at[1] \in Int /\ at[2] \in States
  OBVIOUS
<1> HIDE DEF D, yes, no, next
<1>3. \A at \in D : at \notin yes /\ at \notin no => next[at] \in D
  <2> SUFFICES ASSUME NEW at \in D, at \notin no PROVE next[at] \in D
    OBVIOUS
  <2>1. at[1] \in Int /\ at[2] \in States /\ DefaultReduction(at[2]) # 0
    BY <1>1, <1>2, Zenon
  <2>2. LacNext(states, at[1], at[2]) \in Int \X States
    BY <2>1, LacNextType
  <2> QED
    BY <1>1, <2>2, Zenon DEF D
<1>4. PICK f : IsLoop(f, D, yes, no, next)
  BY <1>3, LoopExists
<1>5. f = [at \in D |-> f[at]]
  BY <1>4, Zenon DEF IsLoop
<1>6. \A at \in D :
        f[at] = IF HasTableAction(at[2], x) THEN LacPasses
                ELSE IF DefaultReduction(at[2]) = 0 THEN LacRefuses
                ELSE f[LacNext(states, at[1], at[2])]
  BY <1>1, <1>4, Zenon DEF IsLoop
<1>7. f = [at \in D |-> IF HasTableAction(at[2], x) THEN LacPasses
                        ELSE IF DefaultReduction(at[2]) = 0 THEN LacRefuses
                        ELSE f[LacNext(states, at[1], at[2])]]
  BY <1>5, <1>6, Zenon
<1> QED
  BY <1>7, Zenon DEF IsLac, D

LEMMA LacFunction ==
  ASSUME NEW states, NEW x
  PROVE  \E lac : /\ IsLac(lac, states, x)
                  /\ LacAccepts(states, x) <=>
                       x # YYUNDEF /\ lac[<< Len(states) - 1, states[Len(states)] >>]
<1> DEFINE lac[at \in Int \X States] ==
             LET r     == DefaultReduction(at[2])
                 below == at[1] - (RuleLength(r) - 1)
             IN  IF HasTableAction(at[2], x) THEN TRUE
                 ELSE IF r = 0 THEN FALSE
                 ELSE lac[<< below, Goto(states[below], RuleLhs(r)) >>]
<1>1. LacAccepts(states, x) <=>
        x # YYUNDEF /\ lac[<< Len(states) - 1, states[Len(states)] >>]
  BY DEF LacAccepts
<1>2. lac = CHOOSE l : IsLac(l, states, x)
  BY Zenon DEF IsLac, LacNext, LacPasses, LacRefuses
<1> HIDE DEF lac
<1>3. IsLac(lac, states, x)
  <2>1. \E l : IsLac(l, states, x)
    BY LacExists, Zenon
  <2> QED
    BY <1>2, <2>1, Zenon
<1> QED
  BY <1>1, <1>3, Zenon

LEMMA LacUnfolds ==
  ASSUME NEW states, NEW x, NEW lac, IsLac(lac, states, x),
         NEW d \in Int, NEW s \in States
  PROVE  /\ HasTableAction(s, x) => lac[<< d, s >>] = LacPasses
         /\ ~ HasTableAction(s, x) /\ DefaultReduction(s) = 0 =>
              lac[<< d, s >>] = LacRefuses
         /\ ~ HasTableAction(s, x) /\ DefaultReduction(s) # 0 =>
              lac[<< d, s >>] = lac[LacNext(states, d, s)]
<1> DEFINE at == << d, s >>
<1>1. at \in Int \X States /\ at[1] = d /\ at[2] = s
  OBVIOUS
<1> HIDE DEF at
<1>2. lac[at] = IF HasTableAction(at[2], x) THEN LacPasses
                ELSE IF DefaultReduction(at[2]) = 0 THEN LacRefuses
                ELSE lac[LacNext(states, at[1], at[2])]
  BY <1>1, Zenon DEF IsLac
<1>3. lac[at] = IF HasTableAction(s, x) THEN LacPasses
                ELSE IF DefaultReduction(s) = 0 THEN LacRefuses
                ELSE lac[LacNext(states, d, s)]
  BY <1>1, <1>2, Zenon
<1> QED
  BY <1>3, Zenon DEF at

\* The lowest states of a stack, as far as the exploratory check may look.
IsPathOf(states, k) ==
  /\ states[1] = 0
  /\ \A i \in 2 .. k : IsEdge(states[i - 1], states[i])

\* A state that could lie on the d lowest ones, and reduces: its handle lies
\* below it, and the goto could lie on what stays.
LEMMA HandleAt ==
  ASSUME NEW states, NEW k \in Nat, IsPathOf(states, k), NEW d \in 1 .. k,
         NEW s \in ReducingStates, IsEdge(states[d], s),
         NEW r, r = DefaultReduction(s)
  PROVE  LET below == d - (RuleLength(r) - 1)
         IN  /\ below \in 1 .. d
             /\ IsEdge(states[below], Goto(states[below], RuleLhs(r)))
             /\ AccessingSymbol(Goto(states[below], RuleLhs(r))) = RuleLhs(r)
<1> DEFINE below == d - (RuleLength(r) - 1)
           After(p) == /\ IsEdge(p, Goto(p, RuleLhs(r)))
                       /\ AccessingSymbol(Goto(p, RuleLhs(r))) = RuleLhs(r)
<1> SUFFICES below \in 1 .. d /\ After(states[below])
  BY Zenon
<1>1. r \in Rules /\ RuleLength(r) \in 1 .. 3
  BY ReducingRule, Zenon
<1>2. /\ states[1] = 0
      /\ \A i \in 2 .. k : IsEdge(states[i - 1], states[i])
  BY Zenon DEF IsPathOf
<1>3. ASSUME NEW i \in 1 .. d, states[i] # 0
      PROVE  /\ i >= 2 /\ i - 1 \in 1 .. d
             /\ IsEdge(states[i - 1], states[i])
             /\ states[i - 1] \in States
  <2>1. i # 1
    BY <1>2, <1>3
  <2>2. i \in 2 .. k /\ i >= 2 /\ i - 1 \in 1 .. d
    BY <2>1, SMT
  <2>3. IsEdge(states[i - 1], states[i])
    BY <1>2, <2>2, Zenon
  <2> QED
    BY <2>2, <2>3, EdgeStates, Zenon
<1>4. states[d] \in States /\ s \in States
  BY EdgeStates
<1>5. d \in 1 .. d
  BY SMT
<1>6. CASE RuleLength(r) = 1
  <2>1. IsHandle(<< AccessingSymbol(s) >>, states[d], r)
    BY <1>4, <1>6, TablesAreConsistent, Zenon DEF LrConsistent, ReductionsConsistent
  <2>2. below = d
    BY <1>6, SMT
  <2> HIDE DEF below
  <2> QED
    BY <2>1, <2>2, <1>5, Zenon DEF IsHandle
<1>7. CASE RuleLength(r) = 2
  <2>1. states[d] # 0
    BY <1>4, <1>7, TablesAreConsistent, Zenon DEF LrConsistent, ReductionsConsistent
  <2>2. d >= 2 /\ IsEdge(states[d - 1], states[d]) /\ states[d - 1] \in States
        /\ d - 1 \in 1 .. d
    BY <2>1, <1>3, <1>5, Zenon
  <2>3. IsHandle(<< AccessingSymbol(states[d]), AccessingSymbol(s) >>,
                 states[d - 1], r)
    BY <2>2, <1>4, <1>7, TablesAreConsistent, Zenon DEF LrConsistent, ReductionsConsistent
  <2>4. below = d - 1
    BY <1>7, SMT
  <2> HIDE DEF below
  <2> QED
    BY <2>2, <2>3, <2>4, Zenon DEF IsHandle
<1>8. CASE RuleLength(r) = 3
  <2>1. states[d] # 0
    BY <1>4, <1>8, TablesAreConsistent, Zenon DEF LrConsistent, ReductionsConsistent
  <2>2. d >= 2 /\ IsEdge(states[d - 1], states[d]) /\ states[d - 1] \in States
        /\ d - 1 \in 1 .. d
    BY <2>1, <1>3, <1>5, Zenon
  <2>3. states[d - 1] # 0
    BY <2>2, <1>4, <1>8, TablesAreConsistent, Zenon DEF LrConsistent, ReductionsConsistent
  <2>4. (d - 1) - 1 \in 1 .. d /\ IsEdge(states[(d - 1) - 1], states[d - 1])
        /\ states[(d - 1) - 1] \in States
    BY <2>2, <2>3, <1>3, Zenon
  <2>5. IsHandle(<< AccessingSymbol(states[d - 1]), AccessingSymbol(states[d]),
                    AccessingSymbol(s) >>, states[(d - 1) - 1], r)
    BY <2>2, <2>4, <1>4, <1>8, TablesAreConsistent, Zenon
       DEF LrConsistent, ReductionsConsistent
  <2>6. below = (d - 1) - 1
    BY <1>8, SMT
  <2> HIDE DEF below
  <2> QED
    BY <2>4, <2>5, <2>6, Zenon DEF IsHandle
<1>9. RuleLength(r) \in {1, 2, 3}
  BY <1>1, SMT
<1> QED
  BY <1>6, <1>7, <1>8, <1>9, Zenon

LEMMA LeastNumber ==
  ASSUME NEW T, T \subseteq Nat, T # {}
  PROVE  \E least \in T : \A n \in T : least <= n
<1>1. IsWellFoundedOn(OpToRel(<, Nat), Nat)
  BY NatLessThanWellFounded, Zenon
<1>2. PICK least \in T : \A n \in T : << n, least >> \notin OpToRel(<, Nat)
  BY <1>1, WFMin, Zenon
<1>3. \A n \in T : ~ (n < least)
  BY <1>2 DEF OpToRel
<1>4. least \in Nat /\ \A n \in T : n \in Nat
  OBVIOUS
<1>5. \A n \in T : least <= n
  BY <1>3, <1>4, SMT
<1> QED
  BY <1>5

\* A default reduction comes closer to its end: it takes states off the
\* stack, or it climbs a chain of unit rules.
LacMeasure(d, s) == d * (YYNTOKENS + 1) + Rank(AccessingSymbol(s))

LEMMA RankType ==
  ASSUME NEW symbol \in Terminals \cup Nonterminals
  PROVE  Rank(symbol) \in 0 .. YYNTOKENS
  BY SMT DEF Rank, Terminals, Nonterminals, YYNTOKENS, N_identifier, N_signed_number

LEMMA SymbolType ==
  ASSUME NEW s \in States
  PROVE  AccessingSymbol(s) \in Terminals \cup Nonterminals
  BY TablesAreConsistent DEF LrConsistent, EntriesInRange

LEMMA NonterminalState ==
  ASSUME NEW s, AccessingSymbol(s) \in Nonterminals
  PROVE  s # YYFINAL
<1>1. AccessingSymbol(YYFINAL) = YYEOF
  BY TablesAreConsistent DEF LrConsistent, FinalStateIsAcceptance
<1>2. YYEOF \notin Nonterminals
  BY DEF Nonterminals, YYEOF, YYNTOKENS, N_identifier
<1> QED
  BY <1>1, <1>2


\* Two stacks that agree on the d lowest states answer alike.
LEMMA LacAgrees ==
  ASSUME NEW x, NEW k \in Nat, NEW a, NEW b,
         IsPathOf(a, k), \A i \in 1 .. k : a[i] = b[i],
         NEW f, IsLac(f, a, x), NEW g, IsLac(g, b, x)
  PROVE  \A d \in 1 .. k : \A s \in States :
           IsEdge(a[d], s) /\ s # YYFINAL => f[<< d, s >>] = g[<< d, s >>]
<1> DEFINE Differ(d, s) == /\ IsEdge(a[d], s) /\ s # YYFINAL
                           /\ f[<< d, s >>] # g[<< d, s >>]
           T == {m \in Nat : \E d \in 1 .. k, s \in States :
                               Differ(d, s) /\ m = LacMeasure(d, s)}
<1>1. ASSUME NEW d \in 1 .. k, NEW s \in States
      PROVE  LacMeasure(d, s) \in Nat
  <2>1. Rank(AccessingSymbol(s)) \in 0 .. YYNTOKENS
    BY SymbolType, RankType
  <2> QED
    BY <2>1, SMT DEF LacMeasure, YYNTOKENS
<1> SUFFICES ASSUME T # {}
             PROVE  FALSE
  <2> SUFFICES ASSUME NEW d \in 1 .. k, NEW s \in States, Differ(d, s)
               PROVE  T # {}
    BY Zenon
  <2>1. LacMeasure(d, s) \in T
    BY <1>1
  <2> QED
    BY <2>1
<1>2. PICK m \in T : \A n \in T : m <= n
  <2>1. T \subseteq Nat
    OBVIOUS
  <2> HIDE DEF T
  <2> QED
    BY <2>1, LeastNumber
<1>3. PICK d \in 1 .. k, s \in States : Differ(d, s) /\ m = LacMeasure(d, s)
  BY Zenon
<1>4. /\ IsEdge(a[d], s) /\ s # YYFINAL /\ f[<< d, s >>] # g[<< d, s >>]
      /\ d \in Int
  BY <1>3, SMT
<1> DEFINE r == DefaultReduction(s)
           below == d - (RuleLength(r) - 1)
           to == Goto(a[below], RuleLhs(r))
<1>5. ~ HasTableAction(s, x) /\ r # 0
  <2> HIDE DEF T, Differ
  <2>1. /\ HasTableAction(s, x) => f[<< d, s >>] = LacPasses
        /\ ~ HasTableAction(s, x) /\ DefaultReduction(s) = 0 => f[<< d, s >>] = LacRefuses
    BY <1>4, LacUnfolds
  <2>2. /\ HasTableAction(s, x) => g[<< d, s >>] = LacPasses
        /\ ~ HasTableAction(s, x) /\ DefaultReduction(s) = 0 => g[<< d, s >>] = LacRefuses
    BY <1>4, LacUnfolds
  <2> QED
    BY <1>4, <2>1, <2>2, Zenon
<1>6. s \in ReducingStates
  BY <1>4, <1>5, Zenon DEF ReducingStates
<1>7. /\ RuleLength(r) \in 1 .. 3 /\ RuleLhs(r) \in Nonterminals
  BY <1>6, ReducingRule, Zenon
<1>8. /\ below \in 1 .. d /\ IsEdge(a[below], to)
      /\ AccessingSymbol(to) = RuleLhs(r)
  BY <1>4, <1>6, HandleAt
<1> HIDE DEF T, Differ, below, to, r
<1>9. below \in 1 .. k /\ d \in 1 .. k
  BY <1>8, SMT
<1>10. to \in States /\ to # YYFINAL
  BY <1>7, <1>8, EdgeStates, NonterminalState, Zenon
<1>11. /\ LacNext(a, d, s) = << below, to >>
       /\ LacNext(b, d, s) = << below, to >>
  <2>1. a[below] = b[below]
    BY <1>9
  <2> QED
    BY <2>1, Zenon DEF LacNext, below, to, r
<1>12. f[<< d, s >>] = f[<< below, to >>] /\ g[<< d, s >>] = g[<< below, to >>]
  <2>1. f[<< d, s >>] = f[LacNext(a, d, s)]
    BY <1>4, <1>5, LacUnfolds DEF r
  <2>2. g[<< d, s >>] = g[LacNext(b, d, s)]
    BY <1>4, <1>5, LacUnfolds DEF r
  <2> QED
    BY <2>1, <2>2, <1>11, Zenon
<1>13. LacMeasure(below, to) \in T
  <2>1. Differ(below, to)
    BY <1>4, <1>8, <1>10, <1>12, Zenon DEF Differ
  <2>2. LacMeasure(below, to) \in Nat
    BY <1>1, <1>9, <1>10, Zenon
  <2> QED
    BY <2>1, <2>2, <1>9, <1>10, Zenon DEF T
<1>14. LacMeasure(below, to) < LacMeasure(d, s)
  <2>1. /\ Rank(AccessingSymbol(s)) \in 0 .. YYNTOKENS
        /\ Rank(RuleLhs(r)) \in 0 .. YYNTOKENS
    BY <1>7, SymbolType, RankType
  <2>2. CASE RuleLength(r) = 1
    <3>1. Rank(RuleLhs(r)) < Rank(AccessingSymbol(s))
      BY <1>6, <2>2, TablesAreConsistent, Zenon DEF LrConsistent, UnitRulesClimb, r
    <3>2. below = d
      BY <1>4, <2>2, SMT DEF below
    <3> QED
      BY <1>4, <1>8, <2>1, <3>1, <3>2, SMT DEF LacMeasure, YYNTOKENS
  <2>3. CASE RuleLength(r) # 1
    <3>1. below <= d - 1 /\ below \in Int
      BY <1>4, <1>7, <2>3, SMT DEF below
    <3> QED
      BY <1>4, <1>8, <2>1, <3>1, SMT DEF LacMeasure, YYNTOKENS
  <2> QED
    BY <2>2, <2>3, Zenon
<1>15. LacMeasure(d, s) <= LacMeasure(below, to)
  BY <1>2, <1>3, <1>13, Zenon
<1>16. LacMeasure(d, s) \in Nat /\ LacMeasure(below, to) \in Nat
  BY <1>1, <1>9, <1>10
<1> QED
  BY <1>14, <1>15, <1>16, SMT


StatesOf(list) == [i \in DOMAIN list |-> list[i].state]

LEMMA StatesOfList ==
  ASSUME NEW list \in Seq(Entry)
  PROVE  /\ Len(StatesOf(list)) = Len(list)
         /\ \A i \in 1 .. Len(list) : StatesOf(list)[i] = list[i].state
<1>1. DOMAIN list = 1 .. Len(list) /\ Len(list) \in Nat
  OBVIOUS
<1> QED
  BY <1>1 DEF StatesOf

LEMMA StateStackPath ==
  ASSUME ParserInvariant
  PROVE  /\ StateStack = StatesOf(stack) /\ stack \in Seq(Entry)
         /\ Len(stack) \in Nat /\ Len(stack) >= 1 /\ Len(StateStack) = Len(stack)
         /\ \A i \in 1 .. Len(stack) : StateStack[i] = stack[i].state
         /\ IsPathOf(StateStack, Len(stack))
         /\ StateStack[Len(stack)] = yystate /\ yystate \in States
<1>1. /\ stack \in Seq(Entry) /\ stack # << >> /\ StackIsPath
      /\ yystate \in States /\ yystate = stack[Len(stack)].state
  BY YystateType DEF ParserInvariant, TypeOK
<1>2. Len(stack) \in Nat /\ Len(stack) >= 1
  BY <1>1
<1>3. StateStack = StatesOf(stack)
  BY Zenon DEF StateStack, StatesOf
<1>4. /\ Len(StateStack) = Len(stack)
      /\ \A i \in 1 .. Len(stack) : StateStack[i] = stack[i].state
  BY <1>1, <1>3, StatesOfList
<1>5. /\ 1 \in 1 .. Len(stack) /\ Len(stack) \in 1 .. Len(stack)
      /\ \A i \in 2 .. Len(stack) : i \in 1 .. Len(stack) /\ i - 1 \in 1 .. Len(stack)
  BY <1>2, SMT
<1>6. IsPathOf(StateStack, Len(stack))
  BY <1>1, <1>4, <1>5, Zenon DEF IsPathOf, StackIsPath
<1> QED
  BY <1>1, <1>2, <1>3, <1>4, <1>5, <1>6, Zenon

\* The check on the state of the moment.
LEMMA LacNow ==
  ASSUME ParserInvariant, NEW x, x # YYUNDEF
  PROVE  /\ HasTableAction(yystate, x) => LacAccepts(StateStack, x)
         /\ ~ HasTableAction(yystate, x) /\ DefaultReduction(yystate) = 0 =>
              ~ LacAccepts(StateStack, x)
<1>1. PICK lac : /\ IsLac(lac, StateStack, x)
                 /\ LacAccepts(StateStack, x) <=>
                      x # YYUNDEF
                        /\ lac[<< Len(StateStack) - 1, StateStack[Len(StateStack)] >>]
  BY LacFunction, Zenon
<1>2. /\ Len(StateStack) = Len(stack) /\ StateStack[Len(StateStack)] = yystate
      /\ yystate \in States /\ Len(stack) \in Nat
  BY StateStackPath, Zenon
<1>3. Len(stack) - 1 \in Int
  BY <1>2, SMT
<1>4. LacAccepts(StateStack, x) <=> lac[<< Len(stack) - 1, yystate >>]
  BY <1>1, <1>2, Zenon
<1>5. /\ HasTableAction(yystate, x) => lac[<< Len(stack) - 1, yystate >>] = LacPasses
      /\ ~ HasTableAction(yystate, x) /\ DefaultReduction(yystate) = 0 =>
           lac[<< Len(stack) - 1, yystate >>] = LacRefuses
  <2> DEFINE a == StateStack
             s == yystate
             d == Len(stack) - 1
  <2>1. IsLac(lac, a, x) /\ d \in Int /\ s \in States
    BY <1>1, <1>2, <1>3, Zenon
  <2> HIDE DEF a, s, d
  <2>2. /\ HasTableAction(s, x) => lac[<< d, s >>] = LacPasses
        /\ ~ HasTableAction(s, x) /\ DefaultReduction(s) = 0 =>
             lac[<< d, s >>] = LacRefuses
    BY <2>1, LacUnfolds
  <2> QED
    BY <2>2 DEF s, d
<1> QED
  BY <1>4, <1>5, Zenon DEF LacPasses, LacRefuses

\* A lookahead that passes the check passes it again on the stack a
\* default reduction leaves.
LEMMA LacAfterReduction ==
  ASSUME ParserInvariant, yystate \in ReducingStates,
         NEW r, r = DefaultReduction(yystate), Reduce(r),
         NEW x, ~ HasTableAction(yystate, x), LacAccepts(StateStack, x)
  PROVE  LacAccepts(StateStack', x)
<1>1. PICK entry \in Entry, newStack \in Seq(Entry),
           below \in 1 .. Len(stack) - 1 :
        /\ below = Len(stack) - RuleLength(r)
        /\ Len(newStack) = below + 1
        /\ \A i \in 1 .. below : newStack[i] = stack[i]
        /\ newStack[below + 1] = entry
        /\ EnterState(newStack)
        /\ entry.state = StateAfter(r)
  BY ReduceReplacesHandle
<1> DEFINE a == StateStack
           b == StatesOf(newStack)
           to == StateAfter(r)
<1>2. StateStack' = b
  <2>1. stack' = newStack
    BY <1>1 DEF EnterState
  <2> QED
    BY <2>1, Zenon DEF StateStack, StatesOf
<1>3. /\ Len(a) = Len(stack) /\ IsPathOf(a, Len(stack)) /\ Len(stack) \in Nat
      /\ \A i \in 1 .. Len(stack) : a[i] = stack[i].state
      /\ a[Len(a)] = yystate /\ yystate \in States
      /\ stack \in Seq(Entry) /\ stack # << >>
  BY StateStackPath
<1>4. /\ IsEdge(stack[below].state, to) /\ to \in States
      /\ AccessingSymbol(to) = RuleLhs(r)
      /\ RuleLhs(r) \in Nonterminals /\ RuleLength(r) \in 1 .. 3 /\ r # 0
  BY <1>1, <1>3, HandleOnStack, ReducingRule DEF ParserInvariant, ReducingStates
<1>5. /\ below \in Nat /\ below + 1 \in Nat
      /\ below \in 1 .. below /\ below \in 1 .. Len(stack)
      /\ (below + 1) - 1 = below
      /\ (Len(stack) - 1) - (RuleLength(r) - 1) = below
      /\ Len(stack) - 1 \in Int
      /\ \A i \in 1 .. below : i \in 1 .. Len(stack) /\ i \in 1 .. Len(newStack)
      /\ \A i \in 2 .. below : i \in 2 .. Len(stack)
      /\ below + 1 \in 1 .. Len(newStack)
  BY <1>1, <1>3, <1>4, SMT
<1>6. /\ Len(b) = below + 1 /\ \A i \in 1 .. below : a[i] = b[i]
      /\ b[below + 1] = to
  <2>1. /\ Len(b) = Len(newStack)
        /\ \A i \in 1 .. Len(newStack) : b[i] = newStack[i].state
    BY StatesOfList
  <2> HIDE DEF a, b, to
  <2>2. b[below + 1] = newStack[below + 1].state /\ Len(b) = below + 1
    BY <2>1, <1>1, <1>5, Zenon
  <2>3. \A i \in 1 .. below : a[i] = b[i]
    BY <2>1, <1>1, <1>3, <1>5, Zenon
  <2> QED
    BY <2>2, <2>3, <1>1, Zenon DEF to
<1>7. IsPathOf(a, below)
  BY <1>3, <1>5, Zenon DEF IsPathOf
<1>8. PICK f : /\ IsLac(f, a, x)
               /\ LacAccepts(a, x) <=> x # YYUNDEF /\ f[<< Len(a) - 1, a[Len(a)] >>]
  BY LacFunction, Zenon
<1>9. PICK g : /\ IsLac(g, b, x)
               /\ LacAccepts(b, x) <=> x # YYUNDEF /\ g[<< Len(b) - 1, b[Len(b)] >>]
  BY LacFunction, Zenon
<1>10. LacNext(a, Len(stack) - 1, yystate) = << below, to >>
  <2>1. a[below] = stack[below].state
    BY <1>3, <1>5, Zenon
  <2> QED
    BY <2>1, <1>1, <1>5, Zenon DEF LacNext, StateAfter
<1>11. to # YYFINAL
  BY <1>4, NonterminalState, Zenon
<1>12. IsEdge(a[below], to)
  BY <1>3, <1>4, <1>5, Zenon
<1> HIDE DEF a, b, to
<1>13. f[<< below, to >>] = g[<< below, to >>]
  <2>0. /\ IsLac(f, a, x) /\ IsLac(g, b, x) /\ below \in Nat /\ IsPathOf(a, below)
        /\ \A i \in 1 .. below : a[i] = b[i]
    BY <1>5, <1>6, <1>7, <1>8, <1>9, Zenon
  <2>1. \A d \in 1 .. below : \A s \in States :
          IsEdge(a[d], s) /\ s # YYFINAL => f[<< d, s >>] = g[<< d, s >>]
    BY <2>0, LacAgrees
  <2> QED
    BY <2>1, <1>4, <1>5, <1>11, <1>12, Zenon
<1>14. f[<< Len(stack) - 1, yystate >>] = f[LacNext(a, Len(stack) - 1, yystate)]
  BY <1>3, <1>4, <1>5, <1>8, LacUnfolds
<1>15. x # YYUNDEF /\ f[<< Len(stack) - 1, yystate >>]
  BY <1>3, <1>8, Zenon DEF a
<1>16. g[<< Len(b) - 1, b[Len(b)] >>]
  <2>1. f[<< Len(stack) - 1, yystate >>] = g[<< below, to >>]
    BY <1>10, <1>13, <1>14, Zenon
  <2>2. Len(b) - 1 = below /\ b[Len(b)] = to
    BY <1>5, <1>6, Zenon
  <2> QED
    BY <2>1, <2>2, <1>15, Zenon
<1> QED
  BY <1>2, <1>9, <1>15, <1>16, Zenon


(***************************************************************************)
(* A lookahead that passed is still there, and passes again: the check is  *)
(* not repeated because repeating it would change nothing.                 *)
(***************************************************************************)
LacEstablished ==
  yy_lac_established /\ phase = "parsing" =>
    yytoken \in Terminals /\ LacAccepts(StateStack, yytoken)

LEMMA LookaheadDefined ==
  ASSUME NEW states, NEW x, LacAccepts(states, x)
  PROVE  x # YYUNDEF
<1>1. PICK lac : LacAccepts(states, x) <=>
                   x # YYUNDEF /\ lac[<< Len(states) - 1, states[Len(states)] >>]
  BY LacFunction, Zenon
<1> QED
  BY <1>1, Zenon

LEMMA ReduceKeepsLac ==
  ASSUME ParserInvariant, LacEstablished, ReduceWithoutToken \/ ReduceOnToken
  PROVE  LacEstablished'
<1> SUFFICES ASSUME yy_lac_established', phase' = "parsing"
             PROVE  yytoken' \in Terminals /\ LacAccepts(StateStack', yytoken')
  BY Zenon DEF LacEstablished
<1> DEFINE r == DefaultReduction(yystate)
<1>1. /\ phase = "parsing" /\ yytoken' = yytoken /\ Reduce(r)
  BY Zenon DEF ReduceWithoutToken, ReduceOnToken, NoTableAction
<1>2. yystate \in ReducingStates
  BY ReductionStates, Zenon
<1>3. yytoken \in Terminals /\ LacAccepts(StateStack, yytoken)
  <2>1. CASE yy_lac_established
    BY <1>1, <2>1, Zenon DEF LacEstablished
  <2>2. CASE ~ yy_lac_established
    <3>1. ReduceOnToken
      BY <2>2, Zenon DEF ReduceWithoutToken
    <3>2. yytoken # YYEMPTY /\ LacAccepts(StateStack, yytoken)
      BY <2>2, <3>1, Zenon DEF ReduceOnToken, NoTableAction, LookaheadPasses
    <3> QED
      BY <3>2, Zenon DEF ParserInvariant, TypeOK
  <2> QED
    BY <2>1, <2>2, Zenon
<1>4. ~ HasTableAction(yystate, yytoken)
  BY Zenon DEF ReduceWithoutToken, ReduceOnToken, NoTableAction, HasTableAction
<1> HIDE DEF r
<1>5. LacAccepts(StateStack', yytoken)
  BY <1>1, <1>2, <1>3, <1>4, LacAfterReduction, Zenon DEF r
<1> QED
  BY <1>1, <1>3, <1>5, Zenon

LEMMA NextKeepsLac ==
  ASSUME ParserInvariant, LacEstablished, [Next]_vars
  PROVE  LacEstablished'
<1>1. CASE UNCHANGED vars
  BY <1>1 DEF vars, LacEstablished, StateStack
<1>2. CASE ReduceWithoutToken \/ ReduceOnToken
  BY <1>2, ReduceKeepsLac
<1>3. CASE Yylex
  <2>1. /\ yytoken = YYEMPTY /\ phase = "parsing"
        /\ yy_lac_established' = yy_lac_established
    BY <1>3 DEF Yylex, ReadToken, ReadOverLimit, ReadEnd, NeedsToken
  <2>2. YYEMPTY \notin Terminals
    BY DEF YYEMPTY, Terminals, YYNTOKENS
  <2> QED
    BY <2>1, <2>2, Zenon DEF LacEstablished
<1>4. CASE Shift
  <2>1. yy_lac_established' = FALSE
    BY <1>4 DEF Shift
  <2> QED
    BY <2>1 DEF LacEstablished
<1>5. CASE SyntaxError \/ Unwind \/ Abort
  <2>1. phase' # "parsing"
    BY <1>5 DEF SyntaxError, Unwind, Abort
  <2> QED
    BY <2>1 DEF LacEstablished
<1> QED
  BY <1>1, <1>2, <1>3, <1>4, <1>5 DEF Next, Step, Stopped

LEMMA LacIsKept == Spec => []LacEstablished
<1>1. Init => LacEstablished
  BY DEF Init, LacEstablished
<1>2. ParserInvariant /\ LacEstablished /\ [Next]_vars => LacEstablished'
  BY NextKeepsLac
<1> QED
  BY <1>1, <1>2, ParserIsSafe, PTL DEF Spec

\* Once a lookahead has passed the exploratory check the parser shifts it,
\* whatever default reductions come before: no semantic action runs on
\* behalf of a token that is refused in the end.
THEOREM LookaheadCommitted == Spec => LookaheadCommitment
<1> DEFINE Committed == yy_lac_established /\ phase = "parsing" => phase' # "recovering"
<1>1. ParserInvariant /\ LacEstablished /\ [Next]_vars => [Committed]_vars
  <2> SUFFICES ASSUME ParserInvariant, LacEstablished, [Next]_vars,
                      yy_lac_established, phase = "parsing", phase' = "recovering"
               PROVE  FALSE
    BY Zenon
  <2>1. yytoken \in Terminals /\ LacAccepts(StateStack, yytoken)
    BY Zenon DEF LacEstablished
  <2>2. SyntaxError \/ \E type \in TokenKinds : \E loc \in TokenLocations(type) :
                         ReadOverLimit(type, loc)
    <3>1. "recovering" \notin {"parsing", "accepted", "aborted", "exhausted"}
      OBVIOUS
    <3>2. ASSUME NEW newStack, EnterState(newStack) PROVE FALSE
      BY <3>1, <3>2 DEF EnterState, PhaseAfter
    <3> QED
      BY <3>2 DEF Next, Step, Stopped, vars, Yylex, ReadToken, ReadEnd, Shift,
         ReduceWithoutToken, ReduceOnToken, Reduce, Unwind, Abort
  <2>3. YYEMPTY \notin Terminals
    BY DEF YYEMPTY, Terminals, YYNTOKENS
  <2>4. SyntaxError
    BY <2>1, <2>2, <2>3, Zenon DEF ReadOverLimit, NeedsToken
  <2>5. /\ ~ HasTableAction(yystate, yytoken)
        /\ DefaultReduction(yystate) = 0
    BY <2>4, Zenon DEF SyntaxError, NoTableAction, LookaheadPasses
  <2>6. yytoken # YYUNDEF
    BY <2>1, LookaheadDefined, Zenon
  <2> QED
    BY <2>1, <2>5, <2>6, LacNow, Zenon
<1>2. LookaheadCommitment <=> [][Committed]_vars
  BY DEF LookaheadCommitment
<1> HIDE DEF Committed
<1> QED
  BY <1>1, <1>2, ParserIsSafe, LacIsKept, PTL DEF Spec

(***************************************************************************)
(* What a syntax error says.                                               *)
(***************************************************************************)
LEMMA SyntaxErrorNamesToken ==
  ASSUME ParserInvariant, OutcomeInvariant, SyntaxError
  PROVE  ErrorNamesLastToken'
<1>1. /\ phase = "parsing" /\ yytoken # YYEMPTY /\ ~ IsConsistent(yystate)
      /\ ~ HasTableAction(yystate, yytoken)
      /\ ~ LacAccepts(StateStack, yytoken) \/ DefaultReduction(yystate) = 0
      /\ tokens' = tokens
      /\ error' = SetSyntaxError(error, yylloc, yytoken, ExpectedTokens(StateStack))
  BY Zenon DEF SyntaxError, NoTableAction, LookaheadPasses, ErrorLocation
<1>2. ~ HasError(error)
  BY <1>1, Zenon DEF OutcomeInvariant, OutcomeExplained
<1>3. error' = [message |-> "syntax_error", location |-> yylloc,
                unexpected |-> yytoken, expected |-> ExpectedTokens(StateStack)]
  BY <1>1, <1>2, Zenon DEF SetSyntaxError
<1>4. /\ tokens # << >> /\ tokens[Len(tokens)].type = yytoken
      /\ yylloc = tokens[Len(tokens)].location
  BY <1>1, Zenon DEF ParserInvariant, LookaheadRead, yylloc
<1>5. yytoken \notin ExpectedTokens(StateStack)
  <2> SUFFICES ASSUME yytoken # YYUNDEF
               PROVE  ~ LacAccepts(StateStack, yytoken)
    BY Zenon DEF ExpectedTokens
  <2> QED
    BY <1>1, LacNow, Zenon
<1>6. ExpectedTokens(StateStack) # {}
  <2>1. yystate \in States
    BY StateStackPath, Zenon
  <2>2. PICK x \in Terminals \ {YYerror, YYUNDEF} : HasTableAction(yystate, x)
    BY <1>1, <2>1, TablesAreConsistent, Zenon DEF LrConsistent, SomethingExpected
  <2>3. x # YYUNDEF
    BY <2>2, Zenon
  <2>4. LacAccepts(StateStack, x)
    BY <2>2, <2>3, LacNow, Zenon
  <2>5. x \in ExpectedTokens(StateStack)
    BY <2>2, <2>4, Zenon DEF ExpectedTokens
  <2> QED
    BY <2>5, Zenon
<1> DEFINE expected == ExpectedTokens(StateStack)
<1> HIDE DEF expected
<1>7. /\ error'.message = "syntax_error" /\ error'.location = yylloc
      /\ error'.unexpected = yytoken /\ error'.expected = expected
  BY <1>3 DEF expected
<1> QED
  BY <1>1, <1>4, <1>5, <1>6, <1>7, Zenon DEF ErrorNamesLastToken, expected

LEMMA NextNamesToken ==
  ASSUME ParserInvariant, OutcomeInvariant, ErrorNamesLastToken, [Next]_vars
  PROVE  ErrorNamesLastToken'
<1>1. CASE SyntaxError
  BY <1>1, SyntaxErrorNamesToken
<1>2. CASE UNCHANGED << error, tokens >>
  BY <1>2 DEF ErrorNamesLastToken
<1>3. CASE phase = "parsing" /\ error'.message # "syntax_error"
  BY <1>3 DEF ErrorNamesLastToken
<1>4. phase = "parsing" => error.message # "syntax_error"
  <2>1. "syntax_error" # "none"
    OBVIOUS
  <2> QED
    BY <2>1, Zenon DEF OutcomeInvariant, OutcomeExplained, HasError
<1>5. ASSUME NEW newStack, EnterState(newStack), phase = "parsing"
      PROVE  error'.message # "syntax_error"
  <2>1. error' = error \/ error' = SetError(error, yylloc, "memory_exhausted")
    BY <1>5 DEF EnterState
  <2>2. SetError(error, yylloc, "memory_exhausted").message # "syntax_error"
    BY <1>4, <1>5 DEF SetError
  <2> QED
    BY <1>4, <1>5, <2>1, <2>2, Zenon
<1>6. CASE Yylex
  <2>1. phase = "parsing" /\ error' = error
    BY <1>6 DEF Yylex, ReadToken, ReadOverLimit, ReadEnd, NeedsToken
  <2> QED
    BY <1>3, <1>4, <2>1, Zenon
<1>7. CASE Shift \/ ReduceWithoutToken \/ ReduceOnToken
  <2>1. phase = "parsing" /\ \E newStack : EnterState(newStack)
    BY <1>7, Zenon DEF Shift, ReduceWithoutToken, ReduceOnToken, NoTableAction, Reduce
  <2> QED
    BY <1>3, <1>5, <2>1, Zenon
<1>8. CASE Unwind \/ Abort \/ UNCHANGED vars
  BY <1>2, <1>8 DEF Unwind, Abort, vars
<1> QED
  BY <1>1, <1>6, <1>7, <1>8 DEF Next, Step, Stopped

\* A syntax error is about the token read last, stands at its place, and
\* says of some other tokens, never of this one, that they were expected:
\* for every input, although default reductions have merged lookaheads.
THEOREM ErrorNamed == Spec => []ErrorNamesLastToken
<1>1. Init => ErrorNamesLastToken
  BY DEF Init, ErrorNamesLastToken, NoError
<1>2. ParserInvariant /\ OutcomeInvariant /\ ErrorNamesLastToken /\ [Next]_vars
        => ErrorNamesLastToken'
  BY NextNamesToken
<1> QED
  BY <1>1, <1>2, ParserIsSafe, OutcomeIsSafe, PTL DEF Spec

(***************************************************************************)
(* The language.  What LAC accepts on a path of states is what is viable   *)
(* in the state on top, given whether a parenthesis is open below.         *)
(***************************************************************************)
\* The states below the top one that a default reduction pops.
LEMMA PoppedAt ==
  ASSUME NEW states, NEW k \in Nat, IsPathOf(states, k), NEW d \in 1 .. k,
         NEW s \in ReducingStates, IsEdge(states[d], s),
         NEW r, r = DefaultReduction(s)
  PROVE  /\ AccessingSymbol(s) = RuleRhs[r][RuleLength(r)]
         /\ \A i \in d - (RuleLength(r) - 1) + 1 .. d :
              \E n \in 1 .. RuleLength(r) : AccessingSymbol(states[i]) = RuleRhs[r][n]
<1> DEFINE below == d - (RuleLength(r) - 1)
<1>1. r \in Rules /\ RuleLength(r) \in 1 .. 3
  BY ReducingRule, Zenon
<1>2. /\ states[1] = 0
      /\ \A i \in 2 .. k : IsEdge(states[i - 1], states[i])
  BY Zenon DEF IsPathOf
<1>3. ASSUME states[d] # 0
      PROVE  /\ d >= 2 /\ IsEdge(states[d - 1], states[d])
             /\ states[d - 1] \in States
  <2>1. d # 1
    BY <1>2, <1>3
  <2>2. d \in 2 .. k /\ d >= 2
    BY <2>1, SMT
  <2>3. IsEdge(states[d - 1], states[d])
    BY <1>2, <2>2, Zenon
  <2> QED
    BY <2>2, <2>3, EdgeStates, Zenon
<1>4. states[d] \in States /\ s \in States
  BY EdgeStates
<1>6. CASE RuleLength(r) = 1
  <2>1. IsHandle(<< AccessingSymbol(s) >>, states[d], r)
    BY <1>4, <1>6, TablesAreConsistent, Zenon DEF LrConsistent, ReductionsConsistent
  <2>2. RuleRhs[r] = << AccessingSymbol(s) >>
    BY <2>1, Zenon DEF IsHandle
  <2>3. RuleRhs[r][1] = AccessingSymbol(s)
    BY <2>2
  <2>4. d - (RuleLength(r) - 1) + 1 .. d = {}
    BY <1>6, SMT
  <2> QED
    BY <1>6, <2>3, <2>4, Zenon
<1>7. CASE RuleLength(r) = 2
  <2>1. states[d] # 0
    BY <1>4, <1>7, TablesAreConsistent, Zenon DEF LrConsistent, ReductionsConsistent
  <2>2. d >= 2 /\ IsEdge(states[d - 1], states[d]) /\ states[d - 1] \in States
    BY <2>1, <1>3, Zenon
  <2>3. IsHandle(<< AccessingSymbol(states[d]), AccessingSymbol(s) >>,
                 states[d - 1], r)
    BY <2>2, <1>4, <1>7, TablesAreConsistent, Zenon DEF LrConsistent, ReductionsConsistent
  <2>4. RuleRhs[r] = << AccessingSymbol(states[d]), AccessingSymbol(s) >>
    BY <2>3, Zenon DEF IsHandle
  <2>5. RuleRhs[r][1] = AccessingSymbol(states[d]) /\ RuleRhs[r][2] = AccessingSymbol(s)
    BY <2>4
  <2>6. /\ \A i \in d - (RuleLength(r) - 1) + 1 .. d : i = d
        /\ 1 \in 1 .. RuleLength(r)
    BY <1>7, SMT
  <2> QED
    BY <1>7, <2>5, <2>6, Zenon
<1>8. CASE RuleLength(r) = 3
  <2>1. states[d] # 0
    BY <1>4, <1>8, TablesAreConsistent, Zenon DEF LrConsistent, ReductionsConsistent
  <2>2. d >= 2 /\ IsEdge(states[d - 1], states[d]) /\ states[d - 1] \in States
    BY <2>1, <1>3, Zenon
  <2>3. states[d - 1] # 0
    BY <2>2, <1>4, <1>8, TablesAreConsistent, Zenon DEF LrConsistent, ReductionsConsistent
  <2>4. IsEdge(states[(d - 1) - 1], states[d - 1]) /\ states[(d - 1) - 1] \in States
    <3>1. d - 1 # 1
      BY <1>2, <2>3
    <3>2. d - 1 \in 2 .. k
      BY <2>2, <3>1, SMT
    <3> QED
      BY <1>2, <3>2, EdgeStates, Zenon
  <2>5. IsHandle(<< AccessingSymbol(states[d - 1]), AccessingSymbol(states[d]),
                    AccessingSymbol(s) >>, states[(d - 1) - 1], r)
    BY <2>2, <2>4, <1>4, <1>8, TablesAreConsistent, Zenon
       DEF LrConsistent, ReductionsConsistent
  <2>6. RuleRhs[r] = << AccessingSymbol(states[d - 1]), AccessingSymbol(states[d]),
                        AccessingSymbol(s) >>
    BY <2>5, Zenon DEF IsHandle
  <2>7. /\ RuleRhs[r][1] = AccessingSymbol(states[d - 1])
        /\ RuleRhs[r][2] = AccessingSymbol(states[d])
        /\ RuleRhs[r][3] = AccessingSymbol(s)
    BY <2>6
  <2>8. /\ \A i \in d - (RuleLength(r) - 1) + 1 .. d : i = d \/ i = d - 1
        /\ 1 \in 1 .. RuleLength(r) /\ 2 \in 1 .. RuleLength(r)
    BY <1>8, SMT
  <2> QED
    BY <1>8, <2>7, <2>8, Zenon
<1>9. RuleLength(r) \in {1, 2, 3}
  BY <1>1, SMT
<1> QED
  BY <1>6, <1>7, <1>8, <1>9, Zenon

OpenBelow(states, d) ==
  IF \E i \in 1 .. d : AccessingSymbol(states[i]) = T_LEFT_PAREN THEN 1 ELSE 0

\* A reduction that is not one of a pair of parentheses pops none.
LEMMA PopsNoParenthesis ==
  ASSUME NEW states, NEW k \in Nat, IsPathOf(states, k), NEW d \in 1 .. k,
         NEW s \in ReducingStates, IsEdge(states[d], s),
         AccessingSymbol(s) # T_RIGHT_PAREN,
         NEW r, r = DefaultReduction(s),
         NEW below, below = d - (RuleLength(r) - 1), below \in 1 .. d
  PROVE  OpenBelow(states, below) = OpenBelow(states, d)
<1>1. r \in Rules /\ RuleLength(r) \in 1 .. 3
  BY ReducingRule, Zenon
<1>2. /\ AccessingSymbol(s) = RuleRhs[r][RuleLength(r)]
      /\ \A i \in below + 1 .. d :
           \E n \in 1 .. RuleLength(r) : AccessingSymbol(states[i]) = RuleRhs[r][n]
  BY PoppedAt
<1>3. r # 19
  <2>1. RuleRhs[19][3] = T_RIGHT_PAREN /\ Len(RuleRhs[19]) = 3
    BY TablesAreConsistent DEF LrConsistent, ParenthesesInPairs
  <2>2. 19 \in Rules
    BY DEF Rules, YYNRULES
  <2>3. RuleLength(19) = 3
    BY <2>1, <2>2, TablesAreConsistent DEF LrConsistent, RulesConsistent
  <2> QED
    BY <1>2, <2>1, <2>3, Zenon
<1>4. \A i \in below + 1 .. d : AccessingSymbol(states[i]) # T_LEFT_PAREN
  BY <1>1, <1>2, <1>3, TablesAreConsistent DEF LrConsistent, ParenthesesInPairs
<1>5. \A i \in 1 .. d : i \in 1 .. below \/ i \in below + 1 .. d
  BY SMT
<1>6. \A i \in 1 .. below : i \in 1 .. d
  BY SMT
<1> QED
  BY <1>4, <1>5, <1>6, Zenon DEF OpenBelow

LEMMA FitsAt ==
  ASSUME NEW states, NEW k \in Nat, IsPathOf(states, k), NEW d \in 1 .. k,
         NEW s, IsEdge(states[d], s)
  PROVE  Fits(states[d], s, OpenBelow(states, d)) /\ OpenBelow(states, d) \in {0, 1}
<1>1. OpenBelow(states, d) \in {0, 1}
  BY DEF OpenBelow
<1>2. ASSUME states[d] = 0 PROVE OpenBelow(states, d) = 0
  <2>1. d = 1
    <3> SUFFICES ASSUME d # 1 PROVE FALSE
      OBVIOUS
    <3>1. d \in 2 .. k
      BY SMT
    <3>2. IsEdge(states[d - 1], states[d])
      BY <3>1, Zenon DEF IsPathOf
    <3> QED
      BY <1>2, <3>2, EdgeStates
  <2>2. AccessingSymbol(0) # T_LEFT_PAREN
    BY DEF AccessingSymbol, yystos, T_LEFT_PAREN
  <2>3. \A i \in 1 .. d : i = d
    BY <2>1, SMT
  <2> QED
    BY <1>2, <2>2, <2>3, Zenon DEF OpenBelow
<1>3. ASSUME AccessingSymbol(states[d]) = T_LEFT_PAREN PROVE OpenBelow(states, d) = 1
  <2>1. d \in 1 .. d
    BY SMT
  <2> QED
    BY <1>3, <2>1, Zenon DEF OpenBelow
<1> QED
  BY <1>1, <1>2, <1>3, Zenon DEF Fits

\* What LAC answers with state s on the d lowest ones.
LEMMA LacExactAt ==
  ASSUME NEW x \in Terminals, NEW k \in Nat, NEW a, IsPathOf(a, k),
         NEW f, IsLac(f, a, x)
  PROVE  \A d \in 1 .. k : \A s \in States :
           IsEdge(a[d], s) /\ s # YYFINAL /\ AccessingSymbol(s) # T_RIGHT_PAREN =>
             (f[<< d, s >>] = LacPasses <=> x \in Viable(s, OpenBelow(a, d)))
<1> DEFINE Wrong(d, s) ==
             /\ IsEdge(a[d], s) /\ s # YYFINAL /\ AccessingSymbol(s) # T_RIGHT_PAREN
             /\ ~ (f[<< d, s >>] = LacPasses <=> x \in Viable(s, OpenBelow(a, d)))
           T == {m \in Nat : \E d \in 1 .. k, s \in States :
                               Wrong(d, s) /\ m = LacMeasure(d, s)}
<1>1. ASSUME NEW d \in 1 .. k, NEW s \in States
      PROVE  LacMeasure(d, s) \in Nat
  <2>1. Rank(AccessingSymbol(s)) \in 0 .. YYNTOKENS
    BY SymbolType, RankType
  <2> QED
    BY <2>1, SMT DEF LacMeasure, YYNTOKENS
<1> SUFFICES ASSUME T # {}
             PROVE  FALSE
  <2> SUFFICES ASSUME NEW d \in 1 .. k, NEW s \in States, Wrong(d, s)
               PROVE  T # {}
    BY Zenon
  <2>1. LacMeasure(d, s) \in T
    BY <1>1
  <2> QED
    BY <2>1
<1>2. PICK m \in T : \A n \in T : m <= n
  <2>1. T \subseteq Nat
    OBVIOUS
  <2> HIDE DEF T
  <2> QED
    BY <2>1, LeastNumber
<1>3. PICK d \in 1 .. k, s \in States : Wrong(d, s) /\ m = LacMeasure(d, s)
  BY Zenon
<1>4. /\ IsEdge(a[d], s) /\ s # YYFINAL /\ AccessingSymbol(s) # T_RIGHT_PAREN
      /\ ~ (f[<< d, s >>] = LacPasses <=> x \in Viable(s, OpenBelow(a, d)))
      /\ d \in Int
  BY <1>3, SMT
<1> DEFINE r == DefaultReduction(s)
           below == d - (RuleLength(r) - 1)
           to == Goto(a[below], RuleLhs(r))
           open == OpenBelow(a, d)
<1>5. /\ HasTableAction(s, x) => x \in Viable(s, open)
      /\ ~ HasTableAction(s, x) /\ r = 0 => x \notin Viable(s, open)
      /\ ~ HasTableAction(s, x) /\ r # 0 =>
           (x \in Viable(s, open) <=> x \in ViableAfter(RuleLhs(r), open))
  <2>1. Fits(a[d], s, open) /\ open \in {0, 1}
    BY <1>4, FitsAt
  <2>2. a[d] \in States /\ s \in States \ {YYFINAL}
    BY <1>4, EdgeStates
  <2> HIDE DEF open
  <2> QED
    BY <2>1, <2>2, LanguageConsistent, Zenon DEF ViableDecided
<1>6. ~ HasTableAction(s, x) /\ r # 0
  <2> HIDE DEF T, Wrong, open
  <2>1. /\ HasTableAction(s, x) => f[<< d, s >>] = LacPasses
        /\ ~ HasTableAction(s, x) /\ DefaultReduction(s) = 0 => f[<< d, s >>] = LacRefuses
    BY <1>4, LacUnfolds
  <2>2. LacPasses # LacRefuses
    BY DEF LacPasses, LacRefuses
  <2> QED
    BY <1>4, <1>5, <2>1, <2>2, Zenon DEF open
<1>7. s \in ReducingStates
  BY <1>4, <1>6, Zenon DEF ReducingStates
<1>8. /\ RuleLength(r) \in 1 .. 3 /\ RuleLhs(r) \in Nonterminals
  BY <1>7, ReducingRule, Zenon
<1>9. /\ below \in 1 .. d /\ IsEdge(a[below], to)
      /\ AccessingSymbol(to) = RuleLhs(r)
  BY <1>4, <1>7, HandleAt
<1>10. OpenBelow(a, below) = open
  BY <1>4, <1>7, <1>9, PopsNoParenthesis
<1> HIDE DEF T, Wrong, below, to, r, open
<1>11. below \in 1 .. k /\ d \in 1 .. k
  BY <1>9, SMT
<1>12. to \in States /\ to # YYFINAL /\ AccessingSymbol(to) # T_RIGHT_PAREN
  <2>1. T_RIGHT_PAREN \notin Nonterminals
    BY DEF Nonterminals, T_RIGHT_PAREN, YYNTOKENS, N_identifier
  <2> QED
    BY <1>8, <1>9, <2>1, EdgeStates, NonterminalState, Zenon
<1>13. f[<< d, s >>] = f[<< below, to >>]
  <2>1. f[<< d, s >>] = f[LacNext(a, d, s)]
    BY <1>4, <1>6, LacUnfolds DEF r
  <2>2. LacNext(a, d, s) = << below, to >>
    BY Zenon DEF LacNext, below, to, r
  <2> QED
    BY <2>1, <2>2, Zenon
<1>14. x \in Viable(to, OpenBelow(a, below)) <=> x \in Viable(s, open)
  <2>1. Viable(to, open) = ViableAfter(RuleLhs(r), open)
    BY <1>8, <1>9, Zenon DEF Viable
  <2> QED
    BY <1>5, <1>6, <1>10, <2>1, Zenon
<1>15. LacMeasure(below, to) \in T
  <2>1. Wrong(below, to)
    BY <1>4, <1>9, <1>12, <1>13, <1>14, Zenon DEF Wrong, open
  <2>2. LacMeasure(below, to) \in Nat
    BY <1>1, <1>11, <1>12, Zenon
  <2> QED
    BY <2>1, <2>2, <1>11, <1>12, Zenon DEF T
<1>16. LacMeasure(below, to) < LacMeasure(d, s)
  <2>1. /\ Rank(AccessingSymbol(s)) \in 0 .. YYNTOKENS
        /\ Rank(RuleLhs(r)) \in 0 .. YYNTOKENS
    BY <1>8, SymbolType, RankType
  <2>2. CASE RuleLength(r) = 1
    <3>1. Rank(RuleLhs(r)) < Rank(AccessingSymbol(s))
      BY <1>7, <2>2, TablesAreConsistent, Zenon DEF LrConsistent, UnitRulesClimb, r
    <3>2. below = d
      BY <1>4, <2>2, SMT DEF below
    <3> QED
      BY <1>4, <1>9, <2>1, <3>1, <3>2, SMT DEF LacMeasure, YYNTOKENS
  <2>3. CASE RuleLength(r) # 1
    <3>1. below <= d - 1 /\ below \in Int
      BY <1>4, <1>8, <2>3, SMT DEF below
    <3> QED
      BY <1>4, <1>9, <2>1, <3>1, SMT DEF LacMeasure, YYNTOKENS
  <2> QED
    BY <2>2, <2>3, Zenon
<1>17. LacMeasure(d, s) <= LacMeasure(below, to)
  BY <1>2, <1>3, <1>15, Zenon
<1>18. LacMeasure(d, s) \in Nat /\ LacMeasure(below, to) \in Nat
  BY <1>1, <1>11, <1>12
<1> QED
  BY <1>16, <1>17, <1>18, SMT

(***************************************************************************)
(* Where the input is after some kinds: a recursion over their sequence.   *)
(***************************************************************************)
LEMMA UpTo ==
  ASSUME NEW high \in Nat, NEW S, 0 \in S,
         \A i \in 0 .. high - 1 : i \in S => i + 1 \in S
  PROVE  \A i \in 0 .. high : i \in S
<1> DEFINE T == {i \in 0 .. high : i \notin S}
<1> SUFFICES ASSUME T # {} PROVE FALSE
  OBVIOUS
<1>1. T \subseteq Nat
  BY SMT
<1>2. PICK least \in T : \A i \in T : least <= i
  <2> HIDE DEF T
  <2> QED
    BY <1>1, LeastNumber
<1>3. least \in 0 .. high /\ least \notin S
  BY <1>2
<1>4. least # 0
  BY <1>3
<1>5. least - 1 \in 0 .. high - 1 /\ least - 1 \in 0 .. high
  BY <1>3, <1>4, SMT
<1>6. least - 1 \notin T
  <2> HIDE DEF T
  <2> QED
    BY <1>2, <1>3, SMT
<1>7. least - 1 \in S
  BY <1>5, <1>6
<1>8. (least - 1) + 1 \in S
  BY <1>5, <1>7
<1> QED
  BY <1>3, <1>8, SMT

FirstPosition == [place |-> "operand", depth |-> 0]

PositionAfter(at, type) == [place |-> PlaceAfter(at.place, type),
                            depth |-> DepthAfter(at.depth, type)]

IsReached(after, kinds, n) ==
  after = [m \in 0 .. n |-> IF m = 0 THEN FirstPosition
                            ELSE PositionAfter(after[m - 1], kinds[m])]

LEMMA ReachedUnfolds ==
  ASSUME NEW kinds, NEW n \in Nat, NEW after, IsReached(after, kinds, n)
  PROVE  /\ after[0] = FirstPosition
         /\ \A m \in 0 .. n - 1 : after[m + 1] = PositionAfter(after[m], kinds[m + 1])
<1>1. \A m \in 0 .. n : after[m] = IF m = 0 THEN FirstPosition
                                   ELSE PositionAfter(after[m - 1], kinds[m])
  BY Zenon DEF IsReached
<1>2. 0 \in 0 .. n
  BY SMT
<1>3. ASSUME NEW m \in 0 .. n - 1
      PROVE  m + 1 \in 0 .. n /\ m + 1 # 0 /\ (m + 1) - 1 = m
  BY SMT
<1> QED
  BY <1>1, <1>2, <1>3, Zenon

LEMMA ReachedExtends ==
  ASSUME NEW kinds, NEW n \in Nat, NEW after, IsReached(after, kinds, n)
  PROVE  \E more : IsReached(more, kinds, n + 1)
<1> DEFINE new == PositionAfter(after[n], kinds[n + 1])
           more == [m \in 0 .. n + 1 |-> IF m = n + 1 THEN new ELSE after[m]]
<1>1. /\ n \in 0 .. n + 1 /\ n # n + 1 /\ n + 1 \in 0 .. n + 1
      /\ n + 1 # 0 /\ (n + 1) - 1 = n
      /\ \A m \in 0 .. n + 1 : m # n + 1 =>
           m \in 0 .. n /\ (m # 0 => m - 1 \in 0 .. n + 1 /\ m - 1 # n + 1)
  BY SMT
<1>2. more[n + 1] = new /\ more[n] = after[n]
  BY <1>1
<1>3. ASSUME NEW m \in 0 .. n + 1
      PROVE  more[m] = IF m = 0 THEN FirstPosition
                       ELSE PositionAfter(more[m - 1], kinds[m])
  <2>1. CASE m = n + 1
    <3> HIDE DEF more
    <3> QED
      BY <1>1, <1>2, <2>1, Zenon
  <2>2. CASE m # n + 1
    <3>1. more[m] = after[m] /\ m \in 0 .. n
      BY <1>1, <2>2
    <3>2. after[m] = IF m = 0 THEN FirstPosition
                     ELSE PositionAfter(after[m - 1], kinds[m])
      BY <3>1, Zenon DEF IsReached
    <3>3. m # 0 => more[m - 1] = after[m - 1]
      BY <1>1, <2>2
    <3> HIDE DEF more
    <3> QED
      BY <3>1, <3>2, <3>3, Zenon
  <2> QED
    BY <2>1, <2>2
<1>4. more = [m \in 0 .. n + 1 |-> more[m]]
  BY Zenon
<1> HIDE DEF more
<1>5. more = [m \in 0 .. n + 1 |-> IF m = 0 THEN FirstPosition
                                   ELSE PositionAfter(more[m - 1], kinds[m])]
  BY <1>3, <1>4, Zenon
<1> QED
  BY <1>5, Zenon DEF IsReached

LEMMA ReachedExists ==
  ASSUME NEW kinds, NEW n \in Nat
  PROVE  \E after : IsReached(after, kinds, n)
<1> DEFINE S == {m \in Nat : \E after : IsReached(after, kinds, m)}
<1>1. 0 \in S
  <2> DEFINE first == [m \in 0 .. 0 |-> FirstPosition]
  <2>1. first = [m \in 0 .. 0 |-> first[m]] /\ \A m \in 0 .. 0 : m = 0
    BY SMT
  <2>2. \A m \in 0 .. 0 : first[m] = IF m = 0 THEN FirstPosition
                                     ELSE PositionAfter(first[m - 1], kinds[m])
    BY <2>1
  <2> HIDE DEF first
  <2>3. IsReached(first, kinds, 0)
    BY <2>1, <2>2, Zenon DEF IsReached
  <2> QED
    BY <2>3
<1>2. ASSUME NEW m \in 0 .. n - 1, m \in S
      PROVE  m + 1 \in S
  <2>1. m \in Nat /\ m + 1 \in Nat
    BY SMT
  <2> QED
    BY <1>2, <2>1, ReachedExtends
<1> HIDE DEF S
<1>3. n \in 0 .. n
  BY SMT
<1>4. n \in S
  BY <1>1, <1>2, <1>3, UpTo
<1> QED
  BY <1>4 DEF S

\* Two such functions agree as far as their kinds do.
StartsWith(others, kinds, n) == \A i \in 1 .. n : others[i] = kinds[i]

LEMMA ReachedAgrees ==
  ASSUME NEW kinds, NEW others, NEW n \in Nat, NEW high \in Nat, n <= high,
         StartsWith(others, kinds, n),
         NEW after, IsReached(after, kinds, n),
         NEW again, IsReached(again, others, high)
  PROVE  after[n] = again[n]
<1> DEFINE S == {m \in Nat : after[m] = again[m]}
<1>1. /\ after[0] = FirstPosition /\ again[0] = FirstPosition
      /\ \A m \in 0 .. n - 1 : after[m + 1] = PositionAfter(after[m], kinds[m + 1])
      /\ \A m \in 0 .. high - 1 : again[m + 1] = PositionAfter(again[m], others[m + 1])
  BY ReachedUnfolds, Zenon
<1>2. 0 \in S
  BY <1>1
<1>3. ASSUME NEW m \in 0 .. n - 1, m \in S
      PROVE  m + 1 \in S
  <2>1. m \in 0 .. high - 1 /\ m + 1 \in 1 .. n /\ m + 1 \in Nat
    BY SMT
  <2>2. after[m] = again[m] /\ others[m + 1] = kinds[m + 1]
    BY <1>3, <2>1 DEF StartsWith
  <2> QED
    BY <1>1, <2>1, <2>2
<1> HIDE DEF S
<1>4. n \in 0 .. n
  BY SMT
<1>5. n \in S
  BY <1>2, <1>3, <1>4, UpTo
<1> QED
  BY <1>5 DEF S

LEMMA ReachedFunction ==
  ASSUME NEW kinds, Len(kinds) \in Nat
  PROVE  \E after : IsReached(after, kinds, Len(kinds)) /\ Reached(kinds) = after[Len(kinds)]
<1> DEFINE after[n \in 0 .. Len(kinds)] ==
             IF n = 0
             THEN [place |-> "operand", depth |-> 0]
             ELSE [place |-> PlaceAfter(after[n - 1].place, kinds[n]),
                   depth |-> DepthAfter(after[n - 1].depth, kinds[n])]
<1>1. Reached(kinds) = after[Len(kinds)]
  BY DEF Reached
<1>2. after = CHOOSE f : IsReached(f, kinds, Len(kinds))
  BY Zenon DEF IsReached, FirstPosition, PositionAfter
<1> HIDE DEF after
<1>3. IsReached(after, kinds, Len(kinds))
  <2>1. \E f : IsReached(f, kinds, Len(kinds))
    BY ReachedExists, Zenon
  <2> QED
    BY <1>2, <2>1, Zenon
<1> QED
  BY <1>1, <1>3, Zenon

\* What Reached computes.
LEMMA ReachedNone ==
  ASSUME NEW kinds, Len(kinds) = 0
  PROVE  Reached(kinds).place = "operand" /\ Reached(kinds).depth = 0
<1>1. PICK after : IsReached(after, kinds, 0) /\ Reached(kinds) = after[0]
  <2>1. Len(kinds) \in Nat
    OBVIOUS
  <2> QED
    BY <2>1, ReachedFunction
<1>2. after[0] = FirstPosition
  <2>1. 0 \in Nat
    OBVIOUS
  <2> QED
    BY <1>1, <2>1, ReachedUnfolds, Zenon
<1>3. FirstPosition.place = "operand" /\ FirstPosition.depth = 0
  BY DEF FirstPosition
<1> QED
  BY <1>1, <1>2, <1>3

LEMMA ReachedMore ==
  ASSUME NEW kinds, NEW more, NEW type,
         Len(kinds) \in Nat, Len(more) = Len(kinds) + 1, more[Len(kinds) + 1] = type,
         \A i \in 1 .. Len(kinds) : more[i] = kinds[i]
  PROVE  /\ Reached(more).place = PlaceAfter(Reached(kinds).place, type)
         /\ Reached(more).depth = DepthAfter(Reached(kinds).depth, type)
<1> DEFINE n == Len(kinds)
<1>1. PICK after : IsReached(after, kinds, n) /\ Reached(kinds) = after[n]
  BY ReachedFunction
<1>2. PICK again : IsReached(again, more, n + 1) /\ Reached(more) = again[n + 1]
  <2>1. Len(more) \in Nat
    BY SMT
  <2> QED
    BY <2>1, ReachedFunction
<1>3. n \in 0 .. (n + 1) - 1 /\ n + 1 \in Nat /\ n <= n + 1
  BY SMT
<1> HIDE DEF n
<1>4. after[n] = again[n]
  <2>1. n \in Nat /\ StartsWith(more, kinds, n)
    BY DEF n, StartsWith
  <2> QED
    BY <1>1, <1>2, <1>3, <2>1, ReachedAgrees
<1>5. again[n + 1] = PositionAfter(again[n], type)
  <2>1. more[n + 1] = type
    BY DEF n
  <2> QED
    BY <1>2, <1>3, <2>1, ReachedUnfolds
<1> HIDE DEF n
<1> QED
  BY <1>1, <1>2, <1>4, <1>5 DEF PositionAfter

LEMMA ReachedSame ==
  ASSUME NEW kinds, NEW others, Len(kinds) \in Nat, Len(others) = Len(kinds),
         \A i \in 1 .. Len(kinds) : others[i] = kinds[i]
  PROVE  Reached(others) = Reached(kinds)
<1>1. PICK after : IsReached(after, kinds, Len(kinds))
                   /\ Reached(kinds) = after[Len(kinds)]
  BY ReachedFunction
<1>2. PICK again : IsReached(again, others, Len(kinds))
                   /\ Reached(others) = again[Len(kinds)]
  BY ReachedFunction
<1> DEFINE n == Len(kinds)
<1>3. after[n] = again[n]
  <2>1. /\ n \in Nat /\ n <= n /\ StartsWith(others, kinds, n)
        /\ IsReached(after, kinds, n) /\ IsReached(again, others, n)
    BY <1>1, <1>2 DEF StartsWith
  <2> HIDE DEF n
  <2> QED
    BY <2>1, ReachedAgrees
<1> QED
  BY <1>1, <1>2, <1>3

(***************************************************************************)
(* What is viable on the parser's stack.                                   *)
(***************************************************************************)
Open == IF Lefts - Rights > 0 THEN 1 ELSE 0

\* Only the top of the stack can be a closing parenthesis.
LEMMA OpenAgrees ==
  ASSUME ParserInvariant, AccessingSymbol(yystate) # T_RIGHT_PAREN
  PROVE  Rights = 0 /\ OpenBelow(StateStack, Len(stack)) = Open
<1>1. /\ Len(stack) \in Nat /\ StackIsPath /\ yystate = stack[Len(stack)].state
      /\ \A i \in 1 .. Len(stack) : StateStack[i] = stack[i].state
  BY StateStackPath DEF ParserInvariant
<1>2. ASSUME NEW i \in 1 .. Len(stack)
      PROVE  AccessingSymbol(stack[i].state) # T_RIGHT_PAREN
  <2>1. CASE i = Len(stack)
    BY <2>1, <1>1
  <2>2. CASE i # Len(stack)
    <3>1. i + 1 \in 2 .. Len(stack) /\ (i + 1) - 1 = i
      BY <2>2, <1>1
    <3>2. IsEdge(stack[i].state, stack[i + 1].state)
      BY <3>1, <1>1 DEF StackIsPath
    <3> QED
      BY <3>2, EdgeStates, TablesAreConsistent
         DEF LrConsistent, LexemesReducedAtOnce, ReducedAtOnce
  <2> QED
    BY <2>1, <2>2
<1>3. Rights = 0
  BY <1>1, <1>2, CountNone DEF Rights, OnAll
<1>4. Lefts \in Nat
  BY CountTypes
<1>5. CASE \E i \in 1 .. Len(stack) : AccessingSymbol(stack[i].state) = T_LEFT_PAREN
  <2>1. Lefts > 0
    <3>1. PICK i \in 1 .. Len(stack) : AccessingSymbol(stack[i].state) \in {T_LEFT_PAREN}
      BY <1>5
    <3> QED
      BY <1>1, <3>1, CountPositive DEF Lefts, OnAll
  <2>2. Open = 1
    BY <1>3, <1>4, <2>1, SMT DEF Open
  <2> QED
    BY <1>1, <1>3, <1>5, <2>2, Zenon DEF OpenBelow
<1>6. CASE \A i \in 1 .. Len(stack) : AccessingSymbol(stack[i].state) # T_LEFT_PAREN
  <2>1. Lefts = 0
    BY <1>1, <1>6, CountNone DEF Lefts, OnAll
  <2>2. Open = 0
    BY <1>3, <2>1, SMT DEF Open
  <2> QED
    BY <1>1, <1>3, <1>6, <2>2, Zenon DEF OpenBelow
<1> QED
  BY <1>5, <1>6, Zenon

\* The top of the stack and what it lies on.
LEMMA TopFits ==
  ASSUME ParserInvariant, Len(stack) # 1
  PROVE  /\ Len(stack) - 1 \in 1 .. Len(stack)
         /\ IsEdge(StateStack[Len(stack) - 1], yystate)
         /\ StateStack[Len(stack) - 1] \in States
         /\ Fits(StateStack[Len(stack) - 1], yystate, Open)
         /\ Open \in {0, 1}
<1> DEFINE d == Len(stack) - 1
<1>1. /\ IsPathOf(StateStack, Len(stack)) /\ StateStack[Len(stack)] = yystate
      /\ Len(stack) \in Nat /\ Len(stack) >= 1
  BY StateStackPath, Zenon
<1>2. /\ d \in 1 .. Len(stack) /\ Len(stack) \in 2 .. Len(stack)
      /\ \A i \in 1 .. Len(stack) : i \in 1 .. d \/ i = Len(stack)
      /\ \A i \in 1 .. d : i \in 1 .. Len(stack)
      /\ Len(stack) \in 1 .. Len(stack)
  <2> DEFINE n == Len(stack)
  <2>1. n \in Nat /\ n >= 1 /\ n # 1
    BY <1>1
  <2> HIDE DEF n
  <2>2. /\ n - 1 \in 1 .. n /\ n \in 2 .. n /\ n \in 1 .. n
        /\ \A i \in 1 .. n : i \in 1 .. n - 1 \/ i = n
        /\ \A i \in 1 .. n - 1 : i \in 1 .. n
    BY <2>1, SMT
  <2> QED
    BY <2>2 DEF n
<1>3. IsEdge(StateStack[d], yystate)
  BY <1>1, <1>2, Zenon DEF IsPathOf
<1>4. StateStack[d] \in States
  BY <1>3, EdgeStates
<1> HIDE DEF d
<1>5. Fits(StateStack[d], yystate, OpenBelow(StateStack, d))
  <2> DEFINE a == StateStack
             s == yystate
             k == Len(stack)
  <2>1. k \in Nat /\ IsPathOf(a, k) /\ d \in 1 .. k /\ IsEdge(a[d], s)
    BY <1>1, <1>2, <1>3
  <2> HIDE DEF a, s, k
  <2>2. Fits(a[d], s, OpenBelow(a, d))
    BY <2>1, FitsAt
  <2> QED
    BY <2>2 DEF a, s
<1>6. ASSUME AccessingSymbol(yystate) \notin {T_LEFT_PAREN, T_RIGHT_PAREN}
      PROVE  OpenBelow(StateStack, d) = Open
  <2>1. OpenBelow(StateStack, Len(stack)) = Open
    BY <1>6, OpenAgrees
  <2>2. (\E i \in 1 .. d : AccessingSymbol(StateStack[i]) = T_LEFT_PAREN)
          <=> \E i \in 1 .. Len(stack) : AccessingSymbol(StateStack[i]) = T_LEFT_PAREN
    BY <1>1, <1>2, <1>6
  <2> QED
    BY <2>1, <2>2, Zenon DEF OpenBelow
<1>7. Open \in {0, 1}
  BY DEF Open
<1>8. Fits(StateStack[d], yystate, Open)
  <2> DEFINE s == yystate
             p == StateStack[d]
             below == OpenBelow(StateStack, d)
  <2>1. Fits(p, s, below) /\ (AccessingSymbol(s) \notin {T_LEFT_PAREN, T_RIGHT_PAREN}
                               => below = Open)
    BY <1>5, <1>6
  <2> HIDE DEF s, p, below
  <2>2. Fits(p, s, Open)
    BY <2>1, Zenon DEF Fits
  <2> QED
    BY <2>2 DEF s, p
<1> QED
  BY <1>2, <1>3, <1>4, <1>7, <1>8, Zenon DEF d

\* A default reduction keeps what is viable, except for a token to shift.
LEMMA ViableAcrossReduction ==
  ASSUME ParserInvariant, yystate \in ReducingStates, NEW x \in Terminals,
         ~ HasTableAction(yystate, x),
         NEW r, r = DefaultReduction(yystate)
  PROVE  x \in Viable(yystate, Open) <=> x \in ViableAfter(RuleLhs(r), Open)
<1>1. Len(stack) # 1
  <2>1. yystate # 0
    BY ReducingRule
  <2> QED
    BY <2>1, YystateType DEF ParserInvariant, StackIsPath, TypeOK
<1>2. /\ StateStack[Len(stack) - 1] \in States
      /\ Fits(StateStack[Len(stack) - 1], yystate, Open) /\ Open \in {0, 1}
  BY <1>1, TopFits, Zenon
<1>3. yystate \in States \ {YYFINAL} /\ r # 0
  BY DEF ReducingStates
<1> QED
  BY <1>2, <1>3, LanguageConsistent, Zenon DEF ViableDecided

Refusals == {YYerror, YYUNDEF, T_INVALID_SUPERSCRIPT, T_INVALID_NUMBER, T_SKIP}

LEMMA AllowedTokens ==
  ASSUME NEW p \in Places, NEW n
  PROVE  /\ Allowed(p, n) \subseteq Terminals \ Refusals
         /\ T_AT \in Allowed(p, n) => p = "name"
  BY DEF Places, Allowed, Followers, Numbers, OperandStarts, Terminals, Refusals,
     YYNTOKENS, YYEOF, YYerror, YYUNDEF, T_INVALID_SUPERSCRIPT, T_INVALID_NUMBER,
     T_SKIP, T_INTEGER, T_FLOAT, T_IDENTIFIER, T_LEFT_PAREN, T_SUB, T_DOT, T_MUL,
     T_DIV, T_POW, T_ADD, T_SUPERSCRIPT_INTEGER, T_RIGHT_PAREN, T_AT

LEMMA PlaceType ==
  ASSUME NEW p, NEW type
  PROVE  PlaceAfter(p, type) \in Places
  BY DEF PlaceAfter, Places

LEMMA ViableTokens ==
  ASSUME NEW s, NEW n
  PROVE  Viable(s, n) \subseteq Terminals \ Refusals
<1>1. PlaceIn(s) \in Places
  BY PlaceType, Zenon DEF PlaceIn
<1>2. "name" \in Places /\ "primary" \in Places
  BY DEF Places
<1>3. /\ Allowed(PlaceIn(s), n) \subseteq Terminals \ Refusals
      /\ Allowed("name", n) \subseteq Terminals \ Refusals
      /\ Allowed("primary", n) \subseteq Terminals \ Refusals
  BY <1>1, <1>2, AllowedTokens
<1>4. ViableAfter(AccessingSymbol(s), n) \subseteq Terminals \ Refusals
  BY <1>3, Zenon DEF ViableAfter
<1> QED
  BY <1>3, <1>4, Zenon DEF Viable

\* LAC accepts exactly what is viable.
LEMMA LacExact ==
  ASSUME ParserInvariant, phase = "parsing", ~ IsConsistent(yystate),
         NEW x \in Terminals
  PROVE  LacAccepts(StateStack, x) <=> x \in Viable(yystate, Open)
<1>1. /\ IsPathOf(StateStack, Len(stack)) /\ StateStack[Len(stack)] = yystate
      /\ Len(stack) \in Nat /\ Len(stack) >= 1 /\ Len(StateStack) = Len(stack)
      /\ yystate \in States
  BY StateStackPath, Zenon
<1>2. CASE x = YYUNDEF
  <2>1. ~ LacAccepts(StateStack, x)
    BY <1>2, LookaheadDefined, Zenon
  <2>2. x \notin Viable(yystate, Open)
    BY <1>2, ViableTokens DEF Refusals
  <2> QED
    BY <2>1, <2>2
<1>3. CASE x # YYUNDEF /\ Len(stack) = 1
  <2>1. yystate = 0
    BY <1>1, <1>3, Zenon DEF IsPathOf
  <2>2. AccessingSymbol(0) # T_RIGHT_PAREN /\ AccessingSymbol(0) # T_LEFT_PAREN
    BY DEF AccessingSymbol, yystos, T_LEFT_PAREN, T_RIGHT_PAREN
  <2>3. Open = 0
    <3>1. OpenBelow(StateStack, Len(stack)) = Open
      BY <2>1, <2>2, OpenAgrees
    <3>2. \A i \in 1 .. Len(stack) : StateStack[i] = 0
      BY <1>1, <1>3, <2>1
    <3> QED
      BY <2>2, <3>1, <3>2, Zenon DEF OpenBelow
  <2>4. HasTableAction(0, x) <=> x \in Viable(0, 0)
    BY LanguageConsistent, Zenon DEF ViableFirst
  <2>5. DefaultReduction(0) = 0
    BY LanguageConsistent, Zenon DEF ViableFirst
  <2>6. LacAccepts(StateStack, x) <=> HasTableAction(yystate, x)
    BY <1>3, <2>1, <2>5, LacNow, Zenon
  <2> QED
    BY <2>1, <2>3, <2>4, <2>6, Zenon
<1>4. CASE x # YYUNDEF /\ Len(stack) # 1
  <2> DEFINE d == Len(stack) - 1
             a == StateStack
             s == yystate
  <2>1. PICK f : /\ IsLac(f, a, x)
                 /\ LacAccepts(a, x) <=> x # YYUNDEF /\ f[<< Len(a) - 1, a[Len(a)] >>]
    BY LacFunction, Zenon
  <2>2. LacAccepts(a, x) <=> f[<< d, s >>]
    BY <1>1, <1>4, <2>1, Zenon
  <2>3. AccessingSymbol(s) # T_RIGHT_PAREN
    BY <1>1, TablesAreConsistent DEF LrConsistent, LexemesReducedAtOnce, ReducedAtOnce
  <2>4. s # YYFINAL /\ s \in States
    BY <1>1, Zenon DEF ParserInvariant, NotYetFinal
  <2>5. d \in 1 .. Len(stack) /\ IsEdge(a[d], s) /\ Fits(a[d], s, Open)
    BY <1>4, TopFits, Zenon
  <2>6. IsPathOf(a, Len(stack)) /\ Len(stack) \in Nat
    BY <1>1, Zenon
  <2>7. d \in Int
    BY <1>1, SMT
  <2>8. Viable(s, OpenBelow(a, d)) = Viable(s, Open)
    <3>1. CASE AccessingSymbol(s) = T_LEFT_PAREN
      <4>1. Viable(s, 0) = Viable(s, 1)
        BY <2>4, <3>1, LanguageConsistent, Zenon DEF PlacesKept
      <4>2. OpenBelow(a, d) \in {0, 1} /\ Open \in {0, 1}
        BY DEF Open, OpenBelow
      <4> HIDE DEF s, a, d
      <4> QED
        BY <4>1, <4>2
    <3>2. CASE AccessingSymbol(s) # T_LEFT_PAREN
      <4>1. OpenBelow(a, Len(stack)) = Open
        BY <2>3, OpenAgrees
      <4>2. /\ \A i \in 1 .. Len(stack) : i \in 1 .. d \/ i = Len(stack)
            /\ \A i \in 1 .. d : i \in 1 .. Len(stack)
        BY <1>1, SMT
      <4>3. (\E i \in 1 .. d : AccessingSymbol(a[i]) = T_LEFT_PAREN)
              <=> \E i \in 1 .. Len(stack) : AccessingSymbol(a[i]) = T_LEFT_PAREN
        <5>1. a[Len(stack)] = s
          BY <1>1
        <5> HIDE DEF a, s, d
        <5> QED
          BY <3>2, <4>2, <5>1, Zenon
      <4> QED
        BY <4>1, <4>3, Zenon DEF OpenBelow
    <3> QED
      BY <3>1, <3>2
  <2> HIDE DEF a, s, d
  <2>9. f[<< d, s >>] = LacPasses <=> x \in Viable(s, OpenBelow(a, d))
    <3>1. \A dd \in 1 .. Len(stack) : \A ss \in States :
           IsEdge(a[dd], ss) /\ ss # YYFINAL /\ AccessingSymbol(ss) # T_RIGHT_PAREN =>
             (f[<< dd, ss >>] = LacPasses <=> x \in Viable(ss, OpenBelow(a, dd)))
      BY <2>1, <2>6, LacExactAt
    <3> QED
      BY <2>3, <2>4, <2>5, <3>1, Zenon
  <2>10. f[<< d, s >>] = LacPasses <=> f[<< d, s >>]
    BY DEF LacPasses
  <2> QED
    BY <2>2, <2>8, <2>9, <2>10, Zenon DEF a, s
<1> QED
  BY <1>2, <1>3, <1>4, Zenon

(***************************************************************************)
(* The mapping to the Recognizer.                                          *)
(***************************************************************************)
LEMMA SameLanguage ==
  ASSUME NEW p, NEW n, NEW type
  PROVE  /\ Abstract!Allowed(p, n) = Allowed(p, n)
         /\ Abstract!PlaceAfter(p, type) = PlaceAfter(p, type)
         /\ Abstract!DepthAfter(n, type) = DepthAfter(n, type)
         /\ Abstract!YYEOF = YYEOF /\ Abstract!YYEMPTY = YYEMPTY
<1>1. /\ Abstract!T_INTEGER = T_INTEGER /\ Abstract!T_FLOAT = T_FLOAT
      /\ Abstract!T_IDENTIFIER = T_IDENTIFIER
      /\ Abstract!T_LEFT_PAREN = T_LEFT_PAREN /\ Abstract!T_RIGHT_PAREN = T_RIGHT_PAREN
      /\ Abstract!T_DOT = T_DOT /\ Abstract!T_MUL = T_MUL /\ Abstract!T_DIV = T_DIV
      /\ Abstract!T_POW = T_POW /\ Abstract!T_SUB = T_SUB /\ Abstract!T_ADD = T_ADD
      /\ Abstract!T_SUPERSCRIPT_INTEGER = T_SUPERSCRIPT_INTEGER
      /\ Abstract!T_AT = T_AT
      /\ Abstract!YYEOF = YYEOF /\ Abstract!YYEMPTY = YYEMPTY
  BY DEF Abstract!T_INTEGER, T_INTEGER, Abstract!T_FLOAT, T_FLOAT,
     Abstract!T_IDENTIFIER, T_IDENTIFIER, Abstract!T_LEFT_PAREN, T_LEFT_PAREN,
     Abstract!T_RIGHT_PAREN, T_RIGHT_PAREN, Abstract!T_DOT, T_DOT, Abstract!T_MUL,
     T_MUL, Abstract!T_DIV, T_DIV, Abstract!T_POW, T_POW, Abstract!T_SUB, T_SUB,
     Abstract!T_ADD, T_ADD, Abstract!T_SUPERSCRIPT_INTEGER, T_SUPERSCRIPT_INTEGER,
     Abstract!T_AT, T_AT, Abstract!YYEOF, YYEOF, Abstract!YYEMPTY, YYEMPTY
<1>2. Abstract!Numbers = Numbers /\ Abstract!OperandStarts = OperandStarts
  BY <1>1 DEF Abstract!Numbers, Numbers, Abstract!OperandStarts, OperandStarts
<1>3. Abstract!Followers(n) = Followers(n)
  BY <1>1, <1>2, Zenon DEF Abstract!Followers, Followers
<1> QED
  BY <1>1, <1>2, <1>3, Zenon DEF Abstract!Allowed, Allowed, Abstract!PlaceAfter,
     PlaceAfter, Abstract!DepthAfter, DepthAfter

\* Only whether a parenthesis is open matters for what is allowed.
LEMMA AllowedByOpen ==
  ASSUME NEW p, NEW n, NEW m, n > 0 <=> m > 0
  PROVE  Allowed(p, n) = Allowed(p, m)
  BY Zenon DEF Allowed, Followers

Pending == yytoken # YYEMPTY \/ phase \in {"accepted", "exhausted"}

\* The kinds of the tokens, and of those but the last.
KindsOf(list) == [i \in DOMAIN list |-> list[i].type]

ButLast(kinds) == SubSeq(kinds, 1, Len(kinds) - 1)

LEMMA KindsCut ==
  ASSUME NEW list \in Seq(Token)
  PROVE  /\ Len(list) \in Nat /\ Len(KindsOf(list)) = Len(list)
         /\ \A i \in 1 .. Len(list) : KindsOf(list)[i] = list[i].type
         /\ list # << >> =>
              /\ Len(ButLast(KindsOf(list))) = Len(list) - 1
              /\ Len(ButLast(KindsOf(list))) \in Nat
              /\ \A i \in 1 .. Len(list) - 1 : ButLast(KindsOf(list))[i] = list[i].type
<1> DEFINE kinds == KindsOf(list)
           last == ButLast(kinds)
<1>0. kinds = [i \in DOMAIN list |-> list[i].type] /\ last = SubSeq(kinds, 1, Len(kinds) - 1)
  BY DEF KindsOf, ButLast
<1> HIDE DEF kinds, last
<1>1. DOMAIN list = 1 .. Len(list) /\ Len(list) \in Nat
  OBVIOUS
<1>2. ASSUME NEW i \in 1 .. Len(list) PROVE list[i].type \in Terminals
  <2>1. list[i] \in Token
    BY <1>1
  <2> QED
    BY <2>1, Zenon DEF Token
<1>3. kinds \in Seq(Terminals) /\ Len(kinds) = Len(list)
  <2> DEFINE n == Len(list)
  <2>1. /\ kinds = [i \in 1 .. n |-> list[i].type] /\ n \in Nat
        /\ \A i \in 1 .. n : list[i].type \in Terminals
    BY <1>0, <1>1, <1>2
  <2> HIDE DEF n
  <2>2. kinds \in [1 .. n -> Terminals]
    BY <2>1
  <2>3. kinds \in Seq(Terminals) /\ Len(kinds) = n
    BY <2>1, <2>2
  <2> QED
    BY <2>3 DEF n
<1>4. \A i \in 1 .. Len(list) : kinds[i] = list[i].type
  BY <1>0, <1>1
<1>5. ASSUME list # << >>
      PROVE  /\ Len(last) = Len(list) - 1 /\ Len(last) \in Nat
             /\ \A i \in 1 .. Len(list) - 1 : last[i] = kinds[i]
  <2> DEFINE n == Len(list)
  <2>1. n >= 1
    BY <1>5
  <2>2. kinds \in Seq(Terminals) /\ Len(kinds) = n /\ n \in Nat
    BY <1>1, <1>3
  <2> HIDE DEF n
  <2>3. /\ Len(last) = n - 1 /\ n - 1 \in Nat
        /\ \A i \in 1 .. n - 1 : last[i] = kinds[i]
    BY <1>0, <2>1, <2>2
  <2> QED
    BY <2>3 DEF n
<1>6. list # << >> =>
        /\ Len(last) = Len(list) - 1 /\ Len(last) \in Nat
        /\ \A i \in 1 .. Len(list) - 1 : last[i] = list[i].type
  <2>1. \A i \in 1 .. Len(list) - 1 : i \in 1 .. Len(list)
    BY <1>1
  <2> QED
    BY <1>4, <1>5, <2>1, Zenon
<1> QED
  BY <1>1, <1>3, <1>4, <1>6, Zenon DEF kinds, last

Shifted(list, pending) == IF pending THEN ButLast(KindsOf(list)) ELSE KindsOf(list)

LEMMA ReachedAfterRead ==
  ASSUME NEW list \in Seq(Token), NEW token \in Token
  PROVE  Reached(Shifted(Append(list, token), TRUE)) = Reached(Shifted(list, FALSE))
<1> DEFINE more == Append(list, token)
           kinds == KindsOf(list)
           last == ButLast(KindsOf(more))
           n == Len(list)
<1>1. /\ more \in Seq(Token) /\ more # << >> /\ Len(more) = n + 1 /\ n \in Nat
      /\ \A i \in 1 .. n : more[i] = list[i]
  OBVIOUS
<1>2. Len(kinds) = n /\ \A i \in 1 .. n : kinds[i] = list[i].type
  BY KindsCut
<1>3. /\ Len(last) = Len(more) - 1
      /\ \A i \in 1 .. Len(more) - 1 : last[i] = more[i].type
  BY <1>1, KindsCut
<1> HIDE DEF more, kinds, last, n
<1>4. Len(last) = n /\ \A i \in 1 .. n : last[i] = kinds[i]
  BY <1>1, <1>2, <1>3
<1>5. Reached(last) = Reached(kinds)
  BY <1>1, <1>2, <1>4, ReachedSame
<1> QED
  BY <1>5 DEF Shifted, more, kinds, last

LEMMA ReachedAfterShift ==
  ASSUME NEW list \in Seq(Token), list # << >>
  PROVE  LET before == Reached(Shifted(list, TRUE))
             after  == Reached(Shifted(list, FALSE))
             type   == list[Len(list)].type
         IN  /\ after.place = PlaceAfter(before.place, type)
             /\ after.depth = DepthAfter(before.depth, type)
<1> DEFINE kinds == KindsOf(list)
           last == ButLast(KindsOf(list))
           n == Len(list)
           type == list[n].type
<1>1. /\ n \in Nat /\ n >= 1
      /\ Len(kinds) = n /\ \A i \in 1 .. n : kinds[i] = list[i].type
      /\ Len(last) = n - 1 /\ \A i \in 1 .. n - 1 : last[i] = list[i].type
  BY KindsCut
<1> HIDE DEF kinds, last, n
<1>2. /\ Len(last) \in Nat /\ Len(kinds) = Len(last) + 1
      /\ kinds[Len(last) + 1] = type
      /\ \A i \in 1 .. Len(last) : kinds[i] = last[i]
  BY <1>1
<1> HIDE DEF type
<1>3. /\ Reached(kinds).place = PlaceAfter(Reached(last).place, type)
      /\ Reached(kinds).depth = DepthAfter(Reached(last).depth, type)
  BY <1>2, ReachedMore
<1> QED
  BY <1>3 DEF Shifted, kinds, last, type, n

PlaceRead == Reached(ShiftedKinds).place
DepthRead == Reached(ShiftedKinds).depth

LEMMA ShiftedIs ==
  /\ ShiftedKinds = Shifted(tokens, Pending)
  /\ ShiftedKinds' = Shifted(tokens', Pending')
  BY Zenon DEF ShiftedKinds, Shifted, Pending, ButLast, KindsOf

(***************************************************************************)
(* The invariant: until a lookahead is established, what is viable on the  *)
(* stack is what the language allows; then it is the lookahead that is.    *)
(***************************************************************************)
WhereRead ==
  phase = "parsing" =>
    /\ PlaceRead \in Places
    /\ DepthRead = Lefts - Rights
    /\ PlaceRead = "offset" <=> AccessingSymbol(yystate) = T_AT
    /\ error = NoError
    /\ yytoken \in TokenKinds \cup {YYEMPTY, YYEOF}

ViableRead ==
  phase = "parsing" =>
    IF yy_lac_established
    THEN yytoken \in Allowed(PlaceRead, DepthRead)
    ELSE Viable(yystate, Open) = Allowed(PlaceRead, DepthRead)

LanguageInvariant == WhereRead /\ ViableRead

\* The steps that shift nothing.
LEMMA ReadKeepsPosition ==
  ASSUME ParserInvariant, NeedsToken, NEW token \in Token,
         tokens' = Append(tokens, token), yytoken' # YYEMPTY
  PROVE  PlaceRead' = PlaceRead /\ DepthRead' = DepthRead
<1>1. tokens \in Seq(Token) /\ ~ Pending /\ Pending'
  BY DEF ParserInvariant, TypeOK, NeedsToken, Pending
<1>2. ShiftedKinds = Shifted(tokens, FALSE)
      /\ ShiftedKinds' = Shifted(Append(tokens, token), TRUE)
  BY <1>1, ShiftedIs, Zenon DEF Shifted
<1>3. Reached(ShiftedKinds') = Reached(ShiftedKinds)
  BY <1>1, <1>2, ReachedAfterRead
<1> QED
  BY <1>3, Zenon DEF PlaceRead, DepthRead

LEMMA PositionKept ==
  ASSUME tokens' = tokens, Pending' <=> Pending
  PROVE  PlaceRead' = PlaceRead /\ DepthRead' = DepthRead
<1>1. ShiftedKinds' = ShiftedKinds
  BY ShiftedIs, Zenon DEF Shifted
<1> QED
  BY <1>1, Zenon DEF PlaceRead, DepthRead

LEMMA ShiftMovesOn ==
  ASSUME ParserInvariant, phase = "parsing", yytoken # YYEMPTY,
         tokens' = tokens, yytoken' = YYEMPTY, phase' = "parsing"
  PROVE  /\ PlaceRead' = PlaceAfter(PlaceRead, yytoken)
         /\ DepthRead' = DepthAfter(DepthRead, yytoken)
<1>1. /\ tokens \in Seq(Token) /\ tokens # << >>
      /\ tokens[Len(tokens)].type = yytoken
  BY DEF ParserInvariant, TypeOK, LookaheadRead
<1>2. Pending /\ ~ Pending'
  BY DEF Pending
<1>3. ShiftedKinds = Shifted(tokens, TRUE) /\ ShiftedKinds' = Shifted(tokens, FALSE)
  BY <1>2, ShiftedIs, Zenon DEF Shifted
<1> QED
  BY <1>1, <1>3, ReachedAfterShift, Zenon DEF PlaceRead, DepthRead

\* The steps of the Recognizer, in terms of the parser.
LEMMA Consumes ==
  ASSUME NEW type \in TokenKinds, Verdict = "reading", Verdict' = "reading",
         type \in Allowed(PlaceRead, DepthRead), error' = error,
         PlaceRead' = PlaceAfter(PlaceRead, type),
         DepthRead' = DepthAfter(DepthRead, type)
  PROVE  Abstract!RecognizerNext
<1>1. /\ Abstract!Allowed(PlaceRead, DepthRead) = Allowed(PlaceRead, DepthRead)
      /\ Abstract!PlaceAfter(PlaceRead, type) = PlaceAfter(PlaceRead, type)
      /\ Abstract!DepthAfter(DepthRead, type) = DepthAfter(DepthRead, type)
  BY SameLanguage, Zenon
<1>2. error'.unexpected = error.unexpected /\ error'.expected = error.expected
  OBVIOUS
<1>3. Abstract!Consume(type)
  BY <1>1, <1>2, Zenon DEF Abstract!Consume, PlaceRead, DepthRead
<1> QED
  BY <1>3, Zenon DEF Abstract!RecognizerNext

LEMMA Accepts ==
  ASSUME Verdict = "reading", Verdict' = "accepted",
         YYEOF \in Allowed(PlaceRead, DepthRead), error' = error,
         PlaceRead' = PlaceRead, DepthRead' = DepthRead
  PROVE  Abstract!RecognizerNext
<1>1. /\ Abstract!Allowed(PlaceRead, DepthRead) = Allowed(PlaceRead, DepthRead)
      /\ Abstract!YYEOF = YYEOF
  BY SameLanguage, Zenon
<1>2. error'.unexpected = error.unexpected /\ error'.expected = error.expected
  OBVIOUS
<1>3. Abstract!Accept
  BY <1>1, <1>2, Zenon DEF Abstract!Accept, PlaceRead, DepthRead
<1> QED
  BY <1>3, Zenon DEF Abstract!RecognizerNext

LEMMA Rejects ==
  ASSUME Verdict = "reading", Verdict' = "rejected",
         error'.unexpected \in (TokenKinds \cup {YYEOF}) \ Allowed(PlaceRead, DepthRead),
         error'.expected = Allowed(PlaceRead, DepthRead),
         PlaceRead' = PlaceRead, DepthRead' = DepthRead
  PROVE  Abstract!RecognizerNext
<1>1. /\ Abstract!Allowed(PlaceRead, DepthRead) = Allowed(PlaceRead, DepthRead)
      /\ Abstract!YYEOF = YYEOF
  BY SameLanguage, Zenon
<1>3. Abstract!Reject
  BY <1>1, Zenon DEF Abstract!Reject, PlaceRead, DepthRead
<1> QED
  BY <1>3, Zenon DEF Abstract!RecognizerNext

LEMMA Interrupts ==
  ASSUME Verdict = "reading", Verdict' = "interrupted",
         error'.unexpected = error.unexpected, error'.expected = error.expected,
         PlaceRead' = PlaceRead, DepthRead' = DepthRead
  PROVE  Abstract!RecognizerNext
<1>3. Abstract!Interrupt
  BY Zenon DEF Abstract!Interrupt, PlaceRead, DepthRead
<1> QED
  BY <1>3, Zenon DEF Abstract!RecognizerNext

Stutters ==
  /\ Verdict' = Verdict
  /\ error'.unexpected = error.unexpected /\ error'.expected = error.expected
  /\ PlaceRead' = PlaceRead /\ DepthRead' = DepthRead

LEMMA StuttersIs ==
  ASSUME Stutters
  PROVE  UNCHANGED Abstract!recognizerVars
  BY Zenon DEF Stutters, Abstract!recognizerVars, PlaceRead, DepthRead

LEMMA Verdicts ==
  /\ phase = "parsing" => Verdict = "reading"
  /\ phase' = "parsing" => Verdict' = "reading"
  /\ phase' = "accepted" => Verdict' = "accepted"
  /\ phase' \in {"recovering", "aborted", "exhausted"} =>
       Verdict' = IF error'.message = "syntax_error" THEN "rejected" ELSE "interrupted"
<1>1. "parsing" # "accepted" /\ "parsing" # "recovering" /\ "parsing" # "aborted"
      /\ "parsing" # "exhausted" /\ "accepted" # "recovering"
      /\ "accepted" # "aborted" /\ "accepted" # "exhausted"
  OBVIOUS
<1>2. /\ phase = "parsing" => Verdict = "reading"
      /\ phase' = "parsing" => Verdict' = "reading"
  BY <1>1 DEF Verdict
<1>3. phase' = "accepted" => Verdict' = "accepted"
  BY <1>1 DEF Verdict
<1>4. ASSUME phase' # "parsing", phase' # "accepted"
      PROVE  Verdict' = IF error'.message = "syntax_error" THEN "rejected" ELSE "interrupted"
  <2>1. CASE error'.message = "syntax_error"
    BY <1>4, <2>1 DEF Verdict
  <2>2. CASE error'.message # "syntax_error"
    BY <1>4, <2>2 DEF Verdict
  <2> QED
    BY <2>1, <2>2
<1>5. phase' \in {"recovering", "aborted", "exhausted"} => phase' # "parsing" /\ phase' # "accepted"
  BY <1>1
<1> QED
  BY <1>2, <1>3, <1>4, <1>5, Zenon

LEMMA InitReadsNothing ==
  ASSUME Init
  PROVE  LanguageInvariant /\ Abstract!RecognizerInit
<1>1. /\ phase = "parsing" /\ yytoken = YYEMPTY /\ tokens = << >> /\ error = NoError
      /\ yystate = 0 /\ yy_lac_established = FALSE
  BY DEF Init, yystate, Top, Bottom
<1>2. PlaceRead = "operand" /\ DepthRead = 0
  <2>1. ~ Pending
    BY <1>1 DEF Pending
  <2>2. ShiftedKinds = KindsOf(tokens)
    BY <2>1, ShiftedIs, Zenon DEF Shifted
  <2>3. tokens \in Seq(Token) /\ Len(tokens) = 0
    BY <1>1
  <2>4. Len(KindsOf(tokens)) = 0
    BY <2>3, KindsCut
  <2>5. Reached(KindsOf(tokens)).place = "operand" /\ Reached(KindsOf(tokens)).depth = 0
    BY <2>4, ReachedNone
  <2> QED
    BY <2>2, <2>5, Zenon DEF PlaceRead, DepthRead
<1>3. Lefts - Rights = 0
  <2>1. ParserInvariant /\ NestingBalanced
    BY InitCounts, InitEstablishesInvariant DEF CountInvariant
  <2>2. lexer.nesting_depth = 0 /\ Ahead = 0
    BY <1>1 DEF Init, EmptyContext, Ahead, YYEMPTY, T_LEFT_PAREN, T_RIGHT_PAREN
  <2>3. Lefts \in Nat /\ Rights \in Nat
    BY <2>1, CountTypes
  <2> QED
    BY <1>1, <2>1, <2>2, <2>3 DEF NestingBalanced
<1>4. Open = 0
  BY <1>3 DEF Open
<1>5. AccessingSymbol(0) = YYEOF /\ YYEOF \notin Nonterminals /\ T_AT # YYEOF
  BY DEF AccessingSymbol, yystos, YYEOF, Nonterminals, YYNTOKENS, N_identifier, T_AT
<1>6. Viable(0, 0) = Allowed("operand", 0)
  <2>1. \A p : PlaceAfter(p, YYEOF) = "operand"
    BY DEF PlaceAfter, YYEOF, Numbers, T_INTEGER, T_FLOAT, T_SUPERSCRIPT_INTEGER,
       T_RIGHT_PAREN, T_IDENTIFIER, T_AT, T_SUB
  <2> QED
    BY <1>5, <2>1, Zenon DEF Viable, PlaceIn
<1>7. LanguageInvariant
  <2>1. "operand" \in Places /\ "operand" # "offset"
    BY DEF Places
  <2> QED
    BY <1>1, <1>2, <1>3, <1>4, <1>5, <1>6, <2>1, Zenon
       DEF LanguageInvariant, WhereRead, ViableRead
<1>8. Abstract!RecognizerInit
  <2>1. error.unexpected = YYEMPTY /\ error.expected = {}
    BY <1>1 DEF NoError
  <2>2. Abstract!YYEMPTY = YYEMPTY
    BY SameLanguage
  <2>3. Verdict = "reading"
    BY <1>1, Verdicts
  <2> QED
    BY <1>2, <2>1, <2>2, <2>3, Zenon DEF Abstract!RecognizerInit, PlaceRead, DepthRead
<1> QED
  BY <1>7, <1>8

\* A token that can be shifted is allowed, whether it was checked or not.
LEMMA ShiftedIsAllowed ==
  ASSUME ParserInvariant, LanguageInvariant, phase = "parsing",
         yytoken # YYEMPTY, HasTableAction(yystate, yytoken)
  PROVE  yytoken \in Allowed(PlaceRead, DepthRead)
<1>1. yytoken \in Terminals /\ yystate \in States
  BY YystateType DEF ParserInvariant, TypeOK
<1>2. CASE yy_lac_established
  BY <1>2, Zenon DEF LanguageInvariant, ViableRead
<1>3. CASE ~ yy_lac_established
  <2>1. ~ IsConsistent(yystate)
    BY Zenon DEF HasTableAction
  <2>2. yytoken # YYUNDEF
    BY <1>1, TablesAreConsistent, Zenon DEF LrConsistent, NoErrorProductions
  <2>3. LacAccepts(StateStack, yytoken)
    BY <2>2, LacNow, Zenon
  <2>4. yytoken \in Viable(yystate, Open)
    BY <1>1, <2>1, <2>3, LacExact, Zenon
  <2> QED
    BY <1>3, <2>4, Zenon DEF LanguageInvariant, ViableRead
<1> QED
  BY <1>2, <1>3

LEMMA OffsetOnly ==
  ASSUME NEW p, NEW q, NEW type, p = "offset" <=> q = "offset"
  PROVE  PlaceAfter(p, type) = PlaceAfter(q, type)
  BY Zenon DEF PlaceAfter

LEMMA OffsetIsAt ==
  ASSUME NEW p, NEW type
  PROVE  PlaceAfter(p, type) = "offset" <=> type = T_AT
  BY DEF PlaceAfter, Numbers, T_INTEGER, T_FLOAT, T_SUPERSCRIPT_INTEGER,
       T_RIGHT_PAREN, T_IDENTIFIER, T_AT, T_SUB

LEMMA DepthMoves ==
  ASSUME NEW open \in Int, NEW type
  PROVE  /\ IsOf(type, {T_LEFT_PAREN}) \in {0, 1} /\ IsOf(type, {T_RIGHT_PAREN}) \in {0, 1}
         /\ DepthAfter(open, type)
              = open + IsOf(type, {T_LEFT_PAREN}) - IsOf(type, {T_RIGHT_PAREN})
<1>1. T_LEFT_PAREN # T_RIGHT_PAREN
  BY DEF T_LEFT_PAREN, T_RIGHT_PAREN
<1>2. CASE type = T_LEFT_PAREN
  <2>1. IsOf(type, {T_LEFT_PAREN}) = 1 /\ IsOf(type, {T_RIGHT_PAREN}) = 0
    BY <1>1, <1>2 DEF IsOf
  <2>2. DepthAfter(open, type) = open + 1
    BY <1>1, <1>2, Zenon DEF DepthAfter
  <2> QED
    BY <2>1, <2>2
<1>3. CASE type = T_RIGHT_PAREN
  <2>1. IsOf(type, {T_LEFT_PAREN}) = 0 /\ IsOf(type, {T_RIGHT_PAREN}) = 1
    BY <1>1, <1>3 DEF IsOf
  <2>2. DepthAfter(open, type) = open - 1
    BY <1>1, <1>3, Zenon DEF DepthAfter
  <2> QED
    BY <2>1, <2>2
<1>4. CASE type # T_LEFT_PAREN /\ type # T_RIGHT_PAREN
  <2>1. IsOf(type, {T_LEFT_PAREN}) = 0 /\ IsOf(type, {T_RIGHT_PAREN}) = 0
    BY <1>4 DEF IsOf
  <2>2. DepthAfter(open, type) = open
    BY <1>4 DEF DepthAfter
  <2> QED
    BY <2>1, <2>2
<1> QED
  BY <1>2, <1>3, <1>4

LEMMA OpenAllows ==
  ASSUME ParserInvariant, NEW p
  PROVE  Allowed(p, Open) = Allowed(p, Lefts - Rights)
<1>1. Open > 0 <=> Lefts - Rights > 0
  BY DEF Open
<1> QED
  BY <1>1, AllowedByOpen

\* A shift is a Consume, or the Accept, or the stack is full.
LEMMA ShiftReads ==
  ASSUME ParserInvariant, OutcomeInvariant, LanguageInvariant, Shift,
         ParserInvariant', OutcomeInvariant'
  PROVE  Abstract!RecognizerNext /\ LanguageInvariant'
<1> DEFINE x == yytoken
<1>1. /\ phase = "parsing" /\ yytoken # YYEMPTY /\ HasTableAction(yystate, yytoken)
      /\ yytoken' = YYEMPTY /\ yy_lac_established' = FALSE
      /\ tokens' = tokens /\ lexer' = lexer
  BY DEF Shift
<1>2. x \in Allowed(PlaceRead, DepthRead)
  BY <1>1, ShiftedIsAllowed
<1>3. /\ PlaceRead \in Places /\ DepthRead = Lefts - Rights
      /\ PlaceRead = "offset" <=> AccessingSymbol(yystate) = T_AT
      /\ error = NoError /\ x \in TokenKinds \cup {YYEOF}
  BY <1>1, Zenon DEF LanguageInvariant, WhereRead
<1>4. /\ Lefts' = Lefts + IsOf(x, {T_LEFT_PAREN})
      /\ Rights' = Rights + IsOf(x, {T_RIGHT_PAREN})
      /\ AccessingSymbol(yystate') = x
      /\ yystate' = TableAction(yystate, x)
  BY ShiftCounts DEF Lefts, Rights
<1>5. /\ yystate \in States /\ x \in Terminals
      /\ Lefts \in Nat /\ Rights \in Nat
  <2>1. yystate \in States /\ yytoken \in Terminals
    BY <1>1, YystateType DEF ParserInvariant, TypeOK
  <2>2. Lefts \in Nat /\ Rights \in Nat
    BY CountTypes
  <2> QED
    BY <2>1, <2>2
<1>6. PICK newStack : /\ EnterState(newStack)
                      /\ newStack[Len(newStack)].state = yystate'
  <2> DEFINE new == Append(stack, [state    |-> TableAction(yystate, yytoken),
                                   node     |-> NoNode,
                                   token    |-> Len(tokens),
                                   location |-> yylloc])
  <2>1. EnterState(new)
    BY Zenon DEF Shift
  <2>2. stack' = new
    BY <2>1, Zenon DEF EnterState
  <2> HIDE DEF new
  <2> QED
    BY <2>1, <2>2, Zenon DEF yystate, Top
<1>7. /\ phase' = PhaseAfter(newStack)
      /\ error' = IF phase' = "exhausted"
                  THEN SetError(error, yylloc, "memory_exhausted")
                  ELSE error
  BY <1>6, Zenon DEF EnterState
<1>8. Verdict = "reading" /\ Pending
  BY <1>1, Verdicts, Zenon DEF Pending
<1>9. CASE phase' = "parsing"
  <2>1. error' = error
    BY <1>7, <1>9
  <2>2. x # YYEOF
    <3>1. yystate' # YYFINAL
      BY <1>9, Zenon DEF ParserInvariant, NotYetFinal
    <3>2. yystate' \in States /\ IsEdge(yystate, yystate')
      BY <1>1, <1>4, <1>5, ShiftTarget
    <3>3. yystate' # 0
      BY <3>2, EdgeStates
    <3> QED
      BY <1>4, <3>1, <3>2, <3>3, TablesAreConsistent, Zenon
         DEF LrConsistent, FinalStateIsAcceptance
  <2>3. x \in TokenKinds
    BY <1>3, <2>2
  <2>4. /\ PlaceRead' = PlaceAfter(PlaceRead, x)
        /\ DepthRead' = DepthAfter(DepthRead, x)
    BY <1>1, <1>9, ShiftMovesOn
  <2>5. Abstract!RecognizerNext
    BY <1>2, <1>8, <1>9, <2>1, <2>3, <2>4, Consumes, Verdicts, Zenon
  <2>6. DepthRead' = Lefts' - Rights'
    <3> DEFINE lefts == Lefts
               rights == Rights
               opened == IsOf(x, {T_LEFT_PAREN})
               closed == IsOf(x, {T_RIGHT_PAREN})
    <3>1. lefts \in Nat /\ rights \in Nat
      BY <1>5
    <3>2. /\ opened \in {0, 1} /\ closed \in {0, 1}
          /\ DepthAfter(lefts - rights, x) = lefts - rights + opened - closed
      <4>1. lefts - rights \in Int
        BY <3>1
      <4> HIDE DEF lefts, rights, x
      <4> QED
        BY <4>1, DepthMoves
    <3>3. DepthRead' = DepthAfter(lefts - rights, x)
      BY <1>3, <2>4, Zenon
    <3>4. Lefts' = lefts + opened /\ Rights' = rights + closed
      BY <1>4, Zenon
    <3> HIDE DEF lefts, rights, opened, closed, x
    <3> QED
      BY <3>1, <3>2, <3>3, <3>4
  <2>7. /\ PlaceRead' \in Places
        /\ PlaceRead' = "offset" <=> AccessingSymbol(yystate') = T_AT
    <3>1. PlaceAfter(PlaceRead, x) \in Places
      BY PlaceType
    <3>2. PlaceAfter(PlaceRead, x) = "offset" <=> x = T_AT
      BY OffsetIsAt
    <3>3. PlaceRead' = PlaceAfter(PlaceRead, x) /\ AccessingSymbol(yystate') = x
      BY <1>4, <2>4
    <3> DEFINE next == PlaceRead'
               symbol == AccessingSymbol(yystate')
    <3>4. next = PlaceAfter(PlaceRead, x) /\ symbol = x
      BY <3>3
    <3> HIDE DEF next, symbol, x
    <3>5. /\ next \in Places
          /\ next = "offset" <=> symbol = T_AT
      BY <3>1, <3>2, <3>4, Zenon
    <3> QED
      BY <3>5 DEF next, symbol
  <2>8. Viable(yystate', Open') = Allowed(PlaceRead', DepthRead')
    <3> DEFINE place == IF AccessingSymbol(yystate) = T_AT THEN "offset" ELSE "operand"
    <3>1. Open' \in {0, 1}
      BY DEF Open
    <3>2. Viable(yystate', Open') = Allowed(PlaceAfter(place, x), Open')
      <4>1. \A open \in {0, 1} :
              Viable(TableAction(yystate, x), open) = Allowed(PlaceAfter(place, x), open)
        BY <1>1, <1>5, <2>2, LanguageConsistent, Zenon DEF ViableShifted
      <4> QED
        BY <1>4, <3>1, <4>1
    <3>3. PlaceAfter(place, x) = PlaceRead'
      <4>1. place = "offset" <=> PlaceRead = "offset"
        BY <1>3
      <4> HIDE DEF place
      <4> QED
        BY <2>4, <4>1, OffsetOnly, Zenon
    <3>4. Open' > 0 <=> DepthRead' > 0
      BY <2>6 DEF Open
    <3> QED
      BY <3>2, <3>3, <3>4, AllowedByOpen
  <2> QED
    BY <1>1, <1>3, <2>1, <2>5, <2>6, <2>7, <2>8, Zenon
       DEF LanguageInvariant, WhereRead, ViableRead
<1>10. CASE phase' = "accepted"
  <2>1. error' = error /\ yystate' = YYFINAL
    <3>1. error' = error
      BY <1>7, <1>10
    <3>2. newStack[Len(newStack)].state = YYFINAL
      BY <1>7, <1>10 DEF PhaseAfter
    <3> QED
      BY <1>6, <3>1, <3>2
  <2>2. x = YYEOF
    BY <1>4, <2>1, TablesAreConsistent, Zenon DEF LrConsistent, FinalStateIsAcceptance
  <2>3. PlaceRead' = PlaceRead /\ DepthRead' = DepthRead
    BY <1>1, <1>8, <1>10, PositionKept DEF Pending
  <2>4. Abstract!RecognizerNext
    BY <1>2, <1>8, <1>10, <2>1, <2>2, <2>3, Accepts, Verdicts, Zenon
  <2> QED
    BY <1>10, <2>4 DEF LanguageInvariant, WhereRead, ViableRead
<1>11. CASE phase' = "exhausted"
  <2>1. error' = SetError(error, yylloc, "memory_exhausted")
    BY <1>7, <1>11
  <2>2. /\ error'.unexpected = error.unexpected /\ error'.expected = error.expected
        /\ error'.message # "syntax_error"
    BY <1>3, <2>1 DEF SetError, NoError, HasError
  <2>3. PlaceRead' = PlaceRead /\ DepthRead' = DepthRead
    BY <1>1, <1>8, <1>11, PositionKept DEF Pending
  <2>4. Abstract!RecognizerNext
    BY <1>8, <1>11, <2>2, <2>3, Interrupts, Verdicts
  <2> QED
    BY <1>11, <2>4 DEF LanguageInvariant, WhereRead, ViableRead
<1>12. phase' \in {"parsing", "accepted", "exhausted"}
  <2>1. phase' # "recovering"
    BY <1>7 DEF PhaseAfter
  <2>2. phase' \in Phases
    BY DEF ParserInvariant, TypeOK
  <2>3. phase' # "aborted"
    <3> SUFFICES ASSUME phase' = "aborted" PROVE FALSE
      OBVIOUS
    <3>1. error' = error
      BY <1>7
    <3>2. ~ HasError(error') /\ InLimits(lexer')
      BY <1>1, <3>1, Zenon DEF OutcomeInvariant, OutcomeExplained
    <3> QED
      BY <3>2 DEF OutcomeInvariant, OutcomeExplained
  <2> QED
    BY <2>1, <2>2, <2>3 DEF Phases
<1> QED
  BY <1>9, <1>10, <1>11, <1>12

(***************************************************************************)
(* The steps that read: the position stays, whatever yylex returns.        *)
(***************************************************************************)
LEMMA LookaheadKinds ==
  /\ YYEMPTY \notin TokenKinds \cup {YYEOF, YYerror}
  /\ YYEMPTY \notin Terminals
<1>1. YYEMPTY \notin Terminals /\ YYEMPTY \notin {YYEOF, YYerror}
  BY DEF YYEMPTY, Terminals, YYNTOKENS, YYEOF, YYerror
<1>2. YYEMPTY \notin LexemeTokens
  BY DEF YYEMPTY, LexemeTokens, T_INTEGER, T_INVALID_NUMBER
<1> QED
  BY <1>1, <1>2, InputAssumption

LEMMA ReadTypes ==
  ASSUME ParserInvariant, ParserInvariant', NEW token,
         tokens' = Append(tokens, token)
  PROVE  token \in Token
<1>1. tokens \in Seq(Token) /\ Append(tokens, token) \in Seq(Token)
  BY DEF ParserInvariant, TypeOK
<1>2. /\ Len(tokens) + 1 \in 1 .. Len(Append(tokens, token))
      /\ Append(tokens, token)[Len(tokens) + 1] = token
  BY <1>1
<1> QED
  BY <1>1, <1>2

\* A token or the end of the input.
LEMMA ReadStutters ==
  ASSUME ParserInvariant, ParserInvariant', LacEstablished, LanguageInvariant,
         NeedsToken, NEW token, tokens' = Append(tokens, token),
         yytoken' \in TokenKinds \cup {YYEOF},
         UNCHANGED << stack, phase, error, yy_lac_established >>
  PROVE  Stutters /\ LanguageInvariant'
<1>1. /\ phase = "parsing" /\ yytoken = YYEMPTY /\ phase' = "parsing"
      /\ yystate' = yystate /\ Lefts' = Lefts /\ Rights' = Rights
  BY DEF NeedsToken, yystate, Top, Lefts, Rights, OnAll
<1>2. PlaceRead' = PlaceRead /\ DepthRead' = DepthRead
  BY LookaheadKinds, ReadTypes, ReadKeepsPosition
<1>3. Stutters
  <2>1. Verdict' = Verdict
    BY <1>1, Verdicts, Zenon
  <2> QED
    BY <1>2, <2>1 DEF Stutters
<1>4. ~ yy_lac_established /\ ~ yy_lac_established'
  BY <1>1, LookaheadKinds, Zenon DEF LacEstablished
<1>5. Open' = Open
  BY <1>1, Zenon DEF Open
<1>6. WhereRead'
  <2>1. WhereRead /\ yytoken' \in TokenKinds \cup {YYEMPTY, YYEOF}
    BY DEF LanguageInvariant
  <2>2. /\ PlaceRead \in Places /\ DepthRead = Lefts - Rights
        /\ PlaceRead = "offset" <=> AccessingSymbol(yystate) = T_AT
        /\ error = NoError
    BY <1>1, <2>1, Zenon DEF WhereRead
  <2>3. /\ PlaceRead' \in Places /\ DepthRead' = Lefts' - Rights'
        /\ PlaceRead' = "offset" <=> AccessingSymbol(yystate') = T_AT
        /\ error' = NoError
    BY <1>1, <1>2, <2>2
  <2> QED
    BY <2>1, <2>3, Zenon DEF WhereRead
<1>7. ViableRead'
  <2>1. Viable(yystate, Open) = Allowed(PlaceRead, DepthRead)
    BY <1>1, <1>4, Zenon DEF LanguageInvariant, ViableRead
  <2>2. Viable(yystate', Open') = Allowed(PlaceRead', DepthRead')
    BY <1>1, <1>2, <1>5, <2>1, Zenon
  <2> QED
    BY <1>4, <2>2, Zenon DEF ViableRead
<1> QED
  BY <1>3, <1>6, <1>7, Zenon DEF LanguageInvariant

LEMMA ReadOverLimitInterrupts ==
  ASSUME ParserInvariant, ParserInvariant', LanguageInvariant,
         NEW type, NEW loc, ReadOverLimit(type, loc)
  PROVE  Abstract!RecognizerNext /\ LanguageInvariant'
<1> DEFINE token == [type |-> YYerror, location |-> loc, negative |-> FALSE]
<1>1. /\ phase = "parsing" /\ NeedsToken /\ phase' = "recovering" /\ error' = error
      /\ yytoken' = YYerror /\ tokens' = Append(tokens, token)
  BY DEF ReadOverLimit, NeedsToken, PhaseOverLimit
<1> HIDE DEF token
<1>2. PlaceRead' = PlaceRead /\ DepthRead' = DepthRead
  <2>1. token \in Token /\ yytoken' # YYEMPTY
    BY <1>1, LookaheadKinds, ReadTypes
  <2> QED
    BY <1>1, <2>1, ReadKeepsPosition
<1>3. error'.message # "syntax_error"
  BY <1>1 DEF LanguageInvariant, WhereRead, NoError
<1>4. Verdict = "reading" /\ Verdict' = "interrupted"
  BY <1>1, <1>3, Verdicts
<1>5. Abstract!RecognizerNext
  BY <1>1, <1>2, <1>4, Interrupts
<1>6. LanguageInvariant'
  BY <1>1 DEF LanguageInvariant, WhereRead, ViableRead
<1> QED
  BY <1>5, <1>6

(***************************************************************************)
(* The reductions.                                                         *)
(***************************************************************************)
LEMMA ReductionStays ==
  ASSUME ParserInvariant, OutcomeInvariant, phase = "parsing",
         yystate \in ReducingStates, NEW r, r = DefaultReduction(yystate), Reduce(r)
  PROVE  /\ phase' = "parsing" /\ error' = error
         /\ AccessingSymbol(yystate') = RuleLhs(r)
         /\ RuleLhs(r) \in Nonterminals
         /\ Lefts' - Rights' = Lefts - Rights
<1>1. /\ stack \in Seq(Entry) /\ stack # << >> /\ Len(stack) \in Nat
      /\ yystacksize \in Nat /\ StackIsPath /\ TypeOK
  BY DEF ParserInvariant, TypeOK
<1>2. r \in Rules /\ RuleLhs(r) \in Nonterminals /\ RuleLength(r) \in 1 .. 3
  BY ReducingRule
<1>3. PICK entry \in Entry, newStack \in Seq(Entry),
           below \in 1 .. Len(stack) - 1 :
        /\ below = Len(stack) - RuleLength(r)
        /\ Len(newStack) = below + 1
        /\ \A i \in 1 .. below : newStack[i] = stack[i]
        /\ newStack[below + 1] = entry
        /\ EnterState(newStack)
        /\ entry.state = StateAfter(r)
  BY ReduceReplacesHandle
<1>4. AccessingSymbol(entry.state) = RuleLhs(r)
  BY <1>1, <1>3, HandleOnStack
<1>5. entry.state # YYFINAL
  <2>1. AccessingSymbol(YYFINAL) = YYEOF
    BY TablesAreConsistent DEF LrConsistent, FinalStateIsAcceptance
  <2>2. YYEOF \notin Nonterminals
    BY DEF Nonterminals, YYEOF, YYNTOKENS, N_identifier
  <2> QED
    BY <2>1, <2>2, <1>2, <1>4
<1>6. /\ stack' = newStack /\ newStack[Len(newStack)] = entry
      /\ phase' = PhaseAfter(newStack)
      /\ error' = IF PhaseAfter(newStack) = "exhausted"
                  THEN SetError(error, yylloc, "memory_exhausted") ELSE error
  BY <1>3 DEF EnterState
<1>7. Len(newStack) < yystacksize
  BY <1>1, <1>3 DEF OutcomeInvariant, RoomLeft
<1>8. ~ IsFull(newStack)
  <2>1. Len(newStack) \in Nat
    BY <1>3
  <2> QED
    BY <1>1, <1>7, <2>1 DEF IsFull
<1>9. PhaseAfter(newStack) = "parsing"
  <2>1. GrownSize(newStack) = yystacksize
    BY <1>8 DEF GrownSize
  <2>2. ~ (Len(newStack) >= GrownSize(newStack))
    BY <1>8, <2>1 DEF IsFull
  <2> QED
    BY <1>5, <1>6, <1>8, <2>2 DEF PhaseAfter
<1>10. yystate' = entry.state
  BY <1>6 DEF yystate, Top
<1>11. Lefts' - Rights' = Lefts - Rights
  <2>1. {T_LEFT_PAREN} \in SUBSET Terminals /\ {T_RIGHT_PAREN} \in SUBSET Terminals
    BY DEF Terminals, YYNTOKENS, T_LEFT_PAREN, T_RIGHT_PAREN
  <2>2. /\ Lefts' + SymbolsIn(r, {T_LEFT_PAREN}) = Lefts
        /\ Rights' + SymbolsIn(r, {T_RIGHT_PAREN}) = Rights
    BY <2>1, ReduceCounts DEF Lefts, Rights
  <2>3. Lefts' \in Nat /\ Rights' \in Nat
    <3>1. Len(stack') \in Nat
      BY <1>3, <1>6
    <3> QED
      BY <3>1, CountNext DEF Lefts, Rights, OnAll
  <2>4. CASE r = 19
    <3>1. /\ RuleRhs[r] = << T_LEFT_PAREN, N_exp, T_RIGHT_PAREN >>
          /\ RuleLength(r) = 3
      <4>1. RuleRhs[19] = << T_LEFT_PAREN, N_exp, T_RIGHT_PAREN >>
        BY TablesAreConsistent, Zenon DEF LrConsistent, ParenthesesInPairs
      <4>2. RuleLength(r) = Len(RuleRhs[r])
        BY <1>2, TablesAreConsistent, Zenon DEF LrConsistent, RulesConsistent
      <4> QED
        BY <2>4, <4>1, <4>2
    <3>2. SymbolsIn(r, {T_LEFT_PAREN}) = 1 /\ SymbolsIn(r, {T_RIGHT_PAREN}) = 1
      BY <3>1 DEF SymbolsIn, T_LEFT_PAREN, T_RIGHT_PAREN, N_exp
    <3> QED
      BY <2>2, <2>3, <3>2, CountTypes
  <2>5. CASE r # 19
    <3>1. \A k \in 1 .. RuleLength(r) :
            RuleRhs[r][k] \notin {T_LEFT_PAREN, T_RIGHT_PAREN}
      BY <1>2, <2>5, TablesAreConsistent DEF LrConsistent, ParenthesesInPairs
    <3>2. SymbolsIn(r, {T_LEFT_PAREN}) = 0 /\ SymbolsIn(r, {T_RIGHT_PAREN}) = 0
      BY <1>2, <3>1 DEF SymbolsIn
    <3> QED
      BY <2>2, <2>3, <3>2, CountTypes
  <2> QED
    BY <2>4, <2>5
<1> QED
  BY <1>2, <1>4, <1>6, <1>9, <1>10, <1>11

LEMMA ViableOfReduced ==
  ASSUME NEW s, NEW lhs \in Nonterminals, AccessingSymbol(s) = lhs, NEW n
  PROVE  Viable(s, n) = ViableAfter(lhs, n)
  BY Zenon DEF Viable

LEMMA ViableAfterTokens ==
  ASSUME NEW lhs, NEW n
  PROVE  ViableAfter(lhs, n) \subseteq Terminals
<1>1. "name" \in Places /\ "primary" \in Places
  BY DEF Places
<1>2. Allowed("name", n) \subseteq Terminals /\ Allowed("primary", n) \subseteq Terminals
  BY <1>1, AllowedTokens
<1> QED
  BY <1>2, Zenon DEF ViableAfter

\* A lookahead that has been checked, or is, may be next.
LEMMA CheckedIsAllowed ==
  ASSUME ParserInvariant, LanguageInvariant, phase = "parsing", ReduceOnToken
  PROVE  yytoken \in Allowed(PlaceRead, DepthRead)
<1>1. /\ ~ IsConsistent(yystate) /\ yytoken # YYEMPTY
      /\ yy_lac_established \/ LacAccepts(StateStack, yytoken)
  BY Zenon DEF ReduceOnToken, NoTableAction, LookaheadPasses
<1>2. yytoken \in Terminals
  BY <1>1, Zenon DEF ParserInvariant, TypeOK
<1>3. CASE yy_lac_established
  BY <1>3, Zenon DEF LanguageInvariant, ViableRead
<1>4. CASE ~ yy_lac_established
  <2>1. yytoken \in Viable(yystate, Open)
    BY <1>1, <1>2, <1>4, LacExact, Zenon
  <2> QED
    BY <1>4, <2>1, Zenon DEF LanguageInvariant, ViableRead
<1> QED
  BY <1>3, <1>4

LEMMA ReduceStutters ==
  ASSUME ParserInvariant, OutcomeInvariant, LacEstablished, LanguageInvariant,
         ReduceWithoutToken \/ ReduceOnToken
  PROVE  Stutters /\ LanguageInvariant'
<1> DEFINE r == DefaultReduction(yystate)
<1>1. /\ phase = "parsing" /\ Reduce(r) /\ yytoken' = yytoken /\ tokens' = tokens
  BY Zenon DEF ReduceWithoutToken, ReduceOnToken, NoTableAction
<1>2. yystate \in ReducingStates
  BY ReductionStates, Zenon
<1> HIDE DEF r
<1>3. /\ phase' = "parsing" /\ error' = error
      /\ AccessingSymbol(yystate') = RuleLhs(r) /\ RuleLhs(r) \in Nonterminals
      /\ Lefts' - Rights' = Lefts - Rights
  BY <1>1, <1>2, ReductionStays DEF r
<1>4. PlaceRead' = PlaceRead /\ DepthRead' = DepthRead
  BY <1>1, <1>3, PositionKept DEF Pending
<1>5. Stutters
  <2>1. Verdict' = Verdict
    BY <1>1, <1>3, Verdicts, Zenon
  <2> QED
    BY <1>3, <1>4, <2>1 DEF Stutters
<1>6. Open' = Open
  BY <1>3, Zenon DEF Open
<1>7. WhereRead'
  <2>1. /\ PlaceRead \in Places /\ DepthRead = Lefts - Rights
        /\ PlaceRead = "offset" <=> AccessingSymbol(yystate) = T_AT
        /\ error = NoError
        /\ yytoken \in TokenKinds \cup {YYEMPTY, YYEOF}
    BY <1>1, Zenon DEF LanguageInvariant, WhereRead
  <2>2. AccessingSymbol(yystate) # T_AT
    <3>1. yystate \in States /\ DefaultReduction(yystate) # 0
      BY <1>2, Zenon DEF ReducingStates
    <3> QED
      BY <3>1, LanguageConsistent, Zenon DEF PlacesKept
  <2>3. AccessingSymbol(yystate') # T_AT
    <3>1. T_AT \notin Nonterminals
      BY DEF T_AT, Nonterminals, YYNTOKENS, N_identifier
    <3> QED
      BY <1>3, <3>1
  <2>4. /\ PlaceRead' \in Places /\ DepthRead' = Lefts' - Rights'
        /\ PlaceRead' # "offset" /\ error' = NoError
        /\ yytoken' \in TokenKinds \cup {YYEMPTY, YYEOF}
    BY <1>1, <1>3, <1>4, <2>1, <2>2
  <2> QED
    BY <2>3, <2>4, Zenon DEF WhereRead
<1>8. ASSUME ReduceWithoutToken, ~ yy_lac_established
      PROVE  Viable(yystate', Open') = Allowed(PlaceRead', DepthRead')
  <2>1. \A x \in Terminals : ~ HasTableAction(yystate, x)
    BY <1>8, Zenon DEF ReduceWithoutToken, HasTableAction
  <2>2. \A x \in Terminals :
          x \in Viable(yystate, Open) <=> x \in ViableAfter(RuleLhs(r), Open)
    BY <1>2, <2>1, ViableAcrossReduction, Zenon DEF r
  <2>3. /\ Viable(yystate, Open) \subseteq Terminals
        /\ ViableAfter(RuleLhs(r), Open) \subseteq Terminals
    BY ViableTokens, ViableAfterTokens
  <2>4. Viable(yystate, Open) = ViableAfter(RuleLhs(r), Open)
    BY <2>2, <2>3, Zenon
  <2>5. Viable(yystate', Open) = ViableAfter(RuleLhs(r), Open)
    <3> DEFINE next == yystate'
    <3>1. AccessingSymbol(next) = RuleLhs(r) /\ RuleLhs(r) \in Nonterminals
      BY <1>3
    <3> HIDE DEF next
    <3>2. Viable(next, Open) = ViableAfter(RuleLhs(r), Open)
      BY <3>1, ViableOfReduced, Zenon
    <3> QED
      BY <3>2 DEF next
  <2>6. Viable(yystate, Open) = Allowed(PlaceRead, DepthRead)
    BY <1>1, <1>8, Zenon DEF LanguageInvariant, ViableRead
  <2> QED
    BY <1>4, <1>6, <2>4, <2>5, <2>6, Zenon
<1>9. ViableRead'
  <2>1. CASE ReduceOnToken
    <3>1. yy_lac_established' = TRUE /\ yytoken \in Allowed(PlaceRead, DepthRead)
      BY <1>1, <2>1, CheckedIsAllowed, Zenon DEF ReduceOnToken
    <3>2. yytoken' \in Allowed(PlaceRead', DepthRead')
      BY <1>1, <1>4, <3>1, Zenon
    <3> QED
      BY <3>1, <3>2, Zenon DEF ViableRead
  <2>2. CASE ReduceWithoutToken /\ yy_lac_established
    <3>1. yy_lac_established' = yy_lac_established
      BY <2>2 DEF ReduceWithoutToken
    <3>2. yytoken \in Allowed(PlaceRead, DepthRead)
      BY <1>1, <2>2, Zenon DEF LanguageInvariant, ViableRead
    <3>3. yytoken' \in Allowed(PlaceRead', DepthRead')
      BY <1>1, <1>4, <3>2, Zenon
    <3> QED
      BY <2>2, <3>1, <3>3, Zenon DEF ViableRead
  <2>3. CASE ReduceWithoutToken /\ ~ yy_lac_established
    <3>1. yy_lac_established' = yy_lac_established
      BY <2>3 DEF ReduceWithoutToken
    <3> QED
      BY <1>8, <2>3, <3>1, Zenon DEF ViableRead
  <2> QED
    BY <2>1, <2>2, <2>3, Zenon
<1> QED
  BY <1>5, <1>7, <1>9, Zenon DEF LanguageInvariant

(***************************************************************************)
(* A syntax error: the lookahead is refused, and what LAC accepts is what  *)
(* the language allows.                                                    *)
(***************************************************************************)
LEMMA ExpectedIsAllowed ==
  ASSUME ParserInvariant, LanguageInvariant, phase = "parsing",
         ~ IsConsistent(yystate), ~ yy_lac_established
  PROVE  ExpectedTokens(StateStack) = Allowed(PlaceRead, DepthRead)
<1>1. Viable(yystate, Open) = Allowed(PlaceRead, DepthRead)
  BY Zenon DEF LanguageInvariant, ViableRead
<1>2. \A x \in Terminals : LacAccepts(StateStack, x) <=> x \in Viable(yystate, Open)
  BY LacExact
<1>3. /\ Viable(yystate, Open) \subseteq Terminals
      /\ YYerror \notin Viable(yystate, Open) /\ YYUNDEF \notin Viable(yystate, Open)
  BY ViableTokens DEF Refusals
<1>4. ExpectedTokens(StateStack) = Viable(yystate, Open)
  BY <1>2, <1>3, Zenon DEF ExpectedTokens
<1> QED
  BY <1>1, <1>4

LEMMA SyntaxErrorRejects ==
  ASSUME ParserInvariant, LacEstablished, LanguageInvariant, SyntaxError
  PROVE  Abstract!RecognizerNext /\ LanguageInvariant'
<1> DEFINE x == yytoken
           expected == ExpectedTokens(StateStack)
<1>1. /\ phase = "parsing" /\ x # YYEMPTY /\ ~ IsConsistent(yystate)
      /\ ~ HasTableAction(yystate, x)
      /\ ~ (yy_lac_established \/ LacAccepts(StateStack, x)) \/ DefaultReduction(yystate) = 0
      /\ tokens' = tokens /\ yytoken' = yytoken /\ phase' = "recovering"
      /\ error' = SetSyntaxError(error, yylloc, x, expected)
  BY Zenon DEF SyntaxError, NoTableAction, LookaheadPasses, ErrorLocation
<1>2. x \in Terminals /\ x \in TokenKinds \cup {YYEOF} /\ error = NoError
  BY <1>1, Zenon DEF LanguageInvariant, WhereRead, ParserInvariant, TypeOK
<1>3. x # YYUNDEF => ~ LacAccepts(StateStack, x)
  BY <1>1, LacNow, Zenon
<1>4. ~ LacAccepts(StateStack, x)
  BY <1>3, LookaheadDefined, Zenon
<1>5. ~ yy_lac_established
  BY <1>1, <1>4, Zenon DEF LacEstablished
<1>6. expected = Allowed(PlaceRead, DepthRead)
  BY <1>1, <1>5, ExpectedIsAllowed, Zenon
<1>7. x \notin expected
  BY <1>4, Zenon DEF ExpectedTokens
<1>8. PlaceRead' = PlaceRead /\ DepthRead' = DepthRead
  BY <1>1, PositionKept DEF Pending
<1> HIDE DEF x, expected
<1>9. /\ error'.message = "syntax_error" /\ error'.unexpected = x
      /\ error'.expected = expected
  BY <1>1, <1>2 DEF SetSyntaxError, NoError, HasError
<1>10. Verdict = "reading" /\ Verdict' = "rejected"
  BY <1>1, <1>9, Verdicts
<1>11. Abstract!RecognizerNext
  <2>1. error'.unexpected \in (TokenKinds \cup {YYEOF}) \ Allowed(PlaceRead, DepthRead)
    BY <1>2, <1>6, <1>7, <1>9, Zenon
  <2>2. error'.expected = Allowed(PlaceRead, DepthRead)
    BY <1>6, <1>9
  <2> QED
    BY <1>8, <1>10, <2>1, <2>2, Rejects
<1>12. LanguageInvariant'
  BY <1>1 DEF LanguageInvariant, WhereRead, ViableRead
<1> QED
  BY <1>11, <1>12

\* Behind the verdict nothing is read any more.
LEMMA UnwindingStutters ==
  ASSUME Unwind \/ Abort
  PROVE  Stutters /\ LanguageInvariant'
<1>1. /\ phase = "recovering" /\ phase' \in {"recovering", "aborted"}
      /\ tokens' = tokens /\ yytoken' = yytoken /\ error' = error
  BY DEF Unwind, Abort
<1>2. PlaceRead' = PlaceRead /\ DepthRead' = DepthRead
  BY <1>1, PositionKept DEF Pending
<1>3. Verdict' = Verdict
  BY <1>1 DEF Verdict
<1> QED
  BY <1>1, <1>2, <1>3 DEF Stutters, LanguageInvariant, WhereRead, ViableRead

LEMMA UnchangedStutters ==
  ASSUME LanguageInvariant, UNCHANGED vars
  PROVE  Stutters /\ LanguageInvariant'
<1>1. PlaceRead' = PlaceRead /\ DepthRead' = DepthRead
  BY PositionKept, Zenon DEF vars, Pending
<1>2. Verdict' = Verdict
  BY Zenon DEF Verdict, vars
<1>3. LanguageInvariant'
  <2>1. /\ phase' = phase /\ yytoken' = yytoken /\ error' = error
        /\ yy_lac_established' = yy_lac_established
        /\ yystate' = yystate /\ Lefts' = Lefts /\ Rights' = Rights
    BY DEF vars, yystate, Top, Lefts, Rights, OnAll
  <2>2. Open' = Open
    BY <2>1, Zenon DEF Open
  <2> QED
    BY <1>1, <2>1, <2>2, Zenon DEF LanguageInvariant, WhereRead, ViableRead
<1>4. error'.unexpected = error.unexpected /\ error'.expected = error.expected
  BY DEF vars
<1> QED
  BY <1>1, <1>2, <1>3, <1>4, Zenon DEF Stutters

LanguageStep ==
  /\ Abstract!RecognizerNext \/ UNCHANGED Abstract!recognizerVars
  /\ LanguageInvariant'

LEMMA NextReads ==
  ASSUME ParserInvariant, OutcomeInvariant, LacEstablished, LanguageInvariant,
         ParserInvariant', OutcomeInvariant', [Next]_vars
  PROVE  LanguageStep
<1>1. Stutters /\ LanguageInvariant' => LanguageStep
  BY StuttersIs, Zenon DEF LanguageStep
<1>2. CASE UNCHANGED vars
  BY <1>1, <1>2, UnchangedStutters, Zenon
<1>3. ASSUME NEW type \in TokenKinds, NEW loc \in TokenLocations(type),
             NEW negative \in LexemeSigns(type), ReadToken(type, loc, negative)
      PROVE  LanguageStep
  <2>1. /\ NeedsToken /\ yytoken' = type
        /\ tokens' = Append(tokens, [type |-> type, location |-> loc, negative |-> negative])
        /\ UNCHANGED << stack, phase, error, yy_lac_established >>
    BY <1>3 DEF ReadToken
  <2>2. Stutters /\ LanguageInvariant'
    BY <2>1, ReadStutters
  <2> QED
    BY <1>1, <2>2
<1>4. ASSUME NEW type, NEW loc, ReadOverLimit(type, loc) PROVE LanguageStep
  BY <1>4, ReadOverLimitInterrupts, Zenon DEF LanguageStep
<1>5. ASSUME NEW loc, ReadEnd(loc) PROVE LanguageStep
  <2>1. /\ NeedsToken /\ yytoken' = YYEOF
        /\ tokens' = Append(tokens, [type |-> YYEOF, location |-> loc, negative |-> FALSE])
        /\ UNCHANGED << stack, phase, error, yy_lac_established >>
    BY <1>5 DEF ReadEnd
  <2>2. Stutters /\ LanguageInvariant'
    BY <2>1, ReadStutters
  <2> QED
    BY <1>1, <2>2
<1>6. CASE Yylex
  BY <1>3, <1>4, <1>5, <1>6, Zenon DEF Yylex
<1>7. CASE Shift
  BY <1>7, ShiftReads, Zenon DEF LanguageStep
<1>8. CASE ReduceWithoutToken \/ ReduceOnToken
  BY <1>1, <1>8, ReduceStutters, Zenon
<1>9. CASE SyntaxError
  BY <1>9, SyntaxErrorRejects, Zenon DEF LanguageStep
<1>10. CASE Unwind \/ Abort
  BY <1>1, <1>10, UnwindingStutters, Zenon
<1> QED
  BY <1>2, <1>6, <1>7, <1>8, <1>9, <1>10, Zenon DEF Next, Step, Stopped

LEMMA LanguageIsKept == Spec => []LanguageInvariant
<1>1. Init => LanguageInvariant
  BY InitReadsNothing
<1>2. ParserInvariant /\ OutcomeInvariant /\ LacEstablished /\ LanguageInvariant
      /\ ParserInvariant' /\ OutcomeInvariant' /\ [Next]_vars
      => LanguageInvariant'
  BY NextReads DEF LanguageStep
<1> QED
  BY <1>1, <1>2, ParserIsSafe, OutcomeIsSafe, LacIsKept, PTL DEF Spec

\* yyparse implements the Recognizer, which has no stack: it shifts a token
\* iff the language allows it behind those shifted before, accepts at the end
\* of the input iff that is allowed, and its syntax errors refuse a token that
\* is not allowed and list exactly those that are.
THEOREM LanguageRecognized == Spec => RefinesRecognizer
<1>1. Init => Abstract!RecognizerInit
  BY InitReadsNothing
<1>2. ParserInvariant /\ OutcomeInvariant /\ LacEstablished /\ LanguageInvariant
      /\ ParserInvariant' /\ OutcomeInvariant' /\ [Next]_vars
      => [Abstract!RecognizerNext]_(Abstract!recognizerVars)
  BY NextReads DEF LanguageStep
<1>3. RefinesRecognizer <=>
        Abstract!RecognizerInit
          /\ [][Abstract!RecognizerNext]_(Abstract!recognizerVars)
  BY DEF RefinesRecognizer, Abstract!RecognizerSpec
<1> HIDE DEF RefinesRecognizer
<1> QED
  BY <1>1, <1>2, <1>3, ParserIsSafe, OutcomeIsSafe, LacIsKept, LanguageIsKept, PTL DEF Spec
=============================================================================
