# Formal verification of php-yumemi

php-yumemi is a PHP extension. Its core is a native parser for expressions over
units and quantities (`12 m/s² · (3 - x) @ -273.15`): a Flex scanner with hard
input limits, a Bison LALR(1) parser with LAC, an arena of AST nodes and the PHP
method that runs them. A quantity class that delegates operators completes it.

This directory holds TLA+ modules translated from that code, TLC configurations
that check them on small instances, and theorems checked by TLAPS for every value
of the constants. Paths below are relative to the repository.

```
tlc -workers 2 -config yyparse_language.cfg MCYyparse      # a run
tlapm YyparseProofs.tla                                    # the proofs of a module
```

## 1. Inventory

| Component | Source | State | Operations | Modelled by |
|---|---|---|---|---|
| LALR engine | `src/parser/parser.c` | state, value and location stacks, lookahead, LAC flag, error status | shift, reduce, default reduction, LAC, error report, unwind, growth of the stacks | `ParserTables`, `ParserAutomaton`, `Yyparse` |
| Grammar, semantic actions | `src/parser/parser.y` | – | one action per rule, `YYLLOC_DEFAULT` | `Yyparse`; `ReferenceGrammar`, `Recognizer` |
| Parse context | `src/parser/parser_context.c` | arena, root, first error | make leaf, binary, negation, superscript; set error | `ParseContext` |
| Lexer accounting | `src/parser/lexer_context.c` | offset, token count, nesting depth, first limit exceeded | init, accept token | `LexerContext` |
| Scanner | `src/parser/scanner.c`, generated from `scanner.l` | buffer with NULs written into it, cursor, held byte, last accepting state, start state | yylex: match, back up, act, trim, NUL byte, end of buffer | `ScannerTables`, `ScannerAutomaton`, `Scanner`; `LexicalGrammar`, `TokenStream` |
| Unicode and UTF-8 | `src/parser/lexer_context.c`, `unicode_ranges.h` | – | decode, check an input, search a table, cut and name a chunk | `Utf8`, `InputCheck`, `UnicodeTables`, `RangeSearch`, `Classifier` |
| `NativeLexer::tokenize` | `src/parser/native_lexer.c` | scanner, its blocks, the array of the call | set up, token loop, tear down, return or throw | `NativeLexer`, `LexerService` |
| `NativeParser::parse` | `src/parser/native_parser.c` | scanner, buffer, arena of the call | acquire, parse, release, return or throw | `NativeParser`, `ParserService` |
| `InternalQuantity` | `src/internal_quantity.c` | zvals and their reference counts | create, clone, `do_operation` | `InternalQuantity` |
| Range generator | `scripts/generate-unicode-ranges.php` | the open range | collect the ranges of a pattern | `RangeGenerator` |
| Test result policy | `scripts/check-phpt-results.php` | results by test | read, compare, exit | `PhptPolicy` |
| Start-up | `src/extension.c` | – | register classes | not modelled |
| Build and CI | `config.m4`, `nix/`, `.github/` | – | – | not modelled |

How they interact: `NativeParser::parse` initialises a lexer context (which may
refuse the input for its length), a parse context, the scanner and its buffer, and
calls `yyparse`. `yyparse` pulls tokens with `yylex`; every lexeme passes through
`yumemi_lexer_accept_token`, which counts it and may answer with
`YUMEMI_PARSER_error` instead, recording a limit in the lexer context. Semantic
actions allocate nodes in the parse context and copy lexemes out of the scanner's
buffer. `parse` then reads three things to decide its outcome: the limit in the
lexer context, the return code of `yyparse`, and the error in the parse context.

`NativeLexer::tokenize` sets up the same context and scanner and runs the token loop
itself. The scanner's first call asks the context whether the input is UTF-8; if it
is not, the whole input is one token. Otherwise an automaton over bytes finds runs of
ASCII by its rules and hands any run with other bytes to
`yumemi_lexer_classify_unicode_chunk`, which decodes it, looks code points up in
generated tables by binary search and says how long the first token is; the rest is
given back to the scanner.

`InternalQuantity` is independent of all this: PHP calls its operator handler, the
handler calls a userland method, and what it releases may have a destructor; anything
may happen in either.

Nothing runs concurrently: every call has its own contexts. What is hard is the
agreement of parts that do not know each other. The tables index arrays without
checks; the lexer counts parentheses and tokens without seeing the grammar; the
limits of the lexer are supposed to make the limits of the parser unreachable; LAC
is supposed to make error reports exact although default reductions merge
lookaheads; spans are computed from the spans of symbols that were popped. Below the
parser, the scanner ends lexemes by writing NULs over its own input, tells a NUL
byte from the end of the buffer by a position, and gives bytes back to two counters
that must stay equal. In the operator handler the result may alias an operand that
userland has changed, and releasing that operand runs userland once more.
`PROJECT.json` lists each such hazard at its line with the properties that would
notice.

What makes each component correct:

- *Engine*: the stack is always a path of the automaton; each reduction finds its
  right hand side and its goto; every call returns; it accepts exactly the
  grammar's language and refuses at the first token that cannot follow.
- *Actions and arena*: `$n` is what the action takes it for; the AST is the one
  derivation of the input; it is bounded; spans nest; folded signs have
  the right parity.
- *Accounting*: nesting agrees with the parser; tokens bound the stack and the arena.
- *Scanner*: the tokens are those of the lexical grammar, whatever the automaton
  matched first; the buffer is the input whenever it is read; offsets are positions.
- *Decoder, search, classifier*: UTF-8 exactly; membership exactly; ranges sorted,
  exact and minimal.
- *`tokenize`*: an answer that is a function of the string; every block freed once.
- *Operators*: the right method, once, on the operands as written; exact reference
  counts, which the code keeps but for one window; a failure changes nothing.
- *Test policy*: success only when every expected test passed.
- *`parse`*: one call, one outcome, about this input; every resource released on
  every path.

## 2. Modules

```
ParserTables ── LexerContext ── ParseContext ── Yyparse ── NativeParser ── NativeParserProperties
      │                              │             │                             │ INSTANCE
ParserAutomaton ─────────────────────│── YyparseProperties                  ParserService
      Language ── Recognizer         │             │
         │           │ INSTANCE      │             │
         └───── YyparseLanguage ─────│─────────────┤
                     │            ReferenceGrammar │
                     │               └─────── YyparseTrees
                     └──────────── MCYyparse ──────┘
YyparseProperties ── YyparseProofs      YyparseTrees ── YyparseTreeProofs
                          │                                 │
YyparseLanguage ──────────┴────── YyparseOutcomeProofs ─────┤
                                                            │
NativeParserProperties ─────────────────────────── NativeParserProofs

Utf8 ── InputCheck ── MCInputCheck
  │                  UnicodeTables ── MCRangeSearch ── RangeSearch
  └── Classifier ───────┘                                 │ (same tables)
         │  ScannerTables, LexerContext        RangeGenerator ──┐
         ├──────┴── Scanner ── ScannerProperties     MCBuildScripts ── PhptPolicy
         └── ScannerAutomaton ─────────┴── MCScanner
                       │              │ INSTANCE
                       │         TokenStream ── LexicalLimits ── LexicalGrammar
                       │                                │
                  NativeLexer ── NativeLexerProperties  │
                                        │ INSTANCE      │
                                  LexerService ─────────┘
InputCheck, RangeSearch ── LexerContextProofs       RangeGenerator, PhptPolicy ── ScriptProofs
NativeLexerProperties ── LexerProofs                InternalQuantity ── InternalQuantityProofs
```

| Module | What it is |
|---|---|
| `ParserTables` | The tables of `parser.c` as data, how `yyparse` and `yy_lac` read them, and the right hand sides of `parser.y`. |
| `ParserAutomaton` | The graph of states that can lie on each other, computed from the tables as a fixed point, and the closed facts `LrConsistent` that tie tables and grammar together. TLC decides them when a module that extends this one is run. |
| `LexerContext` | `yumemi_lexer_context_init` and `yumemi_lexer_accept_token`. |
| `ParseContext` | The arena as a sequence of nodes, the makers of nodes, first error wins. |
| `Yyparse` | A call of `yyparse`: one action per label of the driver. |
| `YyparseProperties` | Type invariant, safety invariants, action properties, termination. |
| `ReferenceGrammar` | The derivations of a stretch of tokens, straight from the rules: a recursive function over goals, each a symbol and the tokens it is to derive. |
| `Language`, `Recognizer` | Abstract specification of the parser: a recogniser with no stack and no tables that knows which kinds may follow. |
| `YyparseLanguage` | What each state of the tables can still shift, in terms of `Language`; the closed facts `LanguageConsistent` that the tables agree; the mapping of `Yyparse` to `Recognizer`. |
| `YyparseTrees` | `AcceptedTreeIsDerived`, and the closed facts `PrecedenceConsistent` of the grammar that make a derivation unique: how each symbol begins and ends, and the level of the operator between two tokens. |
| `NativeParser` | `NativeParser::parse`, call after call, around `Yyparse`. |
| `ParserService` | Abstract specification of `parse`: invoke, respond, with what a truthful outcome is. |
| `Utf8` | `yumemi_utf8_decode`, and what UTF-8 is: a reference definition by the widths and values of an encoding, translated from no code. |
| `InputCheck` | The loop of `yumemi_lexer_context_init` over any input. |
| `UnicodeTables`, `RangeSearch` | The three tables of `unicode_ranges.h` as data; `yumemi_unicode_in_ranges` step by step, on any sorted tables. |
| `Classifier` | How `lexer_context.c` names code points, cuts the first token off a chunk and classifies numbers. |
| `ScannerTables` | The tables of `scanner.c` as data and the transition function they encode. |
| `ScannerAutomaton` | The closed facts `AutomatonSound` about the automaton of those tables, which the scanner relies on and never tests. TLC decides them when a module that extends this one is run. |
| `Scanner` | `yylex`: match loop, back-up, actions, trimming, NUL bytes, end of buffer; call after call. |
| `LexicalGrammar`, `LexicalLimits`, `TokenStream` | Abstract specification of the scanner: the languages of the lexemes as predicates on a text, the limits as predicates on the tokens so far, and the stream of longest lexemes. No automaton, no cursor, no buffer. |
| `NativeLexer` | `NativeLexer::tokenize` around `Scanner`, with the blocks `scanner.c` allocates. |
| `LexerService` | Abstract specification of `tokenize`: invoke, respond with a function of the string. |
| `InternalQuantity` | The operator handler, PHP's evaluation around it, userland within it. |
| `RangeGenerator` | `collectRanges`. |
| `MCBuildScripts` | The two scripts, one at a time, with a small code space. |
| `PhptPolicy` | The script that judges a test run. |
| `YyparseProofs`, `YyparseOutcomeProofs`, `YyparseTreeProofs`, `NativeParserProofs`, `LexerContextProofs`, `LexerProofs`, `ScriptProofs`, `InternalQuantityProofs` | The proofs (section 4). |

### Correspondence with the code

| Model | Code |
|---|---|
| `stack` | `yyss`, `yyvs` and `yyls` as one sequence; entry 1 is the initial state. An entry has `node` for a nonterminal and `token`, an index into `tokens`, for a terminal. |
| `yystacksize`, `IsFull`, `GrownSize`, `PhaseAfter` | `yysetstate`, doubling to `YYMAXDEPTH`, `YYNOMEM`, `YYABORT`, `YYACCEPT`. |
| `ReadToken`, `ReadOverLimit`, `ReadEnd` | `yybackup` calling `yylex`; the second is the branch on `YUMEMI_PARSER_error`. |
| `Shift`, `ReduceWithoutToken`, `ReduceOnToken` | Shift; `yydefault` from a consistent state; `yydefault` after `YY_LAC_ESTABLISH`. |
| `Reduce` | `yyreduce`: location, semantic action, pop, goto, push, in one step, then `yysetstate`. |
| `SyntaxError`, `Unwind`, `Abort` | `yyerrlab` with `yyreport_syntax_error`; one round of `yyerrlab1`; `yyabortlab`. |
| `LacAccepts` | `yy_lac`. No rule is empty, so the exploratory stack never holds more than one state above the real one, and it is expressed as a function of the depth left and that state. |
| `tokens` | History only: what `yylex` has returned. Semantic actions read it for the lexeme and sign a token carries, as C reads the value stack. |
| `arena` | `yumemi_parser_arena_alloc`; a node is its index, the text of a leaf is the token it was copied from and a sign. |
| `ch_buf`, `c_buf_p`, `hold_char`, `text_ptr`, `leng` | `yy_ch_buf`, `yy_c_buf_p`, `yy_hold_char`, `yytext_ptr`, `yyleng`; offsets stand for pointers. |
| `Begin`, `MatchNext`, `MatchEnd`, `FindAction` | `yylex` up to `yy_find_action` and `YY_DO_BEFORE_ACTION`; one byte per step. |
| `BackUp`, `SkipBlank`, `TakeMatch`, `CutChunk` | `case 0`, and the rules of `scanner.l`; `CutChunk` holds `YUMEMI_TRIM_TOKEN`. |
| `MatchNul`, `EndBeforeNul`, `EndOfFile`, `LastMatch` | `YY_END_OF_BUFFER` with `yy_get_next_buffer`, `yy_get_previous_state` and `yy_try_NUL_trans`. |
| `heap` | The blocks of `yylex_init_extra`, `yyensure_buffer_stack`, `yy_scan_bytes` and `yy_scan_buffer`; `misused` records a double free or a use after free. |
| `refs`, `slots`, `return_value`, `tmp`, `frame`, `dying` | Reference counts, and every place of an evaluation that may hold an object: variables, the handler's local, the temporary, the call of the method, and PHP while it destroys an object. |
| `Release`, `ReleaseLeft`, `CopyOverLeft` | `zval_ptr_dtor`, which enters a destructor for the last reference; its two callers `FailAfterThrow` and `zval_ptr_dtor(left)`; `ZVAL_COPY_VALUE` over the left operand. |
| `Rebind` | Any assignment or `unset` of a variable by a method or a destructor. |

`Yyparse` knows the scanner by what it may deliver: any kind of token, at any
distance from the last one, with any length of lexeme the configuration offers, or the
end of the input. Its one dependency that matters there is kept: two numerals are never
adjacent, because the longest match would have joined them. That is not taken on
trust: `NumeralsApart` checks it of `Scanner`. Other adjacencies are over-approximated,
so `Yyparse` has the program's inputs and a few more.

PHP and userland are external to `InternalQuantity` and appear as far as the handler
meets them: the evaluation of an operator, the possible swap of the operands of a
product, the second try with the handler of the other operand, the method, which returns
something or throws or both, and destructors. The handler releases values in two places:
a result that came with an exception, and the left operand of a compound assignment.
When it drops the last reference, PHP runs the object's destructor and holds the object
meanwhile (`dying`); the variable the handler released it from still points to it. In a
method and in either destructor userland assigns or unsets variables as often as it
likes (`Rebind`), to whatever it can reach: a value of a variable, the receiver, the
argument, the dying object, something new. `clobbered` records that the destructor of
the left operand wrote the variable of that operand.

`FailScanner` and `FailBuffer` are branches `native_parser.c` and `native_lexer.c` have
for a scanner or buffer that cannot be made. They are dead: `emalloc` does not return
without memory. They are modelled because the code has them, and no hazard is listed for
them.

Definitions named `Faulty...` stand before the definition they get wrong. No
specification uses them; they record plausible bugs, and each property has been
checked to be violated when the definition is replaced by its faulty twin.

## 3. Runs

| Run | Question | States |
|---|---|---|
| `yyparse_language` | Does the parser accept exactly the language, refuse at the right token and report exactly what could follow? Is a lookahead that passed LAC never refused? Do lexer and parser agree on nesting? | 142 165 |
| `yyparse_trees` | Is the AST the one derivation of the grammar, with the right signs? Do values match symbols? Does no action use a lexeme too late? Do tokens bound the arena? | 163 577 |
| `yyparse_spans` | With gaps and over-long lexemes, are spans ordered on the stack and nested in the AST? | 447 159 |
| `yyparse_exhaustion` | With a depth limit below the token limit, is every way out explained by exactly one report? Is there always one? | 5 888 |
| `native_parser_calls` | Is a sequence of `parse` calls a sequence of atomic truthful calls, releasing everything? Does every call answer? | 35 138 |
| `input_check` | Are exactly the inputs that are UTF-8 accepted, and is nothing decoded from the middle of a code point? | 278 850 |
| `range_search` | Does the search answer membership on the real tables? | 87 251 |
| `scanner_tokens` | Does the generated scanner deliver the tokens of the lexical grammar, and never run out of actions? Is the buffer the input whenever it is read? Are offsets positions? Do no two numerals touch? | 287 007 |
| `native_lexer_calls` | Is every `tokenize` call atomic, with an answer that depends on its string only? Is every block freed once? Does every call answer? | 4 152 |
| `quantity_operators` | Does the documented method run, once, on the operands as written? Are references exact, but for the window of `quantity_destructors`? Does a failure leave everything as it was? | 973 367 |
| `quantity_destructors` | Do the operators keep "normal userland allocation or object behavior"? They do not: see below. | violated |
| `build_scripts` | Is a generated table exact, and sorted and minimal, for every set of code points? Can the test policy succeed without every expected test having passed? | 565 413 |

Bounds, and why they are enough:

- *Tokens* (`TokenCountLimit` 3 to 5; the limit is part of the code, so no separate
  bound is needed). The longest right hand side has three symbols, and a conflict
  between two operators shows with three operands: five tokens. Reading the sixth
  exercises the limit itself.
- *Kinds*. `yyparse_language` has all fifteen kinds the scanner can return;
  `yyparse_trees` drops kinds the tables treat like one that stays (`T_FLOAT`,
  `T_MUL`, `T_DIV`, `T_ADD`, the invalid ones) in exchange for a fifth token.
- *Nesting limit* 1 or 2, reached and exceeded within the tokens.
- *Depths* `InitDepth` 2 or 3 makes the stack grow; `MaxDepth` 5 makes it run out,
  7 or 9 keep the order of the real limits (256 tokens below 10000).
- *Lexeme lengths and gaps* are one value within and one beyond the token limit,
  no gap and one byte.
- *Input lengths* in `native_parser_calls` go from 0 to one byte over the limit.
- *Bytes* of `input_check`: every sequence of up to four bytes from both sides of
  every boundary the encoding has (`EdgeBytes`), alone and, three at a time, behind a
  code point of each width. A decoder reads at most four bytes.
- *Code points* of `range_search`: those on, beside and within both ends of every range
  of the real tables (3 658 of them). The answer is constant in between.
- *Inputs* of `scanner_tokens`: up to three units, where a unit is a byte or code point
  of every class the rules or the classifier distinguish (`Units`), up to four units of
  those numbers are made of, and longer ones for second segments and exponents. The
  limits are 3 tokens, 1 parenthesis, 5 bytes, so all are reached and exceeded.
- *Strings* of `native_lexer_calls`: up to two units and some over the input limit, in
  any order of calls.
- *Objects and variables* of the two quantity runs: two variables and three objects,
  enough for both operands, the result and an alias of either, and for something new
  made by a destructor. Userland may assign any number of times. The two variables are
  interchangeable, so the runs use symmetry (`Interchangeable`).
- `build_scripts` runs one script or the other, which share nothing. The generator has 12
  code points of which two in the middle are surrogates: a run can end before, touch,
  span and start behind the gap, and reach both ends.
  The policy reads up to four lines about three tests, each missing, repeated or
  unknown.

No run needs a state constraint: the limits of the code bound everything.
Deadlock is checked in all runs (a returned call, or `Stopped`, stutters; so does
`Undefined`, a PHP program one of whose counts is wrong, which is followed no further).

*A disagreement.* `docs/ARCHITECTURE.md` says of the operator handlers that they leave
"normal userland allocation or object behavior" as it is (line 50), and that tests cover
compound-assignment aliasing (line 55). `quantity_destructors` checks
`NormalObjectBehavior`, that between two operators an object is counted once for every
variable that holds it, and TLC finds it violated. In `$x += ...` the handler releases
the left operand in place (`internal_quantity.c:115`) and stores the result afterwards
(`:117`). If that was the last reference, the destructor runs while `$x` still points to
the object. When it unsets `$x`, the object is released a second time; when it assigns `$x`, the
new value is overwritten by the result without being released. `RefsExact` says that
this window is the only one: as long as no destructor of a left operand has written its
variable, all counts are exact, and `RefsCorrect` proves it. Storing the result first and
releasing the old value last, as PHP's own assignment does, would close the window.

*Fairness.* `FairSpec` has weak fairness of `Step`, the disjunction of everything
`yyparse` can do: it is a sequential loop that the CPU runs, and `yylex` always
returns as the input is a finite buffer. `FairCallSpec` says the same of a call in
progress (`Proceed`); callers are not obliged to call. `FairLexerSpec` says it of
`tokenize` and with it of every `yylex` call it makes. No single action is fair:
which token comes is the input's choice.

## 4. Theorems

| Module | Theorem | Says |
|---|---|---|
| `YyparseProofs` | `TypeCorrect`, `StackPathCorrect`, `ValuesCorrect` | `TypeOK`, `StackIsPath`, `ValuesMatchSymbols` always hold. |
| | `StackOrderCorrect`, `SpansCorrect` | Spans are ordered on the stack and nested in the AST. |
| | `SignsCorrect` | A numeral is negative iff an odd number of minus signs was folded into it. |
| `YyparseOutcomeProofs` | `OutcomeCorrect` | Every way out is explained by exactly one report. |
| | `StackBounded`, `NeverExhausted` | The token count bounds the stack; with `TokenCountLimit + 2 < MaxDepth` it is never exhausted. |
| | `NestingCorrect`, `ArenaBounded` | The lexer's nesting counter agrees with the parser's stack; a token causes at most two nodes. |
| | `LexemesCopied` | A lexeme is copied into the arena before another token is read. |
| | `LookaheadCommitted` | A lookahead that passed LAC is never refused. |
| | `ErrorNamed` | A syntax error names the token read last, and lists others as expected, never this one. |
| | `LanguageRecognized` | `Yyparse` implements `Recognizer`: it shifts a token iff the language allows it there, and a syntax error lists exactly the tokens that could follow. |
| `YyparseTreeProofs` | `Unambiguous` | The grammar derives no stretch of tokens from a symbol in two ways that mean different trees. |
| | `TreeCorrect` | The AST of an accepted input is the one tree the grammar derives: operators, associativity, precedence, folded signs and the spans of all nodes. |
| `NativeParserProofs` | `ResourcesCorrect`, `ReportsCorrect` | Call after call, exactly what was acquired is held; a limit and a message are never both reported. |
| | `ServiceImplemented` | With `TokenCountLimit + 2 < MaxDepth` the calls implement `ParserService`: each is atomic and has one truthful outcome. |
| | `AnswersCorrect` | The same without that condition, except that a syntax error is only known to be one the parser recorded. |
| `LexerContextProofs` | `InputCheckDecides`, `DecodedAlwaysWellFormed` | The check accepts exactly the well-formed byte sequences, of any length; what is decoded is always a code point in its only encoding. |
| | `SearchWindowCorrect`, `SearchCorrect` | On sorted tables of any length the search answers membership. |
| `LexerProofs` | `BufferKept`, `OffsetKept`, `FatalNever` | Whenever the scanner reads its buffer it reads the input; offsets and cursor agree whenever it returns; it never meets a fatal error. |
| | `TokensKept` | The text of each token is the input between its offsets, and the tokens follow each other. |
| | `NumeralsKeptApart` | Two numerals are never adjacent. |
| | `LimitsKept` | `TokenStream` is refined but for which lexeme comes next: a token is returned iff it keeps the limits, and the first that does not, or the end, is the last. |
| | `HeapKept` | Call after call of `tokenize`, every block is freed once and not used afterwards. |
| `ScriptProofs` | `TableExact`, `TableMinimal`, `TableSorted` | What the generator writes is exact, sorted and minimal, for every pattern. |
| | `SuccessEarned` | The test script succeeds only when every expected test has passed. |
| `InternalQuantityProofs` | `RefsCorrect`, `QuantityTypeCorrect` | Reference counts are exact and never negative, until a destructor of a left operand has written the variable of that operand. |
| | `DelegationCorrect` | A quantity on the left gets the operator's method with the right operand; only a product is turned round; a quantity that divides something else gets `rdiv`. |
| | `RunsOnceCorrect`, `FailureCorrect` | An evaluation runs one method at most; a failure leaves no value behind and its operands as userland left them. |

No bound of a run is left in these. Those about the parser hold for every limit,
initial and maximal depth, alphabet, set of lexeme lengths and gaps, that is for
inputs of any length; those about the other parts for every input, table, pattern,
number of objects and variables. The assumptions on the constants
(`LimitsAssumption`, `DepthAssumption`, `InputAssumption`, `InputLengthsAssumption`,
`InputCheckAssumption`, `TablesAssumption`, `GeneratorAssumption`,
`QuantityAssumption`) give them their types, order the two depths and the ranges of a
table, and keep names of variables apart from names of other operands.
Five more assumptions are closed statements about the tables and rules of the program,
with no constant in them: `TablesAreConsistent` (`ParserAutomaton`),
`ActionsConsistent` (`YyparseProperties`), `LanguageConsistent` (`YyparseLanguage`)
and `PrecedenceConsistent` (`YyparseTrees`) about the parser, `AutomatonIsSound`
(`ScannerAutomaton`) about the scanner. TLC evaluates them in every `MCYyparse` run and in
the runs of the scanner, so they are decided, not trusted.

The arguments:

1. *The stack.* An invariant that only says "states are in range" is not inductive:
   what a reduction uncovers depends on everything below. `StackIsPath` is: adjacent
   states are edges of the graph. `HandleOnStack` is the heart of the proofs. On a
   path whose top state reduces by `r`, the last symbols are the right hand side of
   `r`, the bottom stays, and the goto is an edge again. It follows from
   `ReductionsConsistent`, one case per length of a rule.
2. `ParserInvariant` joins `TypeOK`, the path, the values and the arena, because
   each needs the others: the type of the arena needs operands that are nodes, those
   need symbols that match, those need the path; and it adds that the lookahead is
   the last token and that a parser still running is not in the final state.
3. `OutcomeInvariant` adds that `start` on the stack means a root was stored (so
   acceptance has one), that a running parser has room left, and `ShiftsPaid`: a
   token counted and not yet shifted has paid for its symbol. `StackWithinTokens`
   alone is not inductive, since the end of the input is shifted without being counted.
4. `CountInvariant` counts. A token counted but not shifted is worth two nodes, a
   lexeme on the stack still two, a nonterminal one; `ActionsPaid`, a closed fact of
   the rules, says that no action spends more than its rule frees, which bounds the
   arena. The nesting counter equals the open parentheses less the closed ones on the
   stack plus what the lookahead is ahead; `ParenthesesInPairs` says that a closing one
   is shifted behind an opening one only. Both, and the lexemes, rest on `FreshTop`:
   the parser reduces by a leaf, an exponent or a closing parenthesis before it reads
   on (`LexemesReducedAtOnce`), so that lexeme is the last one read.
5. `SpanInvariant` adds that the lookahead starts after the top of the stack and
   that the node beside a symbol lies within the symbol's span. `SpansNest` alone
   is not inductive: it says nothing of nodes that are not operands yet.
6. *Calls.* `NativeParser` reads limits before messages, so a limit that turned up
   after a root was stored would throw a good tree away. `RootEndsInput` excludes it:
   only rule 2 stores a root, and it runs with a token at hand, which the automaton takes
   there only if it is the end of the input (`StartIsLast`, a closed fact of the
   tables); after that no token is read. `LimitTruthful` carries what a recorded limit
   says of the input, `DepthWithinLimit` that a depth in limits is within them. A step
   of `yyparse` inside a call is one of `Yyparse`, so the invariants of 2 and 3 carry
   over.
7. *UTF-8.* `WellFormed` says that a sequence can be cut into encodings. The loop
   always stands at a cut of what it has read. Cuts are determined: two encodings at
   the same place have the same length, because the first byte decides it. Hence a
   position where no encoding starts refutes every cutting, and an input whose every
   step succeeded is cut.
8. *Search.* Ranges below the window end before the code point, those above it start
   behind it; the table being sorted, one comparison discards a half. The window
   shrinks at every step.
9. *Generator.* What was looked at is in a closed or the open range iff it matches;
   behind the open range's last match only surrogates have been skipped; between the
   last closed range and the next one lies a code point that does not match. That is
   why the invariant needs the open range: `TableIsExact` says nothing until the end.
10. *Operators.* `RefsExact` is a count over variables and the places of an evaluation.
   It is inductive only together with what each place holds in which phase
   (`PlacesInTurn`). Between the release of the left operand and the copy of the result
   (`Releasing`) the variable of that operand is not a holder, so what userland does to
   other variables there keeps the count (`AssignCounted`); writing that variable is what
   sets `clobbered`, which nothing resets (`StaysClobbered`). A second entry of the
   handler finds that no method has run or that an exception is pending, which
   `OperandsKept` carries and which gives `RunsOnce`; operands change only by userland or
   after success, which gives `FailureKeepsOperands`.

11. *Scanner.* `ScanInv` says at each label of `yylex` what buffer, cursor and locals are:
   between two calls the buffer is the input but for the NUL under which `hold_char`
   lies, during a match it is the input (`ScanMatch`), at an action it is the input but
   for the NUL behind the lexeme (`ScanAct`). `Lexed` says what the match loop computes
   although the loop also restarts at a NUL: the state is that of a run of the automaton
   from the start state over the bytes since, no prefix of it jammed, and the
   last accepting state is the one of the longest prefix that has one. That a run exists
   and is unique is an induction over its length. From `EveryByteIsMatched` and
   `BufferEndStops` it follows that a byte of the input is always consumed
   before the automaton jams, which excludes the fatal error; from `NumbersAreGreedy` that the
   byte behind a number or a chunk is neither a digit nor outside of ASCII. Together with
   where `EndOfRun` cuts a chunk this is why `Returned` can claim that a numeral is never
   followed by another (`ComesAfter`). `LimitsInv` relates what the context has counted to
   the tokens themselves: `TokenStream` states the limits by a recursion over all tokens
   returned before, whose value the context holds (`DepthKnown`, `DepthAppend`); that
   nothing is returned after the end of the input rests on `ScanInv`, by which a
   rule always consumes a byte of the input.
12. *Heap.* `HeapInv` ties the blocks to the control state of `tokenize` and the
   scanner: which are allocated at which label, and that the scanner runs only while it
   has a buffer.
13. *Scripts.* `SuccessIsEarned` is proved from what the script has noted of a report when it
   has read some of it: a test is in `actual` iff a line named it, and the last such line
   decides.
14. *LAC.* `LacAccepts` explores on the stack of states what the parser will do with a
   token. It is a recursion on the depth left and one state, and what it computes is the
   least solution of its equation: an induction over the depth, and at one depth over
   `LacMeasure`, because a reduction either shortens the stack or replaces its top by
   a unit rule, and unit rules only climb (`UnitRulesClimb`, a closed fact of the tables).
   The same induction shows that the answer depends on the part of the stack that
   is read. Hence a reduction the parser makes is the one LAC
   explored, its answer stays the same across it, and `LacEstablished` is inductive: once
   established, the lookahead is accepted on the current stack. Such a
   lookahead has a table action that is no error. `ErrorNamed` adds
   `SomethingExpected`: every state that looks at a token can shift some token, so a message
   never lists nothing.
15. *Signs.* `SignParity` counts minus signs within the span of a numeral. It becomes
   inductive as `SignInvariant`: every minus taken so far lies within a symbol of the
   stack, and within a symbol that stands for a numeral no minus lies outside
   that numeral's span. Then `-x` adds exactly one to the count of the node it is folded
   into, and the spans of `SpanInvariant` keep the counts of other nodes apart.
16. *The service.* `ParserSound` joins the invariants of `Yyparse` with where everything
   lies (`WithinInput`: nothing ends behind the input), with `RootEndsInput` and with
   the truth about limits. A tree's span is not empty because no lexeme is
   (`CoverInvariant`). The tree handed to PHP is made by a recursive function over the
   arena; that the function exists is an induction over the nodes, possible because
   operands are older than their node (`ArenaIsAcyclic`), and it keeps the span of the
   root. `TokenCountLimit + 2 < MaxDepth`, true of 256 and `YYMAXDEPTH` 10000 and
   of the run, is needed: a parser whose stack ran out reports that through the
   exception for syntax errors, which the service does not allow.
17. *The language.* `Recognizer` has no stack: what may follow depends on the kind of the
   last token and the parentheses open. `Viable` is the same read off the state on top of
   the parser's stack, and `ViableDecided` (decided by TLC, edge by edge of the automaton)
   says that a table action is viable, that a refused token is not, and that a default
   reduction changes nothing for a token that is not shifted. `Fits` is what has to
   be known of the state below and of the open parentheses, and `DepthMoves` carries it
   along the stack. From this `LacExact` follows by the induction of 14: LAC accepts on a
   stack exactly the tokens viable there, although the LALR tables, whose lookaheads
   are merged, would reduce by others as well. `LanguageInvariant` says where the
   recogniser is, given the tokens shifted so far (`WhereRead`), and that what it allows
   there is what is viable on the parser's stack (`ViableRead`). A shift is then an abstract
   step, a reduction a stutter, and the list of expected tokens, each of which LAC was
   asked for, is the set the recogniser allows.
18. *The grammar is unambiguous.* Its symbols have levels: a sum joins its parts at level 4, a
   product at 3, a power at 2. `Junction` reads the level of a border off the two tokens
   beside it, and a phrase of a symbol has outside of parentheses only borders of its
   symbol's level or tighter (`PhrasesFit`, with `Paired` for the parentheses). A rule that
   associates to the left has its own border where the level is reached for the last time, a rule
   that associates to the right where it is reached first (`LastIsMain`, `FirstIsMain`); so the
   tokens fix the border. Which rule it was shows there too or at the ends of the
   stretch (`RulesApart`). One rule, one cut, and parts with one tree each: an
   induction over `Distance`, which a part makes smaller, because it has fewer tokens or is
   reached by a unit rule. Without the levels the invariant "one tree so far" is not
   inductive: a cut elsewhere has parts the hypothesis says nothing about.
19. *The tree.* `TreeInvariant` says of every symbol on the stack that it derives the tokens
   from its own first token to the one before the next symbol, with the tree of its
   node in the arena, and that the lookahead, if any, is what follows. A reduction pops a handle;
   its parts lie side by side, so they are a cut and a phrase of the rule, and the
   semantic action builds the meaning of that rule (`ActionTree`, rule by rule; leaves need
   `SignInvariant`: a lexeme brings no sign of its own unless it is a superscript).
   What was derived stays derived: nodes are only added, and only at the end
   (`ArenaTreesKept`), and tokens read later change no earlier goal (`PrefixTrees`). In the final
   state the stack is its bottom, `start` and the end of the input, so that the root derives
   everything before the end; with 18 nothing else does.

Model-checked only:

- `Terminates`, `EveryCallAnswers` and `TokenizeAnswers`: liveness;
- of `ImplementsTokenStream`, that the next token is the longest lexeme of
  `LexicalGrammar`, and with it `ImplementsLexerService`: it takes an induction over the
  text for each of the languages of lexemes, to relate them to the runs of the automaton and to
  the loops of `Classifier`. What is proved of the stream is `LimitsKept` and `TokensKept`.

## 5. Not modelled, and why

- Text: leaf text is a token and a sign; messages are a kind, the token and the set
  of expected tokens. Transcoding superscripts and formatting messages are left out.
- Memory exhaustion: `emalloc` ends the request instead of returning, so the arena
  never fails. The failure branches of the scanner and its buffer, which are dead for
  the same reason, are kept because the code has them.
- Operators that a method or destructor evaluates in its turn: the handler keeps nothing
  but locals, so a nested evaluation is one more that begins and ends, and what it does
  to the outer one is to assign variables. Destructors of objects other than the ones
  the handler releases run within a step of userland or of the program. PHP runs the
  destructor of an object once; the model allows it again for one that was revived.
- The exits of `check-phpt-results.php` for a wrong command line and for a report that
  cannot be read: `PolicyInit` is a script that has read its arguments and the report.
- In `Yyparse` an input that is not valid UTF-8 is a single invalid token; `Scanner`
  has the whole of it.
- Of `scanner.c`: everything that reads more input. A scanned string has
  `yy_fill_buffer` 0, so the buffer never moves, `yy_get_next_buffer` ends at its second
  test, `YY_INPUT`, `yyrestart`, `yypush_buffer_state` and `yyunput` are never called, and `yywrap` is
  defined away. The accessors `yyget_*` and `yyset_*` but `yyset_extra` are not called.
- Registration of classes and `isCompatible`/`supports` (`extension.c`, the ends of
  `native_parser.c`, `native_lexer.c` and `internal_quantity.c`): constants.
- What PCRE answers in the range generator and the text of the header it writes.
- `yy_lac`'s own stack and its growth: it never holds more than one state (above).
- `YYDEBUG` output, `yyoverflow` and location printing are not compiled in.

## 6. Plan

Done, in this order: tables and automaton, accounting, parse context, `Yyparse`
with its properties, the reference grammar and recogniser, `NativeParser` with its
service, the proofs about them; the decoder and the search with their proofs, the
scanner against the lexical grammar, `NativeLexer` with its service, the operator
handler and the two scripts, the proofs about calls of `parse`, the operator handler
and the generator; last the proofs that the parser recognises the language and builds its
trees.

Left to model: the text of leaves (transcoding of superscripts) and of messages; the
composition of `Scanner` and `Yyparse` on real inputs, which now only meet in
`NumeralsApart`.
