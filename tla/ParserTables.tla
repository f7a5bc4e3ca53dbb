---------------------------- MODULE ParserTables ----------------------------
(***************************************************************************)
(* The LALR(1) tables Bison generated from src/src/parser/parser.y into    *)
(* src/src/parser/parser.c, the way the parser reads them, and the grammar *)
(* of parser.y itself.  The tables are copied as data; what ties them to   *)
(* the grammar is the closed statement LrConsistent of ParserAutomaton: on *)
(* every path of states a run can build, a reduction finds exactly the     *)
(* right hand side of its rule on the stack and a goto for its left hand   *)
(* side.                                                                   *)
(***************************************************************************)
EXTENDS Integers, Sequences, FiniteSets

(***************************************************************************)
(* Symbol kinds (enum yysymbol_kind_t).                                    *)
(***************************************************************************)
YYEMPTY == -2
YYEOF == 0
YYerror == 1
YYUNDEF == 2
T_INTEGER == 3
T_SUPERSCRIPT_INTEGER == 4
T_INVALID_SUPERSCRIPT == 5
T_FLOAT == 6
T_DOT == 7
T_MUL == 8
T_DIV == 9
T_POW == 10
T_SUB == 11
T_ADD == 12
T_IDENTIFIER == 13
T_LEFT_PAREN == 14
T_RIGHT_PAREN == 15
T_AT == 16
T_INVALID_NUMBER == 17
T_SKIP == 18
N_accept == 19
N_start == 20
N_exp == 21
N_additive_exp == 22
N_product_exp == 23
N_unary_exp == 24
N_power_exp == 25
N_simple == 26
N_number == 27
N_signed_number == 28
N_identifier == 29

YYNTOKENS == 19
YYNSTATES == 38
YYNRULES == 25
YYLAST == 36
YYFINAL == 17
YYPACT_NINF == -24

Terminals == 0 .. YYNTOKENS - 1
Nonterminals == YYNTOKENS .. N_identifier
States == 0 .. YYNSTATES - 1
Rules == 1 .. YYNRULES

\* What yylex may return for a lexeme: T_SKIP is consumed inside the scanner.
LexemeTokens == T_INTEGER .. T_INVALID_NUMBER

(***************************************************************************)
(* The tables.  TLA+ tuples start at 1: entry i of the C array is [i + 1]. *)
(***************************************************************************)
yypact ==
  <<  20, -24, -24,  20, -24,  20,   9, -24,   3,  -1, -24, -24,   0,
     -24,  19, -24,   1, -24,  20,  20,  20,  20,  20, -24, -24,  20,
      21, -24,  -1,  -1, -24, -24, -24, -24,  22, -24, -24, -24 >>

yydefact ==
  << 0, 21, 22, 0, 25, 0, 0, 2, 3, 4, 7, 12, 14, 16, 17, 13, 0, 1, 0, 0,
     0, 0, 0, 8, 20, 0, 0, 19, 6, 5, 9, 10, 11, 15, 0, 23, 18, 24 >>

yypgoto == << -24, -24, 31, -24, 11, -3, -8, -24, -23, -24, -24 >>

yydefgoto == << 0, 6, 7, 8, 9, 10, 11, 12, 13, 36, 14 >>

yytable ==
  << 15, 23,  1, 35, 24,  2, 20, 21, 22, 17, 25, 37,  4,  5, 18, 19, 27,
     30, 31, 32, 23, 23, 33,  1,  1,  1,  2,  2,  2, 28, 29,  3, 34,  4,
      5, 26, 16 >>

yycheck ==
  <<  3,  9,  3, 26,  4,  6,  7,  8,  9,  0, 10, 34, 13, 14, 11, 12, 15,
     20, 21, 22, 28, 29, 25,  3,  3,  3,  6,  6,  6, 18, 19, 11, 11, 13,
     14, 16,  5 >>

yystos ==
  <<  0,  3,  6, 11, 13, 14, 20, 21, 22, 23, 24, 25, 26, 27, 29, 24, 21,
      0, 11, 12,  7,  8,  9, 25,  4, 10, 16, 15, 23, 23, 24, 24, 24, 24,
     11, 27, 28, 27 >>

yyr1 == << 0, 19, 20, 21, 22, 22, 22, 23, 23, 23, 23, 23, 24, 24, 25, 25,
           26, 26, 26, 26, 26, 27, 27, 28, 28, 29 >>

yyr2 == << 0, 2, 1, 1, 1, 3, 3, 1, 2, 3, 3, 3, 1, 2, 1, 3, 1, 1, 3, 3, 2,
           1, 1, 1, 2, 1 >>

(***************************************************************************)
(* How yyparse and yy_lac read them.                                       *)
(***************************************************************************)
AccessingSymbol(s) == yystos[s + 1]
RuleLhs(r) == yyr1[r + 1]
RuleLength(r) == yyr2[r + 1]
DefaultReduction(s) == yydefact[s + 1]

\* yypact_value_is_default: the state acts without looking at a token.
IsConsistent(s) == yypact[s + 1] = YYPACT_NINF

\* yytable has an entry for x in s; otherwise the default reduction applies.
HasTableAction(s, x) ==
  /\ ~ IsConsistent(s)
  /\ yypact[s + 1] + x \in 0 .. YYLAST
  /\ yycheck[yypact[s + 1] + x + 1] = x

TableAction(s, x) == yytable[yypact[s + 1] + x + 1]

\* The state entered after reducing to nonterminal a above state p.
Goto(p, a) ==
  LET i == yypgoto[a - YYNTOKENS + 1] + p
  IN  IF i \in 0 .. YYLAST /\ yycheck[i + 1] = p
      THEN yytable[i + 1]
      ELSE yydefgoto[a - YYNTOKENS + 1]

(***************************************************************************)
(* yy_lac: can x be shifted after some default reductions on a stack with  *)
(* these states?  No rule is empty, so the exploratory stack never holds   *)
(* more than the state of the last reduction: lac[<< d, s >>] asks the     *)
(* question with state s on top of the d lowest states.                    *)
(***************************************************************************)
LacAccepts(states, x) ==
  LET lac[at \in Int \X States] ==
        LET r     == DefaultReduction(at[2])
            below == at[1] - (RuleLength(r) - 1)
        IN  IF HasTableAction(at[2], x) THEN TRUE
            ELSE IF r = 0 THEN FALSE
            ELSE lac[<< below, Goto(states[below], RuleLhs(r)) >>]
  IN  x # YYUNDEF /\ lac[<< Len(states) - 1, states[Len(states)] >>]

\* yypcontext_expected_tokens.
ExpectedTokens(states) ==
  { x \in Terminals \ {YYerror, YYUNDEF} : LacAccepts(states, x) }

(***************************************************************************)
(* The grammar: parser.y's right hand sides, rule by rule.                 *)
(***************************************************************************)
RuleRhs ==
  << << N_start, YYEOF >>,
     << N_exp >>,
     << N_additive_exp >>,
     << N_product_exp >>,
     << N_additive_exp, T_ADD, N_product_exp >>,
     << N_additive_exp, T_SUB, N_product_exp >>,
     << N_unary_exp >>,
     << N_product_exp, N_power_exp >>,
     << N_product_exp, T_DOT, N_unary_exp >>,
     << N_product_exp, T_MUL, N_unary_exp >>,
     << N_product_exp, T_DIV, N_unary_exp >>,
     << N_power_exp >>,
     << T_SUB, N_unary_exp >>,
     << N_simple >>,
     << N_simple, T_POW, N_unary_exp >>,
     << N_number >>,
     << N_identifier >>,
     << N_identifier, T_AT, N_signed_number >>,
     << T_LEFT_PAREN, N_exp, T_RIGHT_PAREN >>,
     << N_simple, T_SUPERSCRIPT_INTEGER >>,
     << T_INTEGER >>,
     << T_FLOAT >>,
     << N_number >>,
     << T_SUB, N_number >>,
     << T_IDENTIFIER >> >>
=============================================================================
