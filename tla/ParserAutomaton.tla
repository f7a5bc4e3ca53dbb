--------------------------- MODULE ParserAutomaton ---------------------------
(***************************************************************************)
(* The state graph the tables of ParserTables span, and the closed facts   *)
(* about it the parser relies on without checking any of them at run time: *)
(* yyparse pops yyr2[rule] states blindly and indexes yypgoto with         *)
(* whatever state it then finds.  Everything here is a constant: TLC       *)
(* decides the assumption LrConsistent, and the proofs cite it.            *)
(***************************************************************************)
EXTENDS ParserTables

\* yyparse leaves before it would look up an action in YYFINAL.
ReducingStates == { s \in States \ {YYFINAL} : DefaultReduction(s) # 0 }

ShiftEdges ==
  { << sx[1], TableAction(sx[1], sx[2]) >> :
      sx \in { c \in States \X Terminals : HasTableAction(c[1], c[2]) } }

\* The pairs joined by an edge of E followed by an edge of F.
Compose(E, F) ==
  { << ef[1][1], ef[2][2] >> : ef \in { c \in E \X F : c[1][2] = c[2][1] } }

\* One round of reductions: every goto a reduction over edges of E can take.
GotoEdges(E) ==
  LET two == Compose(E, E)
      paths == << E, two, Compose(two, E) >>
      Rule(s) == DefaultReduction(s)
  IN  { << ps[1], Goto(ps[1], RuleLhs(Rule(ps[2]))) >> :
          ps \in { c \in States \X ReducingStates :
                     c \in paths[RuleLength(Rule(c[2]))] } }

\* The longest chain of unit reductions, number up to start, bounds the
\* rounds that add an edge; EdgesClosed says no more are needed.
Rounds == 9

EdgesAfter[n \in 0 .. Rounds] ==
  IF n = 0 THEN ShiftEdges
  ELSE LET E == EdgesAfter[n - 1] IN E \cup GotoEdges(E)

\* The pairs of states that can lie next to each other on the state stack.
Edges == EdgesAfter[Rounds]

IsEdge(p, s) == << p, s >> \in Edges

(***************************************************************************)
(* Reducing by r with `symbols' on top of the stack above state p.         *)
(***************************************************************************)
IsHandle(symbols, p, r) ==
  /\ symbols = RuleRhs[r]
  /\ IsEdge(p, Goto(p, RuleLhs(r)))
  /\ AccessingSymbol(Goto(p, RuleLhs(r))) = RuleLhs(r)

\* A shift enters a state whose accessing symbol is the token shifted.
ShiftsConsistent ==
  \A s \in States, x \in Terminals :
    HasTableAction(s, x) =>
      /\ IsEdge(s, TableAction(s, x))
      /\ AccessingSymbol(TableAction(s, x)) = x

\* No reduction step can leave the graph: Edges is closed.
EdgesClosed ==
  /\ GotoEdges(Edges) \subseteq Edges
  /\ Edges \subseteq States \X (States \ {0})

\* Along every path, the states a reduction pops are its right hand side,
\* and none of them is the bottom of the stack.
ReductionsConsistent ==
  \A s \in ReducingStates :
    LET r == DefaultReduction(s)
    IN  /\ s # 0
        /\ RuleLength(r) = 1 =>
             \A p \in States : IsEdge(p, s) =>
               IsHandle(<< AccessingSymbol(s) >>, p, r)
        /\ RuleLength(r) = 2 =>
             \A q \in States : IsEdge(q, s) =>
               /\ q # 0
               /\ \A p \in States : IsEdge(p, q) =>
                    IsHandle(<< AccessingSymbol(q), AccessingSymbol(s) >>, p, r)
        /\ RuleLength(r) = 3 =>
             \A q \in States : IsEdge(q, s) =>
               /\ q # 0
               /\ \A o \in States : IsEdge(o, q) =>
                    /\ o # 0
                    /\ \A p \in States : IsEdge(p, o) =>
                         IsHandle(<< AccessingSymbol(o), AccessingSymbol(q),
                                     AccessingSymbol(s) >>, p, r)

\* yyr1 and yyr2 describe the grammar's rules; none derives nothing.
RulesConsistent ==
  /\ Len(RuleRhs) = YYNRULES
  /\ \A r \in Rules : /\ RuleLength(r) = Len(RuleRhs[r])
                      /\ RuleLength(r) \in 1 .. 3
                      /\ RuleLhs(r) \in Nonterminals
  /\ \A s \in States : DefaultReduction(s) \in 0 .. YYNRULES

\* A state that acts without a token reduces, except the accepting one.
ConsistentStatesReduce ==
  \A s \in States : IsConsistent(s) => s \in ReducingStates \cup {YYFINAL}

\* yytable holds shifts only, and no state shifts the error token: error
\* recovery can only unwind the whole stack.
NoErrorProductions ==
  \A s \in States :
    /\ \A x \in Terminals : HasTableAction(s, x) => TableAction(s, x) > 0
    /\ \A x \in {YYerror, YYUNDEF, T_INVALID_SUPERSCRIPT,
                 T_INVALID_NUMBER, T_SKIP} : ~ HasTableAction(s, x)

\* The accepting state is entered by shifting the end of the input over
\* `start', and `start' only ever covers the whole stack.
FinalStateIsAcceptance ==
  /\ AccessingSymbol(YYFINAL) = YYEOF
  /\ \A s \in States : AccessingSymbol(s) = YYEOF => s \in {0, YYFINAL}
  /\ \A p \in States : IsEdge(p, YYFINAL) => AccessingSymbol(p) = N_start
  /\ \A p, s \in States :
       IsEdge(p, s) /\ AccessingSymbol(s) = N_start => p = 0
  /\ \A r \in Rules : RuleLhs(r) = N_start => r = 2

\* Over `start' only the end of the input is taken, and an expression becomes
\* `start' only with a token at hand: the one rule 3 was reduced on.
StartIsLast ==
  /\ RuleLhs(2) = N_start
  /\ \A r \in Rules : RuleLhs(r) = N_exp => r = 3
  /\ \A s \in States : DefaultReduction(s) = 2 => AccessingSymbol(s) = N_exp
  /\ \A s \in States : DefaultReduction(s) = 3 => ~ IsConsistent(s)
  /\ \A s \in States :
       AccessingSymbol(s) = N_start =>
         /\ ~ IsConsistent(s) /\ DefaultReduction(s) = 0
         /\ \A x \in Terminals :
              HasTableAction(s, x) => TableAction(s, x) = YYFINAL

\* Behind a leaf, an exponent or a closing parenthesis the parser reduces
\* before it reads on, so that no symbol is ever pushed on one of them.
ReducedAtOnce == {T_INTEGER, T_FLOAT, T_IDENTIFIER, T_SUPERSCRIPT_INTEGER,
                  T_RIGHT_PAREN}

LexemesReducedAtOnce ==
  /\ \A s \in States : AccessingSymbol(s) \in ReducedAtOnce => IsConsistent(s)
  /\ \A p, s \in States : IsEdge(p, s) => AccessingSymbol(p) \notin ReducedAtOnce

\* Rule 19 alone has parentheses, and a closing one is shifted only behind
\* an expression that an opening one precedes.
ParenthesesInPairs ==
  /\ RuleRhs[19] = << T_LEFT_PAREN, N_exp, T_RIGHT_PAREN >>
  /\ \A r \in Rules \ {19} : \A k \in 1 .. RuleLength(r) :
       RuleRhs[r][k] \notin {T_LEFT_PAREN, T_RIGHT_PAREN}
  /\ \A s \in States :
       HasTableAction(s, T_RIGHT_PAREN) =>
         /\ s # 0
         /\ \A p \in States : IsEdge(p, s) => AccessingSymbol(p) = T_LEFT_PAREN

\* A chain of unit reductions climbs towards `start', so that reductions end;
\* `signed_number' is at the end of its own short chain.
Rank(symbol) == IF symbol \in Terminals THEN YYNTOKENS
                ELSE IF symbol = N_signed_number THEN 0
                ELSE symbol - YYNTOKENS

UnitRulesClimb ==
  \A s \in ReducingStates :
    LET r == DefaultReduction(s)
    IN  RuleLength(r) = 1 => Rank(RuleLhs(r)) < Rank(AccessingSymbol(s))

\* Whatever state a goto is looked up in, what it finds is a state, and a
\* state has a symbol.
EntriesInRange ==
  /\ \A i \in 0 .. YYLAST : yytable[i + 1] \in States
  /\ \A a \in Nonterminals : yydefgoto[a - YYNTOKENS + 1] \in States
  /\ \A s \in States : AccessingSymbol(s) \in Terminals \cup Nonterminals

\* A state that looks at a token can shift one: a syntax error always has
\* something it expected.
SomethingExpected ==
  \A s \in States :
    ~ IsConsistent(s) =>
      \E x \in Terminals \ {YYerror, YYUNDEF} : HasTableAction(s, x)

LrConsistent ==
  /\ ShiftsConsistent
  /\ EdgesClosed
  /\ ReductionsConsistent
  /\ RulesConsistent
  /\ ConsistentStatesReduce
  /\ NoErrorProductions
  /\ FinalStateIsAcceptance
  /\ StartIsLast
  /\ LexemesReducedAtOnce
  /\ ParenthesesInPairs
  /\ UnitRulesClimb
  /\ EntriesInRange
  /\ SomethingExpected

ASSUME TablesAreConsistent == LrConsistent
=============================================================================
