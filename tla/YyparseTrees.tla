----------------------------- MODULE YyparseTrees -----------------------------
(***************************************************************************)
(* yyparse against the reference grammar: the tree of an accepted input is *)
(* its derivation, and there is only one, because every operator has its   *)
(* level of precedence and the tokens beside a border tell which level it  *)
(* belongs to.                                                             *)
(***************************************************************************)
EXTENDS YyparseProperties, ReferenceGrammar

(***************************************************************************)
(* What a phrase of a symbol can begin and end with, and the loosest level *)
(* at which it can join its parts outside of parentheses.                  *)
(***************************************************************************)
NumberTokens == {T_INTEGER, T_FLOAT}

OperandFirst == NumberTokens \cup {T_IDENTIFIER, T_LEFT_PAREN}
OperandLast == NumberTokens \cup {T_IDENTIFIER, T_RIGHT_PAREN, T_SUPERSCRIPT_INTEGER}

FirstTokens(symbol) ==
  IF symbol \in Terminals THEN {symbol}
  ELSE IF symbol = N_number THEN NumberTokens
  ELSE IF symbol = N_signed_number THEN NumberTokens \cup {T_SUB}
  ELSE IF symbol = N_identifier THEN {T_IDENTIFIER}
  ELSE IF symbol \in {N_power_exp, N_simple} THEN OperandFirst
  ELSE OperandFirst \cup {T_SUB}

LastTokens(symbol) ==
  IF symbol \in Terminals THEN {symbol}
  ELSE IF symbol \in {N_number, N_signed_number} THEN NumberTokens
  ELSE IF symbol = N_identifier THEN {T_IDENTIFIER}
  ELSE OperandLast

Level(symbol) ==
  IF symbol \in {N_start, N_exp, N_additive_exp} THEN 4
  ELSE IF symbol = N_product_exp THEN 3
  ELSE IF symbol \in {N_unary_exp, N_power_exp} THEN 2
  ELSE IF symbol = N_simple THEN 1
  ELSE 0

\* The level of the operator between two tokens; two operands side by side
\* are a product, and a minus behind an operand is a difference.
Junction(before, type) ==
  IF type = T_ADD \/ (type = T_SUB /\ before \in OperandLast) THEN 4
  ELSE IF type \in {T_DOT, T_MUL, T_DIV}
          \/ (type \in OperandFirst /\ before \in OperandLast) THEN 3
  ELSE IF type = T_POW THEN 2
  ELSE IF type \in {T_SUPERSCRIPT_INTEGER, T_AT} THEN 1
  ELSE 0

(***************************************************************************)
(* Closed facts of the grammar.  A border is the place between two symbols *)
(* of a right hand side.                                                   *)
(***************************************************************************)
DerivingRules == Rules \ {1}

JunctionsAt(r, n) ==
  { Junction(a, b) : a \in LastTokens(RuleRhs[r][n]),
                     b \in FirstTokens(RuleRhs[r][n + 1]) }

\* Every part is closer to the tokens than the whole.
PartsCloser ==
  \A r \in DerivingRules :
    /\ \A n \in 1 .. RuleLength(r) :
         RuleRhs[r][n] \in Terminals \cup (Nonterminals \ {N_accept})
    /\ RuleLength(r) = 1 => Rank(RuleLhs(r)) < Rank(RuleRhs[r][1])

PhrasesFit ==
  \A r \in DerivingRules :
    /\ FirstTokens(RuleRhs[r][1]) \subseteq FirstTokens(RuleLhs(r))
    /\ LastTokens(RuleRhs[r][RuleLength(r)]) \subseteq LastTokens(RuleLhs(r))
    /\ r # 19 => \A n \in 1 .. RuleLength(r) :
         /\ Level(RuleRhs[r][n]) <= Level(RuleLhs(r))
         /\ n < RuleLength(r) =>
              \A level \in JunctionsAt(r, n) : level <= Level(RuleLhs(r))

\* Sums and products associate to the left: their last operator is the border
\* of the whole.
LeftRules == {5, 6, 8, 9, 10, 11}

LastIsMain ==
  \A r \in LeftRules :
    /\ JunctionsAt(r, 1) = {Level(RuleLhs(r))}
    /\ \A n \in 2 .. RuleLength(r) :
         /\ Level(RuleRhs[r][n]) < Level(RuleLhs(r))
         /\ n < RuleLength(r) =>
              \A level \in JunctionsAt(r, n) : level < Level(RuleLhs(r))

\* Powers associate to the right, and the name before `@' is one token.
RightRules == {15, 18}

FirstIsMain ==
  \A r \in RightRules :
    /\ JunctionsAt(r, 1) = {Level(RuleLhs(r))}
    /\ Level(RuleRhs[r][1]) < Level(RuleLhs(r))

\* Which rule was used shows in the main border or at the ends.
RulesApart ==
  \A r, q \in DerivingRules :
    r # q /\ RuleLhs(r) = RuleLhs(q) =>
      \/ /\ r \in LeftRules /\ q \in LeftRules
         /\ FirstTokens(RuleRhs[r][2]) \cap FirstTokens(RuleRhs[q][2]) = {}
      \/ /\ r \in LeftRules \cup RightRules
         /\ RuleLength(q) = 1 /\ Level(RuleRhs[q][1]) < Level(RuleLhs(q))
      \/ /\ q \in LeftRules \cup RightRules
         /\ RuleLength(r) = 1 /\ Level(RuleRhs[r][1]) < Level(RuleLhs(r))
      \/ FirstTokens(RuleRhs[r][1]) \cap FirstTokens(RuleRhs[q][1]) = {}
      \/ LastTokens(RuleRhs[r][RuleLength(r)])
           \cap LastTokens(RuleRhs[q][RuleLength(q)]) = {}

\* Where a border is not found by its level, a token of one symbol fixes it.
BordersFixed ==
  \A r \in DerivingRules :
    /\ RuleLength(r) = 2 =>
         r \in LeftRules \/ RuleRhs[r][1] \in Terminals
                         \/ RuleRhs[r][2] \in Terminals
    /\ RuleLength(r) = 3 /\ r # 19 =>
         r \in LeftRules \cup RightRules /\ RuleRhs[r][2] \in Terminals

ASSUME PrecedenceConsistent ==
  /\ PartsCloser
  /\ PhrasesFit
  /\ LastIsMain
  /\ FirstIsMain
  /\ RulesApart
  /\ BordersFixed

\* An accepted input is derived by the grammar in exactly one way, and the
\* AST is that derivation: operator kinds, associativity, precedence, folded
\* signs and the byte spans of every node.
AcceptedTreeIsDerived ==
  phase = "accepted" =>
    Trees(tokens)[<< N_start, 1, Len(tokens) - 1 >>] = {ArenaTrees(arena)[root]}
=============================================================================
