--------------------------- MODULE YyparseLanguage ---------------------------
(***************************************************************************)
(* yyparse against the abstract Recognizer: what the parser shifts and     *)
(* what it reports, mapped to a reader that has no stack.                  *)
(***************************************************************************)
EXTENDS YyparseProperties, Language

(***************************************************************************)
(* The tokens that can be shifted, after reductions if need be, with state *)
(* s on top of a stack and `open' parentheses open.                        *)
(***************************************************************************)
EnteredFrom(s, symbol) ==
  \E p \in States : IsEdge(p, s) /\ AccessingSymbol(p) = symbol

PlaceIn(s) ==
  PlaceAfter(IF EnteredFrom(s, T_AT) THEN "offset" ELSE "operand",
             AccessingSymbol(s))

\* A nonterminal can be followed by what an operand can, except for what
\* would have been taken before the parser reduced to it.
ClosedTo(symbol) ==
  CASE symbol \in {N_power_exp, N_unary_exp, N_product_exp} ->
         {T_POW, T_SUPERSCRIPT_INTEGER}
    [] symbol = N_additive_exp ->
         {T_POW, T_SUPERSCRIPT_INTEGER, T_DOT, T_MUL, T_DIV} \cup OperandStarts
    [] symbol \in {N_exp, N_start} -> Terminals \ {T_RIGHT_PAREN, YYEOF}
    [] OTHER -> {}

ViableAfter(symbol, open) ==
  Allowed(IF symbol = N_identifier THEN "name" ELSE "primary", open)
    \ ClosedTo(symbol)

Viable(s, open) ==
  IF AccessingSymbol(s) \in Nonterminals
  THEN ViableAfter(AccessingSymbol(s), open)
  ELSE Allowed(PlaceIn(s), open)

\* State s, itself no parenthesis, on p while `open' are open below it.
Fits(p, s, open) ==
  /\ IsEdge(p, s)
  /\ AccessingSymbol(s) \notin {T_LEFT_PAREN, T_RIGHT_PAREN} =>
       /\ p = 0 => open = 0
       /\ AccessingSymbol(p) = T_LEFT_PAREN => open = 1

(***************************************************************************)
(* The tables know of a state what is viable: what it shifts is, what it   *)
(* refuses is not, and a default reduction changes nothing for a token     *)
(* that is not shifted.                                                    *)
(***************************************************************************)
ViableDecided ==
  \A p \in States, s \in States \ {YYFINAL}, open \in {0, 1}, x \in Terminals :
    Fits(p, s, open) =>
      IF HasTableAction(s, x) THEN x \in Viable(s, open)
      ELSE IF DefaultReduction(s) = 0 THEN x \notin Viable(s, open)
      ELSE x \in Viable(s, open)
             <=> x \in ViableAfter(RuleLhs(DefaultReduction(s)), open)

ViableFirst ==
  /\ DefaultReduction(0) = 0 /\ ~ IsConsistent(0)
  /\ \A x \in Terminals : HasTableAction(0, x) <=> x \in Viable(0, 0)

\* A shift leads to the place the token leads to.
ViableShifted ==
  \A s \in States, x \in Terminals \ {YYEOF}, open \in {0, 1} :
    HasTableAction(s, x) =>
      LET place == IF AccessingSymbol(s) = T_AT THEN "offset" ELSE "operand"
      IN  Viable(TableAction(s, x), open) = Allowed(PlaceAfter(place, x), open)

\* Behind `@' and behind `(' nothing is reduced, and what may follow `(' does
\* not depend on what is open around it.
PlacesKept ==
  /\ \A s \in States :
       AccessingSymbol(s) \in {T_AT, T_LEFT_PAREN} => DefaultReduction(s) = 0
  /\ \A s \in States :
       AccessingSymbol(s) = T_LEFT_PAREN => Viable(s, 0) = Viable(s, 1)

ASSUME LanguageConsistent ==
  ViableDecided /\ ViableFirst /\ ViableShifted /\ PlacesKept

(***************************************************************************)
(* The mapping.                                                            *)
(***************************************************************************)
\* The kinds of the tokens shifted so far, the end of the input apart.  The
\* token whose shift filled the stack does not count.
ShiftedKinds ==
  LET kinds   == [i \in DOMAIN tokens |-> tokens[i].type]
      pending == yytoken # YYEMPTY \/ phase \in {"accepted", "exhausted"}
  IN  IF pending THEN SubSeq(kinds, 1, Len(kinds) - 1) ELSE kinds

Verdict ==
  IF phase = "parsing" THEN "reading"
  ELSE IF phase = "accepted" THEN "accepted"
  ELSE IF error.message = "syntax_error" THEN "rejected"
  ELSE "interrupted"

Abstract == INSTANCE Recognizer WITH
  Kinds    <- TokenKinds,
  place    <- Reached(ShiftedKinds).place,
  depth    <- Reached(ShiftedKinds).depth,
  verdict  <- Verdict,
  refused  <- error.unexpected,
  expected <- error.expected

\* The parser shifts a token iff the language allows it there, and a syntax
\* error refuses a token that cannot follow, listing all kinds that can and
\* no other: the LALR tables merge lookaheads, LAC makes the answer exact.
RefinesRecognizer == Abstract!RecognizerSpec
=============================================================================
