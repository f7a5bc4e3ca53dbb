------------------------------- MODULE Language -------------------------------
(***************************************************************************)
(* The language of parser.y seen from the left: after some tokens, which   *)
(* kinds may follow.  Where the input is in an expression (its place) and  *)
(* the number of open parentheses decide that; no other history matters.   *)
(***************************************************************************)
EXTENDS ParserTables

Places == {"operand", "primary", "name", "offset", "signed_offset"}

OperandStarts == {T_INTEGER, T_FLOAT, T_IDENTIFIER, T_LEFT_PAREN}
Numbers == {T_INTEGER, T_FLOAT}

\* What may follow a complete operand inside `open' parentheses.
Followers(open) ==
  OperandStarts
  \cup {T_DOT, T_MUL, T_DIV, T_POW, T_SUB, T_ADD, T_SUPERSCRIPT_INTEGER}
  \cup (IF open > 0 THEN {T_RIGHT_PAREN} ELSE {YYEOF})

Allowed(p, open) ==
  CASE p = "operand"       -> OperandStarts \cup {T_SUB}
    [] p = "primary"       -> Followers(open)
    [] p = "name"          -> Followers(open) \cup {T_AT}
    [] p = "offset"        -> Numbers \cup {T_SUB}
    [] p = "signed_offset" -> Numbers

\* Where the input is after one more token.
PlaceAfter(p, type) ==
  CASE type \in Numbers \cup {T_SUPERSCRIPT_INTEGER, T_RIGHT_PAREN} -> "primary"
    [] type = T_IDENTIFIER                 -> "name"
    [] type = T_AT                         -> "offset"
    [] type = T_SUB /\ p = "offset"        -> "signed_offset"
    [] OTHER                               -> "operand"

DepthAfter(open, type) ==
  CASE type = T_LEFT_PAREN -> open + 1
    [] type = T_RIGHT_PAREN -> open - 1
    [] OTHER -> open

\* Both after all of some kinds.
Reached(kinds) ==
  LET after[n \in 0 .. Len(kinds)] ==
        IF n = 0
        THEN [place |-> "operand", depth |-> 0]
        ELSE [place |-> PlaceAfter(after[n - 1].place, kinds[n]),
              depth |-> DepthAfter(after[n - 1].depth, kinds[n])]
  IN  after[Len(kinds)]
=============================================================================
