---------------------------- MODULE ParseContext ----------------------------
(***************************************************************************)
(* The parse context (src/src/parser/parser_context.c): AST nodes          *)
(* allocated from an arena, and the one error a parse can record.          *)
(*                                                                         *)
(* The arena is the sequence of the nodes allocated so far; a node is      *)
(* named by its position and nodes are never changed or freed one by one.  *)
(* A leaf's text is abstracted to the token it was copied from and to      *)
(* whether it starts with `-': make_negation only adds or drops that sign. *)
(***************************************************************************)
EXTENDS LexerContext

LeafKinds == {"integer", "float", "identifier"}
BinaryKinds == {"add", "sub", "mul", "div", "pow", "at"}
NumeralKinds == {"integer", "float"}

NoNode == 0

\* A leaf has no operands; token 0 is the text "1" of the synthetic factor.
Node == [kind : LeafKinds \cup BinaryKinds, has_location : BOOLEAN,
         location : Location, left : Nat, right : Nat,
         token : Nat, negative : BOOLEAN]

LeafNode(kind, token, negative, loc) ==
  [kind |-> kind, has_location |-> TRUE, location |-> loc,
   left |-> NoNode, right |-> NoNode, token |-> token, negative |-> negative]

BinaryNode(kind, left, right, loc) ==
  [kind |-> kind, has_location |-> TRUE, location |-> loc,
   left |-> left, right |-> right, token |-> 0, negative |-> FALSE]

\* The factor of a negation; it stands for no byte of the input.
MinusOne ==
  [LeafNode("integer", 0, TRUE, NoLocation) EXCEPT !.has_location = FALSE]

\* What a maker returns: the arena with its nodes and the node to use.
Made(nodes) == [arena |-> nodes, node |-> Len(nodes)]

MakeLeaf(nodes, kind, token, negative, loc) ==
  Made(Append(nodes, LeafNode(kind, token, negative, loc)))

MakeBinary(nodes, kind, left, right, loc) ==
  Made(Append(nodes, BinaryNode(kind, left, right, loc)))

\* A numeral takes the sign into its text; anything else becomes -1 * node.
FaultyNegatedSign(negative) == TRUE
NegatedSign(negative) == ~ negative

\* The factor is allocated before the product.
NegationFactor(nodes) == Len(nodes) + 1

MakeNegation(nodes, node, loc) ==
  IF nodes[node].kind \in NumeralKinds
  THEN MakeLeaf(nodes, nodes[node].kind, nodes[node].token,
                NegatedSign(nodes[node].negative), loc)
  ELSE MakeBinary(Append(nodes, MinusOne), "mul", NegationFactor(nodes), node, loc)

\* simple T_SUPERSCRIPT_INTEGER: the exponent leaf, then the power.
FaultyMakePower(nodes, base, token, negative, tokenLoc, loc) ==
  LET leaf == LeafNode("integer", token, negative, tokenLoc)
  IN  MakeBinary(nodes \o << leaf, leaf >>, "pow", base, Len(nodes) + 2, loc)

MakePower(nodes, base, token, negative, tokenLoc, loc) ==
  MakeBinary(MakeLeaf(nodes, "integer", token, negative, tokenLoc).arena,
             "pow", base, Len(nodes) + 1, loc)

(***************************************************************************)
(* The recorded error.  `expected' is the set of the expected token kinds. *)
(***************************************************************************)
ParseError == [message : {"none", "syntax_error", "memory_exhausted"},
               location : Location, unexpected : {YYEMPTY} \cup Terminals,
               expected : SUBSET Terminals]

NoError == [message |-> "none", location |-> NoLocation,
            unexpected |-> YYEMPTY, expected |-> {}]

HasError(err) == err.message # "none"

\* yumemi_parse_context_set_error: the first error wins.
SetError(err, loc, message) ==
  IF HasError(err) THEN err
  ELSE [message |-> message, location |-> loc,
        unexpected |-> YYEMPTY, expected |-> {}]

SetSyntaxError(err, loc, unexpected, expected) ==
  IF HasError(err) THEN err
  ELSE [message |-> "syntax_error", location |-> loc,
        unexpected |-> unexpected, expected |-> expected]
=============================================================================
