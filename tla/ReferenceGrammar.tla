--------------------------- MODULE ReferenceGrammar ---------------------------
(***************************************************************************)
(* What parser.y's grammar derives, straight from its rules: the syntax    *)
(* trees of a stretch of tokens as a set, with no tables, no stack and no  *)
(* lookahead.  A tree is << kind, has_location, x, y, start, end >>; x and *)
(* y are the operands of a binary node, the token and sign of a leaf.      *)
(***************************************************************************)
EXTENDS ParseContext

Tree(kind, x, y, loc) == << kind, TRUE, x, y, loc.start, loc.end >>

MinusOneTree == << "integer", FALSE, 0, TRUE, 0, 0 >>

NegatedTree(tree, loc) ==
  IF tree[1] \in NumeralKinds
  THEN Tree(tree[1], tree[3], ~ tree[4], loc)
  ELSE Tree("mul", MinusOneTree, tree, loc)

OperatorKind(type) ==
  CASE type = T_ADD -> "add"
    [] type = T_SUB -> "sub"
    [] type = T_DIV -> "div"
    [] type = T_POW -> "pow"
    [] type = T_AT  -> "at"
    [] OTHER        -> "mul"

(***************************************************************************)
(* The meaning of one right hand side, read off its symbols.  A terminal   *)
(* contributes the tree of its own lexeme.                                 *)
(***************************************************************************)
Meaning(rhs, parts, loc) ==
  IF Len(rhs) = 1 THEN parts[1]
  ELSE IF rhs[1] = T_LEFT_PAREN THEN parts[2]
  ELSE IF rhs[1] = T_SUB THEN NegatedTree(parts[2], loc)
  ELSE IF rhs[2] = T_SUPERSCRIPT_INTEGER THEN Tree("pow", parts[1], parts[2], loc)
  ELSE IF Len(rhs) = 2 THEN Tree("mul", parts[1], parts[2], loc)
  ELSE Tree(OperatorKind(rhs[2]), parts[1], parts[3], loc)

LexemeTree(input, i) ==
  Tree(CASE input[i].type = T_FLOAT      -> "float"
         [] input[i].type = T_IDENTIFIER -> "identifier"
         [] OTHER                        -> "integer",
       i, input[i].negative, input[i].location)

(***************************************************************************)
(* The ways to cut tokens i to j among the symbols of a right hand side:   *)
(* symbol n gets those from cut[n] up to the one before cut[n + 1].        *)
(***************************************************************************)
Borders(len, i, j) ==
  CASE len = 1 -> {<< i, j + 1 >>}
    [] len = 2 -> {<< i, k, j + 1 >> : k \in i + 1 .. j}
    [] OTHER   -> {<< i, k, m, j + 1 >> : k \in i + 1 .. j, m \in i + 1 .. j}

Cuts(input, rhs, i, j) ==
  { cut \in Borders(Len(rhs), i, j) :
      \A n \in 1 .. Len(rhs) :
        /\ cut[n] < cut[n + 1]
        /\ rhs[n] \in Terminals =>
             cut[n + 1] = cut[n] + 1 /\ input[cut[n]].type = rhs[n] }

PartTrees(trees, input, rhs, cut, n) ==
  IF rhs[n] \in Terminals THEN {LexemeTree(input, cut[n])}
  ELSE trees[<< rhs[n], cut[n], cut[n + 1] - 1 >>]

Phrases(trees, input, rhs, cut) ==
  LET Part(n) == PartTrees(trees, input, rhs, cut, n)
  IN  CASE Len(rhs) = 1 -> { << tree >> : tree \in Part(1) }
        [] Len(rhs) = 2 -> Part(1) \X Part(2)
        [] OTHER        -> Part(1) \X Part(2) \X Part(3)

Span(input, i, j) == [start |-> input[i].location.start,
                      end   |-> input[j].location.end]

(***************************************************************************)
(* A goal << X, i, j >> asks for the trees X derives from tokens i to j,   *)
(* given the trees of goals closer to the tokens: no rule derives nothing, *)
(* and unit rules climb.                                                   *)
(***************************************************************************)
Goals(input) ==
  (Nonterminals \ {N_accept}) \X (1 .. Len(input)) \X (1 .. Len(input))

TreesOf(trees, input, goal) ==
  UNION { UNION { { Meaning(RuleRhs[r], parts, Span(input, goal[2], goal[3])) :
                      parts \in Phrases(trees, input, RuleRhs[r], cut) } :
                  cut \in Cuts(input, RuleRhs[r], goal[2], goal[3]) } :
          r \in { q \in Rules : RuleLhs(q) = goal[1] } }

Trees(input) ==
  LET trees[goal \in Goals(input)] == TreesOf(trees, input, goal)
  IN  trees

\* The tree of a node of the arena, given those of the older nodes.
NodeTree(trees, node) ==
  LET leaf == node.kind \in LeafKinds
  IN  << node.kind, node.has_location,
         IF leaf THEN node.token ELSE trees[node.left],
         IF leaf THEN node.negative ELSE trees[node.right],
         node.location.start, node.location.end >>

ArenaTrees(nodes) ==
  LET trees[id \in 1 .. Len(nodes)] == NodeTree(trees, nodes[id])
  IN  trees
=============================================================================
