---------------------------- MODULE YyparseProofs ----------------------------
(***************************************************************************)
(* Proofs that a call of yyparse keeps the invariants of YyparseProperties *)
(* for every limit, depth, alphabet and length of lexemes and gaps: types  *)
(* and the shape of the stack and the arena first; then that the byte      *)
(* spans the parser reports are ordered on the stack, nested in the AST    *)
(* and never empty, and that the sign of a numeral counts the minus signs  *)
(* within its span.                                                        *)
(***************************************************************************)
EXTENDS YyparseProperties, FiniteSetTheorems, SequenceTheorems, TLAPS

(***************************************************************************)
(* What the tables promise, in the form the proofs use.                    *)
(***************************************************************************)
LEMMA EdgeStates ==
  ASSUME NEW p, NEW s, IsEdge(p, s)
  PROVE  p \in States /\ s \in States /\ s # 0
  BY TablesAreConsistent DEF LrConsistent, EdgesClosed, IsEdge

LEMMA ShiftTarget ==
  ASSUME NEW s \in States, NEW x \in Terminals, HasTableAction(s, x)
  PROVE  /\ IsEdge(s, TableAction(s, x))
         /\ TableAction(s, x) \in States
         /\ AccessingSymbol(TableAction(s, x)) = x
<1>1. /\ IsEdge(s, TableAction(s, x))
      /\ AccessingSymbol(TableAction(s, x)) = x
  BY TablesAreConsistent DEF LrConsistent, ShiftsConsistent
<1> QED
  BY <1>1, EdgeStates

LEMMA ReducingRule ==
  ASSUME NEW s \in ReducingStates
  PROVE  /\ s \in States /\ s # YYFINAL /\ s # 0
         /\ DefaultReduction(s) \in Rules
         /\ RuleLength(DefaultReduction(s)) \in 1 .. 3
         /\ RuleLhs(DefaultReduction(s)) \in Nonterminals
<1>1. s \in States /\ s # YYFINAL /\ DefaultReduction(s) # 0
  BY DEF ReducingStates
<1>2. s # 0
  BY TablesAreConsistent DEF LrConsistent, ReductionsConsistent
<1>3. DefaultReduction(s) \in 0 .. YYNRULES
  BY <1>1, TablesAreConsistent DEF LrConsistent, RulesConsistent
<1>4. DefaultReduction(s) \in Rules
  BY <1>1, <1>3 DEF Rules, YYNRULES
<1> QED
  BY <1>1, <1>2, <1>4, TablesAreConsistent DEF LrConsistent, RulesConsistent

(***************************************************************************)
(* On a stack that is a path, a reducing state lies on top of a handle: the *)
(* symbols popped are the right hand side of its rule, the bottom stays,   *)
(* and the state entered continues the path.                               *)
(***************************************************************************)
LEMMA HandleOnStack ==
  ASSUME stack \in Seq(Entry), stack # << >>, StackIsPath,
         yystate \in ReducingStates,
         NEW r, r = DefaultReduction(yystate),
         NEW below, below = Len(stack) - RuleLength(r)
  PROVE  /\ below \in 1 .. Len(stack) - 1
         /\ \A k \in 1 .. RuleLength(r) :
              AccessingSymbol(stack[below + k].state) = RuleRhs[r][k]
         /\ IsEdge(stack[below].state, StateAfter(r))
         /\ AccessingSymbol(StateAfter(r)) = RuleLhs(r)
         /\ StateAfter(r) \in States
<1> DEFINE len == Len(stack)
           st(i) == stack[i].state
           Before(p) == IsEdge(p, Goto(p, RuleLhs(r)))
                        /\ AccessingSymbol(Goto(p, RuleLhs(r))) = RuleLhs(r)
<1>1. /\ yystate \in States /\ yystate # 0
      /\ r \in Rules /\ RuleLength(r) \in 1 .. 3
  BY ReducingRule
<1>2. len \in Nat /\ len > 0 /\ yystate = st(len)
  BY DEF yystate, Top
<1>3. \A i \in 2 .. len : IsEdge(st(i - 1), st(i))
  BY DEF StackIsPath
<1>4. \A i \in 1 .. len : st(i) # 0 => i >= 2 /\ IsEdge(st(i - 1), st(i)) /\ st(i - 1) \in States
  BY <1>2, <1>3, EdgeStates DEF StackIsPath
<1>5. \A i \in 1 .. len : i >= 2 => st(i) # 0
  BY <1>3, EdgeStates
<1>6. len >= 2 /\ IsEdge(st(len - 1), yystate) /\ st(len - 1) \in States
  BY <1>1, <1>2, <1>4
<1>7. CASE RuleLength(r) = 1
  <2>1. IsHandle(<< AccessingSymbol(yystate) >>, st(len - 1), r)
    BY <1>6, <1>7, TablesAreConsistent DEF LrConsistent, ReductionsConsistent
  <2> QED
    BY <2>1, <1>2, <1>6, <1>7, EdgeStates DEF IsHandle, StateAfter
<1>8. CASE RuleLength(r) = 2
  <2>1. st(len - 1) # 0
    BY <1>6, <1>8, TablesAreConsistent DEF LrConsistent, ReductionsConsistent
  <2>2. len >= 3 /\ IsEdge(st(len - 2), st(len - 1)) /\ st(len - 2) \in States
    BY <2>1, <1>2, <1>4, <1>6
  <2>3. IsHandle(<< AccessingSymbol(st(len - 1)), AccessingSymbol(yystate) >>,
                 st(len - 2), r)
    BY <2>2, <1>6, <1>8, TablesAreConsistent DEF LrConsistent, ReductionsConsistent
  <2> QED
    BY <2>2, <2>3, <1>2, <1>8, EdgeStates DEF IsHandle, StateAfter
<1>9. CASE RuleLength(r) = 3
  <2>1. st(len - 1) # 0
    BY <1>6, <1>9, TablesAreConsistent DEF LrConsistent, ReductionsConsistent
  <2>2. len >= 3 /\ IsEdge(st(len - 2), st(len - 1)) /\ st(len - 2) \in States
    BY <2>1, <1>2, <1>4, <1>6
  <2>3. st(len - 2) # 0
    BY <2>2, <1>6, <1>9, TablesAreConsistent DEF LrConsistent, ReductionsConsistent
  <2>4. len >= 4 /\ IsEdge(st(len - 3), st(len - 2)) /\ st(len - 3) \in States
    <3>1. len - 2 \in 1 .. len /\ len - 2 - 1 = len - 3
      BY <2>2, <1>2
    <3> HIDE DEF len, st
    <3>2. len - 2 >= 2 /\ IsEdge(st(len - 2 - 1), st(len - 2))
          /\ st(len - 2 - 1) \in States
      BY <2>3, <3>1, <1>4
    <3> QED
      BY <3>1, <3>2, <1>2
  <2>5. IsHandle(<< AccessingSymbol(st(len - 2)), AccessingSymbol(st(len - 1)),
                    AccessingSymbol(yystate) >>, st(len - 3), r)
    BY <2>2, <2>4, <1>6, <1>9, TablesAreConsistent DEF LrConsistent, ReductionsConsistent
  <2> QED
    BY <2>4, <2>5, <1>2, <1>9, EdgeStates DEF IsHandle, StateAfter
<1> QED
  BY <1>1, <1>7, <1>8, <1>9

(***************************************************************************)
(* The inductive invariant.  The type of the variables depends on the      *)
(* values beside the symbols, those on the path, and the path on a         *)
(* lookahead that was read and a state that is not the final one.          *)
(***************************************************************************)
LookaheadRead ==
  yytoken # YYEMPTY => tokens # << >> /\ tokens[Len(tokens)].type = yytoken

NotYetFinal == phase = "parsing" => yystate # YYFINAL

\* The arena only grows, so operands are older than the node built from
\* them: the measure along which spans and trees are read.
ArenaIsAcyclic ==
  \A id \in 1 .. Len(arena) :
    IF arena[id].kind \in LeafKinds
    THEN arena[id].left = NoNode /\ arena[id].right = NoNode
    ELSE arena[id].left \in 1 .. id - 1 /\ arena[id].right \in 1 .. id - 1

ParserInvariant ==
  /\ TypeOK
  /\ StackIsPath
  /\ ValuesMatchSymbols
  /\ ArenaIsAcyclic
  /\ LookaheadRead
  /\ NotYetFinal

(***************************************************************************)
(* Types of what the scanner delivers.                                     *)
(***************************************************************************)
LEMMA TokenLocationType ==
  ASSUME TypeOK, NEW type \in TokenKinds, NEW loc \in TokenLocations(type)
  PROVE  /\ loc \in Location
         /\ lexer.offset <= loc.start
         /\ loc.start <= loc.end
<1>1. lexer.offset \in Nat
  BY DEF TypeOK, LexerContexts
<1>2. Separation(type) \in Nat
  BY DEF Separation
<1>3. TokenBytes(type) \subseteq Nat
  <2>1. LexemeBytes \subseteq Nat
    BY InputAssumption
  <2>2. CASE type \in SizedTokens
    BY <2>1, <2>2 DEF TokenBytes
  <2>3. CASE type \notin SizedTokens
    <3>1. TokenBytes(type) \in {{1, 2}, {3}, {1}}
      BY <2>3 DEF TokenBytes, T_MUL, T_INVALID_SUPERSCRIPT, SizedTokens, T_IDENTIFIER, T_INTEGER, T_FLOAT, T_SUPERSCRIPT_INTEGER, T_INVALID_NUMBER
    <3> QED
      BY <3>1
  <2> QED
    BY <2>2, <2>3
<1>4. PICK gap \in Gaps, bytes \in TokenBytes(type) :
        loc = [start |-> lexer.offset + Separation(type) + gap,
               end   |-> lexer.offset + Separation(type) + gap + bytes]
  BY DEF TokenLocations
<1>5. gap \in Nat /\ bytes \in Nat
  BY <1>3, InputAssumption
<1> QED
  BY <1>1, <1>2, <1>4, <1>5 DEF Location

LEMMA EndLocationType ==
  ASSUME TypeOK, NEW loc \in EndLocations
  PROVE  /\ loc \in Location
         /\ lexer.offset <= loc.start
         /\ loc.start <= loc.end
<1>1. lexer.offset \in Nat
  BY DEF TypeOK, LexerContexts
<1>2. PICK gap \in Gaps :
        loc = [start |-> lexer.offset + gap, end |-> lexer.offset + gap]
  BY DEF EndLocations
<1> QED
  BY <1>1, <1>2, InputAssumption DEF Location

LEMMA CountedType ==
  ASSUME NEW ctx \in LexerContexts
  PROVE  /\ Counted(ctx) \in LexerContexts
         /\ Counted(ctx).offset = ctx.offset
         /\ Counted(ctx).token_count = ctx.token_count + 1
  BY DEF Counted, LexerContexts

\* The lexer context after a token: it moved past the token and counted it,
\* and a count beyond the limit is refused.
LEMMA AcceptTokenType ==
  ASSUME NEW ctx \in LexerContexts, NEW type, NEW loc \in Location
  PROVE  /\ AcceptToken(ctx, type, loc) \in LexerContexts
         /\ AcceptToken(ctx, type, loc).offset = ctx.offset
         /\ AcceptToken(ctx, type, loc).token_count = ctx.token_count + 1
         /\ InLimits(AcceptToken(ctx, type, loc)) =>
              ctx.token_count + 1 <= TokenCountLimit
<1> DEFINE counted == Counted(ctx)
           nested  == [counted EXCEPT !.nesting_depth = NextDepth(ctx, type)]
           Refused(c, category, limit, observed) ==
             [c EXCEPT !.error = Exceeded(category, limit, observed, loc)]
           IsResult(c) == /\ c \in LexerContexts
                          /\ c.offset = ctx.offset
                          /\ c.token_count = ctx.token_count + 1
<1>1. IsResult(counted)
  BY CountedType
<1>2. NextDepth(ctx, type) \in Nat
  BY DEF NextDepth, LexerContexts
<1>3. IsResult(nested)
  <2> HIDE DEF counted
  <2> QED
    BY <1>1, <1>2 DEF LexerContexts
<1>4. ASSUME NEW c, IsResult(c), NEW category \in Limits,
             NEW limit \in Nat, NEW observed \in Nat
      PROVE  /\ IsResult(Refused(c, category, limit, observed))
             /\ ~ InLimits(Refused(c, category, limit, observed))
  <2>1. Exceeded(category, limit, observed, loc) \in LexerError
    BY DEF Exceeded, LexerError
  <2>2. category # "none"
    BY DEF Limits
  <2> QED
    BY <1>4, <2>1, <2>2 DEF LexerContexts, InLimits, Exceeded
<1>5. /\ counted.token_count \in Nat
      /\ nested.nesting_depth \in Nat
      /\ loc.end - loc.start > TokenBytesLimit => loc.end - loc.start \in Nat
      /\ {"token_count", "token_bytes", "nesting_depth"} \subseteq Limits
  <2> HIDE DEF counted, nested
  <2> QED
    BY <1>1, <1>3, LimitsAssumption DEF LexerContexts, Limits, Location
<1>6. \/ /\ AcceptToken(ctx, type, loc) = nested
         /\ ~ counted.token_count > TokenCountLimit
      \/ AcceptToken(ctx, type, loc)
           = Refused(counted, "token_count", TokenCountLimit, counted.token_count)
      \/ /\ loc.end - loc.start > TokenBytesLimit
         /\ AcceptToken(ctx, type, loc)
              = Refused(counted, "token_bytes", TokenBytesLimit, loc.end - loc.start)
      \/ AcceptToken(ctx, type, loc)
           = Refused(nested, "nesting_depth", NestingDepthLimit, nested.nesting_depth)
  <2>1. CASE counted.token_count > TokenCountLimit
    BY <2>1 DEF AcceptToken
  <2>2. CASE ~ counted.token_count > TokenCountLimit
             /\ loc.end - loc.start > TokenBytesLimit /\ type \in SizedTokens
    BY <2>2 DEF AcceptToken
  <2>3. CASE ~ counted.token_count > TokenCountLimit
             /\ ~ (loc.end - loc.start > TokenBytesLimit /\ type \in SizedTokens)
    BY <2>3 DEF AcceptToken
  <2> QED
    BY <2>1, <2>2, <2>3
<1> DEFINE Result == AcceptToken(ctx, type, loc)
<1> HIDE DEF counted, nested, Refused, IsResult, Result
<1>7. \/ IsResult(Result) /\ ~ counted.token_count > TokenCountLimit
      \/ IsResult(Result) /\ ~ InLimits(Result)
  BY <1>1, <1>3, <1>4, <1>5, <1>6, LimitsAssumption DEF Result
<1> QED
  BY <1>1, <1>7, LimitsAssumption DEF IsResult, Result, LexerContexts

LEMMA ScannedContextType ==
  ASSUME TypeOK, NEW type, NEW loc \in Location
  PROVE  /\ ScannedContext(type, loc) \in LexerContexts
         /\ ScannedContext(type, loc).offset = loc.end
         /\ ScannedContext(type, loc).token_count = lexer.token_count + 1
         /\ InLimits(ScannedContext(type, loc)) =>
              lexer.token_count + 1 <= TokenCountLimit
<1>1. /\ [lexer EXCEPT !.offset = loc.end] \in LexerContexts
      /\ [lexer EXCEPT !.offset = loc.end].offset = loc.end
      /\ [lexer EXCEPT !.offset = loc.end].token_count = lexer.token_count
  BY DEF TypeOK, LexerContexts, Location
<1> QED
  BY <1>1, AcceptTokenType DEF ScannedContext

(***************************************************************************)
(* The arena only grows, and by nodes whose operands are older.            *)
(***************************************************************************)
OperandsOlder(nodes, id) ==
  IF nodes[id].kind \in LeafKinds
  THEN nodes[id].left = NoNode /\ nodes[id].right = NoNode
  ELSE nodes[id].left \in 1 .. id - 1 /\ nodes[id].right \in 1 .. id - 1

Extends(nodes, new) ==
  /\ new \in Seq(Node)
  /\ Len(nodes) <= Len(new)
  /\ \A id \in 1 .. Len(nodes) : new[id] = nodes[id]
  /\ \A id \in Len(nodes) + 1 .. Len(new) : OperandsOlder(new, id)

LEMMA ExtendsReflexive ==
  ASSUME NEW nodes \in Seq(Node)
  PROVE  Extends(nodes, nodes)
  BY DEF Extends

LEMMA ExtendsAppend ==
  ASSUME NEW nodes \in Seq(Node), NEW new, Extends(nodes, new),
         NEW node \in Node,
         IF node.kind \in LeafKinds
         THEN node.left = NoNode /\ node.right = NoNode
         ELSE node.left \in 1 .. Len(new) /\ node.right \in 1 .. Len(new)
  PROVE  /\ Extends(nodes, Append(new, node))
         /\ Len(Append(new, node)) = Len(new) + 1
<1>1. new \in Seq(Node) /\ Len(new) \in Nat /\ Len(nodes) \in Nat
  BY DEF Extends
<1>2. /\ Append(new, node) \in Seq(Node)
      /\ Len(Append(new, node)) = Len(new) + 1
      /\ \A id \in 1 .. Len(new) : Append(new, node)[id] = new[id]
      /\ Append(new, node)[Len(new) + 1] = node
  BY <1>1, AppendProperties
<1> QED
  BY <1>1, <1>2 DEF Extends, OperandsOlder

LEMMA LeafNodeType ==
  ASSUME NEW kind \in LeafKinds, NEW token \in Nat, NEW negative \in BOOLEAN,
         NEW loc \in Location
  PROVE  /\ LeafNode(kind, token, negative, loc) \in Node
         /\ LeafNode(kind, token, negative, loc).kind = kind
         /\ LeafNode(kind, token, negative, loc).left = NoNode
         /\ LeafNode(kind, token, negative, loc).right = NoNode
  BY DEF LeafNode, Node, NoNode

LEMMA BinaryNodeType ==
  ASSUME NEW kind \in BinaryKinds, NEW left \in Nat, NEW right \in Nat,
         NEW loc \in Location
  PROVE  /\ BinaryNode(kind, left, right, loc) \in Node
         /\ BinaryNode(kind, left, right, loc).kind \notin LeafKinds
         /\ BinaryNode(kind, left, right, loc).left = left
         /\ BinaryNode(kind, left, right, loc).right = right
  BY DEF BinaryNode, Node, BinaryKinds, LeafKinds

(***************************************************************************)
(* What each maker of nodes returns: an extension and a node of it.        *)
(***************************************************************************)
MadeFrom(nodes, made) ==
  Extends(nodes, made.arena) /\ made.node \in 1 .. Len(made.arena)

LEMMA MakeLeafExtends ==
  ASSUME NEW nodes \in Seq(Node), NEW kind \in LeafKinds, NEW token \in Nat,
         NEW negative \in BOOLEAN, NEW loc \in Location
  PROVE  MadeFrom(nodes, MakeLeaf(nodes, kind, token, negative, loc))
  BY ExtendsReflexive, LeafNodeType, ExtendsAppend
     DEF MadeFrom, MakeLeaf, Made

LEMMA MakeBinaryExtends ==
  ASSUME NEW nodes \in Seq(Node), NEW new, Extends(nodes, new),
         NEW kind \in BinaryKinds, NEW left \in 1 .. Len(new),
         NEW right \in 1 .. Len(new), NEW loc \in Location
  PROVE  MadeFrom(nodes, MakeBinary(new, kind, left, right, loc))
<1> DEFINE node == BinaryNode(kind, left, right, loc)
<1>1. Len(new) \in Nat
  BY DEF Extends
<1>2. /\ node \in Node
      /\ node.kind \notin LeafKinds
      /\ node.left \in 1 .. Len(new)
      /\ node.right \in 1 .. Len(new)
  BY <1>1, BinaryNodeType
<1> HIDE DEF node
<1>3. /\ Extends(nodes, Append(new, node))
      /\ Len(Append(new, node)) = Len(new) + 1
  BY <1>2, ExtendsAppend
<1> QED
  BY <1>1, <1>3 DEF MadeFrom, MakeBinary, Made, node

LEMMA MakeNegationExtends ==
  ASSUME NEW nodes \in Seq(Node), NEW node \in 1 .. Len(nodes),
         NEW loc \in Location
  PROVE  MadeFrom(nodes, MakeNegation(nodes, node, loc))
<1>1. nodes[node] \in Node
  OBVIOUS
<1>2. CASE nodes[node].kind \in NumeralKinds
  <2>1. /\ nodes[node].kind \in LeafKinds
        /\ nodes[node].token \in Nat
        /\ NegatedSign(nodes[node].negative) \in BOOLEAN
    BY <1>1, <1>2 DEF Node, NumeralKinds, LeafKinds, NegatedSign
  <2> QED
    BY <1>2, <2>1, MakeLeafExtends DEF MakeNegation
<1>3. CASE nodes[node].kind \notin NumeralKinds
  <2>1. /\ MinusOne \in Node
        /\ MinusOne.kind \in LeafKinds
        /\ MinusOne.left = NoNode
        /\ MinusOne.right = NoNode
    BY DEF MinusOne, LeafNode, Node, LeafKinds, Location, NoLocation, NoNode
  <2>2. /\ Extends(nodes, Append(nodes, MinusOne))
        /\ Len(Append(nodes, MinusOne)) = Len(nodes) + 1
    BY <2>1, ExtendsReflexive, ExtendsAppend
  <2>3. "mul" \in BinaryKinds
    BY DEF BinaryKinds
  <2>4. /\ NegationFactor(nodes) \in 1 .. Len(Append(nodes, MinusOne))
        /\ node \in 1 .. Len(Append(nodes, MinusOne))
    BY <2>2 DEF NegationFactor
  <2> QED
    BY <1>3, <2>2, <2>3, <2>4, MakeBinaryExtends DEF MakeNegation
<1> QED
  BY <1>2, <1>3

LEMMA MakePowerExtends ==
  ASSUME NEW nodes \in Seq(Node), NEW base \in 1 .. Len(nodes),
         NEW token \in Nat, NEW negative \in BOOLEAN,
         NEW tokenLoc \in Location, NEW loc \in Location
  PROVE  MadeFrom(nodes, MakePower(nodes, base, token, negative, tokenLoc, loc))
<1> DEFINE exponent == LeafNode("integer", token, negative, tokenLoc)
           new == Append(nodes, exponent)
<1>1. "integer" \in LeafKinds /\ "pow" \in BinaryKinds
  BY DEF LeafKinds, BinaryKinds
<1>2. Extends(nodes, new) /\ Len(new) = Len(nodes) + 1
  BY <1>1, LeafNodeType, ExtendsReflexive, ExtendsAppend
<1>3. MakePower(nodes, base, token, negative, tokenLoc, loc)
        = MakeBinary(new, "pow", base, Len(nodes) + 1, loc)
  BY DEF MakePower, MakeLeaf, Made
<1> HIDE DEF new
<1>4. base \in 1 .. Len(new) /\ Len(nodes) + 1 \in 1 .. Len(new)
  BY <1>2
<1> QED
  BY <1>1, <1>2, <1>3, <1>4, MakeBinaryExtends

(***************************************************************************)
(* The entries a reduction pops, and what its semantic action returns.     *)
(***************************************************************************)
Handle(r) == SubSeq(stack, Len(stack) - RuleLength(r) + 1, Len(stack))

LEMMA HandleValues ==
  ASSUME ParserInvariant, yystate \in ReducingStates,
         NEW r, r = DefaultReduction(yystate)
  PROVE  /\ Handle(r) \in Seq(Entry)
         /\ Len(Handle(r)) = RuleLength(r)
         /\ RuleLength(r) \in 1 .. 3
         /\ \A k \in 1 .. RuleLength(r) :
              /\ Handle(r)[k] \in Entry
              /\ Handle(r)[k] = stack[Len(stack) - RuleLength(r) + k]
              /\ RuleRhs[r][k] \in Nonterminals =>
                   Handle(r)[k].node \in 1 .. Len(arena)
              /\ RuleRhs[r][k] \in Terminals =>
                   Handle(r)[k].token \in 1 .. Len(tokens)
         /\ CommonLocation(Handle(r)) \in Location
<1> DEFINE below == Len(stack) - RuleLength(r)
<1>1. /\ stack \in Seq(Entry) /\ stack # << >> /\ StackIsPath
      /\ ValuesMatchSymbols
  BY DEF ParserInvariant, TypeOK
<1>2. RuleLength(r) \in 1 .. 3
  BY ReducingRule
<1>3. below \in 1 .. Len(stack) - 1
      /\ \A k \in 1 .. RuleLength(r) :
           AccessingSymbol(stack[below + k].state) = RuleRhs[r][k]
  BY <1>1, HandleOnStack
<1>4. below + 1 \in Int /\ Len(stack) \in Int
      /\ \A i \in below + 1 .. Len(stack) : stack[i] \in Entry
  BY <1>1, <1>2, <1>3
<1>5. /\ Handle(r) \in Seq(Entry)
      /\ Len(Handle(r)) = RuleLength(r)
      /\ \A k \in 1 .. RuleLength(r) : Handle(r)[k] = stack[below + k]
  <2>1. /\ SubSeq(stack, below + 1, Len(stack)) \in Seq(Entry)
        /\ Len(SubSeq(stack, below + 1, Len(stack)))
             = IF below + 1 <= Len(stack) THEN Len(stack) - (below + 1) + 1 ELSE 0
        /\ \A i \in 1 .. Len(stack) - (below + 1) + 1 :
             SubSeq(stack, below + 1, Len(stack))[i] = stack[below + 1 + i - 1]
    BY <1>4, SubSeqProperties
  <2>2. Len(stack) \in Nat /\ below \in Nat /\ Len(stack) = below + RuleLength(r)
    BY <1>1, <1>2, <1>3
  <2>3. Handle(r) = SubSeq(stack, below + 1, Len(stack))
    BY DEF Handle
  <2> HIDE DEF below
  <2> QED
    BY <1>2, <2>1, <2>2, <2>3
<1>6. \A k \in 1 .. RuleLength(r) :
        /\ stack[below + k] \in Entry
        /\ RuleRhs[r][k] \in Nonterminals => stack[below + k].node \in 1 .. Len(arena)
        /\ RuleRhs[r][k] \in Terminals => stack[below + k].token \in 1 .. Len(tokens)
  <2>1. \A x \in Terminals : x \notin Nonterminals
    BY DEF Terminals, Nonterminals, YYNTOKENS, N_identifier
  <2>2. ASSUME NEW k \in 1 .. RuleLength(r)
        PROVE  below + k \in 2 .. Len(stack)
    BY <1>1, <1>2, <1>3
  <2>3. ASSUME NEW i \in 2 .. Len(stack)
        PROVE  /\ stack[i] \in Entry
               /\ AccessingSymbol(stack[i].state) \in Nonterminals =>
                    stack[i].node \in 1 .. Len(arena)
               /\ AccessingSymbol(stack[i].state) \notin Nonterminals =>
                    stack[i].token \in 1 .. Len(tokens)
    <3>1. i \in 1 .. Len(stack)
      BY <1>1
    <3> QED
      BY <1>1, <3>1 DEF ValuesMatchSymbols
  <2> HIDE DEF below
  <2> QED
    BY <1>3, <2>1, <2>2, <2>3
<1>7. CommonLocation(Handle(r)) \in Location
  <2>1. 1 \in 1 .. RuleLength(r) /\ RuleLength(r) \in 1 .. RuleLength(r)
    BY <1>2
  <2>2. Handle(r)[1] \in Entry /\ Handle(r)[Len(Handle(r))] \in Entry
    BY <1>5, <1>6, <2>1
  <2> QED
    BY <2>2 DEF CommonLocation, Entry, Location
<1> QED
  BY <1>2, <1>5, <1>6, <1>7

\* Rule 2, `start: exp', finds the node of the whole input.
LEMMA RootOfHandle ==
  ASSUME ParserInvariant, yystate \in ReducingStates,
         DefaultReduction(yystate) = 2
  PROVE  Handle(2)[1].node \in 1 .. Len(arena)
<1>1. 2 \in Rules /\ 1 \in 1 .. RuleLength(2)
  BY ReducingRule
<1>2. RuleRhs[2][1] \in Nonterminals
  BY <1>1, ActionsConsistent DEF ActionsFitRules, LeafRules, BinaryRules
<1> QED
  BY <1>1, <1>2, HandleValues

LEMMA SemanticActionExtends ==
  ASSUME ParserInvariant, yystate \in ReducingStates,
         NEW r, r = DefaultReduction(yystate)
  PROVE  MadeFrom(arena, SemanticAction(r, Handle(r), CommonLocation(Handle(r))))
<1> DEFINE rhs   == Handle(r)
           loc   == CommonLocation(rhs)
           first == rhs[1]
           last  == rhs[Len(rhs)]
           made  == SemanticAction(r, rhs, loc)
<1>1. arena \in Seq(Node) /\ tokens \in Seq(Token)
  BY DEF ParserInvariant, TypeOK
<1>2. r \in Rules /\ RuleLength(r) \in 1 .. 3
  BY ReducingRule
<1>3. /\ Len(rhs) = RuleLength(r)
      /\ loc \in Location
      /\ first \in Entry /\ last \in Entry
      /\ RuleRhs[r][1] \in Nonterminals => first.node \in 1 .. Len(arena)
      /\ RuleRhs[r][RuleLength(r)] \in Nonterminals => last.node \in 1 .. Len(arena)
      /\ RuleRhs[r][RuleLength(r)] \in Terminals => last.token \in 1 .. Len(tokens)
      /\ RuleLength(r) = 3 /\ RuleRhs[r][2] \in Nonterminals =>
           rhs[2].node \in 1 .. Len(arena)
  <2>1. 1 \in 1 .. RuleLength(r) /\ RuleLength(r) \in 1 .. RuleLength(r)
        /\ (RuleLength(r) = 3 => 2 \in 1 .. RuleLength(r))
    BY <1>2
  <2> QED
    BY <2>1, HandleValues
<1>4. first.location \in Location /\ last.location \in Location
      /\ first.token \in Nat /\ first.node \in Nat
  BY <1>3 DEF Entry
<1>5. ActionsFitRules
  BY ActionsConsistent
<1> HIDE DEF rhs, loc
<1>6. CASE r \in LeafRules
  <2>1. LeafKind(r) \in LeafKinds
    BY DEF LeafKind, LeafKinds
  <2>2. made = MakeLeaf(arena, LeafKind(r), first.token, FALSE, first.location)
    <3>1. r \notin BinaryRules /\ r \notin {13, 24} /\ r # 20
      BY <1>6 DEF BinaryRules, LeafRules
    <3> QED
      BY <1>6, <3>1, Zenon DEF SemanticAction
  <2> QED
    BY <1>1, <1>4, <2>1, <2>2, MakeLeafExtends DEF rhs, loc
<1>7. CASE r \in BinaryRules
  <2>1. BinaryKind(r) \in BinaryKinds
    BY DEF BinaryKind, BinaryKinds
  <2>2. made = MakeBinary(arena, BinaryKind(r), first.node, last.node, loc)
    BY <1>7 DEF SemanticAction, BinaryRules, LeafRules
  <2>3. first.node \in 1 .. Len(arena) /\ last.node \in 1 .. Len(arena)
    BY <1>2, <1>3, <1>5, <1>7 DEF ActionsFitRules, LeafRules, BinaryRules
  <2> QED
    BY <1>1, <1>3, <2>1, <2>2, <2>3, ExtendsReflexive, MakeBinaryExtends DEF rhs, loc
<1>8. CASE r \in {13, 24}
  <2>1. made = MakeNegation(arena, last.node, loc)
    BY <1>8 DEF SemanticAction, BinaryRules, LeafRules
  <2>2. last.node \in 1 .. Len(arena)
    BY <1>2, <1>3, <1>5, <1>8 DEF ActionsFitRules, LeafRules, BinaryRules
  <2> QED
    BY <1>1, <1>3, <2>1, <2>2, MakeNegationExtends DEF rhs, loc
<1>9. CASE r = 20
  <2>1. made = MakePower(arena, first.node, last.token,
                         tokens[last.token].negative, last.location, loc)
    BY <1>9 DEF SemanticAction, BinaryRules, LeafRules
  <2>2. first.node \in 1 .. Len(arena) /\ last.token \in 1 .. Len(tokens)
    BY <1>2, <1>3, <1>5, <1>9 DEF ActionsFitRules, LeafRules, BinaryRules
  <2>3. last.token \in Nat /\ tokens[last.token].negative \in BOOLEAN
    <3>1. last.token \in Nat /\ tokens[last.token] \in Token
      BY <1>1, <2>2
    <3> QED
      BY <3>1 DEF Token
  <2> QED
    BY <1>1, <1>3, <1>4, <2>1, <2>2, <2>3, MakePowerExtends DEF rhs, loc
<1>10. CASE r \notin LeafRules \cup BinaryRules \cup {13, 20, 24}
  <2>1. made = [arena |-> arena, node |-> PassedNode(r, rhs)]
    BY <1>10 DEF SemanticAction
  <2>2. PassedNode(r, rhs) \in 1 .. Len(arena)
    BY <1>2, <1>3, <1>5, <1>10 DEF ActionsFitRules, PassedNode
  <2> QED
    BY <1>1, <2>1, <2>2, ExtendsReflexive DEF MadeFrom, rhs, loc
<1> QED
  BY <1>6, <1>7, <1>8, <1>9, <1>10

(***************************************************************************)
(* Entering a state: the sizes and the outcome.                            *)
(***************************************************************************)
LEMMA YystateType ==
  ASSUME TypeOK
  PROVE  yystate \in States /\ yystate = stack[Len(stack)].state
<1>1. stack \in Seq(Entry) /\ Len(stack) \in 1 .. Len(stack)
  BY DEF TypeOK
<1>2. stack[Len(stack)] \in Entry
  BY <1>1
<1> QED
  BY <1>2 DEF yystate, Top, Entry

LEMMA YyllocType ==
  ASSUME TypeOK
  PROVE  yylloc \in Location
<1>1. CASE tokens = << >>
  BY <1>1 DEF yylloc, NoLocation, Location
<1>2. CASE tokens # << >>
  <2>1. tokens[Len(tokens)] \in Token
    BY <1>2 DEF TypeOK
  <2> QED
    BY <1>2, <2>1 DEF yylloc, Token
<1> QED
  BY <1>1, <1>2

LEMMA SetErrorType ==
  ASSUME NEW err \in ParseError, NEW loc \in Location,
         NEW message \in {"syntax_error", "memory_exhausted"}
  PROVE  /\ SetError(err, loc, message) \in ParseError
         /\ HasError(SetError(err, loc, message))
<1>1. CASE HasError(err)
  BY <1>1 DEF SetError
<1>2. CASE ~ HasError(err)
  <2>1. SetError(err, loc, message) =
          [message |-> message, location |-> loc,
           unexpected |-> YYEMPTY, expected |-> {}]
    BY <1>2 DEF SetError
  <2> QED
    BY <2>1 DEF ParseError, HasError
<1> QED
  BY <1>1, <1>2

LEMMA EnterStateTypes ==
  ASSUME TypeOK, NEW newStack \in Seq(Entry), newStack # << >>,
         EnterState(newStack)
  PROVE  /\ stack' \in Seq(Entry) \ {<< >>}
         /\ yystacksize' \in 1 .. MaxDepth
         /\ phase' \in Phases
         /\ error' \in ParseError
         /\ NotYetFinal'
<1>1. yystacksize' \in 1 .. MaxDepth
  BY DepthAssumption DEF TypeOK, EnterState, GrownSize
<1>2. phase' \in Phases /\ NotYetFinal'
  BY DEF EnterState, PhaseAfter, Phases, NotYetFinal, yystate, Top
<1>3. error' \in ParseError
  <2>1. error \in ParseError /\ yylloc \in Location
    BY YyllocType DEF TypeOK
  <2> QED
    BY <2>1, SetErrorType DEF EnterState
<1> QED
  BY <1>1, <1>2, <1>3 DEF EnterState

\* What a step that leaves an entry on top of a prefix of the stack keeps.
LEMMA PushKeepsInvariant ==
  ASSUME ParserInvariant, NEW newStack \in Seq(Entry),
         NEW below \in 1 .. Len(stack), NEW entry \in Entry,
         Len(newStack) = below + 1,
         \A i \in 1 .. below : newStack[i] = stack[i],
         newStack[below + 1] = entry,
         IsEdge(stack[below].state, entry.state),
         EnterState(newStack),
         Extends(arena, arena'),
         tokens' = tokens,
         IF AccessingSymbol(entry.state) \in Nonterminals
         THEN entry.node \in 1 .. Len(arena')
         ELSE /\ entry.node = NoNode
              /\ entry.token \in 1 .. Len(tokens)
              /\ tokens[entry.token].type = AccessingSymbol(entry.state)
  PROVE  /\ stack' \in Seq(Entry) \ {<< >>}
         /\ yystacksize' \in 1 .. MaxDepth
         /\ phase' \in Phases
         /\ error' \in ParseError
         /\ arena' \in Seq(Node)
         /\ Len(arena) <= Len(arena')
         /\ StackIsPath'
         /\ ValuesMatchSymbols'
         /\ ArenaIsAcyclic'
         /\ NotYetFinal'
<1>1. TypeOK /\ StackIsPath /\ ValuesMatchSymbols /\ ArenaIsAcyclic
  BY DEF ParserInvariant
<1>2. stack' = newStack
  BY DEF EnterState
<1>3. /\ arena \in Seq(Node) /\ arena' \in Seq(Node)
      /\ Len(arena) \in Nat /\ Len(arena') \in Nat
      /\ Len(arena) <= Len(arena')
  BY <1>1 DEF TypeOK, Extends
<1>4. stack \in Seq(Entry) /\ Len(stack) \in Nat
  BY <1>1 DEF TypeOK
<1>5. newStack # << >>
  BY <1>4
<1>6. StackIsPath'
  <2>1. stack'[1].state = 0
    BY <1>1, <1>2, <1>4 DEF StackIsPath
  <2>2. ASSUME NEW i \in 2 .. Len(stack')
        PROVE  IsEdge(stack'[i - 1].state, stack'[i].state)
    <3>1. CASE i = below + 1
      BY <3>1, <1>2, <1>4
    <3>2. CASE i # below + 1
      <4>1. i \in 2 .. below /\ i - 1 \in 1 .. below /\ i \in 2 .. Len(stack)
        BY <3>2, <1>2, <1>4
      <4>2. IsEdge(stack[i - 1].state, stack[i].state)
        BY <4>1, <1>1 DEF StackIsPath
      <4> QED
        BY <4>1, <4>2, <1>2
    <3> QED
      BY <3>1, <3>2
  <2>3. \A i \in 2 .. Len(stack') : IsEdge(stack'[i - 1].state, stack'[i].state)
    BY <2>2
  <2> QED
    BY <2>1, <2>3 DEF StackIsPath
<1>7. ValuesMatchSymbols'
  <2> SUFFICES ASSUME NEW i \in 2 .. Len(stack')
               PROVE  IF AccessingSymbol(stack'[i].state) \in Nonterminals
                      THEN stack'[i].node \in 1 .. Len(arena')
                      ELSE /\ stack'[i].node = NoNode
                           /\ stack'[i].token \in 1 .. Len(tokens')
                           /\ tokens'[stack'[i].token].type
                                = AccessingSymbol(stack'[i].state)
    BY DEF ValuesMatchSymbols
  <2>1. CASE i = below + 1
    BY <2>1, <1>2
  <2>2. CASE i # below + 1
    <3>1. i \in 1 .. below /\ i \in 2 .. Len(stack)
      BY <2>2, <1>2, <1>4
    <3>2. stack'[i] = stack[i]
      BY <3>1, <1>2
    <3> QED
      BY <3>1, <3>2, <1>1, <1>3 DEF ValuesMatchSymbols
  <2> QED
    BY <2>1, <2>2
<1>8. ArenaIsAcyclic'
  <2> SUFFICES ASSUME NEW id \in 1 .. Len(arena')
               PROVE  OperandsOlder(arena', id)
    BY DEF ArenaIsAcyclic, OperandsOlder
  <2>1. CASE id \in 1 .. Len(arena)
    <3>1. arena'[id] = arena[id]
      BY <2>1 DEF Extends
    <3> QED
      BY <2>1, <3>1, <1>1 DEF ArenaIsAcyclic, OperandsOlder
  <2>2. CASE id \in Len(arena) + 1 .. Len(arena')
    BY <2>2 DEF Extends
  <2> QED
    BY <2>1, <2>2, <1>3
<1> QED
  BY <1>1, <1>3, <1>5, <1>6, <1>7, <1>8, EnterStateTypes

(***************************************************************************)
(* A reduction replaces the handle by one entry and keeps the invariant.   *)
(***************************************************************************)
LEMMA ReduceReplacesHandle ==
  ASSUME ParserInvariant, yystate \in ReducingStates,
         NEW r, r = DefaultReduction(yystate),
         Reduce(r)
  PROVE  \E entry \in Entry, newStack \in Seq(Entry),
            below \in 1 .. Len(stack) - 1 :
           /\ below = Len(stack) - RuleLength(r)
           /\ Len(newStack) = below + 1
           /\ \A i \in 1 .. below : newStack[i] = stack[i]
           /\ newStack[below + 1] = entry
           /\ EnterState(newStack)
           /\ entry.state = StateAfter(r)
           /\ entry.node \in 1 .. Len(arena')
           /\ entry.node =
                SemanticAction(r, Handle(r), CommonLocation(Handle(r))).node
           /\ entry.location = CommonLocation(Handle(r))
           /\ Extends(arena, arena')
<1> DEFINE below == Len(stack) - RuleLength(r)
           rhs   == Handle(r)
           loc   == CommonLocation(rhs)
           made  == SemanticAction(r, rhs, loc)
           entry == [state |-> StateAfter(r), node |-> made.node,
                     token |-> rhs[1].token, location |-> loc]
           prefix == SubSeq(stack, 1, below)
           newStack == Append(prefix, entry)
<1>1. /\ stack \in Seq(Entry) /\ stack # << >> /\ StackIsPath
  BY DEF ParserInvariant, TypeOK
<1>2. /\ below \in 1 .. Len(stack) - 1
      /\ StateAfter(r) \in States
  BY <1>1, HandleOnStack
<1>3. /\ rhs[1] \in Entry
      /\ loc \in Location
  <2>1. 1 \in 1 .. RuleLength(r)
    BY ReducingRule
  <2> QED
    BY <2>1, HandleValues
<1>4. Extends(arena, made.arena) /\ made.node \in 1 .. Len(made.arena)
  BY SemanticActionExtends DEF MadeFrom
<1>5. entry \in Entry
  <2>1. made.node \in Nat
    BY <1>4 DEF Extends
  <2>2. rhs[1].token \in Nat
    BY <1>3 DEF Entry
  <2> HIDE DEF made, rhs, loc
  <2> QED
    BY <2>1, <2>2, <1>2, <1>3 DEF Entry, loc
<1>6. arena' = made.arena /\ EnterState(newStack)
  BY DEF Reduce, Handle
<1>7. /\ newStack \in Seq(Entry)
      /\ Len(newStack) = below + 1
      /\ \A i \in 1 .. below : newStack[i] = stack[i]
      /\ newStack[below + 1] = entry
  <2>1. below \in Nat /\ below \in 1 .. Len(stack)
        /\ \A i \in 1 .. below : stack[i] \in Entry
    BY <1>1, <1>2
  <2> HIDE DEF below, entry
  <2>2. /\ prefix \in Seq(Entry)
        /\ Len(prefix) = below
        /\ \A i \in 1 .. below : prefix[i] = stack[i]
    <3>1. /\ SubSeq(stack, 1, below) \in Seq(Entry)
          /\ Len(SubSeq(stack, 1, below)) = IF 1 <= below THEN below - 1 + 1 ELSE 0
          /\ \A i \in 1 .. below - 1 + 1 : SubSeq(stack, 1, below)[i] = stack[1 + i - 1]
      BY <2>1, SubSeqProperties
    <3> QED
      BY <2>1, <3>1
  <2> HIDE DEF prefix
  <2> QED
    BY <2>1, <2>2, <1>5, AppendProperties
<1>8. /\ entry.state = StateAfter(r)
      /\ entry.location = CommonLocation(Handle(r))
      /\ entry.node = SemanticAction(r, Handle(r), CommonLocation(Handle(r))).node
      /\ entry.node \in 1 .. Len(arena')
      /\ Extends(arena, arena')
      /\ below = Len(stack) - RuleLength(r)
  BY <1>4, <1>6
<1> HIDE DEF newStack, entry, below
<1> QED
  BY <1>2, <1>5, <1>6, <1>7, <1>8

LEMMA ReduceKeepsInvariant ==
  ASSUME ParserInvariant, yystate \in ReducingStates,
         Reduce(DefaultReduction(yystate)),
         UNCHANGED << yytoken, lexer, tokens >>,
         yy_lac_established' \in BOOLEAN
  PROVE  ParserInvariant'
<1> DEFINE r == DefaultReduction(yystate)
<1>1. /\ TypeOK /\ StackIsPath
      /\ stack \in Seq(Entry) /\ stack # << >>
  BY DEF ParserInvariant, TypeOK
<1>2. /\ r \in Rules
      /\ RuleLhs(r) \in Nonterminals
      /\ RuleLength(r) \in 1 .. 3
  BY ReducingRule
<1>3. PICK entry \in Entry, newStack \in Seq(Entry),
           below \in 1 .. Len(stack) - 1 :
        /\ below = Len(stack) - RuleLength(r)
        /\ Len(newStack) = below + 1
        /\ \A i \in 1 .. below : newStack[i] = stack[i]
        /\ newStack[below + 1] = entry
        /\ EnterState(newStack)
        /\ entry.state = StateAfter(r)
        /\ entry.node \in 1 .. Len(arena')
        /\ Extends(arena, arena')
  BY ReduceReplacesHandle
<1>4. /\ IsEdge(stack[below].state, entry.state)
      /\ AccessingSymbol(entry.state) \in Nonterminals
  BY <1>1, <1>2, <1>3, HandleOnStack
<1>5. /\ stack' \in Seq(Entry) \ {<< >>}
      /\ yystacksize' \in 1 .. MaxDepth
      /\ phase' \in Phases
      /\ error' \in ParseError
      /\ arena' \in Seq(Node)
      /\ Len(arena) <= Len(arena')
      /\ StackIsPath' /\ ValuesMatchSymbols' /\ ArenaIsAcyclic'
      /\ NotYetFinal'
  <2>1. below \in 1 .. Len(stack)
    BY <1>1
  <2> QED
    BY <2>1, <1>3, <1>4, PushKeepsInvariant
<1>6. root' = IF r = 2 THEN Handle(r)[1].node ELSE root
  BY DEF Reduce, Handle
<1>7. root' \in 0 .. Len(arena')
  <2>1. root \in 0 .. Len(arena) /\ arena \in Seq(Node)
    BY <1>1 DEF TypeOK
  <2>2. CASE r = 2
    <3>1. Handle(r)[1].node \in 1 .. Len(arena)
      BY <2>2, <1>2, RootOfHandle
    <3> HIDE DEF r
    <3> QED
      BY <2>1, <2>2, <3>1, <1>5, <1>6
  <2>3. CASE r # 2
    BY <2>1, <2>3, <1>5, <1>6
  <2> QED
    BY <2>2, <2>3
<1>8. TypeOK'
  BY <1>1, <1>5, <1>7 DEF TypeOK
<1>9. LookaheadRead'
  BY DEF ParserInvariant, LookaheadRead
<1> QED
  BY <1>5, <1>8, <1>9 DEF ParserInvariant

(***************************************************************************)
(* The steps of the driver, one lemma each.                                *)
(***************************************************************************)
LEMMA InitEstablishesInvariant ==
  ASSUME Init
  PROVE  ParserInvariant
<1>1. /\ EmptyContext \in LexerContexts
      /\ NoLocation \in Location
  BY DEF EmptyContext, LexerContexts, NoLimit, Exceeded, LexerError, NoLocation,
         Location
<1>2. 0 \in States /\ 0 # YYFINAL /\ Bottom.state = 0
  BY DEF States, YYNSTATES, YYFINAL, Bottom
<1>3. Bottom \in Entry
  BY <1>1, <1>2 DEF Bottom, Entry, NoNode
<1>4. /\ stack = << Bottom >> /\ Len(stack) = 1 /\ stack[1] = Bottom
      /\ arena = << >> /\ Len(arena) = 0
  BY DEF Init
<1>5. NoError \in ParseError
  BY <1>1 DEF NoError, ParseError
<1>6. InitDepth \in 1 .. MaxDepth
  BY DepthAssumption
<1>7. TypeOK
  <2>1. stack \in Seq(Entry) \ {<< >>} /\ arena \in Seq(Node) /\ tokens \in Seq(Token)
    BY <1>3, <1>4 DEF Init
  <2>2. phase \in Phases /\ root \in 0 .. Len(arena) /\ yytoken \in {YYEMPTY} \cup Terminals
    BY <1>4 DEF Init, Phases, NoNode
  <2> QED
    BY <1>1, <1>5, <1>6, <2>1, <2>2 DEF Init, TypeOK
<1>8. StackIsPath /\ ValuesMatchSymbols /\ ArenaIsAcyclic
  BY <1>2, <1>4 DEF StackIsPath, ValuesMatchSymbols, ArenaIsAcyclic
<1>9. LookaheadRead /\ NotYetFinal
  BY <1>2, <1>4 DEF Init, LookaheadRead, NotYetFinal, yystate, Top
<1> QED
  BY <1>7, <1>8, <1>9 DEF ParserInvariant

\* Whatever yylex returns, the stack and the arena stay, and a token is added.
LEMMA ReadKeepsInvariant ==
  ASSUME ParserInvariant, NEW type \in Terminals, NEW loc \in Location,
         NEW negative \in BOOLEAN,
         tokens' = Append(tokens, [type |-> type, location |-> loc,
                                   negative |-> negative]),
         yytoken' = type,
         lexer' \in LexerContexts,
         phase' \in {phase, "recovering"},
         UNCHANGED << stack, yystacksize, yy_lac_established, arena, root,
                      error >>
  PROVE  ParserInvariant'
<1> DEFINE token == [type |-> type, location |-> loc, negative |-> negative]
<1>1. /\ token \in Token /\ token.type = type
      /\ tokens \in Seq(Token)
  BY DEF ParserInvariant, TypeOK, Token
<1> HIDE DEF token
<1>2. /\ tokens' \in Seq(Token)
      /\ tokens' # << >>
      /\ Len(tokens') = Len(tokens) + 1
      /\ \A i \in 1 .. Len(tokens) : tokens'[i] = tokens[i]
      /\ tokens'[Len(tokens')] = token
  BY <1>1, AppendProperties DEF token
<1>3. TypeOK'
  BY <1>2 DEF ParserInvariant, TypeOK, Phases
<1>4. StackIsPath'
  BY DEF ParserInvariant, StackIsPath
<1>5. ArenaIsAcyclic'
  BY DEF ParserInvariant, ArenaIsAcyclic
<1>6. ValuesMatchSymbols'
  BY <1>1, <1>2 DEF ParserInvariant, ValuesMatchSymbols
<1>7. LookaheadRead'
  BY <1>1, <1>2 DEF LookaheadRead
<1>8. NotYetFinal'
  BY DEF ParserInvariant, NotYetFinal, yystate, Top
<1> QED
  BY <1>3, <1>4, <1>5, <1>6, <1>7, <1>8 DEF ParserInvariant

LEMMA ReadTokenKeepsInvariant ==
  ASSUME ParserInvariant, NEW type \in TokenKinds,
         NEW loc \in TokenLocations(type),
         \/ \E negative \in LexemeSigns(type) : ReadToken(type, loc, negative)
         \/ ReadOverLimit(type, loc)
  PROVE  ParserInvariant'
<1>1. TypeOK
  BY DEF ParserInvariant
<1>2. loc \in Location
  BY <1>1, TokenLocationType
<1>3. ScannedContext(type, loc) \in LexerContexts
  BY <1>1, <1>2, ScannedContextType
<1>4. /\ type \in Terminals
      /\ YYerror \in Terminals
  BY InputAssumption DEF LexemeTokens, Terminals, YYNTOKENS, T_INTEGER,
                         T_INVALID_NUMBER, YYerror
<1>5. ASSUME NEW negative \in LexemeSigns(type), ReadToken(type, loc, negative)
      PROVE  ParserInvariant'
  <2>1. negative \in BOOLEAN
    BY DEF LexemeSigns
  <2> QED
    BY <1>2, <1>3, <1>4, <1>5, <2>1, ReadKeepsInvariant DEF ReadToken
<1>6. CASE ReadOverLimit(type, loc)
  BY <1>2, <1>3, <1>4, <1>6, ReadKeepsInvariant
     DEF ReadOverLimit, PhaseOverLimit
<1> QED
  BY <1>5, <1>6

LEMMA ReadEndKeepsInvariant ==
  ASSUME ParserInvariant, NEW loc \in EndLocations, ReadEnd(loc)
  PROVE  ParserInvariant'
<1>1. TypeOK
  BY DEF ParserInvariant
<1>2. loc \in Location
  BY <1>1, EndLocationType
<1>3. lexer' \in LexerContexts
  BY <1>1, <1>2 DEF TypeOK, ReadEnd, LexerContexts, Location
<1>4. YYEOF \in Terminals
  BY DEF Terminals, YYNTOKENS, YYEOF
<1> QED
  BY <1>2, <1>3, <1>4, ReadKeepsInvariant DEF ReadEnd

LEMMA ShiftKeepsInvariant ==
  ASSUME ParserInvariant, Shift
  PROVE  ParserInvariant'
<1> DEFINE target == TableAction(yystate, yytoken)
           entry == [state |-> target, node |-> NoNode,
                     token |-> Len(tokens), location |-> yylloc]
<1>1. /\ TypeOK /\ stack \in Seq(Entry) /\ stack # << >>
      /\ tokens \in Seq(Token) /\ Len(stack) \in 1 .. Len(stack)
  BY DEF ParserInvariant, TypeOK
<1>2. yytoken \in Terminals /\ tokens # << >>
      /\ tokens[Len(tokens)].type = yytoken
  BY DEF ParserInvariant, TypeOK, LookaheadRead, Shift
<1>3. yystate \in States /\ yystate = stack[Len(stack)].state
  BY <1>1, YystateType
<1>4. /\ IsEdge(yystate, target) /\ target \in States
      /\ AccessingSymbol(target) = yytoken
  BY <1>2, <1>3, ShiftTarget DEF Shift
<1>5. yytoken \notin Nonterminals
  BY <1>2 DEF Terminals, Nonterminals, YYNTOKENS, N_identifier
<1>6. entry \in Entry
  <2>1. yylloc \in Location
    BY <1>1, YyllocType
  <2> HIDE DEF target
  <2> QED
    BY <1>1, <1>4, <2>1 DEF Entry, NoNode
<1>7. Len(tokens) \in 1 .. Len(tokens)
  BY <1>1, <1>2
<1>8. /\ EnterState(Append(stack, entry))
      /\ tokens' = tokens /\ arena' = arena /\ root' = root /\ lexer' = lexer
      /\ yytoken' = YYEMPTY /\ yy_lac_established' = FALSE
  BY DEF Shift
<1>9. /\ entry.state = target /\ entry.node = NoNode
      /\ entry.token = Len(tokens)
  OBVIOUS
<1> HIDE DEF entry, target
<1>10. /\ Append(stack, entry) \in Seq(Entry)
       /\ Len(Append(stack, entry)) = Len(stack) + 1
       /\ \A i \in 1 .. Len(stack) : Append(stack, entry)[i] = stack[i]
       /\ Append(stack, entry)[Len(stack) + 1] = entry
  BY <1>1, <1>6, AppendProperties
<1>11. Extends(arena, arena')
  BY <1>1, <1>8, ExtendsReflexive DEF TypeOK
<1>12. /\ stack' \in Seq(Entry) \ {<< >>}
       /\ yystacksize' \in 1 .. MaxDepth
       /\ phase' \in Phases
       /\ error' \in ParseError
       /\ StackIsPath' /\ ValuesMatchSymbols' /\ ArenaIsAcyclic'
       /\ NotYetFinal'
  BY <1>1, <1>2, <1>3, <1>4, <1>5, <1>6, <1>7, <1>8, <1>9, <1>10, <1>11,
     PushKeepsInvariant
<1>13. TypeOK'
  BY <1>1, <1>8, <1>12 DEF TypeOK
<1>14. LookaheadRead'
  BY <1>8 DEF LookaheadRead
<1> QED
  BY <1>12, <1>13, <1>14 DEF ParserInvariant

\* Both kinds of reduction start in a state that has a rule to reduce by.
LEMMA ReductionStates ==
  ASSUME ParserInvariant, ReduceWithoutToken \/ ReduceOnToken
  PROVE  yystate \in ReducingStates
<1>1. yystate \in States /\ yystate # YYFINAL
  BY YystateType DEF ParserInvariant, NotYetFinal, ReduceWithoutToken,
                     ReduceOnToken, NoTableAction
<1>2. CASE ReduceWithoutToken
  BY <1>1, <1>2, TablesAreConsistent
     DEF LrConsistent, ConsistentStatesReduce, ReduceWithoutToken
<1>3. CASE ReduceOnToken
  BY <1>1, <1>3 DEF ReduceOnToken, ReducingStates
<1> QED
  BY <1>2, <1>3

LEMMA ReduceWithoutTokenKeepsInvariant ==
  ASSUME ParserInvariant, ReduceWithoutToken
  PROVE  ParserInvariant'
<1>1. yy_lac_established' \in BOOLEAN
  BY DEF ParserInvariant, TypeOK, ReduceWithoutToken
<1> QED
  BY <1>1, ReductionStates, ReduceKeepsInvariant DEF ReduceWithoutToken

LEMMA ReduceOnTokenKeepsInvariant ==
  ASSUME ParserInvariant, ReduceOnToken
  PROVE  ParserInvariant'
  BY ReductionStates, ReduceKeepsInvariant DEF ReduceOnToken

LEMMA SyntaxErrorKeepsInvariant ==
  ASSUME ParserInvariant, SyntaxError
  PROVE  ParserInvariant'
<1>1. error' \in ParseError
  <2>1. /\ error \in ParseError /\ yylloc \in Location
        /\ yytoken \in {YYEMPTY} \cup Terminals
    BY YyllocType DEF ParserInvariant, TypeOK
  <2>2. ExpectedTokens(StateStack) \in SUBSET Terminals
    BY DEF ExpectedTokens
  <2> QED
    BY <2>1, <2>2 DEF SyntaxError, ErrorLocation, SetSyntaxError, ParseError
<1>2. TypeOK'
  BY <1>1 DEF ParserInvariant, TypeOK, SyntaxError, Phases
<1> QED
  BY <1>2 DEF ParserInvariant, SyntaxError, StackIsPath, ValuesMatchSymbols,
              ArenaIsAcyclic, LookaheadRead, NotYetFinal

LEMMA UnwindPops ==
  ASSUME ParserInvariant, Unwind
  PROVE  /\ stack' \in Seq(Entry)
         /\ Len(stack') = Len(stack) - 1
         /\ \A i \in 1 .. Len(stack') : stack'[i] = stack[i]
<1>1. /\ stack \in Seq(Entry) /\ Len(stack) \in Nat /\ Len(stack) > 1
      /\ \A i \in 1 .. Len(stack) - 1 : stack[i] \in Entry
  BY DEF ParserInvariant, TypeOK, Unwind
<1>2. /\ SubSeq(stack, 1, Len(stack) - 1) \in Seq(Entry)
      /\ Len(SubSeq(stack, 1, Len(stack) - 1))
           = IF 1 <= Len(stack) - 1 THEN Len(stack) - 1 - 1 + 1 ELSE 0
      /\ \A i \in 1 .. Len(stack) - 1 - 1 + 1 :
           SubSeq(stack, 1, Len(stack) - 1)[i] = stack[1 + i - 1]
  BY <1>1, SubSeqProperties
<1> QED
  BY <1>1, <1>2 DEF Unwind, Popped

LEMMA UnwindKeepsInvariant ==
  ASSUME ParserInvariant, Unwind
  PROVE  ParserInvariant'
<1>1. /\ stack \in Seq(Entry) /\ Len(stack) \in Nat /\ Len(stack) > 1
      /\ TypeOK /\ StackIsPath /\ ValuesMatchSymbols
  BY DEF ParserInvariant, TypeOK, Unwind
<1>2. /\ stack' \in Seq(Entry)
      /\ Len(stack') = Len(stack) - 1
      /\ \A i \in 1 .. Len(stack) - 1 : stack'[i] = stack[i]
  BY UnwindPops
<1>3. stack' # << >>
  BY <1>1, <1>2
<1>4. TypeOK'
  BY <1>1, <1>2, <1>3 DEF TypeOK, Unwind
<1>5. StackIsPath'
  BY <1>1, <1>2 DEF StackIsPath
<1>6. ValuesMatchSymbols'
  BY <1>1, <1>2 DEF ValuesMatchSymbols, Unwind
<1> QED
  BY <1>4, <1>5, <1>6 DEF ParserInvariant, Unwind, ArenaIsAcyclic,
                          LookaheadRead, NotYetFinal

LEMMA AbortKeepsInvariant ==
  ASSUME ParserInvariant, Abort
  PROVE  ParserInvariant'
  BY DEF ParserInvariant, Abort, TypeOK, Phases, StackIsPath, ValuesMatchSymbols,
         ArenaIsAcyclic, LookaheadRead, NotYetFinal

LEMMA NextKeepsInvariant ==
  ASSUME ParserInvariant, [Next]_vars
  PROVE  ParserInvariant'
<1>1. CASE UNCHANGED vars
  BY <1>1 DEF vars, ParserInvariant, TypeOK, StackIsPath, ValuesMatchSymbols,
              ArenaIsAcyclic, LookaheadRead, NotYetFinal, yystate, Top
<1>2. CASE Yylex
  BY <1>2, ReadTokenKeepsInvariant, ReadEndKeepsInvariant DEF Yylex
<1>3. CASE Step
  BY <1>2, <1>3, ShiftKeepsInvariant, ReduceWithoutTokenKeepsInvariant,
     ReduceOnTokenKeepsInvariant, SyntaxErrorKeepsInvariant,
     UnwindKeepsInvariant, AbortKeepsInvariant
     DEF Step
<1> QED
  BY <1>1, <1>3 DEF Next, Stopped

(***************************************************************************)
(* The theorems.                                                           *)
(***************************************************************************)
\* For every limit, depth, alphabet and lexeme length: yyparse keeps its
\* variables within their types, its stack a path of the automaton from
\* state 0, and every value what the semantic actions take it for.
THEOREM ParserIsSafe == Spec => []ParserInvariant
<1>1. Init => ParserInvariant
  BY InitEstablishesInvariant
<1>2. ParserInvariant /\ [Next]_vars => ParserInvariant'
  BY NextKeepsInvariant
<1> QED
  BY <1>1, <1>2, PTL DEF Spec

\* The variables keep their types: no lookup in a table or an array of the
\* parser is out of its bounds.
THEOREM TypeCorrect == Spec => []TypeOK
<1>1. ParserInvariant => TypeOK
  BY DEF ParserInvariant
<1> QED
  BY <1>1, ParserIsSafe, PTL

\* The states on the stack are a path of the automaton, so that a reduction
\* never pops the bottom and always finds its goto.
THEOREM StackPathCorrect == Spec => []StackIsPath
<1>1. ParserInvariant => StackIsPath
  BY DEF ParserInvariant
<1> QED
  BY <1>1, ParserIsSafe, PTL

\* No semantic action reads a node where a lexeme is, or the reverse.
THEOREM ValuesCorrect == Spec => []ValuesMatchSymbols
<1>1. ParserInvariant => ValuesMatchSymbols
  BY DEF ParserInvariant
<1> QED
  BY <1>1, ParserIsSafe, PTL

(***************************************************************************)
(* The spans.  SpansNest speaks of the arena alone; a reduction keeps it   *)
(* because the node beside a symbol lies within the symbol, and the        *)
(* symbols lie in input order.                                             *)
(***************************************************************************)
LookaheadFollows ==
  phase = "parsing" /\ yytoken # YYEMPTY =>
    /\ Top.location.end <= yylloc.start
    /\ yylloc.start <= yylloc.end
    /\ yylloc.end <= lexer.offset

NodesWithinSymbols ==
  \A i \in 2 .. Len(stack) :
    AccessingSymbol(stack[i].state) \in Nonterminals =>
      /\ arena[stack[i].node].has_location
      /\ Within(arena[stack[i].node].location, stack[i].location)

SpanInvariant ==
  /\ StackInInputOrder
  /\ LookaheadFollows
  /\ NodesWithinSymbols
  /\ SpansNest

(***************************************************************************)
(* SpansNest, node by node.                                                *)
(***************************************************************************)
OperandWithin(nodes, child, loc) ==
  nodes[child].has_location => Within(nodes[child].location, loc)

OperandsOrdered(nodes, left, right) ==
  nodes[left].has_location =>
    nodes[left].location.end <= nodes[right].location.start

NodeSpans(nodes, id) ==
  IF nodes[id].kind \in LeafKinds
  THEN nodes[id].has_location <=> nodes[id].token # 0
  ELSE /\ nodes[id].has_location
       /\ OperandWithin(nodes, nodes[id].left, nodes[id].location)
       /\ OperandWithin(nodes, nodes[id].right, nodes[id].location)
       /\ OperandsOrdered(nodes, nodes[id].left, nodes[id].right)

LEMMA SpansNestByNode ==
  SpansNest <=> \A id \in 1 .. Len(arena) : NodeSpans(arena, id)
  BY DEF SpansNest, NodeSpans, OperandWithin, OperandsOrdered

\* New nodes have spans that nest.
ExtendsNested(nodes, new) ==
  /\ Extends(nodes, new)
  /\ \A id \in Len(nodes) + 1 .. Len(new) : NodeSpans(new, id)

\* What a maker returns, as a symbol that covers loc sees it.
MadeWithin(nodes, made, loc) ==
  /\ ExtendsNested(nodes, made.arena)
  /\ made.node \in 1 .. Len(made.arena)
  /\ made.arena[made.node].has_location
  /\ Within(made.arena[made.node].location, loc)

\* Nodes older than both ends of an extension keep their spans.
LEMMA NodeSpansKept ==
  ASSUME NEW nodes, NEW new, NEW len \in Nat, NEW id \in 1 .. len,
         \A i \in 1 .. len : new[i] = nodes[i],
         OperandsOlder(nodes, id),
         NodeSpans(nodes, id)
  PROVE  NodeSpans(new, id)
<1>1. new[id] = nodes[id]
  OBVIOUS
<1>2. CASE nodes[id].kind \in LeafKinds
  BY <1>1, <1>2 DEF NodeSpans
<1>3. CASE nodes[id].kind \notin LeafKinds
  <2>1. nodes[id].left \in 1 .. len /\ nodes[id].right \in 1 .. len
    BY <1>3 DEF OperandsOlder
  <2>2. new[nodes[id].left] = nodes[nodes[id].left]
        /\ new[nodes[id].right] = nodes[nodes[id].right]
    BY <2>1
  <2> QED
    BY <1>1, <1>3, <2>2 DEF NodeSpans, OperandWithin, OperandsOrdered
<1> QED
  BY <1>2, <1>3

LEMMA AppendNested ==
  ASSUME NEW nodes \in Seq(Node), NEW new, ExtendsNested(nodes, new),
         NEW node \in Node,
         IF node.kind \in LeafKinds
         THEN /\ node.left = NoNode /\ node.right = NoNode
              /\ node.has_location <=> node.token # 0
         ELSE /\ node.left \in 1 .. Len(new) /\ node.right \in 1 .. Len(new)
              /\ node.has_location
              /\ OperandWithin(new, node.left, node.location)
              /\ OperandWithin(new, node.right, node.location)
              /\ OperandsOrdered(new, node.left, node.right)
  PROVE  /\ ExtendsNested(nodes, Append(new, node))
         /\ Len(Append(new, node)) = Len(new) + 1
         /\ Append(new, node)[Len(new) + 1] = node
<1> DEFINE longer == Append(new, node)
<1>1. /\ new \in Seq(Node) /\ Len(new) \in Nat /\ Len(nodes) \in Nat
      /\ Extends(nodes, new) /\ Len(nodes) <= Len(new)
  BY DEF ExtendsNested, Extends
<1>2. /\ Len(longer) = Len(new) + 1
      /\ \A i \in 1 .. Len(new) : longer[i] = new[i]
      /\ longer[Len(new) + 1] = node
  BY <1>1, AppendProperties
<1>3. Extends(nodes, longer)
  BY <1>1, ExtendsAppend
<1> HIDE DEF longer
<1>4. ASSUME NEW id \in Len(nodes) + 1 .. Len(longer)
      PROVE  NodeSpans(longer, id)
  <2>1. CASE id = Len(new) + 1
    <3>1. CASE node.kind \in LeafKinds
      BY <2>1, <3>1, <1>2 DEF NodeSpans
    <3>2. CASE node.kind \notin LeafKinds
      <4>1. longer[node.left] = new[node.left] /\ longer[node.right] = new[node.right]
        BY <3>2, <1>2
      <4> QED
        BY <2>1, <3>2, <4>1, <1>2 DEF NodeSpans, OperandWithin, OperandsOrdered
    <3> QED
      BY <3>1, <3>2
  <2>2. CASE id # Len(new) + 1
    <3>1. id \in 1 .. Len(new) /\ id \in Len(nodes) + 1 .. Len(new)
      BY <2>2, <1>1, <1>2
    <3>2. OperandsOlder(new, id) /\ NodeSpans(new, id)
      BY <3>1, <1>1 DEF ExtendsNested, Extends
    <3> QED
      BY <3>1, <3>2, <1>1, <1>2, NodeSpansKept
  <2> QED
    BY <2>1, <2>2
<1> QED
  BY <1>2, <1>3, <1>4 DEF ExtendsNested, longer

LEMMA NestedReflexive ==
  ASSUME NEW nodes \in Seq(Node)
  PROVE  ExtendsNested(nodes, nodes)
  BY ExtendsReflexive DEF ExtendsNested

(***************************************************************************)
(* The makers.                                                             *)
(***************************************************************************)
LEMMA MakeLeafWithin ==
  ASSUME NEW nodes \in Seq(Node), NEW kind \in LeafKinds,
         NEW token \in Nat \ {0}, NEW negative \in BOOLEAN,
         NEW own \in Location, NEW loc \in Location, Within(own, loc)
  PROVE  MadeWithin(nodes, MakeLeaf(nodes, kind, token, negative, own), loc)
<1> DEFINE leaf == LeafNode(kind, token, negative, own)
<1>1. leaf \in Node /\ leaf.kind \in LeafKinds
      /\ leaf.left = NoNode /\ leaf.right = NoNode
  BY LeafNodeType
<1>2. leaf.has_location = TRUE /\ leaf.token = token /\ leaf.location = own
  BY DEF LeafNode
<1> HIDE DEF leaf
<1>3. leaf.has_location <=> leaf.token # 0
  BY <1>2
<1>4. /\ ExtendsNested(nodes, Append(nodes, leaf))
      /\ Len(Append(nodes, leaf)) = Len(nodes) + 1
      /\ Append(nodes, leaf)[Len(nodes) + 1] = leaf
  BY <1>1, <1>3, NestedReflexive, AppendNested
<1> QED
  BY <1>2, <1>4 DEF MadeWithin, MakeLeaf, Made, leaf

LEMMA MakeBinaryWithin ==
  ASSUME NEW nodes \in Seq(Node), NEW new, ExtendsNested(nodes, new),
         NEW kind \in BinaryKinds, NEW left \in 1 .. Len(new),
         NEW right \in 1 .. Len(new), NEW loc \in Location,
         OperandWithin(new, left, loc), OperandWithin(new, right, loc),
         OperandsOrdered(new, left, right)
  PROVE  MadeWithin(nodes, MakeBinary(new, kind, left, right, loc), loc)
<1> DEFINE node == BinaryNode(kind, left, right, loc)
<1>1. Len(new) \in Nat
  BY DEF ExtendsNested, Extends
<1>2. /\ node \in Node /\ node.kind \notin LeafKinds
      /\ node.left = left /\ node.right = right
  BY <1>1, BinaryNodeType
<1>3. node.has_location = TRUE /\ node.location = loc
  BY DEF BinaryNode
<1> HIDE DEF node
<1>4. /\ ExtendsNested(nodes, Append(new, node))
      /\ Len(Append(new, node)) = Len(new) + 1
      /\ Append(new, node)[Len(new) + 1] = node
  BY <1>2, <1>3, AppendNested
<1>5. Within(loc, loc)
  BY DEF Within, Location
<1> QED
  BY <1>1, <1>3, <1>4, <1>5 DEF MadeWithin, MakeBinary, Made, node

LEMMA MakeNegationWithin ==
  ASSUME NEW nodes \in Seq(Node), NEW node \in 1 .. Len(nodes),
         NEW loc \in Location,
         nodes[node].has_location,
         Within(nodes[node].location, loc),
         NodeSpans(nodes, node)
  PROVE  MadeWithin(nodes, MakeNegation(nodes, node, loc), loc)
<1>1. nodes[node] \in Node
  OBVIOUS
<1>2. CASE nodes[node].kind \in NumeralKinds
  <2>1. nodes[node].kind \in LeafKinds
    BY <1>2 DEF NumeralKinds, LeafKinds
  <2>2. nodes[node].token \in Nat /\ NegatedSign(nodes[node].negative) \in BOOLEAN
    BY <1>1 DEF Node, NegatedSign
  <2>3. nodes[node].token # 0
    BY <2>1 DEF NodeSpans
  <2>4. Within(loc, loc)
    BY DEF Within, Location
  <2> QED
    BY <1>2, <2>1, <2>2, <2>3, <2>4, MakeLeafWithin DEF MakeNegation
<1>3. CASE nodes[node].kind \notin NumeralKinds
  <2> DEFINE new == Append(nodes, MinusOne)
  <2>1. /\ MinusOne \in Node /\ MinusOne.kind \in LeafKinds
        /\ MinusOne.left = NoNode /\ MinusOne.right = NoNode
        /\ MinusOne.token = 0 /\ MinusOne.has_location = FALSE
    BY DEF MinusOne, LeafNode, Node, LeafKinds, Location, NoLocation, NoNode
  <2>2. MinusOne.has_location <=> MinusOne.token # 0
    BY <2>1
  <2>3. /\ ExtendsNested(nodes, new)
        /\ Len(new) = Len(nodes) + 1
        /\ new[Len(nodes) + 1] = MinusOne
    BY <2>1, <2>2, NestedReflexive, AppendNested
  <2> HIDE DEF new
  <2>4. /\ node \in 1 .. Len(new) /\ NegationFactor(nodes) \in 1 .. Len(new)
        /\ new[NegationFactor(nodes)].has_location = FALSE
        /\ new[node] = nodes[node]
    BY <2>1, <2>3 DEF NegationFactor, ExtendsNested, Extends
  <2>5. /\ OperandWithin(new, NegationFactor(nodes), loc)
        /\ OperandWithin(new, node, loc)
        /\ OperandsOrdered(new, NegationFactor(nodes), node)
    BY <2>4 DEF OperandWithin, OperandsOrdered
  <2>6. "mul" \in BinaryKinds
    BY DEF BinaryKinds
  <2>7. MakeNegation(nodes, node, loc)
          = MakeBinary(new, "mul", NegationFactor(nodes), node, loc)
    BY <1>3 DEF MakeNegation, new
  <2> QED
    BY <2>3, <2>4, <2>5, <2>6, <2>7, MakeBinaryWithin
<1> QED
  BY <1>2, <1>3

LEMMA MakePowerWithin ==
  ASSUME NEW nodes \in Seq(Node), NEW base \in 1 .. Len(nodes),
         NEW token \in Nat \ {0}, NEW negative \in BOOLEAN,
         NEW tokenLoc \in Location, NEW loc \in Location,
         Within(tokenLoc, loc),
         OperandWithin(nodes, base, loc),
         nodes[base].has_location => nodes[base].location.end <= tokenLoc.start
  PROVE  MadeWithin(nodes,
                    MakePower(nodes, base, token, negative, tokenLoc, loc), loc)
<1> DEFINE exponent == LeafNode("integer", token, negative, tokenLoc)
           new == Append(nodes, exponent)
<1>1. "integer" \in LeafKinds /\ "pow" \in BinaryKinds
  BY DEF LeafKinds, BinaryKinds
<1>2. exponent \in Node /\ exponent.kind \in LeafKinds
      /\ exponent.left = NoNode /\ exponent.right = NoNode
  <2> HIDE DEF new
  <2>1. exponent.kind = "integer" /\ exponent.left = NoNode
        /\ exponent.right = NoNode
    BY DEF LeafNode
  <2>2. exponent \in Node
    <3>1. token \in Nat
      OBVIOUS
    <3>2. LeafNode("integer", token, negative, tokenLoc) \in Node
      <4> HIDE DEF exponent
      <4> QED
        BY <3>1, <1>1, LeafNodeType
    <3> QED
      BY <3>2
  <2> HIDE DEF exponent
  <2> QED
    BY <2>1, <2>2, <1>1
<1>3. exponent.has_location = TRUE /\ exponent.token = token
      /\ exponent.location = tokenLoc
  BY DEF LeafNode
<1>4. MakePower(nodes, base, token, negative, tokenLoc, loc)
        = MakeBinary(new, "pow", base, Len(nodes) + 1, loc)
  BY DEF MakePower, MakeLeaf, Made
<1> HIDE DEF exponent
<1>5. exponent.has_location <=> exponent.token # 0
  BY <1>3
<1>6. /\ ExtendsNested(nodes, new)
      /\ Len(new) = Len(nodes) + 1
      /\ new[Len(nodes) + 1] = exponent
  BY <1>2, <1>5, NestedReflexive, AppendNested
<1> HIDE DEF new
<1>7. /\ base \in 1 .. Len(new) /\ Len(nodes) + 1 \in 1 .. Len(new)
      /\ new[base] = nodes[base]
  BY <1>6 DEF ExtendsNested, Extends
<1>8. /\ OperandWithin(new, base, loc)
      /\ OperandWithin(new, Len(nodes) + 1, loc)
      /\ OperandsOrdered(new, base, Len(nodes) + 1)
  BY <1>3, <1>6, <1>7 DEF OperandWithin, OperandsOrdered
<1> QED
  BY <1>1, <1>4, <1>6, <1>7, <1>8, MakeBinaryWithin

(***************************************************************************)
(* The spans of a handle: each symbol within the common location, one      *)
(* after the other.                                                        *)
(***************************************************************************)
LEMMA HandleSpans ==
  ASSUME ParserInvariant, SpanInvariant, yystate \in ReducingStates,
         NEW r, r = DefaultReduction(yystate)
  PROVE  LET rhs == Handle(r)
             loc == CommonLocation(rhs)
         IN  /\ \A k \in 1 .. RuleLength(r) : Within(rhs[k].location, loc)
             /\ RuleLength(r) > 1 =>
                  rhs[1].location.end <= rhs[RuleLength(r)].location.start
             /\ \A k \in 1 .. RuleLength(r) :
                  RuleRhs[r][k] \in Nonterminals =>
                    /\ arena[rhs[k].node].has_location
                    /\ Within(arena[rhs[k].node].location, rhs[k].location)
             /\ stack[Len(stack) - RuleLength(r)].location.end <= loc.start
             /\ loc.start <= loc.end
             /\ loc.end = Top.location.end
<1> DEFINE len   == Len(stack)
           below == len - RuleLength(r)
           rhs   == Handle(r)
           loc   == CommonLocation(rhs)
           At(i) == stack[i].location
<1>1. /\ stack \in Seq(Entry) /\ stack # << >> /\ StackIsPath
      /\ StackInInputOrder /\ NodesWithinSymbols
  BY DEF ParserInvariant, TypeOK, SpanInvariant
<1>2. RuleLength(r) \in 1 .. 3
  BY ReducingRule
<1>3. /\ below \in 1 .. len - 1 /\ len \in Nat
      /\ \A k \in 1 .. RuleLength(r) :
           AccessingSymbol(stack[below + k].state) = RuleRhs[r][k]
  BY <1>1, HandleOnStack
<1>4. /\ Len(rhs) = RuleLength(r)
      /\ \A k \in 1 .. RuleLength(r) : rhs[k] = stack[below + k]
  BY HandleValues
<1>5. \A i \in 1 .. len : At(i).start \in Nat /\ At(i).end \in Nat
  <2>1. ASSUME NEW i \in 1 .. len
        PROVE  At(i) \in Location
    <3>1. stack[i] \in Entry
      BY <1>1
    <3> QED
      BY <3>1 DEF Entry
  <2> QED
    BY <2>1 DEF Location
<1>6. /\ \A i \in 1 .. len : At(i).start <= At(i).end
      /\ \A i \in 1 .. len : i > 1 => At(i - 1).end <= At(i).start
  BY <1>1 DEF StackInInputOrder
<1>7. ASSUME NEW i \in 1 .. len, NEW j \in i .. len, j <= i + 2
      PROVE  /\ At(i).start <= At(j).start
             /\ At(i).end <= At(j).end
             /\ i < j => At(i).end <= At(j).start
  <2> HIDE DEF len
  <2>1. CASE j = i
    BY <2>1, <1>5
  <2>2. CASE j = i + 1
    <3>1. At(i).end <= At(j).start
      BY <2>2, <1>3, <1>6
    <3> QED
      BY <2>2, <3>1, <1>3, <1>5, <1>6
  <2>3. CASE j = i + 2
    <3>1. i + 1 \in 1 .. len /\ j \in 1 .. len
      BY <2>3, <1>3
    <3>2. At(i).end <= At(i + 1).start /\ At(i + 1).end <= At(j).start
      BY <2>3, <3>1, <1>3, <1>6
    <3> QED
      BY <2>3, <3>1, <3>2, <1>3, <1>5, <1>6
  <2>4. j = i \/ j = i + 1 \/ j = i + 2
    BY <1>3, <1>7
  <2> QED
    BY <2>1, <2>2, <2>3, <2>4
<1>8. /\ loc.start = At(below + 1).start
      /\ loc.end = At(len).end
      /\ len = below + RuleLength(r)
  <2>1. 1 \in 1 .. RuleLength(r) /\ RuleLength(r) \in 1 .. RuleLength(r)
        /\ below + RuleLength(r) = len
    BY <1>2, <1>3
  <2>2. rhs[1] = stack[below + 1] /\ rhs[Len(rhs)] = stack[len]
    BY <2>1, <1>4
  <2> HIDE DEF rhs, below
  <2> QED
    BY <2>1, <2>2 DEF CommonLocation
<1> HIDE DEF below, rhs, loc, len
<1>9. ASSUME NEW k \in 1 .. RuleLength(r)
      PROVE  /\ Within(rhs[k].location, loc)
             /\ RuleRhs[r][k] \in Nonterminals =>
                  /\ arena[rhs[k].node].has_location
                  /\ Within(arena[rhs[k].node].location, rhs[k].location)
  <2>1. below + k \in 2 .. len /\ below + k \in below + 1 .. len
        /\ below + 1 \in 1 .. len /\ below + k <= (below + 1) + 2
        /\ len \in below + k .. len /\ len <= (below + k) + 2
        /\ below + k \in 1 .. len
    BY <1>2, <1>3, <1>8
  <2>2. At(below + 1).start <= At(below + k).start /\ At(below + k).end <= At(len).end
    BY <2>1, <1>7
  <2>3. Within(rhs[k].location, loc)
    BY <2>2, <1>4, <1>8 DEF Within
  <2>4. RuleRhs[r][k] \in Nonterminals =>
          /\ arena[stack[below + k].node].has_location
          /\ Within(arena[stack[below + k].node].location, At(below + k))
    BY <2>1, <1>1, <1>3 DEF NodesWithinSymbols, len
  <2> QED
    BY <2>3, <2>4, <1>4
<1>10. RuleLength(r) > 1 =>
         rhs[1].location.end <= rhs[RuleLength(r)].location.start
  <2> SUFFICES ASSUME RuleLength(r) > 1
               PROVE  rhs[1].location.end <= rhs[RuleLength(r)].location.start
    OBVIOUS
  <2>1. below + 1 \in 1 .. len /\ len \in below + 1 .. len
        /\ below + 1 < len /\ len <= (below + 1) + 2
        /\ 1 \in 1 .. RuleLength(r) /\ RuleLength(r) \in 1 .. RuleLength(r)
    BY <1>2, <1>3, <1>8
  <2>2. At(below + 1).end <= At(len).start
    BY <2>1, <1>7
  <2> QED
    BY <2>1, <2>2, <1>4, <1>8
<1>11. /\ At(below).end <= loc.start /\ loc.start <= loc.end
       /\ loc.end = Top.location.end
  <2>1. below \in 1 .. len /\ below + 1 \in below .. len /\ below < below + 1
        /\ below + 1 <= below + 2
        /\ below + 1 \in 1 .. len /\ len \in below + 1 .. len
        /\ len <= (below + 1) + 2 /\ len \in 1 .. len
    BY <1>2, <1>3, <1>8
  <2>2. At(below).end <= At(below + 1).start
    BY <2>1, <1>7
  <2>3. At(below + 1).start <= At(len).start /\ At(len).start <= At(len).end
    BY <2>1, <1>6, <1>7
  <2>4. At(below + 1).start \in Nat /\ At(len).start \in Nat /\ At(len).end \in Nat
    BY <2>1, <1>5
  <2> QED
    BY <2>2, <2>3, <2>4, <1>8 DEF Top, len
<1> QED
  BY <1>9, <1>10, <1>11 DEF rhs, loc, below, len

LEMMA WithinTransitive ==
  ASSUME NEW a \in Location, NEW b \in Location, NEW c \in Location,
         Within(a, b), Within(b, c)
  PROVE  Within(a, c)
  BY DEF Within, Location

\* Every semantic action builds nodes whose spans nest, within the span of
\* the symbol reduced to.
LEMMA SemanticActionWithin ==
  ASSUME ParserInvariant, SpanInvariant, yystate \in ReducingStates,
         NEW r, r = DefaultReduction(yystate)
  PROVE  MadeWithin(arena,
                    SemanticAction(r, Handle(r), CommonLocation(Handle(r))),
                    CommonLocation(Handle(r)))
<1> DEFINE rhs   == Handle(r)
           loc   == CommonLocation(rhs)
           first == rhs[1]
           last  == rhs[Len(rhs)]
           made  == SemanticAction(r, rhs, loc)
           Placed(entry) == /\ entry.node \in 1 .. Len(arena)
                            /\ arena[entry.node].has_location
                            /\ Within(arena[entry.node].location, entry.location)
                            /\ Within(arena[entry.node].location, loc)
                            /\ arena[entry.node].location \in Location
<1>1. arena \in Seq(Node) /\ tokens \in Seq(Token) /\ ActionsFitRules
  BY ActionsConsistent DEF ParserInvariant, TypeOK
<1>2. r \in Rules /\ RuleLength(r) \in 1 .. 3 /\ Len(rhs) = RuleLength(r)
  BY ReducingRule, HandleValues
<1>3. ASSUME NEW k \in 1 .. RuleLength(r)
      PROVE  /\ rhs[k] \in Entry
             /\ rhs[k].location \in Location
             /\ Within(rhs[k].location, loc)
             /\ RuleRhs[r][k] \in Nonterminals => Placed(rhs[k])
             /\ RuleRhs[r][k] \in Terminals => rhs[k].token \in 1 .. Len(tokens)
  <2>1. /\ rhs[k] \in Entry /\ loc \in Location
        /\ RuleRhs[r][k] \in Terminals => rhs[k].token \in 1 .. Len(tokens)
        /\ RuleRhs[r][k] \in Nonterminals => rhs[k].node \in 1 .. Len(arena)
    BY HandleValues
  <2>2. /\ Within(rhs[k].location, loc)
        /\ RuleRhs[r][k] \in Nonterminals =>
             /\ arena[rhs[k].node].has_location
             /\ Within(arena[rhs[k].node].location, rhs[k].location)
    BY HandleSpans
  <2> HIDE DEF rhs, loc
  <2>3. rhs[k].location \in Location
    BY <2>1 DEF Entry
  <2>4. RuleRhs[r][k] \in Nonterminals =>
          arena[rhs[k].node].location \in Location
    <3>1. RuleRhs[r][k] \in Nonterminals => arena[rhs[k].node] \in Node
      BY <2>1, <1>1
    <3> QED
      BY <3>1 DEF Node
  <2> QED
    BY <2>1, <2>2, <2>3, <2>4, WithinTransitive
<1>4. /\ loc \in Location
      /\ RuleLength(r) > 1 => first.location.end <= last.location.start
  BY <1>2, HandleValues, HandleSpans
<1> HIDE DEF rhs, loc, Placed
<1>5. /\ first.location \in Location /\ last.location \in Location
      /\ Within(first.location, loc) /\ Within(last.location, loc)
      /\ RuleRhs[r][1] \in Nonterminals => Placed(first)
      /\ RuleRhs[r][RuleLength(r)] \in Nonterminals => Placed(last)
      /\ RuleRhs[r][1] \in Terminals => first.token \in 1 .. Len(tokens)
      /\ RuleRhs[r][RuleLength(r)] \in Terminals => last.token \in 1 .. Len(tokens)
  <2>1. 1 \in 1 .. RuleLength(r) /\ RuleLength(r) \in 1 .. RuleLength(r)
    BY <1>2
  <2> QED
    BY <2>1, <1>2, <1>3
<1>6. CASE r \in LeafRules
  <2>1. LeafKind(r) \in LeafKinds
    BY DEF LeafKind, LeafKinds
  <2>2. made = MakeLeaf(arena, LeafKind(r), first.token, FALSE, first.location)
    <3>1. r \notin BinaryRules /\ r \notin {13, 24} /\ r # 20
      BY <1>6 DEF BinaryRules, LeafRules
    <3> QED
      BY <1>6, <3>1, Zenon DEF SemanticAction
  <2>3. RuleRhs[r][1] \in Terminals
    <3>1. r \notin BinaryRules /\ r \notin {13, 24} /\ r # 20 /\ r # 19
      BY <1>6 DEF BinaryRules, LeafRules
    <3> QED
      BY <1>1, <1>2, <1>6, <3>1, Zenon DEF ActionsFitRules
  <2>4. first.token \in Nat \ {0}
    BY <2>3, <1>1, <1>5
  <2> QED
    BY <1>1, <1>4, <1>5, <2>1, <2>2, <2>4, MakeLeafWithin DEF rhs, loc
<1>7. CASE r \in BinaryRules
  <2>1. BinaryKind(r) \in BinaryKinds
    BY DEF BinaryKind, BinaryKinds
  <2>2. made = MakeBinary(arena, BinaryKind(r), first.node, last.node, loc)
    BY <1>7 DEF SemanticAction, BinaryRules, LeafRules
  <2>3. /\ RuleRhs[r][1] \in Nonterminals
        /\ RuleRhs[r][RuleLength(r)] \in Nonterminals
        /\ RuleLength(r) > 1
    BY <1>1, <1>2, <1>7 DEF ActionsFitRules, LeafRules, BinaryRules
  <2>4. /\ first.node \in 1 .. Len(arena) /\ last.node \in 1 .. Len(arena)
        /\ OperandWithin(arena, first.node, loc)
        /\ OperandWithin(arena, last.node, loc)
    BY <2>3, <1>5 DEF Placed, OperandWithin
  <2>5. OperandsOrdered(arena, first.node, last.node)
    <3>1. /\ arena[first.node].location.end <= first.location.end
          /\ first.location.end <= last.location.start
          /\ last.location.start <= arena[last.node].location.start
      BY <2>3, <1>4, <1>5 DEF Placed, Within
    <3>2. /\ arena[first.node].location.end \in Nat
          /\ first.location.end \in Nat /\ last.location.start \in Nat
          /\ arena[last.node].location.start \in Nat
      BY <2>3, <1>5 DEF Placed, Location
    <3> QED
      BY <3>1, <3>2 DEF OperandsOrdered
  <2> QED
    BY <1>1, <1>4, <2>1, <2>2, <2>4, <2>5, NestedReflexive, MakeBinaryWithin
       DEF rhs, loc
<1>8. CASE r \in {13, 24}
  <2>1. made = MakeNegation(arena, last.node, loc)
    BY <1>8 DEF SemanticAction, BinaryRules, LeafRules
  <2>2. Placed(last)
    BY <1>1, <1>2, <1>5, <1>8 DEF ActionsFitRules, LeafRules, BinaryRules
  <2>3. NodeSpans(arena, last.node)
    BY <2>2, SpansNestByNode DEF SpanInvariant, Placed
  <2> QED
    BY <1>1, <1>4, <2>1, <2>2, <2>3, MakeNegationWithin DEF Placed, rhs, loc
<1>9. CASE r = 20
  <2>1. made = MakePower(arena, first.node, last.token,
                         tokens[last.token].negative, last.location, loc)
    BY <1>9 DEF SemanticAction, BinaryRules, LeafRules
  <2>2. /\ Placed(first) /\ last.token \in 1 .. Len(tokens)
        /\ RuleLength(r) > 1
    BY <1>1, <1>2, <1>5, <1>9 DEF ActionsFitRules, LeafRules, BinaryRules
  <2>3. last.token \in Nat \ {0} /\ tokens[last.token].negative \in BOOLEAN
    <3>1. last.token \in Nat \ {0} /\ tokens[last.token] \in Token
      BY <1>1, <2>2
    <3> QED
      BY <3>1 DEF Token
  <2>4. arena[first.node].location.end <= last.location.start
    <3>1. /\ arena[first.node].location.end <= first.location.end
          /\ first.location.end <= last.location.start
      BY <2>2, <1>4 DEF Placed, Within
    <3>2. /\ arena[first.node].location.end \in Nat
          /\ first.location.end \in Nat /\ last.location.start \in Nat
      BY <2>2, <1>5 DEF Placed, Location
    <3> QED
      BY <3>1, <3>2
  <2>5. first.node \in 1 .. Len(arena) /\ OperandWithin(arena, first.node, loc)
    BY <2>2 DEF Placed, OperandWithin
  <2> QED
    BY <1>1, <1>4, <1>5, <2>1, <2>3, <2>4, <2>5, MakePowerWithin DEF rhs, loc
<1>10. CASE r \notin LeafRules \cup BinaryRules \cup {13, 20, 24}
  <2>1. made = [arena |-> arena, node |-> PassedNode(r, rhs)]
    BY <1>10 DEF SemanticAction
  <2>2. PICK k \in 1 .. RuleLength(r) :
          RuleRhs[r][k] \in Nonterminals /\ PassedNode(r, rhs) = rhs[k].node
    <3>1. CASE r = 19
      <4>1. 2 \in 1 .. RuleLength(r) /\ RuleRhs[r][2] \in Nonterminals
        BY <3>1, <1>1, <1>2 DEF ActionsFitRules, LeafRules, BinaryRules
      <4> QED
        BY <3>1, <4>1 DEF PassedNode
    <3>2. CASE r # 19
      <4>1. 1 \in 1 .. RuleLength(r) /\ RuleRhs[r][1] \in Nonterminals
        BY <3>2, <1>1, <1>2, <1>10 DEF ActionsFitRules
      <4> QED
        BY <3>2, <4>1 DEF PassedNode
    <3> QED
      BY <3>1, <3>2
  <2>3. Placed(rhs[k])
    BY <2>2, <1>3
  <2>4. ExtendsNested(arena, arena)
    BY <1>1, NestedReflexive
  <2>5. made.arena = arena /\ made.node = rhs[k].node
    BY <2>1, <2>2
  <2> HIDE DEF made
  <2>6. MadeWithin(arena, made, loc)
    BY <2>3, <2>4, <2>5 DEF MadeWithin, Placed
  <2> QED
    BY <2>6 DEF made, rhs, loc
<1> QED
  BY <1>6, <1>7, <1>8, <1>9, <1>10

(***************************************************************************)
(* The steps.                                                              *)
(***************************************************************************)
LEMMA InitSpans ==
  ASSUME Init
  PROVE  SpanInvariant
<1>1. /\ Len(stack) = 1 /\ stack[1] = Bottom /\ Len(arena) = 0
      /\ lexer.offset = 0 /\ yytoken = YYEMPTY
      /\ Bottom.location.start = 0 /\ Bottom.location.end = 0
  BY DEF Init, EmptyContext, Bottom, NoLocation
<1> QED
  BY <1>1 DEF SpanInvariant, StackInInputOrder, LookaheadFollows,
              NodesWithinSymbols, SpansNest

\* Reading moves the scanner forward; the token starts where it was or later.
LEMMA ReadSpans ==
  ASSUME ParserInvariant, SpanInvariant, NEW token, NEW loc \in Location,
         NEW ctx \in LexerContexts,
         token.location = loc,
         token \in Token,
         lexer.offset <= loc.start, loc.start <= loc.end,
         lexer' = ctx, ctx.offset = loc.end,
         tokens' = Append(tokens, token),
         UNCHANGED << stack, arena >>
  PROVE  SpanInvariant'
<1>1. /\ stack \in Seq(Entry) /\ Len(stack) \in 1 .. Len(stack)
      /\ tokens \in Seq(Token) /\ lexer.offset \in Nat
  BY DEF ParserInvariant, TypeOK, LexerContexts
<1>2. /\ tokens' # << >> /\ tokens'[Len(tokens')] = token
  BY <1>1, AppendProperties
<1>3. /\ lexer'.offset = loc.end /\ loc.start \in Nat /\ loc.end \in Nat
      /\ lexer.offset <= lexer'.offset
  BY <1>1 DEF Location
<1>4. ASSUME NEW i \in 1 .. Len(stack)
      PROVE  stack[i].location.end \in Nat
  <2>1. stack[i] \in Entry
    BY <1>1
  <2> QED
    BY <2>1 DEF Entry, Location
<1>5. StackInInputOrder'
  BY <1>1, <1>3, <1>4 DEF SpanInvariant, StackInInputOrder
<1>6. LookaheadFollows'
  <2>1. yylloc' = loc
    BY <1>2 DEF yylloc
  <2>2. Top.location.end <= lexer.offset /\ Top.location.end \in Nat /\ Top' = Top
    BY <1>1, <1>4 DEF SpanInvariant, StackInInputOrder, Top
  <2> QED
    BY <2>1, <2>2, <1>1, <1>3 DEF LookaheadFollows
<1>7. NodesWithinSymbols' /\ SpansNest'
  BY DEF SpanInvariant, NodesWithinSymbols, SpansNest
<1> QED
  BY <1>5, <1>6, <1>7 DEF SpanInvariant

LEMMA YylexSpans ==
  ASSUME ParserInvariant, SpanInvariant, Yylex
  PROVE  SpanInvariant'
<1>1. TypeOK
  BY DEF ParserInvariant
<1>2. ASSUME NEW type \in TokenKinds, NEW loc \in TokenLocations(type),
             \/ \E negative \in LexemeSigns(type) : ReadToken(type, loc, negative)
             \/ ReadOverLimit(type, loc)
      PROVE  SpanInvariant'
  <2>1. loc \in Location /\ lexer.offset <= loc.start /\ loc.start <= loc.end
    BY <1>1, TokenLocationType
  <2>2. ScannedContext(type, loc) \in LexerContexts
        /\ ScannedContext(type, loc).offset = loc.end
    BY <1>1, <2>1, ScannedContextType
  <2>3. type \in Terminals /\ YYerror \in Terminals
    BY InputAssumption DEF LexemeTokens, Terminals, YYNTOKENS, T_INTEGER,
                           T_INVALID_NUMBER, YYerror
  <2>4. PICK t \in Terminals, negative \in BOOLEAN :
          tokens' = Append(tokens, [type |-> t, location |-> loc,
                                    negative |-> negative])
    <3>1. CASE \E negative \in LexemeSigns(type) : ReadToken(type, loc, negative)
      BY <3>1, <2>3 DEF ReadToken, LexemeSigns
    <3>2. CASE ReadOverLimit(type, loc)
      BY <3>2, <2>3 DEF ReadOverLimit
    <3> QED
      BY <1>2, <3>1, <3>2
  <2>5. /\ UNCHANGED << stack, arena >> /\ lexer' = ScannedContext(type, loc)
    BY <1>2 DEF ReadToken, ReadOverLimit
  <2> DEFINE token == [type |-> t, location |-> loc, negative |-> negative]
  <2>6. token \in Token /\ token.location = loc
    BY <2>1 DEF Token
  <2> HIDE DEF token
  <2>7. tokens' = Append(tokens, token)
    BY <2>4 DEF token
  <2> QED
    BY <2>1, <2>2, <2>5, <2>6, <2>7, ReadSpans
<1>3. ASSUME NEW loc \in EndLocations, ReadEnd(loc)
      PROVE  SpanInvariant'
  <2> DEFINE token == [type |-> YYEOF, location |-> loc, negative |-> FALSE]
             ctx == [lexer EXCEPT !.offset = loc.end]
  <2>1. loc \in Location /\ lexer.offset <= loc.start /\ loc.start <= loc.end
    BY <1>1, EndLocationType
  <2>2. ctx \in LexerContexts /\ ctx.offset = loc.end
    BY <1>1, <2>1 DEF TypeOK, LexerContexts, Location
  <2>3. YYEOF \in Terminals
    BY DEF Terminals, YYNTOKENS, YYEOF
  <2>4. token \in Token /\ token.location = loc
    BY <2>1, <2>3 DEF Token
  <2>5. UNCHANGED << stack, arena >> /\ lexer' = ctx
        /\ tokens' = Append(tokens, token)
    BY <1>3 DEF ReadEnd
  <2> HIDE DEF token, ctx
  <2> QED
    BY <2>1, <2>2, <2>4, <2>5, ReadSpans
<1> QED
  BY <1>2, <1>3 DEF Yylex

\* Replacing what lies above `below' by an entry that starts after it.
LEMMA PushKeepsOrder ==
  ASSUME ParserInvariant, SpanInvariant, NEW newStack \in Seq(Entry),
         NEW below \in 1 .. Len(stack), NEW entry \in Entry,
         Len(newStack) = below + 1,
         \A i \in 1 .. below : newStack[i] = stack[i],
         newStack[below + 1] = entry,
         stack[below].location.end <= entry.location.start,
         entry.location.start <= entry.location.end,
         entry.location.end <= lexer.offset,
         stack' = newStack, lexer' = lexer
  PROVE  StackInInputOrder'
<1>1. stack \in Seq(Entry) /\ Len(stack) \in Nat
  BY DEF ParserInvariant, TypeOK
<1>2. ASSUME NEW i \in 1 .. Len(stack')
      PROVE  /\ stack'[i].location.start <= stack'[i].location.end
             /\ stack'[i].location.end <= lexer'.offset
             /\ i > 1 => stack'[i - 1].location.end <= stack'[i].location.start
  <2>1. CASE i = below + 1
    BY <2>1, <1>1
  <2>2. CASE i # below + 1
    <3>1. i \in 1 .. below /\ i \in 1 .. Len(stack) /\ i - 1 \in 0 .. below
      BY <2>2, <1>1
    <3>2. stack'[i] = stack[i] /\ (i > 1 => stack'[i - 1] = stack[i - 1])
      BY <3>1
    <3> QED
      BY <3>1, <3>2 DEF SpanInvariant, StackInInputOrder
  <2> QED
    BY <2>1, <2>2
<1> QED
  BY <1>2 DEF StackInInputOrder

LEMMA ShiftSpans ==
  ASSUME ParserInvariant, SpanInvariant, Shift
  PROVE  SpanInvariant'
<1> DEFINE entry == [state    |-> TableAction(yystate, yytoken),
                     node     |-> NoNode,
                     token    |-> Len(tokens),
                     location |-> yylloc]
           newStack == Append(stack, entry)
<1>1. /\ TypeOK /\ stack \in Seq(Entry) /\ Len(stack) \in 1 .. Len(stack)
      /\ Len(tokens) \in Nat /\ Len(stack) \in Nat
      /\ phase = "parsing" /\ yytoken # YYEMPTY /\ yytoken \in Terminals
  BY DEF ParserInvariant, TypeOK, Shift
<1>2. /\ TableAction(yystate, yytoken) \in States
      /\ AccessingSymbol(TableAction(yystate, yytoken)) = yytoken
  BY <1>1, YystateType, ShiftTarget DEF Shift
<1>3. yylloc \in Location
  BY <1>1, YyllocType
<1>4. entry \in Entry
  BY <1>1, <1>2, <1>3 DEF Entry, NoNode
<1>5. /\ stack' = newStack /\ lexer' = lexer /\ arena' = arena
      /\ yytoken' = YYEMPTY
  BY DEF Shift, EnterState
<1>6. /\ entry.location = yylloc
      /\ AccessingSymbol(entry.state) = yytoken
  BY <1>2
<1> HIDE DEF entry
<1>7. /\ newStack \in Seq(Entry)
      /\ Len(newStack) = Len(stack) + 1
      /\ \A i \in 1 .. Len(stack) : newStack[i] = stack[i]
      /\ newStack[Len(stack) + 1] = entry
  BY <1>1, <1>4, AppendProperties
<1> HIDE DEF newStack
<1>8. /\ stack[Len(stack)].location.end <= entry.location.start
      /\ entry.location.start <= entry.location.end
      /\ entry.location.end <= lexer.offset
  BY <1>1, <1>6 DEF SpanInvariant, LookaheadFollows, Top
<1>9. StackInInputOrder'
  BY <1>1, <1>4, <1>5, <1>7, <1>8, PushKeepsOrder
<1>10. LookaheadFollows'
  BY <1>5 DEF LookaheadFollows
<1>11. NodesWithinSymbols'
  <2> SUFFICES ASSUME NEW i \in 2 .. Len(stack'),
                      AccessingSymbol(stack'[i].state) \in Nonterminals
               PROVE  /\ arena'[stack'[i].node].has_location
                      /\ Within(arena'[stack'[i].node].location, stack'[i].location)
    BY DEF NodesWithinSymbols
  <2>1. yytoken \notin Nonterminals
    BY <1>1 DEF Terminals, Nonterminals, YYNTOKENS, N_identifier
  <2>2. i # Len(stack) + 1
    BY <2>1, <1>5, <1>6, <1>7
  <2>3. i \in 1 .. Len(stack) /\ i \in 2 .. Len(stack)
    BY <2>2, <1>1, <1>5, <1>7
  <2> QED
    BY <2>3, <1>5, <1>7 DEF SpanInvariant, NodesWithinSymbols
<1>12. SpansNest'
  BY <1>5 DEF SpanInvariant, SpansNest
<1> QED
  BY <1>9, <1>10, <1>11, <1>12 DEF SpanInvariant

LEMMA ReduceSpans ==
  ASSUME ParserInvariant, SpanInvariant, yystate \in ReducingStates,
         Reduce(DefaultReduction(yystate)),
         phase = "parsing",
         UNCHANGED << yytoken, lexer, tokens >>
  PROVE  SpanInvariant'
<1> DEFINE r    == DefaultReduction(yystate)
           loc  == CommonLocation(Handle(r))
           made == SemanticAction(r, Handle(r), loc)
<1>1. /\ TypeOK /\ StackIsPath /\ ValuesMatchSymbols /\ ArenaIsAcyclic
      /\ stack \in Seq(Entry) /\ Len(stack) \in 1 .. Len(stack)
      /\ arena \in Seq(Node) /\ Len(stack) \in Nat /\ lexer.offset \in Nat
      /\ Len(arena) \in Nat
  BY DEF ParserInvariant, TypeOK, LexerContexts
<1>2. PICK entry \in Entry, newStack \in Seq(Entry),
           below \in 1 .. Len(stack) - 1 :
        /\ below = Len(stack) - RuleLength(r)
        /\ Len(newStack) = below + 1
        /\ \A i \in 1 .. below : newStack[i] = stack[i]
        /\ newStack[below + 1] = entry
        /\ EnterState(newStack)
        /\ entry.node = made.node
        /\ entry.location = loc
  BY ReduceReplacesHandle
<1>3. MadeWithin(arena, made, loc)
  BY SemanticActionWithin
<1>4. arena' = made.arena
  BY DEF Reduce, Handle
<1>5. /\ stack[below].location.end <= loc.start /\ loc.start <= loc.end
      /\ loc.end = Top.location.end
  BY <1>2, HandleSpans
<1> HIDE DEF made, loc
<1>6. /\ stack' = newStack /\ below \in 1 .. Len(stack)
      /\ Len(stack') = below + 1 /\ stack'[below + 1] = entry
  BY <1>1, <1>2 DEF EnterState
<1>7. StackInInputOrder'
  <2>1. loc.end <= lexer.offset
    BY <1>1, <1>5 DEF SpanInvariant, StackInInputOrder, Top
  <2> QED
    BY <2>1, <1>2, <1>5, <1>6, PushKeepsOrder
<1>8. LookaheadFollows'
  <2>1. Top' = entry
    BY <1>1, <1>6 DEF Top
  <2>2. yylloc' = yylloc
    BY DEF yylloc
  <2> QED
    BY <2>1, <2>2, <1>2, <1>5 DEF SpanInvariant, LookaheadFollows
<1>9. NodesWithinSymbols'
  <2> SUFFICES ASSUME NEW i \in 2 .. Len(stack'),
                      AccessingSymbol(stack'[i].state) \in Nonterminals
               PROVE  /\ arena'[stack'[i].node].has_location
                      /\ Within(arena'[stack'[i].node].location, stack'[i].location)
    BY DEF NodesWithinSymbols
  <2>1. CASE i = below + 1
    BY <2>1, <1>2, <1>3, <1>4, <1>6 DEF MadeWithin
  <2>2. CASE i # below + 1
    <3>1. i \in 1 .. below /\ i \in 2 .. Len(stack)
      BY <2>2, <1>1, <1>6
    <3>2. stack'[i] = stack[i]
      BY <3>1, <1>2, <1>6
    <3>3. stack[i].node \in 1 .. Len(arena)
      BY <3>1, <3>2, <1>1 DEF ValuesMatchSymbols
    <3>4. arena'[stack[i].node] = arena[stack[i].node]
      BY <3>3, <1>3, <1>4 DEF MadeWithin, ExtendsNested, Extends
    <3> QED
      BY <3>1, <3>2, <3>4 DEF SpanInvariant, NodesWithinSymbols
  <2> QED
    BY <2>1, <2>2
<1>10. SpansNest'
  <2>1. ASSUME NEW id \in 1 .. Len(arena')
        PROVE  NodeSpans(arena', id)
    <3>1. ExtendsNested(arena, arena') /\ Len(arena') \in Nat
      BY <1>3, <1>4 DEF MadeWithin, ExtendsNested, Extends
    <3>2. CASE id \in 1 .. Len(arena)
      <4>1. OperandsOlder(arena, id) /\ NodeSpans(arena, id)
        BY <3>2, <1>1, SpansNestByNode DEF ArenaIsAcyclic, OperandsOlder, SpanInvariant
      <4>2. \A i \in 1 .. Len(arena) : arena'[i] = arena[i]
        BY <3>1 DEF ExtendsNested, Extends
      <4> QED
        BY <3>2, <4>1, <4>2, <1>1, NodeSpansKept
    <3>3. CASE id \in Len(arena) + 1 .. Len(arena')
      BY <3>1, <3>3 DEF ExtendsNested
    <3> QED
      BY <3>1, <3>2, <3>3, <1>1
  <2> QED
    BY <2>1 DEF SpansNest, NodeSpans, OperandWithin, OperandsOrdered
<1> QED
  BY <1>7, <1>8, <1>9, <1>10 DEF SpanInvariant

LEMMA RecoverySpans ==
  ASSUME ParserInvariant, SpanInvariant, SyntaxError \/ Unwind \/ Abort
  PROVE  SpanInvariant'
<1>1. UNCHANGED << arena, lexer, tokens >> /\ phase' # "parsing"
  <2>1. UNCHANGED << arena, lexer, tokens >>
    BY DEF SyntaxError, Unwind, Abort
  <2>2. phase' \in {"recovering", "aborted"}
    BY DEF SyntaxError, Unwind, Abort
  <2> QED
    BY <2>1, <2>2
<1>2. /\ Len(stack') \in Nat /\ Len(stack) \in Nat /\ Len(stack') <= Len(stack)
      /\ \A i \in 1 .. Len(stack') : stack'[i] = stack[i]
  <2>1. stack \in Seq(Entry) /\ Len(stack) \in Nat
    BY DEF ParserInvariant, TypeOK
  <2>2. CASE Unwind
    BY <2>1, <2>2, UnwindPops
  <2>3. CASE SyntaxError \/ Abort
    BY <2>1, <2>3 DEF SyntaxError, Abort
  <2> QED
    BY <2>2, <2>3
<1>3. StackInInputOrder'
  <2> SUFFICES ASSUME NEW i \in 1 .. Len(stack')
               PROVE  /\ stack'[i].location.start <= stack'[i].location.end
                      /\ stack'[i].location.end <= lexer'.offset
                      /\ i > 1 =>
                           stack'[i - 1].location.end <= stack'[i].location.start
    BY DEF StackInInputOrder
  <2>1. /\ i \in 1 .. Len(stack) /\ stack'[i] = stack[i]
        /\ i > 1 => stack'[i - 1] = stack[i - 1]
    BY <1>2
  <2> QED
    BY <2>1, <1>1 DEF SpanInvariant, StackInInputOrder
<1>4. NodesWithinSymbols'
  BY <1>1, <1>2 DEF SpanInvariant, NodesWithinSymbols
<1>5. SpansNest'
  BY <1>1 DEF SpanInvariant, SpansNest
<1> QED
  BY <1>1, <1>3, <1>4, <1>5 DEF SpanInvariant, LookaheadFollows

LEMMA NextSpans ==
  ASSUME ParserInvariant, SpanInvariant, [Next]_vars
  PROVE  SpanInvariant'
<1>1. CASE UNCHANGED vars
  BY <1>1 DEF vars, SpanInvariant, StackInInputOrder, LookaheadFollows,
              NodesWithinSymbols, SpansNest, Top, yylloc
<1>2. CASE ReduceWithoutToken
  BY <1>2, ReductionStates, ReduceSpans DEF ReduceWithoutToken
<1>3. CASE ReduceOnToken
  BY <1>3, ReductionStates, ReduceSpans DEF ReduceOnToken, NoTableAction
<1>4. CASE Step
  BY <1>2, <1>3, <1>4, YylexSpans, ShiftSpans, RecoverySpans DEF Step
<1> QED
  BY <1>1, <1>4 DEF Next, Stopped

(***************************************************************************)
(* The theorems.                                                           *)
(***************************************************************************)
LEMMA SpansAreSafe == Spec => []SpanInvariant
<1>1. Init => SpanInvariant
  BY InitSpans
<1>2. ParserInvariant /\ SpanInvariant /\ [Next]_vars => SpanInvariant'
  BY NextSpans
<1> QED
  BY <1>1, <1>2, ParserIsSafe, PTL DEF Spec

\* Whatever the input: the symbols on the stack cover disjoint stretches of
\* it, in order.
THEOREM StackOrderCorrect == Spec => []StackInInputOrder
<1>1. SpanInvariant => StackInInputOrder
  BY DEF SpanInvariant
<1> QED
  BY <1>1, SpansAreSafe, PTL

\* Whatever the input: an operand's byte span lies within that of its
\* parent, and the left operand ends before the right one starts.
THEOREM SpansCorrect == Spec => []SpansNest
<1>1. SpanInvariant => SpansNest
  BY DEF SpanInvariant
<1> QED
  BY <1>1, SpansAreSafe, PTL

(***************************************************************************)
(* Folded signs.  A numeral carries the minus signs within its span; a     *)
(* reduction that puts a sign or parentheses around it must not pass over  *)
(* another sign, so the invariant says that every minus sign the parser    *)
(* has taken lies within a symbol of the stack, and that within a symbol   *)
(* whose value is a numeral, none lies outside of that numeral.            *)
(***************************************************************************)
MinusesWithin(loc) ==
  { k \in 1 .. Len(tokens) :
      tokens[k].type = T_SUB /\ Within(tokens[k].location, loc) }

TokensInOrder ==
  \A k \in 1 .. Len(tokens) :
    /\ tokens[k].location.start <= tokens[k].location.end
    /\ tokens[k].location.end <= lexer.offset
    /\ tokens[k].type = T_SUB =>
         tokens[k].location.start < tokens[k].location.end
    /\ \A j \in 1 .. k - 1 : tokens[j].location.end <= tokens[k].location.start

SignsOfLexemes ==
  \A k \in 1 .. Len(tokens) :
    tokens[k].negative => tokens[k].type = T_SUPERSCRIPT_INTEGER

SymbolsApart ==
  \A i \in 1 .. Len(stack) : \A j \in 1 .. i - 1 :
    stack[j].location.end <= stack[i].location.start

TokensKeepPlace ==
  \A i \in 2 .. Len(stack) :
    AccessingSymbol(stack[i].state) \in Terminals =>
      stack[i].location = tokens[stack[i].token].location

MinusesCovered ==
  phase = "parsing" =>
    \A k \in 1 .. Len(tokens) :
      tokens[k].type = T_SUB /\ (k = Len(tokens) => yytoken = YYEMPTY) =>
        \E i \in 2 .. Len(stack) : Within(tokens[k].location, stack[i].location)

IsNumeral(node) == node.kind \in NumeralKinds /\ node.token # 0

SignRight(node) ==
  IsNumeral(node) =>
    /\ node.token \in 1 .. Len(tokens)
    /\ node.location.end <= lexer.offset
    /\ node.negative = (tokens[node.token].negative
                          # (SignsWithin(node.location) % 2 = 1))

SignsRight == \A id \in 1 .. Len(arena) : SignRight(arena[id])

SignsFolded(i) ==
  LET node == arena[stack[i].node]
  IN  IsNumeral(node) =>
        MinusesWithin(stack[i].location) = MinusesWithin(node.location)

MinusesFolded ==
  \A i \in 2 .. Len(stack) :
    AccessingSymbol(stack[i].state) \in Nonterminals => SignsFolded(i)

SignInvariant ==
  /\ TokensInOrder
  /\ SignsOfLexemes
  /\ SymbolsApart
  /\ TokensKeepPlace
  /\ MinusesCovered
  /\ SignsRight
  /\ MinusesFolded

\* The signs in the rules: what a rule passes on or negates is the one symbol
\* of it that is no token, and only the two negations have a minus sign.
LEMMA SignsInRules ==
  /\ \A r \in {13, 24} : /\ RuleLength(r) = 2
                         /\ RuleRhs[r][1] = T_SUB
                         /\ RuleRhs[r][2] \in Nonterminals
  /\ RuleLength(20) = 2 /\ RuleRhs[20][2] = T_SUPERSCRIPT_INTEGER
  /\ \A r \in {21, 22} :
       /\ RuleLength(r) = 1
       /\ RuleRhs[r][1] \in Terminals \ {T_SUB, T_SUPERSCRIPT_INTEGER}
  /\ RuleLength(25) = 1
  /\ \A r \in Rules \ (BinaryRules \cup LeafRules \cup {13, 20, 24}) :
       \A k \in 1 .. RuleLength(r) :
         IF k = (IF r = 19 THEN 2 ELSE 1) THEN RuleRhs[r][k] \in Nonterminals
         ELSE RuleRhs[r][k] \in Terminals \ {T_SUB}
  BY SMTT(60) DEF RuleRhs, RuleLength, yyr2, BinaryRules, LeafRules, Rules, YYNRULES,
     Terminals, Nonterminals, YYNTOKENS, N_identifier, T_SUB,
     T_SUPERSCRIPT_INTEGER, N_unary_exp, N_number, N_simple, T_INTEGER,
     T_FLOAT, T_IDENTIFIER, N_exp, N_start, YYEOF, N_additive_exp,
     N_product_exp, N_power_exp, N_signed_number, T_LEFT_PAREN,
     T_RIGHT_PAREN

LEMMA MinusesFinite ==
  ASSUME tokens \in Seq(Token), NEW loc
  PROVE  /\ IsFiniteSet(MinusesWithin(loc))
         /\ SignsWithin(loc) = Cardinality(MinusesWithin(loc))
         /\ SignsWithin(loc) \in Nat
<1>1. Len(tokens) \in Nat
  OBVIOUS
<1>2. IsFiniteSet(1 .. Len(tokens))
  BY <1>1, FS_Interval
<1>3. MinusesWithin(loc) \subseteq 1 .. Len(tokens)
  BY DEF MinusesWithin
<1>4. IsFiniteSet(MinusesWithin(loc))
  BY <1>2, <1>3, FS_Subset
<1>5. SignsWithin(loc) = Cardinality(MinusesWithin(loc))
  BY DEF SignsWithin, MinusesWithin
<1> QED
  BY <1>4, <1>5, FS_CardinalityType

\* One more minus sign changes the parity.
LEMMA OneMoreMinus ==
  ASSUME tokens \in Seq(Token), NEW loc, NEW inner, NEW m,
         m \notin MinusesWithin(inner),
         MinusesWithin(loc) = MinusesWithin(inner) \cup {m}
  PROVE  (SignsWithin(loc) % 2 = 1) # (SignsWithin(inner) % 2 = 1)
<1>1. SignsWithin(loc) = SignsWithin(inner) + 1 /\ SignsWithin(inner) \in Nat
  BY MinusesFinite, FS_AddElement
<1>2. \A n \in Nat : ((n + 1) % 2 = 1) # (n % 2 = 1)
  OBVIOUS
<1> QED
  BY <1>1, <1>2

LEMMA NoMinus ==
  ASSUME tokens \in Seq(Token), NEW loc, MinusesWithin(loc) = {}
  PROVE  ~ (SignsWithin(loc) % 2 = 1)
<1>1. SignsWithin(loc) = 0
  BY MinusesFinite, FS_EmptySet
<1> QED
  BY <1>1

\* Tokens do not overlap: a minus sign within the place of a token is it.
LEMMA MinusOfToken ==
  ASSUME tokens \in Seq(Token), TokensInOrder, NEW m \in 1 .. Len(tokens)
  PROVE  MinusesWithin(tokens[m].location)
           = IF tokens[m].type = T_SUB THEN {m} ELSE {}
<1> DEFINE At(k) == tokens[k].location
<1>1. \A k \in 1 .. Len(tokens) : At(k).start \in Nat /\ At(k).end \in Nat
  <2> SUFFICES ASSUME NEW k \in 1 .. Len(tokens)
               PROVE  At(k).start \in Nat /\ At(k).end \in Nat
    OBVIOUS
  <2>1. tokens[k] \in Token
    OBVIOUS
  <2> QED
    BY <2>1 DEF Token, Location
<1>2. Len(tokens) \in Nat
  OBVIOUS
<1>3. \A k \in 1 .. Len(tokens) : \A j \in 1 .. k - 1 : At(j).end <= At(k).start
  BY DEF TokensInOrder
<1>4. ASSUME NEW k \in 1 .. Len(tokens), tokens[k].type = T_SUB,
             Within(At(k), At(m))
      PROVE  k = m
  <2>1. At(k).start < At(k).end
    BY <1>4 DEF TokensInOrder
  <2>2. At(m).start <= At(k).start /\ At(k).end <= At(m).end
    BY <1>4 DEF Within
  <2> HIDE DEF At
  <2>3. CASE k < m
    <3>1. k \in 1 .. m - 1
      BY <1>2, <2>3
    <3>2. At(k).end <= At(m).start
      BY <1>3, <3>1
    <3> QED
      BY <1>1, <2>1, <2>2, <3>2
  <2>4. CASE m < k
    <3>1. m \in 1 .. k - 1
      BY <1>2, <2>4
    <3>2. At(m).end <= At(k).start
      BY <1>3, <3>1
    <3> QED
      BY <1>1, <2>1, <2>2, <3>2
  <2> QED
    BY <1>2, <2>3, <2>4
<1>5. Within(At(m), At(m))
  BY <1>1 DEF Within
<1> QED
  BY <1>4, <1>5 DEF MinusesWithin

\* A minus sign within a handle lies within one of its symbols.
LEMMA HandleMinuses ==
  ASSUME ParserInvariant, SpanInvariant, SignInvariant, phase = "parsing",
         yystate \in ReducingStates, NEW r, r = DefaultReduction(yystate),
         NEW k
  PROVE  k \in MinusesWithin(CommonLocation(Handle(r))) <=>
           \E j \in 1 .. RuleLength(r) :
             k \in MinusesWithin(Handle(r)[j].location)
<1> DEFINE len   == Len(stack)
           below == len - RuleLength(r)
           rhs   == Handle(r)
           loc   == CommonLocation(rhs)
           At(i) == stack[i].location
<1>1. /\ stack \in Seq(Entry) /\ stack # << >> /\ StackIsPath
      /\ tokens \in Seq(Token) /\ len \in Nat
  BY DEF ParserInvariant, TypeOK
<1>2. /\ RuleLength(r) \in 1 .. 3
      /\ \A j \in 1 .. RuleLength(r) : rhs[j] = stack[below + j] /\ rhs[j] \in Entry
      /\ loc \in Location
  BY HandleValues
<1>3. below \in 1 .. len - 1
  BY <1>1, HandleOnStack
<1>4. /\ \A j \in 1 .. RuleLength(r) : Within(rhs[j].location, loc)
      /\ At(below).end <= loc.start
      /\ loc.end = At(len).end
  BY HandleSpans DEF Top
<1> HIDE DEF rhs, loc
<1>5. \A i \in 1 .. Len(tokens) : tokens[i].location \in Location
  <2> SUFFICES ASSUME NEW i \in 1 .. Len(tokens)
               PROVE  tokens[i].location \in Location
    OBVIOUS
  <2>1. tokens[i] \in Token
    BY <1>1
  <2> QED
    BY <2>1 DEF Token
<1>6. \A i \in 1 .. len : At(i) \in Location
  <2> SUFFICES ASSUME NEW i \in 1 .. len
               PROVE  At(i) \in Location
    OBVIOUS
  <2>1. stack[i] \in Entry
    BY <1>1
  <2> QED
    BY <2>1 DEF Entry
<1>7. ASSUME NEW j \in 1 .. RuleLength(r), k \in MinusesWithin(rhs[j].location)
      PROVE  k \in MinusesWithin(loc)
  <2>1. k \in 1 .. Len(tokens) /\ tokens[k].type = T_SUB
        /\ Within(tokens[k].location, rhs[j].location)
    BY <1>7 DEF MinusesWithin
  <2>2. rhs[j].location \in Location
    BY <1>2 DEF Entry
  <2>3. Within(tokens[k].location, loc)
    BY <2>1, <2>2, <1>2, <1>4, <1>5, WithinTransitive
  <2> QED
    BY <2>1, <2>3 DEF MinusesWithin
<1>8. ASSUME k \in MinusesWithin(loc)
      PROVE  \E j \in 1 .. RuleLength(r) : k \in MinusesWithin(rhs[j].location)
  <2>1. /\ k \in 1 .. Len(tokens) /\ tokens[k].type = T_SUB
        /\ loc.start <= tokens[k].location.start
        /\ tokens[k].location.end <= loc.end
    BY <1>8 DEF MinusesWithin, Within
  <2>2. tokens[k].location.start < tokens[k].location.end
    BY <2>1 DEF SignInvariant, TokensInOrder
  <2>3. k = Len(tokens) => yytoken = YYEMPTY
    <3> SUFFICES ASSUME k = Len(tokens), yytoken # YYEMPTY
                 PROVE  FALSE
      OBVIOUS
    <3>1. At(len).end <= yylloc.start /\ yylloc = tokens[k].location
      BY <2>1, <1>1 DEF SpanInvariant, LookaheadFollows, Top, yylloc
    <3>2. /\ At(len).end \in Nat /\ tokens[k].location.start \in Nat
          /\ tokens[k].location.end \in Nat
      BY <1>1, <1>3, <1>5, <1>6, <2>1 DEF Location
    <3> QED
      BY <1>4, <2>1, <2>2, <3>1, <3>2
  <2>4. PICK i \in 2 .. len : Within(tokens[k].location, At(i))
    BY <2>1, <2>3 DEF SignInvariant, MinusesCovered
  <2>5. below < i
    <3> SUFFICES ASSUME ~ below < i
                 PROVE  FALSE
      OBVIOUS
    <3>1. /\ i = below \/ i \in 1 .. below - 1
          /\ below \in 1 .. len /\ i \in 1 .. len
      BY <1>1, <1>3
    <3>2. /\ At(below).start <= At(below).end
          /\ i \in 1 .. below - 1 => At(i).end <= At(below).start
      BY <3>1 DEF SignInvariant, SymbolsApart, SpanInvariant, StackInInputOrder
    <3>3. /\ At(below).start \in Nat /\ At(below).end \in Nat
          /\ At(i).end \in Nat /\ At(i).start \in Nat
          /\ tokens[k].location.start \in Nat /\ tokens[k].location.end \in Nat
          /\ loc.start \in Nat
      BY <3>1, <1>2, <1>5, <1>6, <2>1, SMTT(30) DEF Location
    <3>4. At(i).end <= At(below).end
      BY <3>1, <3>2, <3>3
    <3>5. tokens[k].location.end <= At(i).end
      BY <2>4 DEF Within
    <3> QED
      BY <3>3, <3>4, <3>5, <2>1, <2>2, <1>4, SMTT(30)
  <2> DEFINE j == i - below
  <2>6. j \in 1 .. RuleLength(r) /\ below + j = i
    <3>1. /\ len \in Nat /\ RuleLength(r) \in 1 .. 3 /\ i \in 2 .. len
          /\ below = len - RuleLength(r)
      BY <1>1, <1>2
    <3> HIDE DEF below, len
    <3>2. i - below \in 1 .. RuleLength(r)
      BY <3>1, <2>5
    <3> QED
      BY <3>1, <3>2
  <2> HIDE DEF j, below
  <2>7. rhs[j].location = At(i)
    BY <2>6, <1>2
  <2> QED
    BY <2>1, <2>4, <2>6, <2>7 DEF MinusesWithin
<1> QED
  BY <1>7, <1>8 DEF rhs, loc

(***************************************************************************)
(* The makers.  Only a numeral has a sign; what is built of others has     *)
(* none.                                                                   *)
(***************************************************************************)
ExtendsSigned(nodes, new) ==
  /\ Extends(nodes, new)
  /\ \A id \in Len(nodes) + 1 .. Len(new) : SignRight(new[id])

LEMMA SignedReflexive ==
  ASSUME NEW nodes \in Seq(Node)
  PROVE  ExtendsSigned(nodes, nodes)
  BY ExtendsReflexive DEF ExtendsSigned

LEMMA AppendSigned ==
  ASSUME NEW nodes \in Seq(Node), NEW new, ExtendsSigned(nodes, new),
         NEW node \in Node, SignRight(node),
         IF node.kind \in LeafKinds
         THEN node.left = NoNode /\ node.right = NoNode
         ELSE node.left \in 1 .. Len(new) /\ node.right \in 1 .. Len(new)
  PROVE  /\ ExtendsSigned(nodes, Append(new, node))
         /\ Len(Append(new, node)) = Len(new) + 1
         /\ Append(new, node)[Len(new) + 1] = node
<1> DEFINE longer == Append(new, node)
<1>1. /\ new \in Seq(Node) /\ Len(new) \in Nat /\ Len(nodes) \in Nat
      /\ Extends(nodes, new)
  BY DEF ExtendsSigned, Extends
<1>2. /\ Len(longer) = Len(new) + 1
      /\ \A i \in 1 .. Len(new) : longer[i] = new[i]
      /\ longer[Len(new) + 1] = node
  BY <1>1, AppendProperties
<1>3. Extends(nodes, longer)
  BY <1>1, ExtendsAppend
<1> HIDE DEF longer
<1>4. ASSUME NEW id \in Len(nodes) + 1 .. Len(longer)
      PROVE  SignRight(longer[id])
  <2>1. \/ id = Len(new) + 1
        \/ id \in Len(nodes) + 1 .. Len(new) /\ id \in 1 .. Len(new)
    BY <1>1, <1>2
  <2> QED
    BY <2>1, <1>2 DEF ExtendsSigned
<1> QED
  BY <1>2, <1>3, <1>4 DEF ExtendsSigned, longer

\* What a maker returns, as a symbol at loc sees it.
MadeSigned(made, loc) ==
  /\ ExtendsSigned(arena, made.arena)
  /\ made.node \in 1 .. Len(made.arena)
  /\ IsNumeral(made.arena[made.node]) =>
       MinusesWithin(loc) = MinusesWithin(made.arena[made.node].location)

LEMMA MakeLeafSigned ==
  ASSUME arena \in Seq(Node), NEW kind \in LeafKinds,
         NEW token \in 1 .. Len(tokens), NEW negative \in BOOLEAN,
         NEW own \in Location, NEW loc, tokens \in Seq(Token),
         kind \in NumeralKinds =>
           /\ own.end <= lexer.offset
           /\ negative = (tokens[token].negative # (SignsWithin(own) % 2 = 1))
           /\ MinusesWithin(loc) = MinusesWithin(own)
  PROVE  /\ MadeSigned(MakeLeaf(arena, kind, token, negative, own), loc)
         /\ ExtendsSigned(arena, MakeLeaf(arena, kind, token, negative, own).arena)
<1> DEFINE leaf == LeafNode(kind, token, negative, own)
<1>1. leaf \in Node /\ leaf.kind = kind
      /\ leaf.left = NoNode /\ leaf.right = NoNode
  BY LeafNodeType
<1>2. leaf.token = token /\ leaf.location = own /\ leaf.negative = negative
  BY DEF LeafNode
<1> HIDE DEF leaf
<1>3. SignRight(leaf)
  <2> SUFFICES ASSUME IsNumeral(leaf)
               PROVE  /\ leaf.token \in 1 .. Len(tokens)
                      /\ leaf.location.end <= lexer.offset
                      /\ leaf.negative = (tokens[leaf.token].negative
                                            # (SignsWithin(leaf.location) % 2 = 1))
    BY Zenon DEF SignRight
  <2>1. kind \in NumeralKinds
    BY <1>1 DEF IsNumeral
  <2>2. /\ own.end <= lexer.offset
        /\ negative = (tokens[token].negative # (SignsWithin(own) % 2 = 1))
    BY <2>1, Zenon
  <2> QED
    BY <1>2, <2>2, Zenon
<1>4. /\ ExtendsSigned(arena, Append(arena, leaf))
      /\ Len(Append(arena, leaf)) = Len(arena) + 1
      /\ Append(arena, leaf)[Len(arena) + 1] = leaf
  BY <1>1, <1>3, SignedReflexive, AppendSigned
<1>5. IsNumeral(leaf) => MinusesWithin(loc) = MinusesWithin(leaf.location)
  BY <1>1, <1>2 DEF IsNumeral
<1>6. Len(arena) + 1 \in 1 .. Len(arena) + 1
  OBVIOUS
<1>7. MakeLeaf(arena, kind, token, negative, own)
        = [arena |-> Append(arena, leaf), node |-> Len(arena) + 1]
  BY <1>4 DEF MakeLeaf, Made, leaf
<1> QED
  BY <1>4, <1>5, <1>6, <1>7 DEF MadeSigned

LEMMA MakeBinarySigned ==
  ASSUME arena \in Seq(Node), NEW new, ExtendsSigned(arena, new),
         NEW kind \in BinaryKinds, NEW left \in 1 .. Len(new),
         NEW right \in 1 .. Len(new), NEW own \in Location, NEW loc
  PROVE  MadeSigned(MakeBinary(new, kind, left, right, own), loc)
<1> DEFINE node == BinaryNode(kind, left, right, own)
<1>1. Len(new) \in Nat
  BY DEF ExtendsSigned, Extends
<1>2. /\ node \in Node /\ node.kind \notin LeafKinds
      /\ node.left = left /\ node.right = right
  BY <1>1, BinaryNodeType
<1> HIDE DEF node
<1>3. ~ IsNumeral(node)
  BY <1>2 DEF IsNumeral, NumeralKinds, LeafKinds
<1>4. SignRight(node)
  BY <1>3 DEF SignRight
<1>5. /\ ExtendsSigned(arena, Append(new, node))
      /\ Len(Append(new, node)) = Len(new) + 1
      /\ Append(new, node)[Len(new) + 1] = node
  BY <1>2, <1>4, AppendSigned
<1>6. MakeBinary(new, kind, left, right, own)
        = [arena |-> Append(new, node), node |-> Len(new) + 1]
  BY <1>5 DEF MakeBinary, Made, node
<1>7. Len(new) + 1 \in 1 .. Len(new) + 1
  BY <1>1
<1> QED
  BY <1>3, <1>5, <1>6, <1>7 DEF MadeSigned

\* A minus sign in front of a numeral is folded into it, in front of
\* anything else becomes a product with a synthetic -1 that is no numeral
\* of the input.
LEMMA MakeNegationSigned ==
  ASSUME arena \in Seq(Node), tokens \in Seq(Token), SignsRight,
         ArenaIsAcyclic,
         NEW node \in 1 .. Len(arena), NEW loc \in Location, NEW m,
         loc.end <= lexer.offset,
         arena[node].kind \in NumeralKinds => arena[node].token # 0,
         IsNumeral(arena[node]) =>
           /\ m \notin MinusesWithin(arena[node].location)
           /\ MinusesWithin(loc)
                = MinusesWithin(arena[node].location) \cup {m}
  PROVE  MadeSigned(MakeNegation(arena, node, loc), loc)
<1>1. arena[node] \in Node
  OBVIOUS
<1>2. CASE arena[node].kind \in NumeralKinds
  <2> DEFINE old == arena[node]
             negative == NegatedSign(old.negative)
  <2>1. /\ old.kind \in LeafKinds /\ old.token \in 1 .. Len(tokens)
        /\ negative \in BOOLEAN
    <3>1. old.token \in 1 .. Len(tokens)
      BY <1>2, Zenon DEF SignsRight, SignRight, IsNumeral
    <3> QED
      BY <3>1, <1>1, <1>2 DEF NumeralKinds, LeafKinds, NegatedSign
  <2>2. old.negative
          = (tokens[old.token].negative # (SignsWithin(old.location) % 2 = 1))
    BY <1>2, Zenon DEF SignsRight, SignRight, IsNumeral
  <2>3. (SignsWithin(loc) % 2 = 1) # (SignsWithin(old.location) % 2 = 1)
    BY <1>2, OneMoreMinus DEF IsNumeral
  <2>4. negative = (tokens[old.token].negative # (SignsWithin(loc) % 2 = 1))
    <3>1. tokens[old.token].negative \in BOOLEAN
      <4>1. tokens[old.token] \in Token
        BY <2>1
      <4> QED
        BY <4>1 DEF Token
    <3>2. \A a, b, p, q \in BOOLEAN : a = (b # p) /\ q # p => (~ a) = (b # q)
      BY Zenon
    <3>3. /\ old.negative \in BOOLEAN
          /\ (SignsWithin(loc) % 2 = 1) \in BOOLEAN
          /\ (SignsWithin(old.location) % 2 = 1) \in BOOLEAN
      BY <1>1, Zenon DEF Node
    <3> QED
      BY <2>2, <2>3, <3>1, <3>2, <3>3, Zenon DEF NegatedSign
  <2>5. MakeNegation(arena, node, loc)
          = MakeLeaf(arena, old.kind, old.token, negative, loc)
    BY <1>2 DEF MakeNegation
  <2> HIDE DEF old, negative
  <2> QED
    BY <2>1, <2>4, <2>5, MakeLeafSigned
<1>3. CASE arena[node].kind \notin NumeralKinds
  <2> DEFINE new == Append(arena, MinusOne)
  <2>1. /\ MinusOne \in Node /\ MinusOne.token = 0
        /\ MinusOne.kind \in LeafKinds
        /\ MinusOne.left = NoNode /\ MinusOne.right = NoNode
    BY DEF MinusOne, LeafNode, Node, LeafKinds, NoNode, NoLocation, Location
  <2>2. SignRight(MinusOne)
    BY <2>1 DEF SignRight, IsNumeral
  <2>3. ExtendsSigned(arena, new) /\ Len(new) = Len(arena) + 1
    BY <2>1, <2>2, SignedReflexive, AppendSigned
  <2>4. MakeNegation(arena, node, loc)
          = MakeBinary(new, "mul", Len(arena) + 1, node, loc)
    BY <1>3 DEF MakeNegation, NegationFactor
  <2> HIDE DEF new
  <2>5. node \in 1 .. Len(new) /\ Len(arena) + 1 \in 1 .. Len(new)
        /\ "mul" \in BinaryKinds
    BY <2>3 DEF BinaryKinds
  <2> QED
    BY <2>3, <2>4, <2>5, MakeBinarySigned
<1> QED
  BY <1>2, <1>3

LEMMA MakePowerSigned ==
  ASSUME arena \in Seq(Node), tokens \in Seq(Token),
         NEW base \in 1 .. Len(arena), NEW token \in 1 .. Len(tokens),
         NEW own \in Location, NEW loc \in Location,
         own.end <= lexer.offset, MinusesWithin(own) = {}
  PROVE  MadeSigned(MakePower(arena, base, token, tokens[token].negative, own,
                              loc), loc)
<1> DEFINE negative == tokens[token].negative
           new == MakeLeaf(arena, "integer", token, negative, own).arena
<1>1. "integer" \in LeafKinds /\ "pow" \in BinaryKinds
  BY DEF LeafKinds, BinaryKinds
<1>2. /\ negative \in BOOLEAN /\ token \in Nat
      /\ negative = (tokens[token].negative # (SignsWithin(own) % 2 = 1))
  <2>1. tokens[token] \in Token
    OBVIOUS
  <2>2. negative \in BOOLEAN
    BY <2>1 DEF Token
  <2> QED
    BY <2>2, NoMinus
<1>3. ExtendsSigned(arena, new)
  BY <1>1, <1>2, MakeLeafSigned
<1>4. Len(new) = Len(arena) + 1
  <2>1. new = Append(arena, LeafNode("integer", token, negative, own))
    BY DEF MakeLeaf, Made
  <2> HIDE DEF negative, new
  <2>2. LeafNode("integer", token, negative, own) \in Node
    BY <1>1, <1>2, LeafNodeType
  <2> QED
    BY <2>1, <2>2
<1>5. MakePower(arena, base, token, negative, own, loc)
        = MakeBinary(new, "pow", base, Len(arena) + 1, loc)
  BY DEF MakePower
<1> HIDE DEF new, negative
<1>6. base \in 1 .. Len(new) /\ Len(arena) + 1 \in 1 .. Len(new)
  BY <1>4
<1>7. MadeSigned(MakeBinary(new, "pow", base, Len(arena) + 1, loc), loc)
  BY <1>1, <1>3, <1>6, MakeBinarySigned
<1> QED
  BY <1>5, <1>7 DEF negative

(***************************************************************************)
(* The semantic actions.                                                   *)
(***************************************************************************)
\* A token in a handle: the minus signs within it are itself or none.
LEMMA HandleToken ==
  ASSUME ParserInvariant, SignInvariant, yystate \in ReducingStates,
         NEW r, r = DefaultReduction(yystate),
         NEW k \in 1 .. RuleLength(r), RuleRhs[r][k] \in Terminals
  PROVE  /\ Handle(r)[k].token \in 1 .. Len(tokens)
         /\ tokens[Handle(r)[k].token].type = RuleRhs[r][k]
         /\ tokens[Handle(r)[k].token].location = Handle(r)[k].location
         /\ MinusesWithin(Handle(r)[k].location)
              = IF RuleRhs[r][k] = T_SUB THEN {Handle(r)[k].token} ELSE {}
<1> DEFINE i == Len(stack) - RuleLength(r) + k
<1>1. /\ stack \in Seq(Entry) /\ stack # << >> /\ StackIsPath
      /\ ValuesMatchSymbols /\ tokens \in Seq(Token) /\ Len(stack) \in Nat
      /\ TokensInOrder /\ TokensKeepPlace
  BY DEF ParserInvariant, TypeOK, SignInvariant
<1>2. /\ RuleLength(r) \in 1 .. 3 /\ Handle(r)[k] = stack[i]
  BY HandleValues
<1>3. /\ Len(stack) - RuleLength(r) \in 1 .. Len(stack) - 1
      /\ AccessingSymbol(stack[i].state) = RuleRhs[r][k]
  BY <1>1, HandleOnStack
<1>4. i \in 2 .. Len(stack)
  BY <1>1, <1>2, <1>3
<1> HIDE DEF i
<1>5. RuleRhs[r][k] \notin Nonterminals
  BY DEF Terminals, Nonterminals, YYNTOKENS, N_identifier
<1>6. /\ stack[i].token \in 1 .. Len(tokens)
      /\ tokens[stack[i].token].type = RuleRhs[r][k]
  BY <1>1, <1>3, <1>4, <1>5 DEF ValuesMatchSymbols
<1>7. stack[i].location = tokens[stack[i].token].location
  BY <1>1, <1>3, <1>4 DEF TokensKeepPlace
<1> QED
  BY <1>1, <1>2, <1>6, <1>7, MinusOfToken

\* A nonterminal in a handle: no minus sign lies beside its numeral.
LEMMA HandleNumeral ==
  ASSUME ParserInvariant, SpanInvariant, SignInvariant,
         yystate \in ReducingStates,
         NEW r, r = DefaultReduction(yystate),
         NEW k \in 1 .. RuleLength(r), RuleRhs[r][k] \in Nonterminals
  PROVE  LET node == arena[Handle(r)[k].node]
         IN  /\ Handle(r)[k].node \in 1 .. Len(arena)
             /\ node.kind \in NumeralKinds => node.token # 0
             /\ IsNumeral(node) =>
                  MinusesWithin(Handle(r)[k].location)
                    = MinusesWithin(node.location)
<1> DEFINE i == Len(stack) - RuleLength(r) + k
           id == stack[i].node
<1>1. /\ stack \in Seq(Entry) /\ stack # << >> /\ StackIsPath
      /\ Len(stack) \in Nat /\ arena \in Seq(Node)
      /\ MinusesFolded /\ NodesWithinSymbols /\ SpansNest
  BY DEF ParserInvariant, TypeOK, SignInvariant, SpanInvariant
<1>2. /\ RuleLength(r) \in 1 .. 3 /\ Handle(r)[k] = stack[i]
      /\ Handle(r)[k].node \in 1 .. Len(arena)
  BY HandleValues
<1>3. /\ Len(stack) - RuleLength(r) \in 1 .. Len(stack) - 1
      /\ AccessingSymbol(stack[i].state) = RuleRhs[r][k]
  BY <1>1, HandleOnStack
<1>4. i \in 2 .. Len(stack)
  BY <1>1, <1>2, <1>3
<1> HIDE DEF i
<1>5. SignsFolded(i) /\ arena[id].has_location
  BY <1>1, <1>3, <1>4 DEF MinusesFolded, NodesWithinSymbols
<1>6. arena[id].kind \in NumeralKinds => arena[id].token # 0
  BY <1>1, <1>2, <1>5 DEF SpansNest, NumeralKinds, LeafKinds
<1> QED
  BY <1>2, <1>5, <1>6 DEF SignsFolded

LEMMA SemanticActionSigned ==
  ASSUME ParserInvariant, SpanInvariant, SignInvariant, phase = "parsing",
         yystate \in ReducingStates, NEW r, r = DefaultReduction(yystate)
  PROVE  MadeSigned(SemanticAction(r, Handle(r), CommonLocation(Handle(r))),
                    CommonLocation(Handle(r)))
<1> DEFINE rhs   == Handle(r)
           loc   == CommonLocation(rhs)
           first == rhs[1]
           last  == rhs[Len(rhs)]
           made  == SemanticAction(r, rhs, loc)
           Minuses(j) == MinusesWithin(rhs[j].location)
<1>1. /\ arena \in Seq(Node) /\ tokens \in Seq(Token) /\ SignsRight
      /\ ArenaIsAcyclic /\ SignsOfLexemes
  BY DEF ParserInvariant, TypeOK, SignInvariant
<1>2. /\ r \in Rules /\ RuleLength(r) \in 1 .. 3 /\ Len(rhs) = RuleLength(r)
      /\ loc \in Location
      /\ \A j \in 1 .. RuleLength(r) : rhs[j] \in Entry
  BY ReducingRule, HandleValues
<1>3. \A k : k \in MinusesWithin(loc) <=>
               \E j \in 1 .. RuleLength(r) : k \in Minuses(j)
  BY HandleMinuses
<1>4. \A j \in 1 .. RuleLength(r) :
        /\ rhs[j].location \in Location
        /\ rhs[j].location.end <= lexer.offset
        /\ loc.end <= lexer.offset
  <2>1. /\ stack \in Seq(Entry) /\ stack # << >> /\ Len(stack) \in Nat
        /\ StackIsPath /\ lexer.offset \in Nat
    BY DEF ParserInvariant, TypeOK, LexerContexts
  <2>2. loc.end = Top.location.end /\ Top.location.end <= lexer.offset
    BY <2>1, HandleSpans DEF SpanInvariant, StackInInputOrder, Top
  <2>3. ASSUME NEW j \in 1 .. RuleLength(r)
        PROVE  /\ rhs[j].location \in Location
               /\ rhs[j].location.end <= lexer.offset
    <3>1. rhs[j].location.end <= loc.end
      BY HandleSpans DEF Within
    <3> HIDE DEF rhs, loc
    <3>2. rhs[j].location \in Location
      BY <1>2 DEF Entry
    <3> QED
      BY <1>2, <2>1, <2>2, <3>1, <3>2 DEF Location
  <2> QED
    BY <2>2, <2>3
<1>5. \A j \in 1 .. RuleLength(r) :
        RuleRhs[r][j] \in Terminals =>
          /\ rhs[j].token \in 1 .. Len(tokens)
          /\ tokens[rhs[j].token].type = RuleRhs[r][j]
          /\ tokens[rhs[j].token].location = rhs[j].location
          /\ Minuses(j) = IF RuleRhs[r][j] = T_SUB THEN {rhs[j].token} ELSE {}
  BY HandleToken
<1>6. \A j \in 1 .. RuleLength(r) :
        RuleRhs[r][j] \in Nonterminals =>
          /\ rhs[j].node \in 1 .. Len(arena)
          /\ arena[rhs[j].node].kind \in NumeralKinds =>
               arena[rhs[j].node].token # 0
          /\ IsNumeral(arena[rhs[j].node]) =>
               Minuses(j) = MinusesWithin(arena[rhs[j].node].location)
  BY HandleNumeral
<1> HIDE DEF rhs, loc, Minuses
<1>7. CASE r \in {21, 22}
  <2>1. /\ RuleLength(r) = 1
        /\ RuleRhs[r][1] \in Terminals \ {T_SUB, T_SUPERSCRIPT_INTEGER}
    BY <1>7, SignsInRules
  <2>2. /\ first.token \in 1 .. Len(tokens)
        /\ tokens[first.token].type # T_SUPERSCRIPT_INTEGER
        /\ Minuses(1) = {}
        /\ first.location \in Location /\ first.location.end <= lexer.offset
    BY <2>1, <1>4, <1>5
  <2>3. MinusesWithin(loc) = {} /\ MinusesWithin(first.location) = {}
    <3>1. \A k : k \notin MinusesWithin(loc)
      BY <2>1, <2>2, <1>3
    <3> QED
      BY <3>1, <2>2 DEF Minuses
  <2>4. /\ tokens[first.token].negative = FALSE
        /\ FALSE = (tokens[first.token].negative
                      # (SignsWithin(first.location) % 2 = 1))
    <3>1. tokens[first.token] \in Token
      BY <2>2, <1>1
    <3>2. tokens[first.token].negative = FALSE
      BY <3>1, <2>2, <1>1 DEF SignsOfLexemes, Token
    <3>3. ~ (SignsWithin(first.location) % 2 = 1)
      BY <2>3, <1>1, NoMinus
    <3> QED
      BY <3>2, <3>3
  <2>5. /\ LeafKind(r) \in LeafKinds
        /\ made = MakeLeaf(arena, LeafKind(r), first.token, FALSE, first.location)
    <3>1. /\ r \in LeafRules
          /\ r \notin BinaryRules /\ r \notin {13, 24} /\ r # 20
      BY <1>7 DEF LeafRules, BinaryRules
    <3>2. LeafKind(r) \in LeafKinds
      BY DEF LeafKind, LeafKinds
    <3> QED
      BY <3>1, <3>2, Zenon DEF SemanticAction
  <2> HIDE DEF made, first
  <2> QED
    BY <1>1, <2>2, <2>3, <2>4, <2>5, MakeLeafSigned DEF rhs, loc, made
<1>8. CASE r = 25
  <2>1. RuleLength(r) = 1 /\ RuleRhs[r][1] \in Terminals
    BY <1>8, SignsInRules DEF RuleRhs, Terminals, YYNTOKENS, T_IDENTIFIER
  <2>2. /\ first.token \in 1 .. Len(tokens)
        /\ first.location \in Location
    BY <2>1, <1>4, <1>5
  <2>3. made = MakeLeaf(arena, "identifier", first.token, FALSE, first.location)
    <3>1. /\ r \in LeafRules /\ LeafKind(r) = "identifier"
          /\ r \notin BinaryRules /\ r \notin {13, 24} /\ r # 20
      BY <1>8 DEF LeafRules, BinaryRules, LeafKind
    <3> QED
      BY <3>1, Zenon DEF SemanticAction
  <2>4. "identifier" \in LeafKinds /\ "identifier" \notin NumeralKinds
    BY DEF LeafKinds, NumeralKinds
  <2> HIDE DEF made, first
  <2> QED
    BY <1>1, <2>2, <2>3, <2>4, MakeLeafSigned DEF rhs, loc, made
<1>9. CASE r \in BinaryRules
  <2>1. made = MakeBinary(arena, BinaryKind(r), first.node, last.node, loc)
    BY <1>9 DEF SemanticAction, BinaryRules, LeafRules
  <2>2. /\ RuleRhs[r][1] \in Nonterminals
        /\ RuleRhs[r][RuleLength(r)] \in Nonterminals
    BY <1>2, <1>9, ActionsConsistent DEF ActionsFitRules, LeafRules, BinaryRules
  <2>3. first.node \in 1 .. Len(arena) /\ last.node \in 1 .. Len(arena)
    BY <2>2, <1>2, <1>6
  <2>4. BinaryKind(r) \in BinaryKinds
    BY DEF BinaryKind, BinaryKinds
  <2> HIDE DEF made, first, last
  <2> QED
    BY <1>1, <1>2, <2>1, <2>3, <2>4, SignedReflexive, MakeBinarySigned
       DEF rhs, loc, made
<1>10. CASE r \in {13, 24}
  <2>1. /\ RuleLength(r) = 2 /\ RuleRhs[r][1] = T_SUB
        /\ RuleRhs[r][2] \in Nonterminals
    BY <1>10, SignsInRules
  <2>2. T_SUB \in Terminals /\ 1 \in 1 .. RuleLength(r) /\ 2 \in 1 .. RuleLength(r)
    BY <2>1 DEF T_SUB, Terminals, YYNTOKENS
  <2>3. Minuses(1) = {first.token} /\ last = rhs[2]
    BY <2>1, <2>2, <1>2, <1>5
  <2>4. /\ last.node \in 1 .. Len(arena)
        /\ arena[last.node].kind \in NumeralKinds => arena[last.node].token # 0
        /\ IsNumeral(arena[last.node]) =>
             Minuses(2) = MinusesWithin(arena[last.node].location)
    BY <2>1, <2>2, <2>3, <1>6
  <2>5. MinusesWithin(loc) = Minuses(2) \cup {first.token}
    <3>1. \A k : k \in MinusesWithin(loc) <=> k \in Minuses(1) \/ k \in Minuses(2)
      BY <2>1, <1>3
    <3> QED
      BY <3>1, <2>3
  <2>6. first.token \notin Minuses(2)
    <3>1. first.location.end <= last.location.start
      BY <2>1, <2>3, HandleSpans DEF rhs
    <3>2. /\ tokens[first.token].location = first.location
          /\ tokens[first.token].type = T_SUB
          /\ first.token \in 1 .. Len(tokens)
          /\ first.location \in Location /\ last.location \in Location
      BY <2>1, <2>2, <2>3, <1>4, <1>5
    <3>3. first.location.start < first.location.end
      BY <3>2 DEF SignInvariant, TokensInOrder
    <3>4. first.token \in Minuses(2) => Within(first.location, last.location)
      BY <2>3, <3>2 DEF Minuses, MinusesWithin
    <3> QED
      BY <3>1, <3>2, <3>3, <3>4 DEF Within, Location
  <2>7. made = MakeNegation(arena, last.node, loc)
    BY <1>10 DEF SemanticAction, BinaryRules, LeafRules
  <2>8. loc.end <= lexer.offset
    BY <2>2, <1>4
  <2> HIDE DEF made, first, last
  <2> QED
    BY <1>1, <1>2, <2>4, <2>5, <2>6, <2>7, <2>8, MakeNegationSigned
       DEF rhs, loc, made
<1>11. CASE r = 20
  <2>1. /\ RuleLength(r) = 2 /\ RuleRhs[r][2] = T_SUPERSCRIPT_INTEGER
        /\ RuleRhs[r][1] \in Nonterminals
    BY <1>2, <1>11, SignsInRules, ActionsConsistent
       DEF ActionsFitRules, LeafRules, BinaryRules
  <2>2. /\ T_SUPERSCRIPT_INTEGER \in Terminals /\ T_SUPERSCRIPT_INTEGER # T_SUB
        /\ 1 \in 1 .. RuleLength(r) /\ 2 \in 1 .. RuleLength(r)
    BY <2>1 DEF T_SUB, T_SUPERSCRIPT_INTEGER, Terminals, YYNTOKENS
  <2>3. /\ last = rhs[2] /\ first.node \in 1 .. Len(arena)
        /\ last.token \in 1 .. Len(tokens)
        /\ MinusesWithin(last.location) = {}
        /\ last.location \in Location /\ last.location.end <= lexer.offset
    BY <2>1, <2>2, <1>2, <1>4, <1>5, <1>6 DEF Minuses
  <2>4. made = MakePower(arena, first.node, last.token,
                         tokens[last.token].negative, last.location, loc)
    BY <1>11 DEF SemanticAction, BinaryRules, LeafRules
  <2> HIDE DEF made, first, last
  <2> QED
    BY <1>1, <1>2, <2>3, <2>4, MakePowerSigned DEF rhs, loc, made
<1>12. CASE r \notin BinaryRules \cup LeafRules \cup {13, 20, 24}
  <2> DEFINE p == IF r = 19 THEN 2 ELSE 1
  <2>1. made = [arena |-> arena, node |-> rhs[p].node]
    BY <1>12 DEF SemanticAction, PassedNode
  <2>2. \A k \in 1 .. RuleLength(r) :
          IF k = p THEN RuleRhs[r][k] \in Nonterminals
          ELSE RuleRhs[r][k] \in Terminals \ {T_SUB}
    BY <1>2, <1>12, SignsInRules
  <2>3. p \in 1 .. RuleLength(r)
    <3>1. r = 19 => RuleLength(r) = 3
      BY DEF RuleLength, yyr2
    <3> QED
      BY <3>1, <1>2
  <2> HIDE DEF p
  <2>4. MinusesWithin(loc) = Minuses(p)
    <3>1. \A k \in 1 .. RuleLength(r) : k # p => Minuses(k) = {}
      BY <2>2, <1>5
    <3>2. \A k : k \in MinusesWithin(loc) <=> k \in Minuses(p)
      BY <3>1, <2>3, <1>3
    <3> QED
      BY <3>2
  <2>5. /\ rhs[p].node \in 1 .. Len(arena)
        /\ IsNumeral(arena[rhs[p].node]) =>
             Minuses(p) = MinusesWithin(arena[rhs[p].node].location)
    BY <2>2, <2>3, <1>6
  <2>6. MadeSigned(made, loc)
    BY <1>1, <2>1, <2>4, <2>5, SignedReflexive DEF MadeSigned
  <2> QED
    BY <2>6 DEF made, rhs, loc
<1> QED
  <2>1. r \in BinaryRules \/ r \in LeafRules \/ r \in {13, 20, 24}
        \/ r \notin BinaryRules \cup LeafRules \cup {13, 20, 24}
    OBVIOUS
  <2>2. LeafRules = {21, 22, 25}
    BY DEF LeafRules
  <2> QED
    BY <2>1, <2>2, <1>7, <1>8, <1>9, <1>10, <1>11, <1>12

(***************************************************************************)
(* The steps.                                                              *)
(***************************************************************************)
LEMMA InitSigns ==
  ASSUME Init
  PROVE  SignInvariant
<1>1. Len(stack) = 1 /\ Len(arena) = 0 /\ Len(tokens) = 0
  BY DEF Init
<1> QED
  BY <1>1 DEF SignInvariant, TokensInOrder, SignsOfLexemes, SymbolsApart,
              TokensKeepPlace, MinusesCovered, SignsRight, MinusesFolded

\* The minus signs after a step, as a set that names the new tokens.
MinusesAmong(list, loc) ==
  { k \in 1 .. Len(list) :
      list[k].type = T_SUB /\ Within(list[k].location, loc) }

\* A token that is read lies behind every span there is.
LEMMA ReadMinuses ==
  ASSUME tokens \in Seq(Token), lexer.offset \in Nat, NEW token \in Token,
         lexer.offset <= token.location.start,
         token.type = T_SUB => token.location.start < token.location.end,
         NEW loc \in Location, loc.end <= lexer.offset
  PROVE  MinusesAmong(Append(tokens, token), loc) = MinusesWithin(loc)
<1> DEFINE longer == Append(tokens, token)
<1>1. /\ Len(tokens) \in Nat /\ Len(longer) = Len(tokens) + 1
      /\ \A k \in 1 .. Len(tokens) : longer[k] = tokens[k]
      /\ longer[Len(tokens) + 1] = token
  BY AppendProperties
<1>2. ~ (token.type = T_SUB /\ Within(token.location, loc))
  BY DEF Within, Token, Location
<1> HIDE DEF longer
<1>3. ASSUME NEW k
      PROVE  k \in MinusesAmong(longer, loc) <=> k \in MinusesWithin(loc)
  <2>1. k \in 1 .. Len(longer) <=> k \in 1 .. Len(tokens) \/ k = Len(tokens) + 1
    BY <1>1
  <2>2. k \in 1 .. Len(tokens) => longer[k] = tokens[k]
    BY <1>1
  <2> QED
    BY <1>1, <1>2, <2>1, <2>2 DEF MinusesAmong, MinusesWithin
<1> QED
  BY <1>3 DEF longer

LEMMA ReadSigns ==
  ASSUME ParserInvariant, SpanInvariant, SignInvariant, NEW token \in Token,
         lexer.offset <= token.location.start,
         token.location.start <= token.location.end,
         token.type = T_SUB => token.location.start < token.location.end,
         token.negative => token.type = T_SUPERSCRIPT_INTEGER,
         lexer'.offset = token.location.end,
         tokens' = Append(tokens, token),
         yytoken = YYEMPTY, phase = "parsing", yytoken' # YYEMPTY,
         UNCHANGED << stack, arena >>
  PROVE  SignInvariant'
<1> DEFINE len == Len(tokens)
<1>1. /\ stack \in Seq(Entry) /\ arena \in Seq(Node) /\ ValuesMatchSymbols
      /\ tokens \in Seq(Token) /\ lexer.offset \in Nat /\ len \in Nat
      /\ TokensInOrder /\ SignsOfLexemes /\ SymbolsApart /\ TokensKeepPlace
      /\ MinusesCovered /\ SignsRight /\ MinusesFolded /\ StackInInputOrder
  BY DEF ParserInvariant, TypeOK, LexerContexts, SignInvariant, SpanInvariant
<1>2. /\ Len(tokens') = len + 1
      /\ \A k \in 1 .. len : tokens'[k] = tokens[k]
      /\ tokens'[len + 1] = token
  BY <1>1, AppendProperties
<1>3. /\ token.location.start \in Nat /\ token.location.end \in Nat
      /\ lexer.offset <= lexer'.offset
  BY <1>1 DEF Token, Location
<1>4. \A loc \in Location :
        loc.end <= lexer.offset => MinusesAmong(tokens', loc) = MinusesWithin(loc)
  BY <1>1, ReadMinuses
<1>5. \A k \in 1 .. len : tokens[k].location.end \in Nat
  <2> SUFFICES ASSUME NEW k \in 1 .. len
               PROVE  tokens[k].location.end \in Nat
    OBVIOUS
  <2>1. tokens[k] \in Token
    BY <1>1
  <2> QED
    BY <2>1 DEF Token, Location
<1>6. TokensInOrder'
  <2> SUFFICES ASSUME NEW k \in 1 .. Len(tokens')
               PROVE  /\ tokens'[k].location.start <= tokens'[k].location.end
                      /\ tokens'[k].location.end <= lexer'.offset
                      /\ tokens'[k].type = T_SUB =>
                           tokens'[k].location.start < tokens'[k].location.end
                      /\ \A j \in 1 .. k - 1 :
                           tokens'[j].location.end <= tokens'[k].location.start
    BY DEF TokensInOrder
  <2>1. CASE k = len + 1
    <3>1. ASSUME NEW j \in 1 .. len
          PROVE  tokens'[j].location.end <= token.location.start
      <4>1. tokens[j].location.end <= lexer.offset
        BY <1>1 DEF TokensInOrder
      <4> QED
        BY <4>1, <1>1, <1>2, <1>3, <1>5
    <3> QED
      BY <2>1, <3>1, <1>1, <1>2, <1>3
  <2>2. CASE k # len + 1
    <3>1. k \in 1 .. len
      BY <1>1, <1>2, <2>2
    <3>2. /\ tokens'[k] = tokens[k]
          /\ \A j \in 1 .. k - 1 : tokens'[j] = tokens[j]
      BY <1>1, <1>2, <3>1
    <3>3. /\ tokens[k].location.start <= tokens[k].location.end
          /\ tokens[k].location.end <= lexer.offset
          /\ tokens[k].type = T_SUB =>
               tokens[k].location.start < tokens[k].location.end
          /\ \A j \in 1 .. k - 1 : tokens[j].location.end <= tokens[k].location.start
      BY <1>1, <3>1 DEF TokensInOrder
    <3>4. lexer'.offset \in Nat
      BY <1>3
    <3> QED
      BY <3>1, <3>2, <3>3, <3>4, <1>1, <1>3, <1>5
  <2> QED
    BY <2>1, <2>2
<1>7. SignsOfLexemes'
  BY <1>1, <1>2 DEF SignsOfLexemes
<1>8. SymbolsApart'
  BY <1>1 DEF SymbolsApart
<1>9. TokensKeepPlace'
  <2> SUFFICES ASSUME NEW i \in 2 .. Len(stack),
                      AccessingSymbol(stack[i].state) \in Terminals
               PROVE  stack[i].location = tokens'[stack[i].token].location
    BY DEF TokensKeepPlace
  <2>1. AccessingSymbol(stack[i].state) \notin Nonterminals
    <3>1. \A symbol \in Terminals : symbol \notin Nonterminals
      BY DEF Terminals, Nonterminals, YYNTOKENS, N_identifier
    <3> QED
      BY <3>1
  <2>2. stack[i].token \in 1 .. len
    BY <1>1, <2>1 DEF ValuesMatchSymbols
  <2> QED
    BY <1>1, <1>2, <2>2 DEF TokensKeepPlace
<1>10. MinusesCovered'
  <2> SUFFICES ASSUME NEW k \in 1 .. Len(tokens'), tokens'[k].type = T_SUB,
                      k = Len(tokens') => yytoken' = YYEMPTY
               PROVE  \E i \in 2 .. Len(stack) :
                        Within(tokens'[k].location, stack[i].location)
    BY DEF MinusesCovered
  <2>1. k \in 1 .. len /\ tokens'[k] = tokens[k]
    BY <1>1, <1>2
  <2> QED
    BY <1>1, <2>1 DEF MinusesCovered
<1>11. ASSUME NEW id \in 1 .. Len(arena), IsNumeral(arena[id])
       PROVE  /\ arena[id].token \in 1 .. len
              /\ arena[id].location \in Location
              /\ arena[id].location.end <= lexer.offset
              /\ MinusesAmong(tokens', arena[id].location)
                   = MinusesWithin(arena[id].location)
  <2>1. SignRight(arena[id])
    BY <1>1 DEF SignsRight
  <2>2. /\ arena[id].token \in 1 .. len
        /\ arena[id].location.end <= lexer.offset
    BY <1>11, <2>1, Zenon DEF SignRight
  <2>3. arena[id] \in Node
    BY <1>1
  <2>4. arena[id].location \in Location
    BY <2>3 DEF Node
  <2> QED
    BY <2>2, <2>4, <1>4
<1>12. SignsRight'
  <2> SUFFICES ASSUME NEW id \in 1 .. Len(arena), IsNumeral(arena[id])
               PROVE  /\ arena[id].token \in 1 .. Len(tokens')
                      /\ arena[id].location.end <= lexer'.offset
                      /\ arena[id].negative =
                           (tokens'[arena[id].token].negative
                              # (Cardinality(MinusesAmong(tokens', arena[id].location)) % 2 = 1))
    BY Zenon DEF SignsRight, SignRight, SignsWithin, MinusesAmong, IsNumeral
  <2>1. /\ arena[id].token \in 1 .. Len(tokens')
        /\ arena[id].location.end <= lexer'.offset
        /\ tokens'[arena[id].token] = tokens[arena[id].token]
    BY <1>1, <1>2, <1>3, <1>11, SMTT(30) DEF Location
  <2>2. Cardinality(MinusesAmong(tokens', arena[id].location))
          = SignsWithin(arena[id].location)
    BY <1>1, <1>11, MinusesFinite
  <2>3. arena[id].negative =
          (tokens[arena[id].token].negative
             # (SignsWithin(arena[id].location) % 2 = 1))
    BY <1>1, Zenon DEF SignsRight, SignRight
  <2> QED
    BY <2>1, <2>2, <2>3, Zenon
<1>13. MinusesFolded'
  <2> SUFFICES ASSUME NEW i \in 2 .. Len(stack),
                      AccessingSymbol(stack[i].state) \in Nonterminals,
                      IsNumeral(arena[stack[i].node])
               PROVE  MinusesAmong(tokens', stack[i].location)
                        = MinusesAmong(tokens', arena[stack[i].node].location)
    BY Zenon DEF MinusesFolded, SignsFolded, MinusesWithin, MinusesAmong, IsNumeral
  <2>1. stack[i].node \in 1 .. Len(arena)
    BY <1>1 DEF ValuesMatchSymbols
  <2>2. stack[i].location \in Location /\ stack[i].location.end <= lexer.offset
    <3>1. stack[i] \in Entry /\ i \in 1 .. Len(stack)
      BY <1>1
    <3> QED
      BY <3>1, <1>1 DEF StackInInputOrder, Entry
  <2>3. MinusesWithin(stack[i].location)
          = MinusesWithin(arena[stack[i].node].location)
    BY <1>1 DEF MinusesFolded, SignsFolded
  <2> QED
    BY <2>1, <2>2, <2>3, <1>4, <1>11
<1> QED
  BY <1>6, <1>7, <1>8, <1>9, <1>10, <1>12, <1>13 DEF SignInvariant

LEMMA YylexSigns ==
  ASSUME ParserInvariant, SpanInvariant, SignInvariant, Yylex
  PROVE  SignInvariant'
<1>1. TypeOK
  BY DEF ParserInvariant
<1>2. ASSUME NEW type \in TokenKinds, NEW loc \in TokenLocations(type),
             \/ \E negative \in LexemeSigns(type) : ReadToken(type, loc, negative)
             \/ ReadOverLimit(type, loc)
      PROVE  SignInvariant'
  <2>1. loc \in Location /\ lexer.offset <= loc.start /\ loc.start <= loc.end
    BY <1>1, TokenLocationType
  <2>2. type = T_SUB => loc.start < loc.end
    <3> SUFFICES ASSUME type = T_SUB
                 PROVE  loc.start < loc.end
      OBVIOUS
    <3>1. TokenBytes(T_SUB) = {1}
      BY DEF TokenBytes, SizedTokens, T_IDENTIFIER, T_INTEGER, T_FLOAT,
             T_SUPERSCRIPT_INTEGER, T_INVALID_NUMBER, T_SUB, T_MUL,
             T_INVALID_SUPERSCRIPT
    <3>2. PICK gap \in Gaps, bytes \in {1} :
            loc = [start |-> lexer.offset + Separation(type) + gap,
                   end   |-> lexer.offset + Separation(type) + gap + bytes]
      BY <3>1 DEF TokenLocations
    <3>3. loc.end = loc.start + 1
      BY <3>2, <2>1 DEF Location
    <3> QED
      BY <3>3, <2>1 DEF Location
  <2>3. ScannedContext(type, loc).offset = loc.end
    BY <1>1, <2>1, ScannedContextType
  <2>4. PICK t \in Terminals, negative \in BOOLEAN :
          /\ tokens' = Append(tokens, [type |-> t, location |-> loc,
                                       negative |-> negative])
          /\ t = T_SUB => type = T_SUB
          /\ negative => t = T_SUPERSCRIPT_INTEGER
          /\ yytoken' = t
    <3>1. type \in Terminals /\ YYerror \in Terminals /\ YYerror # T_SUB
      BY InputAssumption DEF LexemeTokens, Terminals, YYNTOKENS, T_INTEGER,
                             T_INVALID_NUMBER, YYerror, T_SUB
    <3>2. CASE \E negative \in LexemeSigns(type) : ReadToken(type, loc, negative)
      BY <3>1, <3>2 DEF ReadToken, LexemeSigns
    <3>3. CASE ReadOverLimit(type, loc)
      BY <3>1, <3>3 DEF ReadOverLimit
    <3> QED
      BY <1>2, <3>2, <3>3
  <2>5. /\ UNCHANGED << stack, arena >> /\ lexer' = ScannedContext(type, loc)
        /\ yytoken = YYEMPTY /\ phase = "parsing"
    BY <1>2 DEF ReadToken, ReadOverLimit, NeedsToken
  <2> DEFINE token == [type |-> t, location |-> loc, negative |-> negative]
  <2>6. token \in Token /\ token.location = loc /\ token.type = t
        /\ token.negative = negative
    BY <2>1 DEF Token
  <2> HIDE DEF token
  <2>7. tokens' = Append(tokens, token)
    BY <2>4 DEF token
  <2>8. yytoken' # YYEMPTY
    BY <2>4 DEF Terminals, YYEMPTY, YYNTOKENS
  <2> QED
    BY <2>1, <2>2, <2>3, <2>4, <2>5, <2>6, <2>7, <2>8, ReadSigns
<1>3. ASSUME NEW loc \in EndLocations, ReadEnd(loc)
      PROVE  SignInvariant'
  <2> DEFINE token == [type |-> YYEOF, location |-> loc, negative |-> FALSE]
  <2>1. loc \in Location /\ lexer.offset <= loc.start /\ loc.start <= loc.end
    BY <1>1, EndLocationType
  <2>2. lexer'.offset = loc.end
    BY <1>1, <1>3, <2>1 DEF ReadEnd, TypeOK, LexerContexts, Location
  <2>3. /\ token \in Token /\ token.location = loc /\ token.negative = FALSE
        /\ token.type # T_SUB /\ YYEOF # YYEMPTY
    BY <2>1 DEF Token, Terminals, YYNTOKENS, YYEOF, YYEMPTY, T_SUB
  <2>4. /\ UNCHANGED << stack, arena >> /\ tokens' = Append(tokens, token)
        /\ yytoken = YYEMPTY /\ phase = "parsing" /\ yytoken' = YYEOF
    BY <1>3 DEF ReadEnd, NeedsToken
  <2> HIDE DEF token
  <2> QED
    BY <2>1, <2>2, <2>3, <2>4, ReadSigns
<1> QED
  BY <1>2, <1>3 DEF Yylex

\* Symbols stay apart when what lies above `below' is replaced by an entry
\* that starts after it.
LEMMA PushKeepsApart ==
  ASSUME ParserInvariant, SpanInvariant, SignInvariant,
         NEW newStack \in Seq(Entry),
         NEW below \in 1 .. Len(stack), NEW entry \in Entry,
         Len(newStack) = below + 1,
         \A i \in 1 .. below : newStack[i] = stack[i],
         newStack[below + 1] = entry,
         stack[below].location.end <= entry.location.start,
         stack' = newStack
  PROVE  SymbolsApart'
<1>1. /\ stack \in Seq(Entry) /\ Len(stack) \in Nat
      /\ StackInInputOrder /\ SymbolsApart
  BY DEF ParserInvariant, TypeOK, SpanInvariant, SignInvariant
<1>2. \A i \in 1 .. Len(stack) :
        stack[i].location.start \in Nat /\ stack[i].location.end \in Nat
  <2> SUFFICES ASSUME NEW i \in 1 .. Len(stack)
               PROVE  stack[i].location.start \in Nat /\ stack[i].location.end \in Nat
    OBVIOUS
  <2>1. stack[i] \in Entry
    BY <1>1
  <2> QED
    BY <2>1 DEF Entry, Location
<1>3. entry.location.start \in Nat
  BY DEF Entry, Location
<1>4. ASSUME NEW j \in 1 .. below
      PROVE  stack[j].location.end <= entry.location.start
  <2>1. CASE j = below
    BY <2>1
  <2>2. CASE j # below
    <3>1. j \in 1 .. below - 1 /\ j \in 1 .. Len(stack)
      BY <1>1, <2>2
    <3>2. /\ stack[j].location.end <= stack[below].location.start
          /\ stack[below].location.start <= stack[below].location.end
      BY <1>1, <3>1 DEF SymbolsApart, StackInInputOrder
    <3> QED
      BY <3>1, <3>2, <1>2, <1>3
  <2> QED
    BY <2>1, <2>2
<1>5. ASSUME NEW i \in 1 .. Len(stack'), NEW j \in 1 .. i - 1
      PROVE  stack'[j].location.end <= stack'[i].location.start
  <2>1. j \in 1 .. below /\ stack'[j] = stack[j]
    BY <1>1
  <2>2. CASE i = below + 1
    BY <2>1, <2>2, <1>4
  <2>3. CASE i # below + 1
    <3>1. i \in 1 .. below /\ i \in 1 .. Len(stack) /\ stack'[i] = stack[i]
      BY <1>1, <2>3
    <3> QED
      BY <2>1, <3>1, <1>1 DEF SymbolsApart
  <2> QED
    BY <2>2, <2>3
<1> QED
  BY <1>5 DEF SymbolsApart

LEMMA ShiftSigns ==
  ASSUME ParserInvariant, SpanInvariant, SignInvariant, Shift
  PROVE  SignInvariant'
<1> DEFINE entry == [state    |-> TableAction(yystate, yytoken),
                     node     |-> NoNode,
                     token    |-> Len(tokens),
                     location |-> yylloc]
           newStack == Append(stack, entry)
<1>1. /\ TypeOK /\ stack \in Seq(Entry) /\ Len(stack) \in 1 .. Len(stack)
      /\ Len(tokens) \in Nat /\ Len(stack) \in Nat /\ LookaheadRead
      /\ phase = "parsing" /\ yytoken # YYEMPTY /\ yytoken \in Terminals
  BY DEF ParserInvariant, TypeOK, Shift
<1>2. /\ TableAction(yystate, yytoken) \in States
      /\ AccessingSymbol(TableAction(yystate, yytoken)) = yytoken
  BY <1>1, YystateType, ShiftTarget DEF Shift
<1>3. yylloc \in Location
  BY <1>1, YyllocType
<1>4. entry \in Entry
  BY <1>1, <1>2, <1>3 DEF Entry, NoNode
<1>5. /\ stack' = newStack /\ yytoken' = YYEMPTY
      /\ UNCHANGED << lexer, arena, tokens >>
  BY DEF Shift, EnterState
<1>6. /\ entry.location = yylloc /\ entry.token = Len(tokens)
      /\ AccessingSymbol(entry.state) = yytoken
      /\ tokens # << >> /\ yylloc = tokens[Len(tokens)].location
  BY <1>1, <1>2 DEF LookaheadRead, yylloc
<1> HIDE DEF entry
<1>7. /\ newStack \in Seq(Entry)
      /\ Len(newStack) = Len(stack) + 1
      /\ \A i \in 1 .. Len(stack) : newStack[i] = stack[i]
      /\ newStack[Len(stack) + 1] = entry
  BY <1>1, <1>4, AppendProperties
<1> HIDE DEF newStack
<1>8. stack[Len(stack)].location.end <= entry.location.start
  BY <1>1, <1>6 DEF SpanInvariant, LookaheadFollows, Top
<1>9. SymbolsApart'
  BY <1>1, <1>4, <1>5, <1>7, <1>8, PushKeepsApart
<1>10. TokensInOrder' /\ SignsOfLexemes' /\ SignsRight'
  BY <1>5 DEF SignInvariant, TokensInOrder, SignsOfLexemes, SignsRight,
     SignRight, SignsWithin
<1>11. \A i \in 2 .. Len(stack') :
         \/ i \in 2 .. Len(stack) /\ stack'[i] = stack[i]
         \/ i = Len(stack) + 1 /\ stack'[i] = entry
  BY <1>1, <1>5, <1>7
<1>12. TokensKeepPlace'
  BY <1>5, <1>6, <1>11 DEF SignInvariant, TokensKeepPlace
<1>13. MinusesCovered'
  <2> SUFFICES ASSUME NEW k \in 1 .. Len(tokens), tokens[k].type = T_SUB
               PROVE  \E i \in 2 .. Len(stack') :
                        Within(tokens[k].location, stack'[i].location)
    BY <1>5 DEF MinusesCovered
  <2>1. CASE k = Len(tokens)
    <3>1. Within(tokens[k].location, entry.location)
      BY <2>1, <1>3, <1>6 DEF Within, Location
    <3>2. Len(stack) + 1 \in 2 .. Len(stack') /\ stack'[Len(stack) + 1] = entry
      BY <1>1, <1>5, <1>7
    <3> QED
      BY <3>1, <3>2
  <2>2. CASE k # Len(tokens)
    <3>1. PICK i \in 2 .. Len(stack) :
            Within(tokens[k].location, stack[i].location)
      BY <2>2, <1>1 DEF SignInvariant, MinusesCovered
    <3>2. i \in 2 .. Len(stack') /\ stack'[i] = stack[i]
      BY <1>1, <1>5, <1>7
    <3> QED
      BY <3>1, <3>2
  <2> QED
    BY <2>1, <2>2
<1>14. MinusesFolded'
  <2>1. yytoken \notin Nonterminals
    BY <1>1 DEF Terminals, Nonterminals, YYNTOKENS, N_identifier
  <2> QED
    BY <2>1, <1>5, <1>6, <1>11 DEF SignInvariant, MinusesFolded, SignsFolded,
       MinusesWithin
<1> QED
  BY <1>9, <1>10, <1>12, <1>13, <1>14 DEF SignInvariant

LEMMA ReduceSigns ==
  ASSUME ParserInvariant, SpanInvariant, SignInvariant,
         yystate \in ReducingStates,
         Reduce(DefaultReduction(yystate)),
         phase = "parsing",
         UNCHANGED << yytoken, lexer, tokens >>
  PROVE  SignInvariant'
<1> DEFINE r    == DefaultReduction(yystate)
           rhs  == Handle(r)
           loc  == CommonLocation(rhs)
           made == SemanticAction(r, rhs, loc)
<1>1. /\ StackIsPath /\ ValuesMatchSymbols
      /\ stack \in Seq(Entry) /\ stack # << >> /\ Len(stack) \in Nat
      /\ arena \in Seq(Node) /\ Len(arena) \in Nat /\ tokens \in Seq(Token)
      /\ SignsRight /\ TokensKeepPlace /\ MinusesCovered /\ MinusesFolded
  BY DEF ParserInvariant, TypeOK, SignInvariant
<1>2. PICK entry \in Entry, newStack \in Seq(Entry),
           below \in 1 .. Len(stack) - 1 :
        /\ below = Len(stack) - RuleLength(r)
        /\ Len(newStack) = below + 1
        /\ \A i \in 1 .. below : newStack[i] = stack[i]
        /\ newStack[below + 1] = entry
        /\ EnterState(newStack)
        /\ entry.state = StateAfter(r)
        /\ entry.node = made.node
        /\ entry.location = loc
  BY ReduceReplacesHandle
<1>3. MadeSigned(made, loc)
  BY SemanticActionSigned
<1>4. arena' = made.arena
  BY DEF Reduce, Handle
<1>5. /\ stack[below].location.end <= loc.start
      /\ \A j \in 1 .. RuleLength(r) : Within(rhs[j].location, loc)
  BY <1>2, HandleSpans
<1>6. AccessingSymbol(entry.state) \notin Terminals
  <2>1. AccessingSymbol(entry.state) = RuleLhs(r) /\ RuleLhs(r) \in Nonterminals
    BY <1>1, <1>2, HandleOnStack, ReducingRule
  <2>2. \A symbol \in Nonterminals : symbol \notin Terminals
    BY DEF Terminals, Nonterminals, YYNTOKENS, N_identifier
  <2> QED
    BY <2>1, <2>2
<1>7. /\ RuleLength(r) \in 1 .. 3
      /\ \A j \in 1 .. RuleLength(r) : rhs[j] = stack[below + j]
      /\ loc \in Location
  BY <1>2, HandleValues
<1> HIDE DEF made, loc, rhs
<1>8. /\ stack' = newStack /\ below \in 1 .. Len(stack)
      /\ Len(stack') = below + 1 /\ stack'[below + 1] = entry
  BY <1>1, <1>2 DEF EnterState
<1>9. \A i \in 2 .. Len(stack') :
        \/ i \in 2 .. Len(stack) /\ i \in 1 .. below /\ stack'[i] = stack[i]
        \/ i = below + 1 /\ stack'[i] = entry
  BY <1>1, <1>2, <1>8
<1>10. SymbolsApart'
  BY <1>2, <1>5, <1>8, PushKeepsApart
<1>11. TokensInOrder' /\ SignsOfLexemes'
  BY DEF SignInvariant, TokensInOrder, SignsOfLexemes
<1>12. TokensKeepPlace'
  BY <1>1, <1>6, <1>9 DEF TokensKeepPlace
<1>13. MinusesCovered'
  <2> SUFFICES ASSUME NEW k \in 1 .. Len(tokens), tokens[k].type = T_SUB,
                      k = Len(tokens) => yytoken = YYEMPTY
               PROVE  \E i \in 2 .. Len(stack') :
                        Within(tokens[k].location, stack'[i].location)
    BY DEF MinusesCovered
  <2>1. PICK i \in 2 .. Len(stack) :
          Within(tokens[k].location, stack[i].location)
    BY <1>1 DEF MinusesCovered
  <2>2. CASE i \in 1 .. below
    <3>1. i \in 2 .. Len(stack') /\ stack'[i] = stack[i]
      BY <2>2, <1>1, <1>2, <1>8
    <3> QED
      BY <2>1, <3>1
  <2>3. CASE i \notin 1 .. below
    <3> DEFINE j == i - below
    <3>1. /\ below = Len(stack) - RuleLength(r) /\ Len(stack) \in Nat
          /\ RuleLength(r) \in 1 .. 3 /\ below \in 1 .. Len(stack) - 1
      BY <1>1, <1>2, <1>7
    <3>2. j \in 1 .. RuleLength(r) /\ below + j = i
      BY <2>3, <3>1
    <3> HIDE DEF j
    <3>3. Within(stack[i].location, loc)
      BY <3>2, <1>5, <1>7
    <3>4. tokens[k] \in Token /\ stack[i] \in Entry
      BY <1>1
    <3>5. tokens[k].location \in Location /\ stack[i].location \in Location
      BY <3>4 DEF Token, Entry
    <3>6. Within(tokens[k].location, loc)
      BY <2>1, <3>3, <3>5, <1>7, WithinTransitive
    <3>7. below + 1 \in 2 .. Len(stack') /\ stack'[below + 1].location = loc
      BY <3>1, <1>2, <1>8
    <3> QED
      BY <3>6, <3>7
  <2> QED
    BY <2>2, <2>3
<1>14. /\ \A id \in 1 .. Len(arena) : arena'[id] = arena[id]
       /\ \A id \in 1 .. Len(arena') : SignRight(arena'[id])
  <2>1. /\ ExtendsSigned(arena, arena') /\ Len(arena') \in Nat
        /\ \A id \in 1 .. Len(arena) : arena'[id] = arena[id]
    BY <1>3, <1>4 DEF MadeSigned, ExtendsSigned, Extends
  <2>2. ASSUME NEW id \in 1 .. Len(arena')
        PROVE  SignRight(arena'[id])
    <3>1. CASE id \in 1 .. Len(arena)
      BY <3>1, <2>1, <1>1 DEF SignsRight
    <3>2. CASE id \in Len(arena) + 1 .. Len(arena')
      BY <3>2, <2>1 DEF ExtendsSigned
    <3> QED
      BY <3>1, <3>2, <1>1, <2>1
  <2> QED
    BY <2>1, <2>2
<1>15. SignsRight'
  BY <1>14, Zenon DEF SignsRight, SignRight, SignsWithin, IsNumeral
<1>16. MinusesFolded'
  <2> SUFFICES ASSUME NEW i \in 2 .. Len(stack'),
                      AccessingSymbol(stack'[i].state) \in Nonterminals,
                      IsNumeral(arena'[stack'[i].node])
               PROVE  MinusesWithin(stack'[i].location)
                        = MinusesWithin(arena'[stack'[i].node].location)
    BY Zenon DEF MinusesFolded, SignsFolded, MinusesWithin, IsNumeral
  <2>1. CASE i = below + 1
    BY <2>1, <1>2, <1>3, <1>4, <1>8 DEF MadeSigned
  <2>2. CASE i # below + 1
    <3>1. i \in 2 .. Len(stack) /\ stack'[i] = stack[i]
      BY <2>2, <1>9
    <3>2. stack[i].node \in 1 .. Len(arena)
      BY <3>1, <1>1 DEF ValuesMatchSymbols
    <3>3. arena'[stack[i].node] = arena[stack[i].node]
      BY <3>2, <1>14
    <3> QED
      BY <3>1, <3>3, <1>1 DEF MinusesFolded, SignsFolded
  <2> QED
    BY <2>1, <2>2
<1> QED
  BY <1>10, <1>11, <1>12, <1>13, <1>15, <1>16 DEF SignInvariant

LEMMA RecoverySigns ==
  ASSUME ParserInvariant, SignInvariant, SyntaxError \/ Unwind \/ Abort
  PROVE  SignInvariant'
<1>1. UNCHANGED << arena, lexer, tokens >> /\ phase' # "parsing"
  <2>1. UNCHANGED << arena, lexer, tokens >>
    BY DEF SyntaxError, Unwind, Abort
  <2>2. phase' \in {"recovering", "aborted"}
    BY DEF SyntaxError, Unwind, Abort
  <2> QED
    BY <2>1, <2>2
<1>2. /\ Len(stack') \in Nat /\ Len(stack) \in Nat /\ Len(stack') <= Len(stack)
      /\ \A i \in 1 .. Len(stack') : stack'[i] = stack[i]
  <2>1. stack \in Seq(Entry) /\ Len(stack) \in Nat
    BY DEF ParserInvariant, TypeOK
  <2>2. CASE Unwind
    BY <2>1, <2>2, UnwindPops
  <2>3. CASE SyntaxError \/ Abort
    BY <2>1, <2>3 DEF SyntaxError, Abort
  <2> QED
    BY <2>2, <2>3
<1>3. SymbolsApart'
  BY <1>2 DEF SignInvariant, SymbolsApart
<1>4. TokensKeepPlace' /\ MinusesFolded'
  <2>1. TokensKeepPlace'
    BY <1>1, <1>2 DEF SignInvariant, TokensKeepPlace
  <2>2. ASSUME NEW i \in 2 .. Len(stack'),
               AccessingSymbol(stack'[i].state) \in Nonterminals
        PROVE  SignsFolded(i)'
    <3>1. i \in 2 .. Len(stack) /\ stack'[i] = stack[i]
      BY <1>2
    <3>2. SignsFolded(i)
      BY <2>2, <3>1 DEF SignInvariant, MinusesFolded
    <3> QED
      BY <1>1, <3>1, <3>2, Zenon DEF SignsFolded, MinusesWithin
  <2> QED
    BY <2>1, <2>2 DEF MinusesFolded
<1>5. TokensInOrder' /\ SignsOfLexemes' /\ SignsRight'
  BY <1>1 DEF SignInvariant, TokensInOrder, SignsOfLexemes, SignsRight,
     SignRight, SignsWithin
<1> QED
  BY <1>1, <1>3, <1>4, <1>5 DEF SignInvariant, MinusesCovered

LEMMA NextSigns ==
  ASSUME ParserInvariant, SpanInvariant, SignInvariant, [Next]_vars
  PROVE  SignInvariant'
<1>1. CASE UNCHANGED vars
  <2>1. UNCHANGED << stack, arena, lexer, tokens, phase, yytoken >>
    BY <1>1 DEF vars
  <2>2. (TokensInOrder /\ SignsOfLexemes /\ SymbolsApart /\ TokensKeepPlace)'
    BY <2>1 DEF SignInvariant, TokensInOrder, SignsOfLexemes, SymbolsApart,
       TokensKeepPlace
  <2>3. (MinusesCovered /\ SignsRight)'
    BY <2>1 DEF SignInvariant, MinusesCovered, SignsRight, SignRight,
       SignsWithin
  <2>4. MinusesFolded'
    BY <2>1 DEF SignInvariant, MinusesFolded, SignsFolded, MinusesWithin
  <2> QED
    BY <2>2, <2>3, <2>4 DEF SignInvariant
<1>2. CASE ReduceWithoutToken
  BY <1>2, ReductionStates, ReduceSigns DEF ReduceWithoutToken
<1>3. CASE ReduceOnToken
  BY <1>3, ReductionStates, ReduceSigns DEF ReduceOnToken, NoTableAction
<1>4. CASE Step
  BY <1>2, <1>3, <1>4, YylexSigns, ShiftSigns, RecoverySigns DEF Step
<1> QED
  BY <1>1, <1>4 DEF Next, Stopped

LEMMA SignsAreSafe == Spec => []SignInvariant
<1>1. Init => SignInvariant
  BY InitSigns
<1>2. ParserInvariant /\ SpanInvariant /\ SignInvariant /\ [Next]_vars
        => SignInvariant'
  BY NextSigns
<1> QED
  BY <1>1, <1>2, ParserIsSafe, SpansAreSafe, PTL DEF Spec

\* Whatever the input: a numeral is negative iff an odd number of minus
\* signs within its span was folded into it; an exponent written as a
\* superscript keeps its own sign.
THEOREM SignsCorrect == Spec => []SignParity
<1>1. SignInvariant => SignParity
  BY Zenon DEF SignInvariant, SignsRight, SignRight, IsNumeral, SignParity
<1> QED
  BY <1>1, SignsAreSafe, PTL

(***************************************************************************)
(* No span is empty.  A lexeme has a byte or more, and the span of a node  *)
(* is that of a lexeme or of a handle; a handle contains a lexeme, or a    *)
(* node that has a span.  Only the end of the input covers no byte.        *)
(***************************************************************************)
Covers(loc) == loc.start < loc.end /\ loc.end <= lexer.offset

LexemesCover ==
  \A k \in 1 .. Len(tokens) :
    tokens[k].type # YYEOF => Covers(tokens[k].location)

NodesCover ==
  \A id \in 1 .. Len(arena) :
    arena[id].has_location => Covers(arena[id].location)

RootCovers == root # NoNode => arena[root].has_location

CoverInvariant == LexemesCover /\ NodesCover /\ RootCovers

\* The nodes that a maker adds have their spans in S.
AddsSpans(nodes, new, S) ==
  /\ new \in Seq(Node)
  /\ Len(nodes) <= Len(new)
  /\ \A id \in Len(nodes) + 1 .. Len(new) :
       new[id].has_location => new[id].location \in S

LEMMA AppendAddsSpan ==
  ASSUME NEW nodes \in Seq(Node), NEW new, NEW S, AddsSpans(nodes, new, S),
         NEW node \in Node, node.has_location => node.location \in S
  PROVE  AddsSpans(nodes, Append(new, node), S)
<1> DEFINE longer == Append(new, node)
<1>1. /\ new \in Seq(Node) /\ Len(new) \in Nat /\ Len(nodes) \in Nat
      /\ Len(nodes) <= Len(new)
  BY DEF AddsSpans
<1>2. /\ longer \in Seq(Node) /\ Len(longer) = Len(new) + 1
      /\ \A i \in 1 .. Len(new) : longer[i] = new[i]
      /\ longer[Len(new) + 1] = node
  BY <1>1, AppendProperties
<1> HIDE DEF longer
<1>3. ASSUME NEW id \in Len(nodes) + 1 .. Len(longer), longer[id].has_location
      PROVE  longer[id].location \in S
  <2>1. CASE id = Len(new) + 1
    BY <2>1, <1>2, <1>3
  <2>2. CASE id # Len(new) + 1
    <3>1. id \in 1 .. Len(new) /\ id \in Len(nodes) + 1 .. Len(new)
      BY <2>2, <1>1, <1>2
    <3> QED
      BY <3>1, <1>2, <1>3 DEF AddsSpans
  <2> QED
    BY <2>1, <2>2
<1> QED
  BY <1>1, <1>2, <1>3 DEF AddsSpans, longer

LEMMA SameAddsSpans ==
  ASSUME NEW nodes \in Seq(Node), NEW S
  PROVE  AddsSpans(nodes, nodes, S)
  BY DEF AddsSpans

LEMMA MakeLeafSpan ==
  ASSUME NEW nodes \in Seq(Node), NEW kind \in LeafKinds, NEW token \in Nat,
         NEW negative \in BOOLEAN, NEW loc \in Location, NEW S, loc \in S
  PROVE  AddsSpans(nodes, MakeLeaf(nodes, kind, token, negative, loc).arena, S)
<1> DEFINE leaf == LeafNode(kind, token, negative, loc)
<1>1. leaf \in Node
  BY LeafNodeType
<1>2. leaf.location = loc
  BY DEF LeafNode
<1>3. MakeLeaf(nodes, kind, token, negative, loc).arena = Append(nodes, leaf)
  BY DEF MakeLeaf, Made
<1> HIDE DEF leaf
<1> QED
  BY <1>1, <1>2, <1>3, SameAddsSpans, AppendAddsSpan

LEMMA MakeBinarySpan ==
  ASSUME NEW nodes \in Seq(Node), NEW new, NEW S, AddsSpans(nodes, new, S),
         NEW kind \in BinaryKinds, NEW left \in Nat, NEW right \in Nat,
         NEW loc \in Location, loc \in S
  PROVE  AddsSpans(nodes, MakeBinary(new, kind, left, right, loc).arena, S)
<1> DEFINE node == BinaryNode(kind, left, right, loc)
<1>1. node \in Node
  BY BinaryNodeType
<1>2. node.location = loc
  BY DEF BinaryNode
<1>3. MakeBinary(new, kind, left, right, loc).arena = Append(new, node)
  BY DEF MakeBinary, Made
<1> HIDE DEF node
<1> QED
  BY <1>1, <1>2, <1>3, AppendAddsSpan

LEMMA MakeNegationSpan ==
  ASSUME NEW nodes \in Seq(Node), NEW node \in 1 .. Len(nodes),
         NEW loc \in Location, NEW S, loc \in S
  PROVE  AddsSpans(nodes, MakeNegation(nodes, node, loc).arena, S)
<1>1. nodes[node] \in Node
  OBVIOUS
<1>2. CASE nodes[node].kind \in NumeralKinds
  <2>1. nodes[node].kind \in LeafKinds
    BY <1>2 DEF NumeralKinds, LeafKinds
  <2>2. nodes[node].token \in Nat /\ NegatedSign(nodes[node].negative) \in BOOLEAN
    BY <1>1 DEF Node, NegatedSign
  <2> QED
    BY <1>2, <2>1, <2>2, MakeLeafSpan DEF MakeNegation
<1>3. CASE nodes[node].kind \notin NumeralKinds
  <2> DEFINE new == Append(nodes, MinusOne)
  <2>1. MinusOne \in Node /\ MinusOne.has_location = FALSE
    BY DEF MinusOne, LeafNode, Node, LeafKinds, Location, NoLocation, NoNode
  <2>2. AddsSpans(nodes, new, S)
    BY <2>1, SameAddsSpans, AppendAddsSpan
  <2>3. MakeNegation(nodes, node, loc)
          = MakeBinary(new, "mul", NegationFactor(nodes), node, loc)
    BY <1>3 DEF MakeNegation, new
  <2>4. "mul" \in BinaryKinds /\ node \in Nat /\ NegationFactor(nodes) \in Nat
    BY DEF BinaryKinds, NegationFactor
  <2> HIDE DEF new
  <2> QED
    BY <2>2, <2>3, <2>4, MakeBinarySpan
<1> QED
  BY <1>2, <1>3

LEMMA MakePowerSpan ==
  ASSUME NEW nodes \in Seq(Node), NEW base \in Nat, NEW token \in Nat,
         NEW negative \in BOOLEAN, NEW tokenLoc \in Location,
         NEW loc \in Location, NEW S, loc \in S, tokenLoc \in S
  PROVE  AddsSpans(nodes,
                   MakePower(nodes, base, token, negative, tokenLoc, loc).arena, S)
<1> DEFINE new == MakeLeaf(nodes, "integer", token, negative, tokenLoc).arena
<1>1. "integer" \in LeafKinds /\ "pow" \in BinaryKinds /\ Len(nodes) + 1 \in Nat
  BY DEF LeafKinds, BinaryKinds
<1>2. AddsSpans(nodes, new, S)
  BY <1>1, MakeLeafSpan
<1>3. MakePower(nodes, base, token, negative, tokenLoc, loc)
        = MakeBinary(new, "pow", base, Len(nodes) + 1, loc)
  BY DEF MakePower
<1> HIDE DEF new
<1> QED
  BY <1>1, <1>2, <1>3, MakeBinarySpan

\* No reduction takes the end of the input: only the accepting state is
\* entered by it.
LEMMA RuleSymbols ==
  /\ RuleLength(1) = 2 /\ RuleRhs[1][2] = YYEOF
  /\ \A r \in Rules \ {1} :
       \A k \in 1 .. RuleLength(r) :
         RuleRhs[r][k] \in (Terminals \cup Nonterminals) \ {YYEOF}
  BY SMTT(60) DEF RuleRhs, RuleLength, yyr2, Rules, YYNRULES,
     Terminals, Nonterminals, YYNTOKENS, N_identifier, T_SUB, T_ADD, T_DOT, T_MUL,
     T_DIV, T_POW, T_AT, N_power_exp, N_product_exp,
     T_SUPERSCRIPT_INTEGER, N_unary_exp, N_number, N_simple, T_INTEGER,
     T_FLOAT, T_IDENTIFIER, N_exp, N_start, YYEOF, N_additive_exp,
     N_signed_number, T_LEFT_PAREN, T_RIGHT_PAREN

LEMMA HandleHasNoEnd ==
  ASSUME ParserInvariant, yystate \in ReducingStates,
         NEW r, r = DefaultReduction(yystate)
  PROVE  \A k \in 1 .. RuleLength(r) :
           RuleRhs[r][k] \in (Terminals \cup Nonterminals) \ {YYEOF}
<1>1. /\ stack \in Seq(Entry) /\ stack # << >> /\ StackIsPath
  BY DEF ParserInvariant, TypeOK
<1>2. r \in Rules /\ RuleLength(r) \in 1 .. 3
  BY ReducingRule
<1>3. r # 1
  <2> SUFFICES ASSUME r = 1 PROVE FALSE
    OBVIOUS
  <2>1. RuleLength(r) = 2 /\ RuleRhs[r][2] = YYEOF
    BY RuleSymbols
  <2>2. AccessingSymbol(stack[Len(stack) - 2 + 2].state) = YYEOF
    BY <1>1, <2>1, HandleOnStack
  <2>3. AccessingSymbol(yystate) = YYEOF
    BY <1>1, <2>2 DEF yystate, Top
  <2> QED
    BY <2>3, ReducingRule, TablesAreConsistent
       DEF LrConsistent, FinalStateIsAcceptance
<1> QED
  BY <1>2, <1>3, RuleSymbols

LEMMA HandleCovers ==
  ASSUME ParserInvariant, SpanInvariant, SignInvariant, CoverInvariant,
         yystate \in ReducingStates, NEW r, r = DefaultReduction(yystate),
         NEW k \in 1 .. RuleLength(r)
  PROVE  Covers(Handle(r)[k].location)
<1> DEFINE entry == Handle(r)[k]
           i == Len(stack) - RuleLength(r) + k
<1>1. RuleRhs[r][k] \in (Terminals \cup Nonterminals) \ {YYEOF}
  BY HandleHasNoEnd
<1>2. /\ entry \in Entry /\ entry = stack[i]
      /\ RuleRhs[r][k] \in Nonterminals => entry.node \in 1 .. Len(arena)
  BY HandleValues
<1>3. i \in 1 .. Len(stack)
  <2>1. stack \in Seq(Entry) /\ stack # << >> /\ StackIsPath /\ Len(stack) \in Nat
    BY DEF ParserInvariant, TypeOK
  <2>2. RuleLength(r) \in 1 .. 3 /\ Len(stack) - RuleLength(r) \in 1 .. Len(stack) - 1
    BY <2>1, ReducingRule, HandleOnStack
  <2> QED
    BY <2>1, <2>2
<1> HIDE DEF i
<1>4. entry.location.end <= lexer.offset
  BY <1>2, <1>3 DEF SpanInvariant, StackInInputOrder
<1>5. CASE RuleRhs[r][k] \in Terminals
  <2>1. /\ entry.token \in 1 .. Len(tokens)
        /\ tokens[entry.token].type # YYEOF
        /\ tokens[entry.token].location = entry.location
    BY <1>1, <1>5, HandleToken
  <2> QED
    BY <2>1 DEF CoverInvariant, LexemesCover
<1>6. CASE RuleRhs[r][k] \in Nonterminals
  <2>1. /\ arena[entry.node].has_location
        /\ Within(arena[entry.node].location, entry.location)
    BY <1>6, HandleSpans
  <2>2. Covers(arena[entry.node].location)
    <3> HIDE DEF entry
    <3> QED
      BY <1>2, <1>6, <2>1, Zenon DEF CoverInvariant, NodesCover
  <2>3. arena[entry.node].location \in Location /\ entry.location \in Location
    <3>1. arena \in Seq(Node)
      BY DEF ParserInvariant, TypeOK
    <3>2. arena[entry.node] \in Node
      BY <1>2, <1>6, <3>1
    <3> QED
      BY <1>2, <3>2 DEF Node, Entry
  <2> HIDE DEF entry
  <2> DEFINE inner == arena[entry.node].location
             outer == entry.location
  <2>4. /\ inner \in Location /\ outer \in Location /\ Within(inner, outer)
        /\ inner.start < inner.end /\ outer.end <= lexer.offset
    BY <1>4, <2>1, <2>2, <2>3, Zenon DEF Covers
  <2> HIDE DEF inner, outer
  <2>5. Covers(outer)
    BY <2>4 DEF Covers, Within, Location
  <2> QED
    BY <2>5 DEF outer, entry
<1> QED
  BY <1>1, <1>5, <1>6

LEMMA SemanticActionSpans ==
  ASSUME ParserInvariant, SpanInvariant, SignInvariant, CoverInvariant,
         yystate \in ReducingStates, NEW r, r = DefaultReduction(yystate)
  PROVE  LET loc == CommonLocation(Handle(r))
         IN  AddsSpans(arena, SemanticAction(r, Handle(r), loc).arena,
                       {l \in Location : Covers(l)})
<1> DEFINE rhs   == Handle(r)
           loc   == CommonLocation(rhs)
           first == rhs[1]
           last  == rhs[Len(rhs)]
           made  == SemanticAction(r, rhs, loc)
           S     == {l \in Location : Covers(l)}
<1>1. /\ arena \in Seq(Node) /\ tokens \in Seq(Token) /\ ActionsFitRules
      /\ Len(arena) \in Nat
  BY ActionsConsistent DEF ParserInvariant, TypeOK
<1>2. /\ r \in Rules /\ RuleLength(r) \in 1 .. 3 /\ Len(rhs) = RuleLength(r)
      /\ loc \in Location
  BY ReducingRule, HandleValues
<1>3. 1 \in 1 .. RuleLength(r) /\ RuleLength(r) \in 1 .. RuleLength(r)
  BY <1>2
<1>4. /\ first \in Entry /\ last \in Entry
      /\ RuleRhs[r][1] \in Nonterminals => first.node \in 1 .. Len(arena)
      /\ RuleRhs[r][RuleLength(r)] \in Nonterminals => last.node \in 1 .. Len(arena)
      /\ RuleRhs[r][1] \in Terminals => first.token \in 1 .. Len(tokens)
      /\ RuleRhs[r][RuleLength(r)] \in Terminals => last.token \in 1 .. Len(tokens)
  BY <1>2, <1>3, HandleValues
<1>5. Covers(first.location) /\ Covers(last.location)
  BY <1>2, <1>3, HandleCovers
<1>6. /\ loc.start = first.location.start /\ loc.end = last.location.end
      /\ Within(first.location, loc)
  BY <1>3, HandleSpans DEF CommonLocation
<1> HIDE DEF rhs, loc
<1>7. first.location \in S /\ last.location \in S /\ loc \in S
  <2>1. first.location \in Location /\ last.location \in Location
    BY <1>4 DEF Entry
  <2>2. Covers(loc)
    BY <1>2, <1>5, <1>6, <2>1 DEF Covers, Within, Location
  <2> QED
    BY <1>2, <1>5, <2>1, <2>2
<1>8. first.location \in Location /\ last.location \in Location
  BY <1>7
<1> HIDE DEF S
<1>9. CASE r \in LeafRules
  <2>1. LeafKind(r) \in LeafKinds
    BY DEF LeafKind, LeafKinds
  <2>2. made = MakeLeaf(arena, LeafKind(r), first.token, FALSE, first.location)
    <3>1. r \notin BinaryRules /\ r \notin {13, 24} /\ r # 20
      BY <1>9 DEF BinaryRules, LeafRules
    <3> QED
      BY <1>9, <3>1, Zenon DEF SemanticAction
  <2>3. first.token \in Nat
    BY <1>4 DEF Entry
  <2> HIDE DEF made, first
  <2>4. AddsSpans(arena, made.arena, S)
    BY <1>1, <1>7, <1>8, <2>1, <2>2, <2>3, MakeLeafSpan
  <2> QED
    BY <2>4 DEF made, rhs, loc, S
<1>10. CASE r \in BinaryRules
  <2>1. BinaryKind(r) \in BinaryKinds
    BY DEF BinaryKind, BinaryKinds
  <2>2. made = MakeBinary(arena, BinaryKind(r), first.node, last.node, loc)
    BY <1>10 DEF SemanticAction, BinaryRules, LeafRules
  <2>3. first.node \in Nat /\ last.node \in Nat
    BY <1>4 DEF Entry
  <2> HIDE DEF made, first, last
  <2>4. AddsSpans(arena, made.arena, S)
    BY <1>1, <1>2, <1>7, <2>1, <2>2, <2>3, SameAddsSpans, MakeBinarySpan
  <2> QED
    BY <2>4 DEF made, rhs, loc, S
<1>11. CASE r \in {13, 24}
  <2>1. made = MakeNegation(arena, last.node, loc)
    BY <1>11 DEF SemanticAction, BinaryRules, LeafRules
  <2>2. last.node \in 1 .. Len(arena)
    BY <1>1, <1>2, <1>4, <1>11 DEF ActionsFitRules, LeafRules, BinaryRules
  <2> HIDE DEF made, last
  <2>4. AddsSpans(arena, made.arena, S)
    BY <1>1, <1>2, <1>7, <2>1, <2>2, MakeNegationSpan
  <2> QED
    BY <2>4 DEF made, rhs, loc, S
<1>12. CASE r = 20
  <2>1. made = MakePower(arena, first.node, last.token,
                         tokens[last.token].negative, last.location, loc)
    BY <1>12 DEF SemanticAction, BinaryRules, LeafRules
  <2>2. last.token \in 1 .. Len(tokens)
    BY <1>1, <1>2, <1>4, <1>12 DEF ActionsFitRules, LeafRules, BinaryRules
  <2>3. /\ first.node \in Nat /\ last.token \in Nat
        /\ tokens[last.token].negative \in BOOLEAN
    <3>1. tokens[last.token] \in Token
      BY <1>1, <2>2
    <3> QED
      BY <1>4, <3>1 DEF Entry, Token
  <2> HIDE DEF made, first, last
  <2>4. AddsSpans(arena, made.arena, S)
    BY <1>1, <1>2, <1>7, <1>8, <2>1, <2>3, MakePowerSpan
  <2> QED
    BY <2>4 DEF made, rhs, loc, S
<1>13. CASE r \notin LeafRules \cup BinaryRules \cup {13, 20, 24}
  <2>1. made = [arena |-> arena, node |-> PassedNode(r, rhs)]
    BY <1>13 DEF SemanticAction
  <2>2. made.arena = arena
    BY <2>1
  <2> HIDE DEF made
  <2>3. AddsSpans(arena, made.arena, S)
    BY <1>1, <2>2, SameAddsSpans
  <2> QED
    BY <2>3 DEF made, rhs, loc, S
<1> QED
  BY <1>9, <1>10, <1>11, <1>12, <1>13

(***************************************************************************)
(* The steps.                                                              *)
(***************************************************************************)
LEMMA InitCovers ==
  ASSUME Init
  PROVE  CoverInvariant
<1>1. Len(arena) = 0 /\ Len(tokens) = 0 /\ root = NoNode
  BY DEF Init
<1> QED
  BY <1>1 DEF CoverInvariant, LexemesCover, NodesCover, RootCovers

\* A lexeme has at least one byte.
LEMMA LexemeNotEmpty ==
  ASSUME TypeOK, NEW type \in TokenKinds, NEW loc \in TokenLocations(type)
  PROVE  loc \in Location /\ loc.start < loc.end
<1>1. lexer.offset \in Nat /\ Separation(type) \in Nat
  BY DEF TypeOK, LexerContexts, Separation
<1>2. TokenBytes(type) \subseteq Nat \ {0}
  <2>1. LexemeBytes \subseteq Nat \ {0}
    BY InputAssumption
  <2>2. CASE type \in SizedTokens
    BY <2>1, <2>2 DEF TokenBytes
  <2>3. CASE type \notin SizedTokens
    <3>1. TokenBytes(type) \in {{1, 2}, {3}, {1}}
      BY <2>3 DEF TokenBytes, T_MUL, T_INVALID_SUPERSCRIPT, SizedTokens,
         T_IDENTIFIER, T_INTEGER, T_FLOAT, T_SUPERSCRIPT_INTEGER, T_INVALID_NUMBER
    <3> QED
      BY <3>1
  <2> QED
    BY <2>2, <2>3
<1>3. PICK gap \in Gaps, bytes \in TokenBytes(type) :
        loc = [start |-> lexer.offset + Separation(type) + gap,
               end   |-> lexer.offset + Separation(type) + gap + bytes]
  BY DEF TokenLocations
<1>4. gap \in Nat /\ bytes \in Nat \ {0}
  BY <1>2, InputAssumption
<1> QED
  BY <1>1, <1>3, <1>4 DEF Location

\* Reading a token that ends where the scanner is now.
LEMMA ReadCovers ==
  ASSUME ParserInvariant, CoverInvariant, NEW token \in Token,
         token.type # YYEOF => token.location.start < token.location.end,
         lexer'.offset = token.location.end,
         lexer.offset <= lexer'.offset,
         tokens' = Append(tokens, token),
         UNCHANGED << arena, root >>
  PROVE  CoverInvariant'
<1>1. /\ tokens \in Seq(Token) /\ arena \in Seq(Node) /\ lexer.offset \in Nat
      /\ Len(tokens) \in Nat
  BY DEF ParserInvariant, TypeOK, LexerContexts
<1>2. /\ Len(tokens') = Len(tokens) + 1 /\ tokens'[Len(tokens) + 1] = token
      /\ \A k \in 1 .. Len(tokens) : tokens'[k] = tokens[k]
  BY <1>1, AppendProperties
<1>3. ASSUME NEW loc \in Location, Covers(loc)
      PROVE  loc.start < loc.end /\ loc.end <= lexer'.offset
  <2>1. token.location \in Location
    BY DEF Token
  <2> QED
    BY <1>1, <1>3, <2>1 DEF Covers, Location
<1>4. LexemesCover'
  <2> SUFFICES ASSUME NEW k \in 1 .. Len(tokens'), tokens'[k].type # YYEOF
               PROVE  /\ tokens'[k].location.start < tokens'[k].location.end
                      /\ tokens'[k].location.end <= lexer'.offset
    BY DEF LexemesCover, Covers
  <2>1. CASE k = Len(tokens) + 1
    <3>1. token.location \in Location
      BY DEF Token
    <3> QED
      BY <2>1, <3>1, <1>2 DEF Location
  <2>2. CASE k # Len(tokens) + 1
    <3>1. k \in 1 .. Len(tokens) /\ tokens'[k] = tokens[k]
      BY <2>2, <1>1, <1>2
    <3>2. tokens[k].location \in Location
      <4>1. tokens[k] \in Token
        BY <3>1, <1>1
      <4> QED
        BY <4>1 DEF Token
    <3>3. Covers(tokens[k].location)
      BY <3>1 DEF CoverInvariant, LexemesCover
    <3> QED
      BY <1>3, <3>1, <3>2, <3>3
  <2> QED
    BY <2>1, <2>2
<1>5. NodesCover'
  <2> SUFFICES ASSUME NEW id \in 1 .. Len(arena), arena[id].has_location
               PROVE  /\ arena[id].location.start < arena[id].location.end
                      /\ arena[id].location.end <= lexer'.offset
    BY DEF NodesCover, Covers
  <2>1. arena[id].location \in Location
    <3>1. arena[id] \in Node
      BY <1>1
    <3> QED
      BY <3>1 DEF Node
  <2>2. Covers(arena[id].location)
    BY DEF CoverInvariant, NodesCover
  <2> QED
    BY <1>3, <2>1, <2>2
<1>6. RootCovers'
  BY DEF CoverInvariant, RootCovers
<1> QED
  BY <1>4, <1>5, <1>6 DEF CoverInvariant

LEMMA YylexCovers ==
  ASSUME ParserInvariant, CoverInvariant, Yylex
  PROVE  CoverInvariant'
<1>1. TypeOK
  BY DEF ParserInvariant
<1>2. ASSUME NEW type \in TokenKinds, NEW loc \in TokenLocations(type),
             \/ \E negative \in LexemeSigns(type) : ReadToken(type, loc, negative)
             \/ ReadOverLimit(type, loc)
      PROVE  CoverInvariant'
  <2>1. /\ loc \in Location /\ lexer.offset <= loc.start /\ loc.start < loc.end
    BY <1>1, TokenLocationType, LexemeNotEmpty
  <2>2. ScannedContext(type, loc).offset = loc.end
    BY <1>1, <2>1, ScannedContextType
  <2>3. type \in Terminals /\ YYerror \in Terminals
    BY InputAssumption DEF LexemeTokens, Terminals, YYNTOKENS, T_INTEGER,
                           T_INVALID_NUMBER, YYerror
  <2>4. PICK t \in Terminals, negative \in BOOLEAN :
          tokens' = Append(tokens, [type |-> t, location |-> loc,
                                    negative |-> negative])
    <3>1. CASE \E negative \in LexemeSigns(type) : ReadToken(type, loc, negative)
      BY <3>1, <2>3 DEF ReadToken, LexemeSigns
    <3>2. CASE ReadOverLimit(type, loc)
      BY <3>2, <2>3 DEF ReadOverLimit
    <3> QED
      BY <1>2, <3>1, <3>2
  <2>5. UNCHANGED << arena, root >> /\ lexer' = ScannedContext(type, loc)
    BY <1>2 DEF ReadToken, ReadOverLimit
  <2> DEFINE token == [type |-> t, location |-> loc, negative |-> negative]
  <2>6. token \in Token /\ token.location = loc
    BY <2>1 DEF Token
  <2> HIDE DEF token
  <2>7. tokens' = Append(tokens, token)
    BY <2>4 DEF token
  <2>8. /\ lexer'.offset = loc.end /\ lexer.offset <= lexer'.offset
    <3>1. lexer.offset \in Nat
      BY <1>1 DEF TypeOK, LexerContexts
    <3> QED
      BY <2>1, <2>2, <2>5, <3>1 DEF Location
  <2> QED
    BY <2>1, <2>5, <2>6, <2>7, <2>8, ReadCovers
<1>3. ASSUME NEW loc \in EndLocations, ReadEnd(loc)
      PROVE  CoverInvariant'
  <2> DEFINE token == [type |-> YYEOF, location |-> loc, negative |-> FALSE]
  <2>1. loc \in Location /\ lexer.offset <= loc.start /\ loc.start <= loc.end
    BY <1>1, EndLocationType
  <2>2. /\ lexer'.offset = loc.end /\ lexer.offset <= lexer'.offset
    <3>1. lexer' = [lexer EXCEPT !.offset = loc.end] /\ lexer \in LexerContexts
      BY <1>1, <1>3 DEF ReadEnd, TypeOK
    <3>2. lexer'.offset = loc.end /\ lexer.offset \in Nat
      BY <3>1 DEF LexerContexts
    <3> QED
      BY <2>1, <3>2 DEF Location
  <2>3. YYEOF \in Terminals
    BY DEF Terminals, YYNTOKENS, YYEOF
  <2>4. token \in Token /\ token.location = loc /\ token.type = YYEOF
    BY <2>1, <2>3 DEF Token
  <2>5. UNCHANGED << arena, root >> /\ tokens' = Append(tokens, token)
    BY <1>3 DEF ReadEnd
  <2> HIDE DEF token
  <2> QED
    BY <2>2, <2>4, <2>5, ReadCovers
<1> QED
  BY <1>2, <1>3 DEF Yylex

LEMMA ReduceCovers ==
  ASSUME ParserInvariant, SpanInvariant, SignInvariant, CoverInvariant,
         yystate \in ReducingStates, Reduce(DefaultReduction(yystate)),
         UNCHANGED << lexer, tokens >>
  PROVE  CoverInvariant'
<1> DEFINE r    == DefaultReduction(yystate)
           loc  == CommonLocation(Handle(r))
           made == SemanticAction(r, Handle(r), loc)
<1>1. /\ arena' = made.arena
      /\ root' = IF r = 2 THEN Handle(r)[1].node ELSE root
  BY DEF Reduce, Handle
<1>2. AddsSpans(arena, arena', {l \in Location : Covers(l)})
  BY <1>1, SemanticActionSpans
<1>3. ExtendsNested(arena, arena')
  BY <1>1, SemanticActionWithin DEF MadeWithin
<1>4. r = 2 => /\ Handle(r)[1].node \in 1 .. Len(arena)
               /\ arena[Handle(r)[1].node].has_location
  <2> SUFFICES ASSUME r = 2
               PROVE  /\ Handle(r)[1].node \in 1 .. Len(arena)
                      /\ arena[Handle(r)[1].node].has_location
    OBVIOUS
  <2>1. 1 \in 1 .. RuleLength(r) /\ r \in Rules
    BY ReducingRule
  <2>2. RuleRhs[r][1] \in Nonterminals
    BY <2>1, ActionsConsistent DEF ActionsFitRules, LeafRules, BinaryRules
  <2> QED
    BY <2>1, <2>2, HandleValues, HandleSpans
<1> DEFINE top == Handle(r)[1].node
<1> HIDE DEF made, loc, r, top
<1>5. /\ arena \in Seq(Node) /\ Len(arena) \in Nat /\ root \in 0 .. Len(arena)
      /\ arena' \in Seq(Node) /\ Len(arena) <= Len(arena') /\ Len(arena') \in Nat
      /\ \A id \in 1 .. Len(arena) : arena'[id] = arena[id]
  BY <1>3 DEF ParserInvariant, TypeOK, ExtendsNested, Extends
<1>6. LexemesCover'
  BY DEF CoverInvariant, LexemesCover, Covers
<1>7. NodesCover'
  <2> SUFFICES ASSUME NEW id \in 1 .. Len(arena'), arena'[id].has_location
               PROVE  Covers(arena'[id].location)
    BY DEF NodesCover, Covers
  <2>1. CASE id \in 1 .. Len(arena)
    BY <2>1, <1>5 DEF CoverInvariant, NodesCover
  <2>2. CASE id \in Len(arena) + 1 .. Len(arena')
    BY <2>2, <1>2 DEF AddsSpans
  <2> QED
    BY <1>5, <2>1, <2>2
<1>8. RootCovers'
  <2> SUFFICES ASSUME root' # NoNode PROVE arena'[root'].has_location
    BY DEF RootCovers
  <2>1. CASE r = 2
    <3>1. root' = top
      BY <1>1, <2>1 DEF top
    <3> QED
      BY <1>4, <1>5, <2>1, <3>1 DEF top
  <2>2. CASE r # 2
    <3>1. root' = root /\ root # NoNode
      BY <1>1, <2>2
    <3>2. root \in 1 .. Len(arena) /\ arena[root].has_location
      BY <1>5, <3>1 DEF CoverInvariant, RootCovers, NoNode
    <3> QED
      BY <1>5, <3>1, <3>2
  <2> QED
    BY <2>1, <2>2
<1> QED
  BY <1>6, <1>7, <1>8 DEF CoverInvariant

LEMMA NextCovers ==
  ASSUME ParserInvariant, SpanInvariant, SignInvariant, CoverInvariant, [Next]_vars
  PROVE  CoverInvariant'
<1>1. CASE Shift \/ SyntaxError \/ Unwind \/ Abort \/ UNCHANGED vars
  <2>1. UNCHANGED << lexer, tokens, arena, root >>
    BY <1>1 DEF Shift, SyntaxError, Unwind, Abort, vars
  <2> QED
    BY <2>1 DEF CoverInvariant, LexemesCover, NodesCover, RootCovers, Covers
<1>2. CASE ReduceWithoutToken
  BY <1>2, ReductionStates, ReduceCovers DEF ReduceWithoutToken
<1>3. CASE ReduceOnToken
  BY <1>3, ReductionStates, ReduceCovers DEF ReduceOnToken, NoTableAction
<1> QED
  BY <1>1, <1>2, <1>3, YylexCovers DEF Next, Step, Stopped
=============================================================================
