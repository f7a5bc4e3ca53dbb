--------------------------- MODULE YyparseTreeProofs ---------------------------
(***************************************************************************)
(* Proofs that the grammar of parser.y derives every stretch of tokens in  *)
(* one way at most, and that the tree yyparse builds for an accepted input *)
(* is that derivation, for every input, limit and depth.                   *)
(***************************************************************************)
EXTENDS YyparseOutcomeProofs, YyparseTrees

(***************************************************************************)
(* The cuts of a stretch of tokens.                                        *)
(***************************************************************************)
LEMMA DerivingRule ==
  ASSUME NEW r \in DerivingRules
  PROVE  /\ r \in Rules
         /\ Len(RuleRhs[r]) = RuleLength(r)
         /\ RuleLength(r) \in 1 .. 3
         /\ \A n \in 1 .. RuleLength(r) :
              RuleRhs[r][n] \in Terminals \cup (Nonterminals \ {N_accept})
<1>1. r \in Rules
  BY DEF DerivingRules
<1> QED
  BY <1>1, TablesAreConsistent, PrecedenceConsistent
     DEF LrConsistent, RulesConsistent, PartsCloser

LEMMA RuleOfGoal ==
  ASSUME NEW r \in Rules, RuleLhs(r) # N_accept
  PROVE  r \in DerivingRules
<1>1. RuleLhs(1) = N_accept
  BY SMT DEF RuleLhs, yyr1, N_accept
<1> QED
  BY <1>1 DEF DerivingRules

\* The borders of a cut are in order, and each symbol gets a token.
InOrder(cut, len, i, j) ==
  /\ cut[1] = i /\ cut[len + 1] = j + 1
  /\ \A n \in 1 .. len : /\ cut[n] \in i .. j /\ cut[n + 1] \in i + 1 .. j + 1
                         /\ cut[n] < cut[n + 1]

LEMMA CutInOrder ==
  ASSUME NEW input, NEW rhs, Len(rhs) \in 1 .. 3, NEW i \in Int, NEW j \in Int,
         NEW cut \in Cuts(input, rhs, i, j)
  PROVE  InOrder(cut, Len(rhs), i, j)
<1> DEFINE len == Len(rhs)
<1>1. cut \in Borders(len, i, j) /\ \A n \in 1 .. len : cut[n] < cut[n + 1]
  BY DEF Cuts
<1>2. len \in {1, 2, 3}
  BY SMT
<1> SUFFICES InOrder(cut, len, i, j)
  OBVIOUS
<1> HIDE DEF len
<1>3. CASE len = 1
  <2>1. cut = << i, j + 1 >>
    BY <1>1, <1>3 DEF Borders
  <2>2. cut[1] = i /\ cut[2] = j + 1
    BY <2>1
  <2> QED
    BY <1>1, <1>3, <2>2, SMT DEF InOrder
<1>4. CASE len = 2
  <2>1. PICK k \in i + 1 .. j : cut = << i, k, j + 1 >>
    BY <1>1, <1>4 DEF Borders
  <2>2. cut[1] = i /\ cut[2] = k /\ cut[3] = j + 1 /\ k \in i + 1 .. j
    BY <2>1
  <2>3. 1 \in 1 .. len /\ 2 \in 1 .. len /\ \A n \in 1 .. len : n = 1 \/ n = 2
    BY <1>4, SMT
  <2>4. cut[1] < cut[1 + 1] /\ cut[2] < cut[2 + 1]
    BY <1>1, <2>3, Zenon
  <2> QED
    BY <1>4, <2>2, <2>3, <2>4, SMT DEF InOrder
<1>5. CASE len = 3
  <2>1. PICK k \in i + 1 .. j, m \in i + 1 .. j : cut = << i, k, m, j + 1 >>
    BY <1>1, <1>5 DEF Borders
  <2>2. cut[1] = i /\ cut[2] = k /\ cut[3] = m /\ cut[4] = j + 1
        /\ k \in i + 1 .. j /\ m \in i + 1 .. j
    BY <2>1
  <2>3. 1 \in 1 .. len /\ 2 \in 1 .. len /\ 3 \in 1 .. len
        /\ \A n \in 1 .. len : n = 1 \/ n = 2 \/ n = 3
    BY <1>5, SMT
  <2>4. cut[1] < cut[1 + 1] /\ cut[2] < cut[2 + 1] /\ cut[3] < cut[3 + 1]
    BY <1>1, <2>3, Zenon
  <2> QED
    BY <1>5, <2>2, <2>3, <2>4, SMT DEF InOrder
<1> QED
  BY <1>2, <1>3, <1>4, <1>5

(***************************************************************************)
(* Every part of a goal is closer to the tokens.                           *)
(***************************************************************************)
Distance(goal) ==
  IF goal[2] > goal[3] THEN 0
  ELSE (goal[3] - goal[2]) * (YYNTOKENS + 1) + YYNTOKENS - Rank(goal[1])

Farthest(input) == Len(input) * (YYNTOKENS + 1) + YYNTOKENS

LEMMA DistanceType ==
  ASSUME NEW input, Len(input) \in Nat, NEW goal \in Goals(input)
  PROVE  Distance(goal) \in 0 .. Farthest(input)
<1>1. /\ goal[1] \in Nonterminals
      /\ goal[2] \in 1 .. Len(input) /\ goal[3] \in 1 .. Len(input)
  BY DEF Goals
<1>2. Rank(goal[1]) \in 0 .. YYNTOKENS
  BY <1>1, RankType
<1> DEFINE rank == Rank(goal[1])
           i == goal[2]
           j == goal[3]
           len == Len(input)
<1>3. i \in 1 .. len /\ j \in 1 .. len /\ rank \in 0 .. 19 /\ len \in Nat
  BY <1>1, <1>2 DEF YYNTOKENS
<1> SUFFICES (IF i > j THEN 0 ELSE (j - i) * (19 + 1) + 19 - rank)
               \in 0 .. len * (19 + 1) + 19
  BY DEF Distance, Farthest, YYNTOKENS
<1> HIDE DEF i, j, len, rank
<1> QED
  BY <1>3, SMT

LEMMA BetweenBorders ==
  \A high \in Nat : \A i, j \in 1 .. high : \A a \in i .. j : \A b \in i + 1 .. j + 1 :
    a < b => /\ a \in 1 .. high /\ b - 1 \in 1 .. high
             /\ b - 1 \in i .. j /\ a <= b - 1
  BY SMT

PartGoal(rhs, cut, n) == << rhs[n], cut[n], cut[n + 1] - 1 >>

LEMMA PartsAreCloser ==
  ASSUME NEW input, Len(input) \in Nat, NEW goal \in Goals(input),
         NEW r \in Rules, RuleLhs(r) = goal[1],
         NEW cut \in Cuts(input, RuleRhs[r], goal[2], goal[3]),
         NEW n \in 1 .. RuleLength(r), RuleRhs[r][n] \notin Terminals
  PROVE  /\ PartGoal(RuleRhs[r], cut, n) \in Goals(input)
         /\ Distance(PartGoal(RuleRhs[r], cut, n)) < Distance(goal)
<1> DEFINE i == goal[2]
           j == goal[3]
           part == PartGoal(RuleRhs[r], cut, n)
<1>1. /\ goal[1] \in Nonterminals \ {N_accept}
      /\ i \in 1 .. Len(input) /\ j \in 1 .. Len(input)
  BY DEF Goals
<1>2. r \in DerivingRules
  BY <1>1, RuleOfGoal
<1>3. /\ Len(RuleRhs[r]) = RuleLength(r) /\ RuleLength(r) \in 1 .. 3
      /\ RuleRhs[r][n] \in Nonterminals \ {N_accept}
  BY <1>2, DerivingRule
<1>4. InOrder(cut, RuleLength(r), i, j)
  <2>1. i \in Int /\ j \in Int /\ Len(RuleRhs[r]) \in 1 .. 3
    BY <1>1, <1>3
  <2> QED
    BY <2>1, <1>3, CutInOrder, Zenon
<1>5. /\ cut[n] \in i .. j /\ cut[n + 1] \in i + 1 .. j + 1 /\ cut[n] < cut[n + 1]
  BY <1>4, Zenon DEF InOrder
<1>6. part[1] = RuleRhs[r][n] /\ part[2] = cut[n] /\ part[3] = cut[n + 1] - 1
  BY DEF PartGoal
<1> DEFINE from == cut[n]
           to == cut[n + 1] - 1
           len == Len(input)
<1>14. /\ from \in 1 .. len /\ to \in 1 .. len
       /\ from \in i .. j /\ to \in i .. j /\ from <= to
  BY <1>1, <1>5, BetweenBorders, Zenon
<1>7. part \in Goals(input)
  BY <1>3, <1>14, Zenon DEF Goals, PartGoal
<1> DEFINE rank == Rank(goal[1])
           rankOfPart == Rank(part[1])
<1>8. rank \in 0 .. 19 /\ rankOfPart \in 0 .. 19
  BY <1>1, <1>3, <1>6, RankType DEF YYNTOKENS
<1>15. from \in i .. j /\ to \in i .. j /\ from <= to /\ i \in Int /\ j \in Int
  <2>1. \A k \in 1 .. len : k \in Int
    OBVIOUS
  <2> QED
    BY <1>1, <1>14, <2>1, Zenon
<1>9. Distance(part) = IF from > to THEN 0 ELSE (to - from) * (19 + 1) + 19 - rankOfPart
  BY <1>6 DEF Distance, YYNTOKENS
<1>10. Distance(goal) = IF i > j THEN 0 ELSE (j - i) * (19 + 1) + 19 - rank
  BY DEF Distance, YYNTOKENS
<1>16. (rank < rankOfPart /\ from = i /\ to = j) \/ to - from <= (j - i) - 1
       => Distance(part) < Distance(goal)
  <2> DEFINE wide == j - i
             narrow == to - from
             far == Distance(goal)
             near == Distance(part)
  <2> HIDE DEF part, i, j, rank, rankOfPart, from, to
  <2>1. near = narrow * 20 + 19 - rankOfPart /\ far = wide * 20 + 19 - rank
        /\ narrow \in Int /\ wide \in Int
    <3>1. ~ from > to /\ ~ i > j /\ narrow \in Int /\ wide \in Int /\ 19 + 1 = 20
      BY <1>15, SMT
    <3> QED
      BY <3>1, <1>9, <1>10, Zenon
  <2>2. (rank < rankOfPart /\ narrow = wide) \/ narrow <= wide - 1 => near < far
    <3> HIDE DEF wide, narrow, near, far
    <3> QED
      BY <2>1, <1>8, SMT
  <2>3. from = i /\ to = j => narrow = wide
    BY Zenon
  <2> QED
    BY <2>2, <2>3, Zenon
<1> HIDE DEF part, i, j
<1> DEFINE length == RuleLength(r)
<1>17. n \in 1 .. length /\ length \in 1 .. 3
  BY <1>3
<1> HIDE DEF length
<1>11. CASE RuleLength(r) = 1
  <2>1. n = 1 /\ from = i /\ to = j
    <3>1. n = 1
      BY <1>11, <1>17, SMT DEF length
    <3>2. cut[1] = i /\ cut[2] = j + 1
      BY <1>4, <1>11, SMT DEF InOrder
    <3> QED
      BY <3>1, <3>2, <1>15, SMT
  <2>2. Rank(goal[1]) < Rank(part[1])
    BY <2>1, <1>2, <1>6, <1>11, PrecedenceConsistent DEF PartsCloser
  <2> QED
    BY <2>1, <2>2, <1>7, <1>16, Zenon DEF part
<1>12. CASE RuleLength(r) # 1
  <2>1. to - from <= (j - i) - 1
    <3>1. CASE n = 1
      <4>1. 2 \in 1 .. RuleLength(r)
        BY <1>3, <1>12, SMT
      <4>2. cut[2] \in i .. j /\ cut[1] = i
        BY <1>4, <4>1, Zenon DEF InOrder
      <4>3. from = cut[1] /\ to = cut[2] - 1
        BY <3>1 DEF from, to
      <4> QED
        BY <4>2, <4>3, <1>15, SMT
    <3>2. CASE n # 1
      <4>1. from \in i + 1 .. j
        <5>1. n - 1 \in 1 .. length /\ (n - 1) + 1 = n
          BY <3>2, <1>17, SMT
        <5>2. cut[(n - 1) + 1] \in i + 1 .. j + 1
          BY <1>4, <5>1, Zenon DEF InOrder, length
        <5>3. from \in i + 1 .. j + 1
          BY <5>1, <5>2, Zenon
        <5> QED
          BY <5>3, <1>15, SMT
      <4> QED
        BY <4>1, <1>15, SMT
    <3> QED
      BY <3>1, <3>2
  <2> QED
    BY <2>1, <1>7, <1>16, Zenon DEF part
<1> QED
  BY <1>11, <1>12 DEF part

(***************************************************************************)
(* The trees of a goal depend on those of closer goals only; hence there   *)
(* is a function that satisfies the recursion.                             *)
(***************************************************************************)
AgreeBelow(f, g, input, goal) ==
  \A q \in Goals(input) : Distance(q) < Distance(goal) => f[q] = g[q]

SamePartTrees(f, input, g, other, rhs, cut) ==
  \A n \in 1 .. Len(rhs) :
    PartTrees(f, input, rhs, cut, n) = PartTrees(g, other, rhs, cut, n)

PhrasesAgree(f, input, g, other, rhs, cut) ==
  Phrases(f, input, rhs, cut) = Phrases(g, other, rhs, cut)

LEMMA PhrasesOfSameParts ==
  ASSUME NEW rhs, Len(rhs) \in 1 .. 3, NEW cut, NEW f, NEW input, NEW g, NEW other,
         SamePartTrees(f, input, g, other, rhs, cut)
  PROVE  PhrasesAgree(f, input, g, other, rhs, cut)
<1> DEFINE P(n) == PartTrees(f, input, rhs, cut, n)
           Q(n) == PartTrees(g, other, rhs, cut, n)
           len == Len(rhs)
<1>1. len \in 1 .. 3 /\ \A n \in 1 .. len : P(n) = Q(n)
  BY DEF SamePartTrees
<1>2. /\ Phrases(f, input, rhs, cut)
           = CASE len = 1 -> { << tree >> : tree \in P(1) }
               [] len = 2 -> P(1) \X P(2)
               [] OTHER   -> P(1) \X P(2) \X P(3)
      /\ Phrases(g, other, rhs, cut)
           = CASE len = 1 -> { << tree >> : tree \in Q(1) }
               [] len = 2 -> Q(1) \X Q(2)
               [] OTHER   -> Q(1) \X Q(2) \X Q(3)
  BY DEF Phrases
<1> SUFFICES Phrases(f, input, rhs, cut) = Phrases(g, other, rhs, cut)
  BY DEF PhrasesAgree
<1> HIDE DEF P, Q, len
<1>3. CASE len = 1
  <2>1. P(1) = Q(1)
    BY <1>1, <1>3
  <2> QED
    BY <1>2, <1>3, <2>1
<1>4. CASE len = 2
  <2>1. P(1) = Q(1) /\ P(2) = Q(2)
    BY <1>1, <1>4
  <2> QED
    BY <1>2, <1>4, <2>1
<1>5. CASE len = 3
  <2>1. P(1) = Q(1) /\ P(2) = Q(2) /\ P(3) = Q(3)
    BY <1>1, <1>5
  <2> QED
    BY <1>2, <1>5, <2>1
<1> QED
  BY <1>1, <1>3, <1>4, <1>5

LEMMA SameParts ==
  ASSUME NEW input, Len(input) \in Nat, NEW goal \in Goals(input),
         NEW r \in Rules, RuleLhs(r) = goal[1],
         NEW cut \in Cuts(input, RuleRhs[r], goal[2], goal[3]),
         NEW f, NEW g, AgreeBelow(f, g, input, goal)
  PROVE  Phrases(f, input, RuleRhs[r], cut) = Phrases(g, input, RuleRhs[r], cut)
<1> DEFINE rhs == RuleRhs[r]
<1>1. Len(rhs) = RuleLength(r) /\ RuleLength(r) \in 1 .. 3
  BY TablesAreConsistent DEF LrConsistent, RulesConsistent
<1>2. ASSUME NEW n \in 1 .. RuleLength(r)
      PROVE  PartTrees(f, input, rhs, cut, n) = PartTrees(g, input, rhs, cut, n)
  <2>1. CASE rhs[n] \in Terminals
    BY <2>1, Zenon DEF PartTrees
  <2>2. CASE rhs[n] \notin Terminals
    <3>1. f[PartGoal(rhs, cut, n)] = g[PartGoal(rhs, cut, n)]
      BY <2>2, PartsAreCloser, Zenon DEF AgreeBelow
    <3> QED
      BY <3>1, <2>2, Zenon DEF PartTrees, PartGoal
  <2> QED
    BY <2>1, <2>2
<1> HIDE DEF rhs
<1>3. SamePartTrees(f, input, g, input, rhs, cut)
  BY <1>1, <1>2, Zenon DEF SamePartTrees
<1>4. Phrases(f, input, rhs, cut) = Phrases(g, input, rhs, cut)
  <2>1. Len(rhs) \in 1 .. 3
    BY <1>1, Zenon
  <2>2. PhrasesAgree(f, input, g, input, rhs, cut)
    BY <1>3, <2>1, PhrasesOfSameParts
  <2> QED
    BY <2>2 DEF PhrasesAgree
<1> QED
  BY <1>4 DEF rhs

ByRule(tree, f, input, goal, r) ==
  \E cut \in Cuts(input, RuleRhs[r], goal[2], goal[3]) :
  \E parts \in Phrases(f, input, RuleRhs[r], cut) :
    tree = Meaning(RuleRhs[r], parts, Span(input, goal[2], goal[3]))

LEMMA InTreesOf ==
  ASSUME NEW input, NEW goal, NEW f, NEW tree
  PROVE  tree \in TreesOf(f, input, goal)
           <=> \E r \in Rules : RuleLhs(r) = goal[1] /\ ByRule(tree, f, input, goal, r)
<1> DEFINE OfCut(r, cut) ==
             { Meaning(RuleRhs[r], parts, Span(input, goal[2], goal[3])) :
                 parts \in Phrases(f, input, RuleRhs[r], cut) }
           OfRule(r) == UNION { OfCut(r, cut) :
                          cut \in Cuts(input, RuleRhs[r], goal[2], goal[3]) }
<1>1. TreesOf(f, input, goal)
        = UNION { OfRule(r) : r \in { q \in Rules : RuleLhs(q) = goal[1] } }
  BY DEF TreesOf
<1>2. ASSUME NEW r
      PROVE  tree \in OfRule(r) <=> ByRule(tree, f, input, goal, r)
  <2>1. \A cut : tree \in OfCut(r, cut) <=>
          \E parts \in Phrases(f, input, RuleRhs[r], cut) :
            tree = Meaning(RuleRhs[r], parts, Span(input, goal[2], goal[3]))
    OBVIOUS
  <2> HIDE DEF OfCut
  <2>2. tree \in OfRule(r) <=>
          \E cut \in Cuts(input, RuleRhs[r], goal[2], goal[3]) : tree \in OfCut(r, cut)
    OBVIOUS
  <2> HIDE DEF OfRule
  <2> QED
    BY <2>1, <2>2, Zenon DEF ByRule
<1> HIDE DEF OfRule
<1>3. tree \in UNION { OfRule(r) : r \in { q \in Rules : RuleLhs(q) = goal[1] } }
        <=> \E r \in Rules : RuleLhs(r) = goal[1] /\ tree \in OfRule(r)
  OBVIOUS
<1> QED
  BY <1>1, <1>2, <1>3, Zenon

LEMMA SameTrees ==
  ASSUME NEW input, Len(input) \in Nat, NEW goal \in Goals(input),
         NEW f, NEW g, AgreeBelow(f, g, input, goal)
  PROVE  TreesOf(f, input, goal) = TreesOf(g, input, goal)
<1>1. ASSUME NEW r \in Rules, RuleLhs(r) = goal[1], NEW tree
      PROVE  ByRule(tree, f, input, goal, r) <=> ByRule(tree, g, input, goal, r)
  <2>1. \A cut \in Cuts(input, RuleRhs[r], goal[2], goal[3]) :
          Phrases(f, input, RuleRhs[r], cut) = Phrases(g, input, RuleRhs[r], cut)
    BY <1>1, SameParts, Zenon
  <2> QED
    BY <2>1, Zenon DEF ByRule
<1>2. \A tree : tree \in TreesOf(f, input, goal) <=> tree \in TreesOf(g, input, goal)
  BY <1>1, InTreesOf, Zenon
<1> QED
  BY <1>2, Zenon

IsTrees(f, input) == f = [goal \in Goals(input) |-> TreesOf(f, input, goal)]

\* Right up to a distance from the tokens.
RightBelow(f, input, far) ==
  \A goal \in Goals(input) : Distance(goal) < far => f[goal] = TreesOf(f, input, goal)

LEMMA TreesExist ==
  ASSUME NEW input, Len(input) \in Nat
  PROVE  \E f : IsTrees(f, input)
<1> DEFINE high == Farthest(input) + 1
           S == {h \in Nat : \E f : RightBelow(f, input, h)}
<1>1. high \in Nat
  BY DEF Farthest, YYNTOKENS
<1>2. \A goal \in Goals(input) : Distance(goal) \in Nat /\ Distance(goal) < high
  BY DistanceType, <1>1 DEF Farthest, YYNTOKENS
<1>3. 0 \in S
  <2>1. \A goal \in Goals(input) : ~ Distance(goal) < 0
    BY <1>2, SMT
  <2> QED
    BY <2>1 DEF RightBelow
<1>4. ASSUME NEW h \in 0 .. high - 1, h \in S
      PROVE  h + 1 \in S
  <2>1. PICK f : RightBelow(f, input, h)
    BY <1>4
  <2> DEFINE g == [goal \in Goals(input) |-> TreesOf(f, input, goal)]
  <2>2. \A goal \in Goals(input) : g[goal] = TreesOf(f, input, goal)
    BY Zenon
  <2> HIDE DEF g
  <2>3. \A goal \in Goals(input) : Distance(goal) < h => g[goal] = f[goal]
    BY <2>1, <2>2, Zenon DEF RightBelow
  <2>4. ASSUME NEW goal \in Goals(input), Distance(goal) < h + 1
        PROVE  g[goal] = TreesOf(g, input, goal)
    <3>1. \A q \in Goals(input) : Distance(q) < Distance(goal) => Distance(q) < h
      BY <1>1, <1>2, <2>4, SMT
    <3>2. AgreeBelow(f, g, input, goal)
      BY <3>1, <2>3, Zenon DEF AgreeBelow
    <3> QED
      BY <2>2, <3>2, SameTrees, Zenon
  <2>5. RightBelow(g, input, h + 1)
    BY <2>4, Zenon DEF RightBelow
  <2>6. h + 1 \in Nat
    BY <1>1
  <2> QED
    BY <2>5, <2>6
<1> HIDE DEF S
<1>5. high \in S
  <2>1. \A i \in 0 .. high : i \in S
    BY <1>1, <1>3, <1>4, UpTo
  <2> QED
    BY <1>1, <2>1
<1>6. PICK f : RightBelow(f, input, high)
  BY <1>5 DEF S
<1>7. \A goal \in Goals(input) : f[goal] = TreesOf(f, input, goal)
  BY <1>2, <1>6, Zenon DEF RightBelow
<1> DEFINE g == [goal \in Goals(input) |-> TreesOf(f, input, goal)]
<1>8. \A goal \in Goals(input) : g[goal] = f[goal]
  BY <1>7, Zenon
<1>9. ASSUME NEW goal \in Goals(input)
      PROVE  TreesOf(f, input, goal) = TreesOf(g, input, goal)
  <2>1. AgreeBelow(f, g, input, goal)
    BY <1>8, Zenon DEF AgreeBelow
  <2> QED
    BY <2>1, SameTrees, Zenon
<1>10. g = [goal \in Goals(input) |-> TreesOf(g, input, goal)]
  <2>1. g = [goal \in Goals(input) |-> g[goal]]
    BY Zenon
  <2>2. \A goal \in Goals(input) : g[goal] = TreesOf(g, input, goal)
    BY <1>9, Zenon
  <2> HIDE DEF g
  <2> QED
    BY <2>1, <2>2, Zenon
<1> QED
  BY <1>10, Zenon DEF IsTrees

LEMMA TreesUnfold ==
  ASSUME NEW input, Len(input) \in Nat, NEW goal \in Goals(input)
  PROVE  Trees(input)[goal] = TreesOf(Trees(input), input, goal)
<1> DEFINE trees[q \in Goals(input)] == TreesOf(trees, input, q)
<1>1. Trees(input) = trees
  BY DEF Trees
<1>2. trees = CHOOSE f : IsTrees(f, input)
  BY Zenon DEF IsTrees
<1> HIDE DEF trees
<1>3. IsTrees(trees, input)
  BY <1>2, TreesExist, Zenon
<1>4. trees[goal] = TreesOf(trees, input, goal)
  BY <1>3, Zenon DEF IsTrees
<1> QED
  BY <1>1, <1>4, Zenon

\* A tree comes from a rule, a cut and a phrase.
DerivedBy(tree, input, goal, r, cut, parts) ==
  /\ r \in DerivingRules /\ RuleLhs(r) = goal[1]
  /\ cut \in Cuts(input, RuleRhs[r], goal[2], goal[3])
  /\ parts \in Phrases(Trees(input), input, RuleRhs[r], cut)
  /\ tree = Meaning(RuleRhs[r], parts, Span(input, goal[2], goal[3]))

LEMMA TreeDerived ==
  ASSUME NEW input, Len(input) \in Nat, NEW goal \in Goals(input), NEW tree
  PROVE  tree \in Trees(input)[goal]
           <=> \E r, cut, parts : DerivedBy(tree, input, goal, r, cut, parts)
<1>1. goal[1] # N_accept
  BY DEF Goals
<1>2. \A r \in Rules : RuleLhs(r) = goal[1] => r \in DerivingRules
  BY <1>1, RuleOfGoal
<1>3. DerivingRules \subseteq Rules
  BY DEF DerivingRules
<1>4. tree \in TreesOf(Trees(input), input, goal)
        <=> \E r \in Rules : RuleLhs(r) = goal[1]
                             /\ ByRule(tree, Trees(input), input, goal, r)
  BY InTreesOf, Zenon
<1>5. ASSUME NEW r
      PROVE  r \in Rules /\ RuleLhs(r) = goal[1]
               /\ ByRule(tree, Trees(input), input, goal, r)
             <=> \E cut, parts : DerivedBy(tree, input, goal, r, cut, parts)
  BY <1>2, <1>3, Zenon DEF DerivedBy, ByRule
<1>6. tree \in TreesOf(Trees(input), input, goal)
        <=> \E r, cut, parts : DerivedBy(tree, input, goal, r, cut, parts)
  BY <1>4, <1>5, Zenon
<1> QED
  BY <1>6, TreesUnfold, Zenon

(***************************************************************************)
(* What every phrase of a symbol looks like from its tokens: how it begins *)
(* and ends, that its parentheses are paired, and how tightly it is joined *)
(* outside of them.                                                        *)
(***************************************************************************)
Kinds(input, type, k) == { p \in 1 .. k : input[p].type = type }

Depth(input, k) == Cardinality(Kinds(input, T_LEFT_PAREN, k))
                   - Cardinality(Kinds(input, T_RIGHT_PAREN, k))

LEMMA KindsStep ==
  ASSUME NEW input, NEW type, NEW k \in Nat
  PROVE  /\ IsFiniteSet(Kinds(input, type, k))
         /\ Cardinality(Kinds(input, type, k)) \in Nat
         /\ Cardinality(Kinds(input, type, k + 1))
              = Cardinality(Kinds(input, type, k))
                + (IF input[k + 1].type = type THEN 1 ELSE 0)
<1>1. IsFiniteSet(1 .. k)
  BY FS_Interval
<1>2. IsFiniteSet(Kinds(input, type, k))
  BY <1>1, FS_Subset, Zenon DEF Kinds
<1>3. Cardinality(Kinds(input, type, k)) \in Nat
  BY <1>2, FS_CardinalityType
<1>4. CASE input[k + 1].type = type
  <2>1. Kinds(input, type, k + 1) = Kinds(input, type, k) \cup {k + 1}
    BY <1>4 DEF Kinds
  <2>2. k + 1 \notin Kinds(input, type, k)
    BY DEF Kinds
  <2>3. Cardinality(Kinds(input, type, k) \cup {k + 1})
          = Cardinality(Kinds(input, type, k)) + 1
    BY <1>2, <2>2, FS_AddElement
  <2> QED
    BY <1>2, <1>3, <1>4, <2>1, <2>3
<1>5. CASE input[k + 1].type # type
  <2>1. Kinds(input, type, k + 1) = Kinds(input, type, k)
    BY <1>5 DEF Kinds
  <2> QED
    BY <1>2, <1>3, <1>5, <2>1
<1> QED
  BY <1>4, <1>5

LEMMA DepthStep ==
  ASSUME NEW input, NEW k \in Nat
  PROVE  /\ Depth(input, k) \in Int
         /\ Depth(input, k + 1) = Depth(input, k)
              + (IF input[k + 1].type = T_LEFT_PAREN THEN 1
                 ELSE IF input[k + 1].type = T_RIGHT_PAREN THEN -1 ELSE 0)
<1>1. T_LEFT_PAREN # T_RIGHT_PAREN
  BY DEF T_LEFT_PAREN, T_RIGHT_PAREN
<1>2. /\ Cardinality(Kinds(input, T_LEFT_PAREN, k)) \in Nat
      /\ Cardinality(Kinds(input, T_RIGHT_PAREN, k)) \in Nat
  BY KindsStep
<1>3. Cardinality(Kinds(input, T_LEFT_PAREN, k + 1))
        = Cardinality(Kinds(input, T_LEFT_PAREN, k))
          + (IF input[k + 1].type = T_LEFT_PAREN THEN 1 ELSE 0)
  BY KindsStep
<1>4. Cardinality(Kinds(input, T_RIGHT_PAREN, k + 1))
        = Cardinality(Kinds(input, T_RIGHT_PAREN, k))
          + (IF input[k + 1].type = T_RIGHT_PAREN THEN 1 ELSE 0)
  BY KindsStep
<1> QED
  BY <1>1, <1>2, <1>3, <1>4, SMT DEF Depth

JunctionAt(input, k) == Junction(input[k - 1].type, input[k].type)

\* The borders within tokens i to j that no parenthesis encloses.
Outside(input, i, j) == { k \in i + 1 .. j : Depth(input, k - 1) = Depth(input, i - 1) }

Paired(input, i, j) ==
  /\ Depth(input, j) = Depth(input, i - 1)
  /\ \A k \in i .. j : Depth(input, k) >= Depth(input, i - 1)

Shaped(input, symbol, i, j) ==
  /\ input[i].type \in FirstTokens(symbol)
  /\ input[j].type \in LastTokens(symbol)
  /\ Paired(input, i, j)
  /\ \A k \in Outside(input, i, j) : JunctionAt(input, k) <= Level(symbol)

PartsShaped(input, r, cut) ==
  \A n \in 1 .. RuleLength(r) :
    Shaped(input, RuleRhs[r][n], cut[n], cut[n + 1] - 1)

LEMMA TokenShaped ==
  ASSUME NEW input, NEW i \in Nat \ {0}, NEW x \in Terminals, input[i].type = x,
         x \notin {T_LEFT_PAREN, T_RIGHT_PAREN}
  PROVE  Shaped(input, x, i, i)
<1>1. i - 1 \in Nat /\ (i - 1) + 1 = i
  OBVIOUS
<1>2. Depth(input, i) = Depth(input, i - 1) /\ Depth(input, i - 1) \in Int
  BY <1>1, DepthStep
<1>3. Outside(input, i, i) = {}
  BY DEF Outside
<1>4. \A k \in i .. i : k = i
  OBVIOUS
<1> QED
  BY <1>2, <1>3, <1>4 DEF Shaped, FirstTokens, LastTokens, Paired

\* Every token belongs to a part.
LEMMA PartOfToken ==
  ASSUME NEW len \in 1 .. 3, NEW cut, NEW i \in Int, NEW j \in Int,
         InOrder(cut, len, i, j), NEW k \in i .. j
  PROVE  \E n \in 1 .. len : k \in cut[n] .. cut[n + 1] - 1
<1>1. /\ cut[1] = i /\ cut[len + 1] = j + 1
      /\ \A n \in 1 .. len : cut[n] \in Int /\ cut[n + 1] \in Int
  BY DEF InOrder
<1>2. CASE len = 1
  BY <1>1, <1>2
<1>3. CASE len = 2
  <2>1. k \in cut[1] .. cut[1 + 1] - 1 \/ k \in cut[2] .. cut[2 + 1] - 1
    BY <1>1, <1>3
  <2> QED
    BY <2>1, <1>3
<1>4. CASE len = 3
  <2>1. \/ k \in cut[1] .. cut[1 + 1] - 1 \/ k \in cut[2] .. cut[2 + 1] - 1
        \/ k \in cut[3] .. cut[3 + 1] - 1
    BY <1>1, <1>4
  <2> QED
    BY <2>1, <1>4
<1> QED
  BY <1>2, <1>3, <1>4

LEMMA JunctionType ==
  ASSUME NEW before, NEW type
  PROVE  Junction(before, type) \in 0 .. 4
  BY DEF Junction

LEMMA LevelType ==
  ASSUME NEW symbol
  PROVE  Level(symbol) \in 0 .. 4
  BY DEF Level

\* All parts of a phrase lie at its own depth.
BordersAtDepth(input, r, cut, depth) ==
  \A n \in 1 .. RuleLength(r) : /\ Depth(input, cut[n] - 1) = depth
                                /\ Depth(input, cut[n + 1] - 1) = depth
LEMMA PartsLevel ==
  ASSUME NEW input, NEW r, RuleLength(r) \in 1 .. 3, NEW cut,
         NEW i \in Nat \ {0}, NEW j \in Nat,
         InOrder(cut, RuleLength(r), i, j), PartsShaped(input, r, cut)
  PROVE  BordersAtDepth(input, r, cut, Depth(input, i - 1))
<1> DEFINE len == RuleLength(r)
           Level0(n) == Depth(input, cut[n] - 1) = Depth(input, i - 1)
<1>1. Level0(1)
  BY DEF InOrder
<1>2. \A n \in 1 .. len : Level0(n) => Level0(n + 1)
  <2>1. \A n \in 1 .. len :
          Depth(input, cut[n + 1] - 1) = Depth(input, cut[n] - 1)
    BY Zenon DEF PartsShaped, Shaped, Paired
  <2> QED
    BY <2>1, Zenon
<1> SUFFICES \A n \in 1 .. len : Level0(n) /\ Level0(n + 1)
  BY Zenon DEF BordersAtDepth
<1>3. len \in 1 .. 3
  OBVIOUS
<1> HIDE DEF Level0, len
<1>4. \A n \in 1 .. len : n = 1 \/ n = 2 \/ n = 3
  BY <1>3
<1>5. 1 \in 1 .. len /\ (3 \in 1 .. len => 2 \in 1 .. len) /\ 1 + 1 = 2 /\ 2 + 1 = 3
  BY <1>3
<1>6. \A n \in 1 .. len : Level0(n)
  <2>1. Level0(2)
    BY <1>1, <1>2, <1>5, Zenon
  <2>2. 3 \in 1 .. len => Level0(3)
    BY <2>1, <1>2, <1>5, Zenon
  <2> QED
    BY <1>1, <1>4, <2>1, <2>2, Zenon
<1> QED
  BY <1>2, <1>6, Zenon

\* A border between parts is outside, and what is outside of the whole is a
\* border or outside of the part it is in.
LEMMA OutsideOfParts ==
  ASSUME NEW input, NEW r, RuleLength(r) \in 1 .. 3, NEW cut,
         NEW i \in Nat \ {0}, NEW j \in Nat,
         InOrder(cut, RuleLength(r), i, j), PartsShaped(input, r, cut)
  PROVE  /\ \A n \in 2 .. RuleLength(r) : cut[n] \in Outside(input, i, j)
         /\ \A k \in Outside(input, i, j) :
              \/ \E n \in 2 .. RuleLength(r) : k = cut[n]
              \/ \E n \in 1 .. RuleLength(r) :
                   k \in Outside(input, cut[n], cut[n + 1] - 1)
<1> DEFINE len == RuleLength(r)
<1>1. len \in 1 .. 3
  OBVIOUS
<1>2. \A n \in 1 .. len : /\ cut[n] \in i .. j /\ cut[n + 1] \in i + 1 .. j + 1
                          /\ cut[n] < cut[n + 1]
  BY Zenon DEF InOrder
<1>3. \A n \in 1 .. len : /\ Depth(input, cut[n] - 1) = Depth(input, i - 1)
                          /\ Depth(input, cut[n + 1] - 1) = Depth(input, i - 1)
  <2>1. BordersAtDepth(input, r, cut, Depth(input, i - 1))
    BY PartsLevel, Zenon
  <2> QED
    BY <2>1, Zenon DEF BordersAtDepth
<1>4. ASSUME NEW n \in 2 .. len
      PROVE  cut[n] \in Outside(input, i, j)
  <2>1. n - 1 \in 1 .. len /\ (n - 1) + 1 = n /\ n \in 1 .. len
    BY <1>1, <1>4
  <2>2. cut[n] \in i + 1 .. j + 1 /\ cut[n] \in i .. j
    BY <1>2, <2>1, Zenon
  <2>3. cut[n] \in i + 1 .. j
    BY <2>2
  <2>4. Depth(input, cut[n] - 1) = Depth(input, i - 1)
    BY <1>3, <2>1, Zenon
  <2> QED
    BY <2>3, <2>4 DEF Outside
<1>5. ASSUME NEW k \in Outside(input, i, j)
      PROVE  \/ \E n \in 2 .. len : k = cut[n]
             \/ \E n \in 1 .. len : k \in Outside(input, cut[n], cut[n + 1] - 1)
  <2>1. k \in i + 1 .. j /\ Depth(input, k - 1) = Depth(input, i - 1)
    BY DEF Outside
  <2>2. k \in i .. j /\ i \in Int /\ j \in Int
    BY <2>1
  <2>3. PICK n \in 1 .. len : k \in cut[n] .. cut[n + 1] - 1
    BY <2>2, <1>1, PartOfToken
  <2>4. cut[n] \in Int /\ cut[n + 1] \in Int
    BY <1>2, <2>3
  <2>5. CASE k = cut[n]
    <3>1. n # 1
      <4>1. cut[1] = i
        BY DEF InOrder
      <4> QED
        BY <2>1, <2>5, <4>1
    <3>2. n \in 2 .. len
      BY <1>1, <2>3, <3>1
    <3> QED
      BY <2>5, <3>2
  <2>6. CASE k # cut[n]
    <3>1. k \in cut[n] + 1 .. cut[n + 1] - 1
      BY <2>3, <2>4, <2>6
    <3>2. Depth(input, k - 1) = Depth(input, cut[n] - 1)
      BY <2>1, <2>3, <1>3, Zenon
    <3>3. k \in Outside(input, cut[n], cut[n + 1] - 1)
      BY <3>1, <3>2, Zenon DEF Outside
    <3> QED
      BY <2>3, <3>3
  <2> QED
    BY <2>5, <2>6
<1> QED
  BY <1>4, <1>5, Zenon

\* The level of the border before part n + 1.
LEMMA BorderLevel ==
  ASSUME NEW input, NEW r, RuleLength(r) \in 1 .. 3, NEW cut,
         NEW i \in Nat \ {0}, NEW j \in Nat,
         InOrder(cut, RuleLength(r), i, j), PartsShaped(input, r, cut),
         NEW n \in 1 .. RuleLength(r) - 1
  PROVE  /\ JunctionAt(input, cut[n + 1]) \in JunctionsAt(r, n)
         /\ input[cut[n + 1]].type \in FirstTokens(RuleRhs[r][n + 1])
<1>1. n \in 1 .. RuleLength(r) /\ n + 1 \in 1 .. RuleLength(r)
  BY SMT
<1>2. input[cut[n + 1] - 1].type \in LastTokens(RuleRhs[r][n])
  BY <1>1, Zenon DEF PartsShaped, Shaped
<1>3. input[cut[n + 1]].type \in FirstTokens(RuleRhs[r][n + 1])
  BY <1>1, Zenon DEF PartsShaped, Shaped
<1> QED
  BY <1>2, <1>3 DEF JunctionAt, JunctionsAt

LEMMA ShapeOfParts ==
  ASSUME NEW input, NEW r \in DerivingRules, r # 19, NEW cut,
         NEW i \in Nat \ {0}, NEW j \in Nat, i <= j,
         InOrder(cut, RuleLength(r), i, j), PartsShaped(input, r, cut)
  PROVE  Shaped(input, RuleLhs(r), i, j)
<1> DEFINE len == RuleLength(r)
<1>1. len \in 1 .. 3
  BY DerivingRule
<1>2. 1 \in 1 .. len /\ len \in 1 .. len
  BY <1>1
<1>3. cut[1] = i /\ cut[len + 1] = j + 1 /\ (j + 1) - 1 = j
  <2>1. cut[1] = i /\ cut[len + 1] = j + 1
    BY Zenon DEF InOrder
  <2> QED
    BY <2>1
<1>4. PhrasesFit
  BY PrecedenceConsistent
<1>5. input[i].type \in FirstTokens(RuleLhs(r))
  <2>1. input[cut[1]].type \in FirstTokens(RuleRhs[r][1])
    BY <1>2, Zenon DEF PartsShaped, Shaped
  <2> QED
    BY <1>3, <1>4, <2>1 DEF PhrasesFit
<1>6. input[j].type \in LastTokens(RuleLhs(r))
  <2>1. input[cut[len + 1] - 1].type \in LastTokens(RuleRhs[r][len])
    BY <1>2, Zenon DEF PartsShaped, Shaped
  <2>2. input[j].type \in LastTokens(RuleRhs[r][len])
    BY <1>3, <2>1, Zenon
  <2> QED
    BY <1>4, <2>2 DEF PhrasesFit
<1>7. Paired(input, i, j)
  <2>1. \A n \in 1 .. len : /\ Depth(input, cut[n] - 1) = Depth(input, i - 1)
                            /\ Depth(input, cut[n + 1] - 1) = Depth(input, i - 1)
    <3>1. BordersAtDepth(input, r, cut, Depth(input, i - 1))
      BY <1>1, PartsLevel, Zenon
    <3> QED
      BY <3>1, Zenon DEF BordersAtDepth
  <2>2. Depth(input, j) = Depth(input, i - 1)
    BY <1>2, <1>3, <2>1, Zenon
  <2>3. ASSUME NEW k \in i .. j
        PROVE  Depth(input, k) >= Depth(input, i - 1)
    <3>1. i \in Int /\ j \in Int
      OBVIOUS
    <3>2. PICK n \in 1 .. len : k \in cut[n] .. cut[n + 1] - 1
      BY <1>1, <3>1, PartOfToken, Zenon
    <3>3. Depth(input, k) >= Depth(input, cut[n] - 1)
      BY <3>2, Zenon DEF PartsShaped, Shaped, Paired
    <3> QED
      BY <2>1, <3>2, <3>3, Zenon
  <2> QED
    BY <2>2, <2>3, Zenon DEF Paired
<1>8. ASSUME NEW k \in Outside(input, i, j)
      PROVE  JunctionAt(input, k) <= Level(RuleLhs(r))
  <2>1. CASE \E n \in 2 .. len : k = cut[n]
    <3>1. PICK n \in 2 .. len : k = cut[n]
      BY <2>1
    <3>2. n - 1 \in 1 .. len - 1 /\ (n - 1) + 1 = n /\ n - 1 \in 1 .. len /\ n - 1 < len
      BY <1>1
    <3>3. JunctionAt(input, cut[(n - 1) + 1]) \in JunctionsAt(r, n - 1)
      BY <1>1, <3>2, BorderLevel, Zenon
    <3>4. \A level \in JunctionsAt(r, n - 1) : level <= Level(RuleLhs(r))
      BY <1>4, <3>2, Zenon DEF PhrasesFit
    <3> QED
      BY <3>1, <3>2, <3>3, <3>4, Zenon
  <2>2. CASE \E n \in 1 .. len : k \in Outside(input, cut[n], cut[n + 1] - 1)
    <3>1. PICK n \in 1 .. len : k \in Outside(input, cut[n], cut[n + 1] - 1)
      BY <2>2
    <3>2. JunctionAt(input, k) <= Level(RuleRhs[r][n])
      BY <3>1, Zenon DEF PartsShaped, Shaped
    <3>3. Level(RuleRhs[r][n]) <= Level(RuleLhs(r))
      BY <1>4, Zenon DEF PhrasesFit
    <3>4. /\ JunctionAt(input, k) \in 0 .. 4
          /\ Level(RuleRhs[r][n]) \in 0 .. 4 /\ Level(RuleLhs(r)) \in 0 .. 4
      BY JunctionType, LevelType DEF JunctionAt
    <3> QED
      BY <3>2, <3>3, <3>4, SMT
  <2> QED
    BY <2>1, <2>2, <1>1, OutsideOfParts, Zenon
<1> QED
  BY <1>5, <1>6, <1>7, <1>8, Zenon DEF Shaped

LEMMA ParenthesesShaped ==
  ASSUME NEW input, NEW i \in Nat \ {0}, NEW j \in Nat, i + 2 <= j,
         input[i].type = T_LEFT_PAREN, input[j].type = T_RIGHT_PAREN,
         Paired(input, i + 1, j - 1)
  PROVE  Shaped(input, N_simple, i, j)
<1>1. /\ input[i].type \in FirstTokens(N_simple)
      /\ input[j].type \in LastTokens(N_simple)
  BY DEF FirstTokens, LastTokens, OperandFirst, OperandLast, NumberTokens, N_simple,
         N_number, N_signed_number, N_identifier, N_power_exp, Terminals, YYNTOKENS,
         T_LEFT_PAREN, T_RIGHT_PAREN
<1> DEFINE base == Depth(input, i - 1)
<1>2. base \in Int /\ Depth(input, i) = base + 1
  <2>1. i - 1 \in Nat /\ (i - 1) + 1 = i
    OBVIOUS
  <2> QED
    BY <2>1, DepthStep
<1>3. /\ Depth(input, j - 1) = base + 1
      /\ \A k \in i + 1 .. j - 1 : Depth(input, k) >= base + 1
  <2>1. (i + 1) - 1 = i
    OBVIOUS
  <2> QED
    BY <1>2, <2>1, Zenon DEF Paired
<1>4. Depth(input, j) = base
  <2>1. j - 1 \in Nat /\ (j - 1) + 1 = j
    BY SMT
  <2>2. Depth(input, j) = Depth(input, j - 1) + (-1)
    BY <2>1, DepthStep DEF T_LEFT_PAREN, T_RIGHT_PAREN
  <2> QED
    BY <1>2, <1>3, <2>2, SMT
<1> HIDE DEF base
<1>5. ASSUME NEW k \in i .. j - 1
      PROVE  Depth(input, k) >= base + 1
  <2>1. k = i \/ k \in i + 1 .. j - 1
    BY SMT
  <2>2. Depth(input, i) >= base + 1
    BY <1>2, SMT
  <2> QED
    BY <1>3, <2>1, <2>2, Zenon
<1>6. Paired(input, i, j)
  <2>1. \A k \in i .. j : k \in i .. j - 1 \/ k = j
    BY SMT
  <2>2. \A k \in i .. j : Depth(input, k) \in Int
    BY DepthStep, SMT
  <2>3. \A k \in i .. j : Depth(input, k) >= base
    BY <1>2, <1>4, <1>5, <2>1, <2>2, SMT
  <2> QED
    BY <1>4, <2>3, Zenon DEF Paired, base
<1>7. Outside(input, i, j) = {}
  <2>1. ASSUME NEW k \in i + 1 .. j
        PROVE  Depth(input, k - 1) # base
    <3>1. k - 1 \in i .. j - 1
      BY SMT
    <3>2. Depth(input, k - 1) >= base + 1
      BY <1>5, <3>1, Zenon
    <3> QED
      BY <1>2, <3>2, SMT
  <2> QED
    BY <2>1, Zenon DEF Outside, base
<1> QED
  BY <1>1, <1>6, <1>7, Zenon DEF Shaped

(***************************************************************************)
(* The parts of a tree, and induction over goals.                          *)
(***************************************************************************)
LEMMA PhraseParts ==
  ASSUME NEW f, NEW input, NEW rhs, Len(rhs) \in 1 .. 3, NEW cut,
         NEW parts \in Phrases(f, input, rhs, cut)
  PROVE  /\ \A n \in 1 .. Len(rhs) : parts[n] \in PartTrees(f, input, rhs, cut, n)
         /\ Len(rhs) = 1 => parts = << parts[1] >>
         /\ Len(rhs) = 2 => parts = << parts[1], parts[2] >>
         /\ Len(rhs) = 3 => parts = << parts[1], parts[2], parts[3] >>
<1> DEFINE Part(n) == PartTrees(f, input, rhs, cut, n)
           len == Len(rhs)
<1>1. parts \in CASE len = 1 -> { << tree >> : tree \in Part(1) }
                  [] len = 2 -> Part(1) \X Part(2)
                  [] OTHER   -> Part(1) \X Part(2) \X Part(3)
  BY DEF Phrases
<1>2. len \in {1, 2, 3} /\ \A n \in 1 .. len : n = 1 \/ n = 2 \/ n = 3
  <2>1. len \in 1 .. 3
    OBVIOUS
  <2> HIDE DEF len
  <2> QED
    BY <2>1, SMT
<1> SUFFICES /\ \A n \in 1 .. len : parts[n] \in Part(n)
             /\ len = 1 => parts = << parts[1] >>
             /\ len = 2 => parts = << parts[1], parts[2] >>
             /\ len = 3 => parts = << parts[1], parts[2], parts[3] >>
  OBVIOUS
<1> HIDE DEF Part, len
<1>4. CASE len = 1
  <2>1. PICK tree \in Part(1) : parts = << tree >>
    BY <1>1, <1>4
  <2>2. \A n \in 1 .. len : n = 1
    BY <1>4
  <2> QED
    BY <1>4, <2>1, <2>2
<1>5. CASE len = 2
  <2>1. parts \in Part(1) \X Part(2)
    BY <1>1, <1>5
  <2>2. \A n \in 1 .. len : n = 1 \/ n = 2
    BY <1>5
  <2> QED
    BY <1>5, <2>1, <2>2
<1>6. CASE len = 3
  <2>1. parts \in Part(1) \X Part(2) \X Part(3)
    BY <1>1, <1>6
  <2> QED
    BY <1>2, <1>6, <2>1
<1> QED
  BY <1>2, <1>4, <1>5, <1>6

LEMMA GoalInduction ==
  ASSUME NEW input, Len(input) \in Nat, NEW S,
         \A goal \in Goals(input) :
           (\A q \in Goals(input) : Distance(q) < Distance(goal) => q \in S)
             => goal \in S
  PROVE  \A goal \in Goals(input) : goal \in S
<1> DEFINE T == { Distance(goal) : goal \in { q \in Goals(input) : q \notin S } }
<1> SUFFICES ASSUME T # {} PROVE FALSE
  OBVIOUS
<1>1. \A goal \in Goals(input) : Distance(goal) \in Nat
  BY DistanceType DEF Farthest, YYNTOKENS
<1>2. T \subseteq Nat
  BY <1>1
<1>3. PICK least \in T : \A n \in T : least <= n
  <2> HIDE DEF T
  <2> QED
    BY <1>2, LeastNumber, Zenon
<1>4. PICK goal \in Goals(input) : goal \notin S /\ least = Distance(goal)
  BY <1>3
<1>5. PICK q \in Goals(input) : Distance(q) < Distance(goal) /\ q \notin S
  BY <1>4, Zenon
<1>6. Distance(q) \in T
  BY <1>5
<1> HIDE DEF T
<1>7. Distance(goal) <= Distance(q)
  BY <1>3, <1>4, <1>6, Zenon
<1> QED
  BY <1>1, <1>5, <1>7, SMT

\* What is known of a derivation.
LEMMA DerivationParts ==
  ASSUME NEW input, Len(input) \in Nat, NEW goal \in Goals(input),
         NEW tree, NEW r, NEW cut, NEW parts,
         DerivedBy(tree, input, goal, r, cut, parts)
  PROVE  /\ r \in DerivingRules /\ r \in Rules
         /\ RuleLength(r) \in 1 .. 3 /\ Len(RuleRhs[r]) = RuleLength(r)
         /\ goal[2] \in Nat \ {0} /\ goal[3] \in Nat /\ goal[2] <= goal[3]
         /\ InOrder(cut, RuleLength(r), goal[2], goal[3])
         /\ \A n \in 1 .. RuleLength(r) :
              IF RuleRhs[r][n] \in Terminals
              THEN /\ cut[n + 1] = cut[n] + 1
                   /\ input[cut[n]].type = RuleRhs[r][n]
                   /\ parts[n] = LexemeTree(input, cut[n])
              ELSE /\ PartGoal(RuleRhs[r], cut, n) \in Goals(input)
                   /\ Distance(PartGoal(RuleRhs[r], cut, n)) < Distance(goal)
                   /\ parts[n] \in Trees(input)[PartGoal(RuleRhs[r], cut, n)]
<1>1. /\ r \in DerivingRules /\ RuleLhs(r) = goal[1]
      /\ cut \in Cuts(input, RuleRhs[r], goal[2], goal[3])
      /\ parts \in Phrases(Trees(input), input, RuleRhs[r], cut)
  BY DEF DerivedBy
<1>2. r \in Rules /\ RuleLength(r) \in 1 .. 3 /\ Len(RuleRhs[r]) = RuleLength(r)
  BY <1>1, DerivingRule
<1>3. goal[2] \in Nat \ {0} /\ goal[3] \in Nat
  BY DEF Goals
<1>4. InOrder(cut, RuleLength(r), goal[2], goal[3])
  <2>1. goal[2] \in Int /\ goal[3] \in Int
    BY <1>3
  <2> QED
    BY <1>1, <1>2, <2>1, CutInOrder, Zenon
<1>5. goal[2] <= goal[3]
  <2>1. 1 \in 1 .. RuleLength(r)
    BY <1>2
  <2>2. cut[1] \in goal[2] .. goal[3]
    BY <1>4, <2>1, Zenon DEF InOrder
  <2> QED
    BY <1>3, <2>2
<1>6. ASSUME NEW n \in 1 .. RuleLength(r)
      PROVE  IF RuleRhs[r][n] \in Terminals
             THEN /\ cut[n + 1] = cut[n] + 1
                  /\ input[cut[n]].type = RuleRhs[r][n]
                  /\ parts[n] = LexemeTree(input, cut[n])
             ELSE /\ PartGoal(RuleRhs[r], cut, n) \in Goals(input)
                  /\ Distance(PartGoal(RuleRhs[r], cut, n)) < Distance(goal)
                  /\ parts[n] \in Trees(input)[PartGoal(RuleRhs[r], cut, n)]
  <2>1. parts[n] \in PartTrees(Trees(input), input, RuleRhs[r], cut, n)
    BY <1>1, <1>2, PhraseParts, Zenon
  <2>2. CASE RuleRhs[r][n] \in Terminals
    <3>1. cut[n + 1] = cut[n] + 1 /\ input[cut[n]].type = RuleRhs[r][n]
      BY <1>1, <1>2, <2>2, Zenon DEF Cuts
    <3>2. parts[n] = LexemeTree(input, cut[n])
      BY <2>1, <2>2, Zenon DEF PartTrees
    <3> QED
      BY <3>1, <3>2, <2>2, Zenon
  <2>3. CASE RuleRhs[r][n] \notin Terminals
    <3>1. parts[n] \in Trees(input)[PartGoal(RuleRhs[r], cut, n)]
      BY <2>1, <2>3, Zenon DEF PartTrees, PartGoal
    <3>2. /\ PartGoal(RuleRhs[r], cut, n) \in Goals(input)
          /\ Distance(PartGoal(RuleRhs[r], cut, n)) < Distance(goal)
      BY <1>1, <1>2, <2>3, PartsAreCloser, Zenon
    <3> QED
      BY <3>1, <3>2, <2>3, Zenon
  <2> QED
    BY <2>2, <2>3, Zenon
<1> QED
  BY <1>1, <1>2, <1>3, <1>4, <1>5, <1>6, Zenon

GoalShaped(input, goal) == Shaped(input, goal[1], goal[2], goal[3])

LEMMA InsideParentheses ==
  \A i, j \in Nat : \A a, b, c, d \in Int :
    a = i /\ d = j + 1 /\ b = a + 1 /\ d = c + 1 /\ b < c
      => c = j /\ b = i + 1 /\ i + 2 <= j /\ c - 1 = j - 1
  BY SMT

LEMMA DerivationShaped ==
  ASSUME NEW input, Len(input) \in Nat, NEW goal \in Goals(input),
         NEW tree, NEW r, NEW cut, NEW parts,
         DerivedBy(tree, input, goal, r, cut, parts),
         \A q \in Goals(input) :
           Distance(q) < Distance(goal) /\ Trees(input)[q] # {} => GoalShaped(input, q)
  PROVE  /\ r # 19 => PartsShaped(input, r, cut)
         /\ GoalShaped(input, goal)
<1> DEFINE i == goal[2]
           j == goal[3]
           rhs == RuleRhs[r]
           len == RuleLength(r)
<1>1. /\ r \in DerivingRules /\ r \in Rules /\ len \in 1 .. 3
      /\ i \in Nat \ {0} /\ j \in Nat /\ i <= j
      /\ InOrder(cut, len, i, j)
  BY DerivationParts, Zenon
<1>2. \A n \in 1 .. len :
        IF rhs[n] \in Terminals
        THEN cut[n + 1] = cut[n] + 1 /\ input[cut[n]].type = rhs[n]
        ELSE /\ PartGoal(rhs, cut, n) \in Goals(input)
             /\ Distance(PartGoal(rhs, cut, n)) < Distance(goal)
             /\ parts[n] \in Trees(input)[PartGoal(rhs, cut, n)]
  BY DerivationParts
<1>3. RuleLhs(r) = goal[1]
  BY DEF DerivedBy
<1>4. \A n \in 1 .. len : cut[n] \in i .. j
  BY <1>1, Zenon DEF InOrder
<1>5. ASSUME NEW n \in 1 .. len, rhs[n] \notin Terminals
      PROVE  Shaped(input, rhs[n], cut[n], cut[n + 1] - 1)
  <2>1. GoalShaped(input, PartGoal(rhs, cut, n))
    BY <1>2, <1>5, Zenon
  <2> QED
    BY <2>1 DEF GoalShaped, PartGoal
<1>6. ParenthesesInPairs
  BY TablesAreConsistent DEF LrConsistent
<1>7. CASE r # 19
  <2>1. ASSUME NEW n \in 1 .. len
        PROVE  Shaped(input, rhs[n], cut[n], cut[n + 1] - 1)
    <3>1. CASE rhs[n] \in Terminals
      <4>1. rhs[n] \notin {T_LEFT_PAREN, T_RIGHT_PAREN}
        BY <1>1, <1>6, <1>7, Zenon DEF ParenthesesInPairs
      <4>2. cut[n] \in Nat \ {0} /\ cut[n + 1] = cut[n] + 1 /\ input[cut[n]].type = rhs[n]
        BY <1>1, <1>2, <1>4, <3>1
      <4>3. Shaped(input, rhs[n], cut[n], cut[n])
        BY <3>1, <4>1, <4>2, TokenShaped, Zenon
      <4>4. cut[n + 1] - 1 = cut[n]
        BY <4>2
      <4> QED
        BY <4>3, <4>4, Zenon
    <3> QED
      BY <1>5, <3>1, Zenon
  <2>2. PartsShaped(input, r, cut)
    BY <2>1, Zenon DEF PartsShaped
  <2>3. Shaped(input, RuleLhs(r), i, j)
    BY <1>1, <1>7, <2>2, ShapeOfParts, Zenon
  <2> QED
    BY <1>3, <2>2, <2>3, Zenon DEF GoalShaped
<1>8. CASE r = 19
  <2>1. rhs[1] = T_LEFT_PAREN /\ rhs[2] = N_exp /\ rhs[3] = T_RIGHT_PAREN
        /\ RuleLength(19) = 3 /\ RuleLhs(19) = N_simple
    <3>1. RuleRhs[19] = << T_LEFT_PAREN, N_exp, T_RIGHT_PAREN >>
      BY <1>6 DEF ParenthesesInPairs
    <3>2. rhs = << T_LEFT_PAREN, N_exp, T_RIGHT_PAREN >>
      BY <1>8, <3>1, Zenon
    <3>3. RuleLength(19) = 3 /\ RuleLhs(19) = N_simple
      BY DEF RuleLength, yyr2, RuleLhs, yyr1, N_simple
    <3> HIDE DEF rhs
    <3> QED
      BY <3>2, <3>3
  <2>2. len = 3 /\ 1 \in 1 .. len /\ 2 \in 1 .. len /\ 3 \in 1 .. len
    BY <1>8, <2>1
  <2>3. T_LEFT_PAREN \in Terminals /\ T_RIGHT_PAREN \in Terminals /\ N_exp \notin Terminals
    BY DEF T_LEFT_PAREN, T_RIGHT_PAREN, N_exp, Terminals, YYNTOKENS
  <2> HIDE DEF rhs, len
  <2>4. /\ cut[1] = i /\ cut[4] = j + 1
        /\ cut[2] = cut[1] + 1 /\ input[cut[1]].type = T_LEFT_PAREN
        /\ cut[4] = cut[3] + 1 /\ input[cut[3]].type = T_RIGHT_PAREN
    <3>1. cut[1] = i /\ cut[len + 1] = j + 1
      BY <1>1, Zenon DEF InOrder
    <3>2. cut[1 + 1] = cut[1] + 1 /\ input[cut[1]].type = T_LEFT_PAREN
      BY <1>2, <2>1, <2>2, <2>3, Zenon
    <3>3. cut[3 + 1] = cut[3] + 1 /\ input[cut[3]].type = T_RIGHT_PAREN
      BY <1>2, <2>1, <2>2, <2>3, Zenon
    <3> QED
      BY <2>2, <3>1, <3>2, <3>3
  <2>5. Shaped(input, N_exp, cut[2], cut[2 + 1] - 1)
    BY <1>5, <2>1, <2>2, <2>3, Zenon
  <2>6. cut[3] \in i .. j /\ cut[2] < cut[2 + 1] /\ cut[2] \in i .. j
    BY <1>1, <1>4, <2>2, Zenon DEF InOrder
  <2>7. cut[3] = j /\ cut[2] = i + 1 /\ i + 2 <= j /\ cut[2 + 1] - 1 = j - 1
    <3>1. 2 + 1 = 3 /\ 1 + 1 = 2 /\ j + 1 \in Int /\ \A k \in i .. j : k \in Int
      BY <1>1
    <3>2. /\ cut[1] \in Int /\ cut[2] \in Int /\ cut[3] \in Int /\ cut[4] \in Int
          /\ i \in Nat /\ j \in Nat
      <4>1. cut[1] \in Int /\ cut[2] \in Int /\ cut[3] \in Int
        BY <1>4, <2>2, <3>1, Zenon
      <4>2. cut[4] \in Int
        BY <2>4, <3>1, Zenon
      <4>3. i \in Nat /\ j \in Nat
        BY <1>1, Zenon
      <4> QED
        BY <4>1, <4>2, <4>3
    <3>3. cut[2] < cut[3]
      BY <2>6, <3>1, Zenon
    <3>4. cut[3] = j /\ cut[2] = i + 1 /\ i + 2 <= j /\ cut[3] - 1 = j - 1
      <4> DEFINE a == cut[1]
                 b == cut[2]
                 c == cut[3]
                 d == cut[4]
      <4>1. /\ i \in Nat /\ j \in Nat
            /\ a \in Int /\ b \in Int /\ c \in Int /\ d \in Int
            /\ a = i /\ d = j + 1 /\ b = a + 1 /\ d = c + 1 /\ b < c
        BY <2>4, <3>2, <3>3, Zenon
      <4> SUFFICES c = j /\ b = i + 1 /\ i + 2 <= j /\ c - 1 = j - 1
        OBVIOUS
      <4> HIDE DEF a, b, c, d, i, j
      <4> QED
        BY <4>1, InsideParentheses
    <3>5. cut[2 + 1] = cut[3]
      BY <3>1, Zenon
    <3> QED
      BY <3>4, <3>5, Zenon
  <2>8. Paired(input, i + 1, j - 1)
    BY <2>5, <2>7, Zenon DEF Shaped
  <2>9. Shaped(input, N_simple, i, j)
    BY <1>1, <2>4, <2>7, <2>8, ParenthesesShaped, Zenon
  <2> QED
    BY <1>3, <1>8, <2>1, <2>9, Zenon DEF GoalShaped
<1> QED
  BY <1>7, <1>8, Zenon

LEMMA EveryGoalShaped ==
  ASSUME NEW input, Len(input) \in Nat
  PROVE  \A goal \in Goals(input) : Trees(input)[goal] # {} => GoalShaped(input, goal)
<1> DEFINE S == { goal \in Goals(input) :
                    Trees(input)[goal] # {} => GoalShaped(input, goal) }
<1>1. ASSUME NEW goal \in Goals(input),
             \A q \in Goals(input) : Distance(q) < Distance(goal) => q \in S
      PROVE  goal \in S
  <2> SUFFICES ASSUME NEW tree \in Trees(input)[goal]
               PROVE  GoalShaped(input, goal)
    BY Zenon
  <2>1. PICK r, cut, parts : DerivedBy(tree, input, goal, r, cut, parts)
    BY TreeDerived, Zenon
  <2>2. \A q \in Goals(input) :
          Distance(q) < Distance(goal) /\ Trees(input)[q] # {} => GoalShaped(input, q)
    BY <1>1, Zenon
  <2> QED
    BY <2>1, <2>2, DerivationShaped, Zenon
<1>2. \A goal \in Goals(input) : goal \in S
  <2> HIDE DEF S
  <2> QED
    BY <1>1, GoalInduction, Zenon
<1> QED
  BY <1>2, Zenon

(***************************************************************************)
(* There is one way to derive a goal: the ends and the junctions of its    *)
(* tokens tell the rule and the borders of its parts.                      *)
(***************************************************************************)
LastMain(input, goal, k) ==
  /\ k \in Outside(input, goal[2], goal[3])
  /\ JunctionAt(input, k) = Level(goal[1])
  /\ \A m \in Outside(input, goal[2], goal[3]) :
       m > k => JunctionAt(input, m) < Level(goal[1])

FirstMain(input, goal, k) ==
  /\ k \in Outside(input, goal[2], goal[3])
  /\ JunctionAt(input, k) = Level(goal[1])
  /\ \A m \in Outside(input, goal[2], goal[3]) :
       m < k => JunctionAt(input, m) < Level(goal[1])

NoMain(input, goal) ==
  \A m \in Outside(input, goal[2], goal[3]) : JunctionAt(input, m) < Level(goal[1])

LEMMA MainUnique ==
  ASSUME NEW input, NEW goal, goal[2] \in Int, goal[3] \in Int, NEW k, NEW m
  PROVE  /\ LastMain(input, goal, k) /\ LastMain(input, goal, m) => k = m
         /\ FirstMain(input, goal, k) /\ FirstMain(input, goal, m) => k = m
         /\ LastMain(input, goal, k) \/ FirstMain(input, goal, k)
              => ~ NoMain(input, goal)
<1>1. \A p \in Outside(input, goal[2], goal[3]) : p \in Int
  BY DEF Outside
<1>2. Level(goal[1]) \in Int /\ ~ Level(goal[1]) < Level(goal[1])
  BY LevelType
<1>3. LastMain(input, goal, k) /\ LastMain(input, goal, m) => k = m
  <2> SUFFICES ASSUME LastMain(input, goal, k), LastMain(input, goal, m)
               PROVE  k = m
    OBVIOUS
  <2>1. ~ m > k /\ ~ k > m
    BY <1>2, Zenon DEF LastMain
  <2>2. k \in Int /\ m \in Int
    BY <1>1 DEF LastMain
  <2> QED
    BY <2>1, <2>2
<1>4. FirstMain(input, goal, k) /\ FirstMain(input, goal, m) => k = m
  <2> SUFFICES ASSUME FirstMain(input, goal, k), FirstMain(input, goal, m)
               PROVE  k = m
    OBVIOUS
  <2>1. ~ m < k /\ ~ k < m
    BY <1>2, Zenon DEF FirstMain
  <2>2. k \in Int /\ m \in Int
    BY <1>1 DEF FirstMain
  <2> QED
    BY <2>1, <2>2
<1>5. LastMain(input, goal, k) \/ FirstMain(input, goal, k) => ~ NoMain(input, goal)
  BY <1>2, Zenon DEF LastMain, FirstMain, NoMain
<1> QED
  BY <1>3, <1>4, <1>5, Zenon

\* A derivation seen from its tokens.
DerivedFrom(input, goal, r, cut) ==
  /\ r \in DerivingRules /\ RuleLhs(r) = goal[1]
  /\ goal[2] \in Nat \ {0} /\ goal[3] \in Nat /\ goal[2] <= goal[3]
  /\ InOrder(cut, RuleLength(r), goal[2], goal[3])
  /\ \A n \in 1 .. RuleLength(r) : RuleRhs[r][n] \in Terminals =>
       cut[n + 1] = cut[n] + 1 /\ input[cut[n]].type = RuleRhs[r][n]
  /\ r # 19 => PartsShaped(input, r, cut)

LEMMA DerivedFromTokens ==
  ASSUME NEW input, Len(input) \in Nat, NEW goal \in Goals(input),
         NEW tree, NEW r, NEW cut, NEW parts,
         DerivedBy(tree, input, goal, r, cut, parts)
  PROVE  DerivedFrom(input, goal, r, cut)
<1>1. \A q \in Goals(input) :
        Distance(q) < Distance(goal) /\ Trees(input)[q] # {} => GoalShaped(input, q)
  BY EveryGoalShaped, Zenon
<1>2. r # 19 => PartsShaped(input, r, cut)
  BY <1>1, DerivationShaped, Zenon
<1>3. /\ r \in DerivingRules
      /\ goal[2] \in Nat \ {0} /\ goal[3] \in Nat /\ goal[2] <= goal[3]
      /\ InOrder(cut, RuleLength(r), goal[2], goal[3])
  BY DerivationParts, Zenon
<1>4. \A n \in 1 .. RuleLength(r) : RuleRhs[r][n] \in Terminals =>
        cut[n + 1] = cut[n] + 1 /\ input[cut[n]].type = RuleRhs[r][n]
  BY DerivationParts
<1>5. RuleLhs(r) = goal[1]
  BY DEF DerivedBy
<1> QED
  BY <1>2, <1>3, <1>4, <1>5, Zenon DEF DerivedFrom

LEMMA MainOfLeft ==
  ASSUME NEW input, NEW goal, NEW r \in LeftRules, NEW cut,
         DerivedFrom(input, goal, r, cut)
  PROVE  LastMain(input, goal, cut[2])
<1> DEFINE i == goal[2]
           j == goal[3]
           len == RuleLength(r)
           level == Level(goal[1])
<1>1. /\ r \in DerivingRules /\ RuleLhs(r) = goal[1]
      /\ i \in Nat \ {0} /\ j \in Nat
      /\ InOrder(cut, len, i, j)
  BY Zenon DEF DerivedFrom
<1>2. r # 19 /\ len \in 2 .. 3 /\ len \in 1 .. 3
  BY DEF LeftRules, RuleLength, yyr2
<1>3. PartsShaped(input, r, cut)
  BY <1>2, Zenon DEF DerivedFrom
<1>4. /\ JunctionsAt(r, 1) = {level}
      /\ \A n \in 2 .. len :
           /\ Level(RuleRhs[r][n]) < level
           /\ n < len => \A l \in JunctionsAt(r, n) : l < level
  BY <1>1, PrecedenceConsistent, Zenon DEF LastIsMain
<1>5. /\ \A n \in 2 .. len : cut[n] \in Outside(input, i, j)
      /\ \A k \in Outside(input, i, j) :
           \/ \E n \in 2 .. len : k = cut[n]
           \/ \E n \in 1 .. len : k \in Outside(input, cut[n], cut[n + 1] - 1)
  BY <1>1, <1>2, <1>3, OutsideOfParts, Zenon
<1>6. \A n \in 1 .. len - 1 : JunctionAt(input, cut[n + 1]) \in JunctionsAt(r, n)
  BY <1>1, <1>2, <1>3, BorderLevel, Zenon
<1>7. 2 \in 2 .. len /\ 1 \in 1 .. len - 1 /\ 1 + 1 = 2 /\ 1 \in 1 .. len
  BY <1>2
<1>8. cut[2] \in Outside(input, i, j) /\ JunctionAt(input, cut[2]) = level
  <2>1. JunctionAt(input, cut[1 + 1]) \in {level}
    BY <1>4, <1>6, <1>7, Zenon
  <2> QED
    BY <1>5, <1>7, <2>1
<1>9. ASSUME NEW k \in Outside(input, i, j), k > cut[2]
      PROVE  JunctionAt(input, k) < level
  <2>1. cut[2] \in Int /\ k \in Int
    BY <1>8, <1>9 DEF Outside
  <2>2. CASE \E n \in 2 .. len : k = cut[n]
    <3>1. PICK n \in 2 .. len : k = cut[n]
      BY <2>2
    <3>2. n # 2
      BY <1>9, <2>1, <3>1
    <3>3. n - 1 \in 2 .. len /\ n - 1 < len /\ n - 1 \in 1 .. len - 1 /\ (n - 1) + 1 = n
      BY <1>2, <3>2
    <3>4. JunctionAt(input, cut[(n - 1) + 1]) \in JunctionsAt(r, n - 1)
      BY <1>6, <3>3, Zenon
    <3> QED
      BY <1>4, <3>1, <3>3, <3>4, Zenon
  <2>3. CASE \E n \in 1 .. len : k \in Outside(input, cut[n], cut[n + 1] - 1)
    <3>1. PICK n \in 1 .. len : k \in Outside(input, cut[n], cut[n + 1] - 1)
      BY <2>3
    <3>2. k \in cut[n] + 1 .. cut[n + 1] - 1
      BY <3>1 DEF Outside
    <3>3. n # 1
      BY <1>9, <2>1, <3>2
    <3>4. n \in 2 .. len
      BY <1>2, <3>3
    <3>5. JunctionAt(input, k) <= Level(RuleRhs[r][n])
      BY <1>3, <3>1, Zenon DEF PartsShaped, Shaped
    <3>6. Level(RuleRhs[r][n]) < level
      BY <1>4, <3>4, Zenon
    <3>7. /\ JunctionAt(input, k) \in 0 .. 4
          /\ Level(RuleRhs[r][n]) \in 0 .. 4 /\ level \in 0 .. 4
      BY JunctionType, LevelType DEF JunctionAt
    <3> HIDE DEF level
    <3> QED
      BY <3>5, <3>6, <3>7, SMT
  <2> QED
    BY <1>5, <2>2, <2>3, Zenon
<1> QED
  BY <1>8, <1>9, Zenon DEF LastMain

LEMMA MainOfRight ==
  ASSUME NEW input, NEW goal, NEW r \in RightRules, NEW cut,
         DerivedFrom(input, goal, r, cut)
  PROVE  FirstMain(input, goal, cut[2])
<1> DEFINE i == goal[2]
           j == goal[3]
           len == RuleLength(r)
           level == Level(goal[1])
<1>1. /\ r \in DerivingRules /\ RuleLhs(r) = goal[1]
      /\ i \in Nat \ {0} /\ j \in Nat
      /\ InOrder(cut, len, i, j)
  BY Zenon DEF DerivedFrom
<1>2. r # 19 /\ len = 3 /\ len \in 1 .. 3
  BY DEF RightRules, RuleLength, yyr2
<1>3. PartsShaped(input, r, cut)
  BY <1>2, Zenon DEF DerivedFrom
<1>4. JunctionsAt(r, 1) = {level} /\ Level(RuleRhs[r][1]) < level
  BY <1>1, PrecedenceConsistent, Zenon DEF FirstIsMain
<1>5. /\ \A n \in 2 .. len : cut[n] \in Outside(input, i, j)
      /\ \A k \in Outside(input, i, j) :
           \/ \E n \in 2 .. len : k = cut[n]
           \/ \E n \in 1 .. len : k \in Outside(input, cut[n], cut[n + 1] - 1)
  BY <1>1, <1>2, <1>3, OutsideOfParts, Zenon
<1>6. \A n \in 1 .. len - 1 : JunctionAt(input, cut[n + 1]) \in JunctionsAt(r, n)
  BY <1>1, <1>2, <1>3, BorderLevel, Zenon
<1>7. 2 \in 2 .. len /\ 1 \in 1 .. len - 1 /\ 1 + 1 = 2 /\ 1 \in 1 .. len
      /\ 2 \in 1 .. len /\ 2 + 1 = 3 /\ 3 \in 1 .. len
      /\ \A n \in 1 .. len : n = 1 \/ n = 2 \/ n = 3
  BY <1>2
<1>8. cut[2] \in Outside(input, i, j) /\ JunctionAt(input, cut[2]) = level
  <2>1. JunctionAt(input, cut[1 + 1]) \in {level}
    BY <1>4, <1>6, <1>7, Zenon
  <2> QED
    BY <1>5, <1>7, <2>1
<1>9. cut[2] < cut[3] /\ cut[2] \in Int /\ cut[3] \in Int
  <2>1. /\ cut[2] < cut[2 + 1] /\ cut[2] \in i .. j /\ cut[3] \in i .. j
    BY <1>1, <1>7, Zenon DEF InOrder
  <2> QED
    BY <1>7, <2>1
<1>10. ASSUME NEW k \in Outside(input, i, j), k < cut[2]
       PROVE  JunctionAt(input, k) < level
  <2>1. cut[2] \in Int /\ k \in Int
    BY <1>8, <1>10 DEF Outside
  <2>2. CASE \E n \in 2 .. len : k = cut[n]
    <3>1. k = cut[2] \/ k = cut[3]
      BY <1>2, <2>2
    <3> QED
      BY <3>1, <1>9, <1>10
  <2>3. CASE \E n \in 1 .. len : k \in Outside(input, cut[n], cut[n + 1] - 1)
    <3>1. PICK n \in 1 .. len : k \in Outside(input, cut[n], cut[n + 1] - 1)
      BY <2>3
    <3>2. k > cut[n]
      <4>1. cut[n] \in Int
        BY <1>1 DEF InOrder
      <4> QED
        BY <3>1, <4>1 DEF Outside
    <3>3. n = 1
      BY <1>7, <1>9, <1>10, <2>1, <3>2
    <3>4. JunctionAt(input, k) <= Level(RuleRhs[r][1])
      BY <1>3, <3>1, <3>3, Zenon DEF PartsShaped, Shaped
    <3>5. /\ JunctionAt(input, k) \in 0 .. 4
          /\ Level(RuleRhs[r][1]) \in 0 .. 4 /\ level \in 0 .. 4
      BY JunctionType, LevelType DEF JunctionAt
    <3> HIDE DEF level
    <3> QED
      BY <1>4, <3>4, <3>5, SMT
  <2> QED
    BY <1>5, <2>2, <2>3, Zenon
<1> QED
  BY <1>8, <1>10, Zenon DEF FirstMain

LEMMA MainOfUnit ==
  ASSUME NEW input, NEW goal, NEW r, NEW cut, DerivedFrom(input, goal, r, cut),
         RuleLength(r) = 1, Level(RuleRhs[r][1]) < Level(goal[1])
  PROVE  NoMain(input, goal)
<1>1. r # 19
  BY DEF RuleLength, yyr2
<1>2. /\ InOrder(cut, 1, goal[2], goal[3]) /\ PartsShaped(input, r, cut)
      /\ goal[2] \in Nat \ {0} /\ goal[3] \in Nat
  BY <1>1, Zenon DEF DerivedFrom
<1>3. cut[1] = goal[2] /\ cut[1 + 1] - 1 = goal[3]
  <2>1. cut[1] = goal[2] /\ cut[1 + 1] = goal[3] + 1
    BY <1>2, Zenon DEF InOrder
  <2> QED
    BY <1>2, <2>1
<1>4. Shaped(input, RuleRhs[r][1], cut[1], cut[1 + 1] - 1)
  <2>1. 1 \in 1 .. RuleLength(r)
    OBVIOUS
  <2> QED
    BY <1>2, <2>1, Zenon DEF PartsShaped
<1>5. \A m \in Outside(input, goal[2], goal[3]) :
        JunctionAt(input, m) <= Level(RuleRhs[r][1])
  BY <1>3, <1>4, Zenon DEF Shaped
<1>6. ASSUME NEW m \in Outside(input, goal[2], goal[3])
      PROVE  JunctionAt(input, m) < Level(goal[1])
  <2>1. JunctionAt(input, m) <= Level(RuleRhs[r][1])
    BY <1>5
  <2>2. /\ JunctionAt(input, m) \in 0 .. 4
        /\ Level(RuleRhs[r][1]) \in 0 .. 4 /\ Level(goal[1]) \in 0 .. 4
    BY JunctionType, LevelType DEF JunctionAt
  <2> QED
    BY <2>1, <2>2, SMT
<1> QED
  BY <1>6, Zenon DEF NoMain

\* The ends of a derived goal are those of its rule's ends.
LEMMA EndsOfRule ==
  ASSUME NEW input, NEW goal, NEW r, NEW cut, DerivedFrom(input, goal, r, cut)
  PROVE  /\ input[goal[2]].type \in FirstTokens(RuleRhs[r][1])
         /\ input[goal[3]].type \in LastTokens(RuleRhs[r][RuleLength(r)])
<1> DEFINE len == RuleLength(r)
<1>1. /\ r \in DerivingRules /\ InOrder(cut, len, goal[2], goal[3])
      /\ goal[2] \in Nat \ {0} /\ goal[3] \in Nat
      /\ \A n \in 1 .. len : RuleRhs[r][n] \in Terminals =>
           cut[n + 1] = cut[n] + 1 /\ input[cut[n]].type = RuleRhs[r][n]
  BY Zenon DEF DerivedFrom
<1>2. len \in 1 .. 3
  BY <1>1, DerivingRule
<1>3. 1 \in 1 .. len /\ len \in 1 .. len
  BY <1>2
<1>4. cut[1] = goal[2] /\ cut[len + 1] - 1 = goal[3]
  <2>1. cut[1] = goal[2] /\ cut[len + 1] = goal[3] + 1
    BY <1>1, Zenon DEF InOrder
  <2> QED
    BY <1>1, <2>1
<1>5. CASE r # 19
  <2>1. PartsShaped(input, r, cut)
    BY <1>5, Zenon DEF DerivedFrom
  <2>2. /\ Shaped(input, RuleRhs[r][1], cut[1], cut[1 + 1] - 1)
        /\ Shaped(input, RuleRhs[r][len], cut[len], cut[len + 1] - 1)
    BY <1>3, <2>1, Zenon DEF PartsShaped
  <2> QED
    BY <1>4, <2>2, Zenon DEF Shaped
<1>6. CASE r = 19
  <2>1. RuleRhs[r][1] = T_LEFT_PAREN /\ RuleRhs[r][3] = T_RIGHT_PAREN /\ len = 3
    <3>1. RuleRhs[19] = << T_LEFT_PAREN, N_exp, T_RIGHT_PAREN >>
      BY TablesAreConsistent, Zenon DEF LrConsistent, ParenthesesInPairs
    <3>2. RuleRhs[r] = << T_LEFT_PAREN, N_exp, T_RIGHT_PAREN >>
      BY <1>6, <3>1, Zenon
    <3>3. len = 3
      BY <1>6 DEF RuleLength, yyr2
    <3> QED
      BY <3>2, <3>3
  <2>2. T_LEFT_PAREN \in Terminals /\ T_RIGHT_PAREN \in Terminals
    BY DEF T_LEFT_PAREN, T_RIGHT_PAREN, Terminals, YYNTOKENS
  <2>3. input[cut[1]].type = T_LEFT_PAREN
    BY <1>1, <1>3, <2>1, <2>2, Zenon
  <2>4. input[cut[3]].type = T_RIGHT_PAREN /\ cut[3 + 1] = cut[3] + 1
    BY <1>1, <1>3, <2>1, <2>2, Zenon
  <2>5. cut[3] = goal[3]
    <3>1. cut[3] \in Int
      BY <1>1, <1>3, <2>1 DEF InOrder
    <3> QED
      BY <1>4, <2>1, <2>4, <3>1
  <2>6. input[goal[3]].type = T_RIGHT_PAREN
    BY <2>4, <2>5, Zenon
  <2>7. input[goal[2]].type = T_LEFT_PAREN
    BY <1>4, <2>3, Zenon
  <2> QED
    BY <2>1, <2>2, <2>6, <2>7 DEF FirstTokens, LastTokens
<1> QED
  BY <1>5, <1>6

LEMMA SecondPart ==
  ASSUME NEW input, NEW goal, NEW r \in LeftRules, NEW cut,
         DerivedFrom(input, goal, r, cut)
  PROVE  input[cut[2]].type \in FirstTokens(RuleRhs[r][2])
<1>1. r # 19 /\ 2 \in 1 .. RuleLength(r)
  BY DEF LeftRules, RuleLength, yyr2
<1> QED
  BY <1>1, Zenon DEF DerivedFrom, PartsShaped, Shaped

LEMMA SameRule ==
  ASSUME NEW input, NEW goal, NEW r, NEW cut, DerivedFrom(input, goal, r, cut),
         NEW q, NEW other, DerivedFrom(input, goal, q, other)
  PROVE  r = q
<1> SUFFICES ASSUME r # q PROVE FALSE
  OBVIOUS
<1>1. /\ r \in DerivingRules /\ RuleLhs(r) = goal[1]
      /\ q \in DerivingRules /\ RuleLhs(q) = goal[1]
  BY Zenon DEF DerivedFrom
<1>2. goal[2] \in Int /\ goal[3] \in Int
  BY SMT DEF DerivedFrom
<1>3. CASE /\ r \in LeftRules /\ q \in LeftRules
           /\ FirstTokens(RuleRhs[r][2]) \cap FirstTokens(RuleRhs[q][2]) = {}
  <2>1. cut[2] = other[2]
    <3>1. LastMain(input, goal, cut[2]) /\ LastMain(input, goal, other[2])
      BY <1>3, MainOfLeft, Zenon
    <3> QED
      BY <1>2, <3>1, MainUnique
  <2>2. /\ input[cut[2]].type \in FirstTokens(RuleRhs[r][2])
        /\ input[other[2]].type \in FirstTokens(RuleRhs[q][2])
    BY <1>3, SecondPart, Zenon
  <2> QED
    BY <1>3, <2>1, <2>2
<1>4. CASE /\ r \in LeftRules \cup RightRules
           /\ RuleLength(q) = 1 /\ Level(RuleRhs[q][1]) < Level(RuleLhs(q))
  <2>1. LastMain(input, goal, cut[2]) \/ FirstMain(input, goal, cut[2])
    BY <1>4, MainOfLeft, MainOfRight, Zenon
  <2>2. NoMain(input, goal)
    BY <1>1, <1>4, MainOfUnit, Zenon
  <2> QED
    BY <1>2, <2>1, <2>2, MainUnique, Zenon
<1>5. CASE /\ q \in LeftRules \cup RightRules
           /\ RuleLength(r) = 1 /\ Level(RuleRhs[r][1]) < Level(RuleLhs(r))
  <2>1. LastMain(input, goal, other[2]) \/ FirstMain(input, goal, other[2])
    BY <1>5, MainOfLeft, MainOfRight, Zenon
  <2>2. NoMain(input, goal)
    BY <1>1, <1>5, MainOfUnit, Zenon
  <2> QED
    BY <1>2, <2>1, <2>2, MainUnique, Zenon
<1>6. CASE FirstTokens(RuleRhs[r][1]) \cap FirstTokens(RuleRhs[q][1]) = {}
  <2>1. /\ input[goal[2]].type \in FirstTokens(RuleRhs[r][1])
        /\ input[goal[2]].type \in FirstTokens(RuleRhs[q][1])
    BY EndsOfRule, Zenon
  <2> QED
    BY <1>6, <2>1
<1>7. CASE LastTokens(RuleRhs[r][RuleLength(r)])
             \cap LastTokens(RuleRhs[q][RuleLength(q)]) = {}
  <2>1. /\ input[goal[3]].type \in LastTokens(RuleRhs[r][RuleLength(r)])
        /\ input[goal[3]].type \in LastTokens(RuleRhs[q][RuleLength(q)])
    BY EndsOfRule, Zenon
  <2> QED
    BY <1>7, <2>1
<1>8. RulesApart
  BY PrecedenceConsistent
<1> QED
  BY <1>1, <1>3, <1>4, <1>5, <1>6, <1>7, <1>8, Zenon DEF RulesApart

SameUpTo(n, f, g) == \A m \in 1 .. n : f[m] = g[m]

LEMMA SameBorders ==
  ASSUME NEW input, NEW goal, NEW r, NEW cut, DerivedFrom(input, goal, r, cut),
         NEW other, DerivedFrom(input, goal, r, other)
  PROVE  SameUpTo(RuleLength(r) + 1, cut, other)
<1> SUFFICES \A n \in 1 .. RuleLength(r) + 1 : cut[n] = other[n]
  BY Zenon DEF SameUpTo
<1> DEFINE len == RuleLength(r)
           i == goal[2]
           j == goal[3]
           rhs == RuleRhs[r]
<1>1. r \in DerivingRules /\ i \in Int /\ j \in Int
  BY SMT DEF DerivedFrom
<1>2. len \in 1 .. 3
  BY <1>1, DerivingRule
<1>3. ASSUME NEW c, DerivedFrom(input, goal, r, c)
      PROVE  /\ c[1] = i /\ c[len + 1] = j + 1
             /\ \A n \in 1 .. len : c[n] \in Int
             /\ \A n \in 1 .. len : rhs[n] \in Terminals => c[n + 1] = c[n] + 1
  BY <1>1, <1>3 DEF DerivedFrom, InOrder
<1>4. BordersFixed
  BY PrecedenceConsistent
<1>5. r \in LeftRules \cup RightRules => cut[2] = other[2]
  <2>1. CASE r \in LeftRules
    <3>1. LastMain(input, goal, cut[2]) /\ LastMain(input, goal, other[2])
      BY <2>1, MainOfLeft, Zenon
    <3> QED
      BY <1>1, <3>1, MainUnique
  <2>2. CASE r \in RightRules
    <3>1. FirstMain(input, goal, cut[2]) /\ FirstMain(input, goal, other[2])
      BY <2>2, MainOfRight, Zenon
    <3> QED
      BY <1>1, <3>1, MainUnique
  <2> QED
    BY <2>1, <2>2
<1>6. /\ cut[1] = other[1] /\ cut[len + 1] = other[len + 1]
  <2>1. cut[1] = i /\ cut[len + 1] = j + 1
    BY <1>3, Zenon
  <2>2. other[1] = i /\ other[len + 1] = j + 1
    BY <1>3, Zenon
  <2> QED
    BY <2>1, <2>2, Zenon
<1>7. CASE len = 1
  <2>1. \A n \in 1 .. len + 1 : n = 1 \/ n = len + 1
    BY <1>7
  <2> QED
    BY <1>6, <2>1, Zenon
<1>8. CASE len = 2
  <2>1. \A n \in 1 .. len + 1 : n = 1 \/ n = 2 \/ n = len + 1
    BY <1>8
  <2>2. r \in LeftRules \/ rhs[1] \in Terminals \/ rhs[2] \in Terminals
    BY <1>1, <1>4, <1>8, Zenon DEF BordersFixed
  <2>3. 1 \in 1 .. len /\ 2 \in 1 .. len /\ 1 + 1 = 2 /\ 2 + 1 = len + 1
    BY <1>8
  <2>4. rhs[1] \in Terminals => cut[2] = other[2]
    <3>1. rhs[1] \in Terminals => cut[1 + 1] = cut[1] + 1 /\ other[1 + 1] = other[1] + 1
      BY <1>3, <2>3, Zenon
    <3> QED
      BY <1>6, <2>3, <3>1, Zenon
  <2>5. rhs[2] \in Terminals => cut[2] = other[2]
    <3>1. rhs[2] \in Terminals => cut[2 + 1] = cut[2] + 1 /\ other[2 + 1] = other[2] + 1
      BY <1>3, <2>3, Zenon
    <3>2. cut[2] \in Int /\ other[2] \in Int
      BY <1>3, <2>3, Zenon
    <3>3. cut[2 + 1] = other[2 + 1]
      BY <1>6, <2>3, Zenon
    <3> QED
      BY <3>1, <3>2, <3>3
  <2> QED
    BY <1>5, <1>6, <2>1, <2>2, <2>4, <2>5, Zenon
<1>9. CASE len = 3
  <2>1. \A n \in 1 .. len + 1 : n = 1 \/ n = 2 \/ n = 3 \/ n = len + 1
    BY <1>9
  <2>2. 1 \in 1 .. len /\ 2 \in 1 .. len /\ 3 \in 1 .. len
        /\ 1 + 1 = 2 /\ 2 + 1 = 3 /\ 3 + 1 = len + 1
    BY <1>9
  <2>3. CASE r # 19
    <3>1. r \in LeftRules \cup RightRules /\ rhs[2] \in Terminals
      BY <1>1, <1>4, <1>9, <2>3, Zenon DEF BordersFixed
    <3>2. cut[2 + 1] = cut[2] + 1 /\ other[2 + 1] = other[2] + 1
      BY <1>3, <2>2, <3>1, Zenon
    <3>3. cut[2] = other[2] /\ cut[3] = other[3]
      BY <1>5, <2>2, <3>1, <3>2, Zenon
    <3> QED
      BY <1>6, <2>1, <3>3, Zenon
  <2>4. CASE r = 19
    <3>1. rhs[1] \in Terminals /\ rhs[3] \in Terminals
      <4>1. RuleRhs[19] = << T_LEFT_PAREN, N_exp, T_RIGHT_PAREN >>
        BY TablesAreConsistent, Zenon DEF LrConsistent, ParenthesesInPairs
      <4>2. RuleRhs[r] = << T_LEFT_PAREN, N_exp, T_RIGHT_PAREN >>
        BY <2>4, <4>1, Zenon
      <4>3. rhs[1] = T_LEFT_PAREN /\ rhs[3] = T_RIGHT_PAREN
        BY <4>2
      <4>4. T_LEFT_PAREN \in Terminals /\ T_RIGHT_PAREN \in Terminals
        BY DEF T_LEFT_PAREN, T_RIGHT_PAREN, Terminals, YYNTOKENS
      <4> QED
        BY <4>3, <4>4, Zenon
    <3>2. cut[1 + 1] = cut[1] + 1 /\ other[1 + 1] = other[1] + 1
          /\ cut[3 + 1] = cut[3] + 1 /\ other[3 + 1] = other[3] + 1
      BY <1>3, <2>2, <3>1, Zenon
    <3>3. cut[2] = other[2]
      BY <1>6, <2>2, <3>2, Zenon
    <3>4. cut[3] = other[3]
      <4>1. cut[3] \in Int /\ other[3] \in Int
        BY <1>3, <2>2, Zenon
      <4>2. cut[3 + 1] = other[3 + 1]
        BY <1>6, <2>2, Zenon
      <4> QED
        BY <3>2, <4>1, <4>2
    <3> QED
      BY <1>6, <2>1, <3>3, <3>4, Zenon
  <2> QED
    BY <2>3, <2>4
<1> QED
  BY <1>2, <1>7, <1>8, <1>9

(***************************************************************************)
(* A goal has one tree at most.                                            *)
(***************************************************************************)
OneTree(input, goal) == \A t, u \in Trees(input)[goal] : t = u

OneTreeBelow(input, goal) ==
  \A q \in Goals(input) : Distance(q) < Distance(goal) => OneTree(input, q)

\* What DerivationParts says of one part.
PartDerived(input, goal, r, cut, parts, n) ==
  IF RuleRhs[r][n] \in Terminals
  THEN /\ cut[n + 1] = cut[n] + 1
       /\ input[cut[n]].type = RuleRhs[r][n]
       /\ parts[n] = LexemeTree(input, cut[n])
  ELSE /\ PartGoal(RuleRhs[r], cut, n) \in Goals(input)
       /\ Distance(PartGoal(RuleRhs[r], cut, n)) < Distance(goal)
       /\ parts[n] \in Trees(input)[PartGoal(RuleRhs[r], cut, n)]

LEMMA SamePart ==
  ASSUME NEW input, NEW goal, NEW r \in DerivingRules, NEW n \in 1 .. RuleLength(r),
         NEW cut, NEW parts, PartDerived(input, goal, r, cut, parts, n),
         NEW other, NEW rest, PartDerived(input, goal, r, other, rest, n),
         SameUpTo(RuleLength(r) + 1, cut, other), OneTreeBelow(input, goal)
  PROVE  parts[n] = rest[n]
<1>1. n \in 1 .. RuleLength(r) + 1 /\ n + 1 \in 1 .. RuleLength(r) + 1
  <2> DEFINE len == RuleLength(r)
  <2>1. len \in 1 .. 3
    BY DerivingRule, Zenon
  <2>2. n \in 1 .. len
    OBVIOUS
  <2> SUFFICES n \in 1 .. len + 1 /\ n + 1 \in 1 .. len + 1
    OBVIOUS
  <2> HIDE DEF len
  <2> QED
    BY <2>1, <2>2, SMT
<1>2. cut[n] = other[n] /\ cut[n + 1] = other[n + 1]
  BY <1>1, Zenon DEF SameUpTo
<1>3. CASE RuleRhs[r][n] \in Terminals
  BY <1>2, <1>3, Zenon DEF PartDerived
<1>4. CASE RuleRhs[r][n] \notin Terminals
  <2> DEFINE part == PartGoal(RuleRhs[r], cut, n)
  <2>1. part = PartGoal(RuleRhs[r], other, n)
    BY <1>2, Zenon DEF PartGoal
  <2>2. /\ part \in Goals(input) /\ Distance(part) < Distance(goal)
        /\ parts[n] \in Trees(input)[part] /\ rest[n] \in Trees(input)[part]
    BY <1>4, <2>1, Zenon DEF PartDerived
  <2>3. OneTree(input, part)
    BY <2>2, Zenon DEF OneTreeBelow
  <2> QED
    BY <2>2, <2>3, Zenon DEF OneTree
<1> QED
  BY <1>3, <1>4

LEMMA SamePhrase ==
  ASSUME NEW input, NEW rhs, Len(rhs) \in 1 .. 3, NEW f,
         NEW cut, NEW parts \in Phrases(f, input, rhs, cut),
         NEW other, NEW rest \in Phrases(f, input, rhs, other),
         SameUpTo(Len(rhs), parts, rest)
  PROVE  parts = rest
<1> DEFINE len == Len(rhs)
<1>1. /\ len = 1 => parts = << parts[1] >>
      /\ len = 2 => parts = << parts[1], parts[2] >>
      /\ len = 3 => parts = << parts[1], parts[2], parts[3] >>
  BY PhraseParts
<1>2. /\ len = 1 => rest = << rest[1] >>
      /\ len = 2 => rest = << rest[1], rest[2] >>
      /\ len = 3 => rest = << rest[1], rest[2], rest[3] >>
  BY PhraseParts
<1>3. len \in 1 .. 3 /\ \A n \in 1 .. len : parts[n] = rest[n]
  BY DEF SameUpTo
<1> HIDE DEF len
<1>4. CASE len = 1
  BY <1>1, <1>2, <1>3, <1>4
<1>5. CASE len = 2
  <2>1. parts[1] = rest[1] /\ parts[2] = rest[2]
    BY <1>3, <1>5
  <2> QED
    BY <1>1, <1>2, <1>5, <2>1
<1>6. CASE len = 3
  <2>1. parts[1] = rest[1] /\ parts[2] = rest[2] /\ parts[3] = rest[3]
    BY <1>3, <1>6
  <2> QED
    BY <1>1, <1>2, <1>6, <2>1
<1> QED
  BY <1>3, <1>4, <1>5, <1>6

LEMMA OneDerivation ==
  ASSUME NEW input, Len(input) \in Nat, NEW goal \in Goals(input),
         OneTreeBelow(input, goal)
  PROVE  OneTree(input, goal)
<1> SUFFICES ASSUME NEW t \in Trees(input)[goal], NEW u \in Trees(input)[goal]
             PROVE  t = u
  BY DEF OneTree
<1>1. PICK r, cut, parts : DerivedBy(t, input, goal, r, cut, parts)
  BY TreeDerived, Zenon
<1>2. PICK q, other, rest : DerivedBy(u, input, goal, q, other, rest)
  BY TreeDerived, Zenon
<1>3. DerivedFrom(input, goal, r, cut) /\ DerivedFrom(input, goal, q, other)
  BY <1>1, <1>2, DerivedFromTokens, Zenon
<1>4. r = q
  BY <1>3, SameRule, Zenon
<1>5. DerivedBy(u, input, goal, r, other, rest)
  BY <1>2, <1>4, Zenon
<1>6. SameUpTo(RuleLength(r) + 1, cut, other) /\ r \in DerivingRules
  <2>1. DerivedFrom(input, goal, r, other)
    BY <1>3, <1>4, Zenon
  <2>2. SameUpTo(RuleLength(r) + 1, cut, other)
    BY <1>3, <2>1, SameBorders, Zenon
  <2> QED
    BY <1>1, <2>2, Zenon DEF DerivedBy
<1>7. \A n \in 1 .. RuleLength(r) : PartDerived(input, goal, r, cut, parts, n)
  BY <1>1, DerivationParts, Zenon DEF PartDerived
<1>8. \A n \in 1 .. RuleLength(r) : PartDerived(input, goal, r, other, rest, n)
  BY <1>5, DerivationParts, Zenon DEF PartDerived
<1>9. SameUpTo(RuleLength(r), parts, rest)
  <2>1. ASSUME NEW n \in 1 .. RuleLength(r)
        PROVE  parts[n] = rest[n]
    <3>1. /\ PartDerived(input, goal, r, cut, parts, n)
          /\ PartDerived(input, goal, r, other, rest, n)
      BY <1>7, <1>8, Zenon
    <3> QED
      BY <1>6, <3>1, SamePart
  <2> QED
    BY <2>1, Zenon DEF SameUpTo
<1>10. parts = rest
  <2>1. /\ parts \in Phrases(Trees(input), input, RuleRhs[r], cut)
        /\ rest \in Phrases(Trees(input), input, RuleRhs[r], other)
    BY <1>1, <1>5, Zenon DEF DerivedBy
  <2>2. Len(RuleRhs[r]) \in 1 .. 3 /\ Len(RuleRhs[r]) = RuleLength(r)
    BY <1>1, DerivingRule DEF DerivedBy
  <2>3. SameUpTo(Len(RuleRhs[r]), parts, rest)
    BY <1>9, <2>2, Zenon
  <2> QED
    BY <2>1, <2>2, <2>3, SamePhrase, Zenon
<1> QED
  BY <1>1, <1>5, <1>10, Zenon DEF DerivedBy

\* The grammar of parser.y, read by its levels of precedence, is unambiguous:
\* no stretch of any input is derived from a symbol in two ways.
THEOREM Unambiguous ==
  ASSUME NEW input, Len(input) \in Nat
  PROVE  \A goal \in Goals(input) : OneTree(input, goal)
<1> DEFINE S == {goal \in Goals(input) : OneTree(input, goal)}
<1>1. \A goal \in Goals(input) :
        (\A q \in Goals(input) : Distance(q) < Distance(goal) => q \in S) => goal \in S
  BY OneDerivation, Zenon DEF OneTreeBelow
<1>2. \A goal \in Goals(input) : goal \in S
  <2> HIDE DEF S
  <2> QED
    BY <1>1, GoalInduction, Zenon
<1> QED
  BY <1>2

(***************************************************************************)
(* The trees of the arena.  Operands are older than their node, so that    *)
(* the recursion has a solution, and a longer arena has the same trees.    *)
(***************************************************************************)
Acyclic(nodes) ==
  nodes \in Seq(Node) /\ \A id \in 1 .. Len(nodes) : OperandsOlder(nodes, id)

\* Two functions that agree on the nodes older than n.
AgreeBefore(n, f, g) == \A k \in 1 .. n - 1 : f[k] = g[k]

LEMMA SameNodeTree ==
  ASSUME NEW nodes, NEW id, OperandsOlder(nodes, id),
         NEW f, NEW g, AgreeBefore(id, f, g)
  PROVE  NodeTree(f, nodes[id]) = NodeTree(g, nodes[id])
<1>1. CASE nodes[id].kind \in LeafKinds
  BY <1>1, Zenon DEF NodeTree
<1>2. CASE nodes[id].kind \notin LeafKinds
  <2>1. /\ f[nodes[id].left] = g[nodes[id].left]
        /\ f[nodes[id].right] = g[nodes[id].right]
    BY <1>2, Zenon DEF OperandsOlder, AgreeBefore
  <2> QED
    BY <1>2, <2>1, Zenon DEF NodeTree
<1> QED
  BY <1>1, <1>2

IsArenaTrees(f, nodes, n) == f = [id \in 1 .. n |-> NodeTree(f, nodes[id])]

LEMMA ArenaTreesExist ==
  ASSUME NEW nodes, NEW len \in Nat, \A id \in 1 .. len : OperandsOlder(nodes, id)
  PROVE  \E f : IsArenaTrees(f, nodes, len)
<1> DEFINE S == {n \in 0 .. len : \E f : IsArenaTrees(f, nodes, n)}
<1>1. 0 \in S
  <2> DEFINE none == [id \in 1 .. 0 |-> 0]
  <2>1. none = [id \in 1 .. 0 |-> NodeTree(none, nodes[id])]
    <3> HIDE DEF none
    <3>1. \A id \in 1 .. 0 : FALSE
      OBVIOUS
    <3>2. none = [id \in 1 .. 0 |-> 0]
      BY DEF none
    <3> QED
      BY <3>1, <3>2, Zenon
  <2> HIDE DEF none
  <2>2. 0 \in 0 .. len
    OBVIOUS
  <2> QED
    BY <2>1, <2>2, Zenon DEF IsArenaTrees
<1>2. ASSUME NEW n \in 0 .. len - 1, n \in S
      PROVE  n + 1 \in S
  <2>1. PICK f : IsArenaTrees(f, nodes, n)
    BY <1>2
  <2> DEFINE g == [id \in 1 .. n + 1 |-> IF id = n + 1 THEN NodeTree(f, nodes[n + 1])
                                         ELSE f[id]]
  <2>2. \A id \in 1 .. n : g[id] = f[id]
    <3>1. \A id \in 1 .. n : id \in 1 .. n + 1 /\ id # n + 1
      OBVIOUS
    <3> QED
      BY <3>1, Zenon
  <2>3. g[n + 1] = NodeTree(f, nodes[n + 1])
    <3>1. n + 1 \in 1 .. n + 1
      OBVIOUS
    <3> QED
      BY <3>1, Zenon
  <2>4. g = [id \in 1 .. n + 1 |-> g[id]]
    BY Zenon
  <2> HIDE DEF g
  <2>5. ASSUME NEW id \in 1 .. n + 1
        PROVE  NodeTree(f, nodes[id]) = NodeTree(g, nodes[id])
    <3>1. id \in 1 .. len /\ \A k \in 1 .. id - 1 : k \in 1 .. n
      BY <1>2, SMT
    <3>2. AgreeBefore(id, f, g)
      BY <2>2, <3>1, Zenon DEF AgreeBefore
    <3>3. OperandsOlder(nodes, id)
      BY <3>1, Zenon
    <3> QED
      BY <3>2, <3>3, SameNodeTree, Zenon
  <2>6. ASSUME NEW id \in 1 .. n + 1
        PROVE  g[id] = NodeTree(f, nodes[id])
    <3>1. CASE id = n + 1
      BY <2>3, <3>1, Zenon
    <3>2. CASE id # n + 1
      <4>1. id \in 1 .. n
        BY <3>2, SMT
      <4>2. f[id] = NodeTree(f, nodes[id])
        BY <2>1, <4>1, Zenon DEF IsArenaTrees
      <4> QED
        BY <2>2, <4>1, <4>2, Zenon
    <3> QED
      BY <3>1, <3>2
  <2>7. IsArenaTrees(g, nodes, n + 1)
    BY <2>4, <2>5, <2>6, Zenon DEF IsArenaTrees
  <2>8. n + 1 \in 0 .. len
    BY <1>2, SMT
  <2> QED
    BY <2>7, <2>8
<1> HIDE DEF S
<1>3. \A n \in 0 .. len : n \in S
  BY <1>1, <1>2, UpTo
<1>4. len \in S
  BY <1>3
<1> QED
  BY <1>4 DEF S

LEMMA ArenaTreesUnfold ==
  ASSUME NEW nodes, Acyclic(nodes), NEW id \in 1 .. Len(nodes)
  PROVE  ArenaTrees(nodes)[id] = NodeTree(ArenaTrees(nodes), nodes[id])
<1> DEFINE trees[i \in 1 .. Len(nodes)] == NodeTree(trees, nodes[i])
<1>1. ArenaTrees(nodes) = trees
  BY DEF ArenaTrees
<1>2. trees = CHOOSE f : IsArenaTrees(f, nodes, Len(nodes))
  BY Zenon DEF IsArenaTrees
<1> HIDE DEF trees
<1>3. IsArenaTrees(trees, nodes, Len(nodes))
  <2>1. Len(nodes) \in Nat /\ \A i \in 1 .. Len(nodes) : OperandsOlder(nodes, i)
    BY DEF Acyclic
  <2>2. \E f : IsArenaTrees(f, nodes, Len(nodes))
    BY <2>1, ArenaTreesExist
  <2> QED
    BY <1>2, <2>2, Zenon
<1>4. trees[id] = NodeTree(trees, nodes[id])
  BY <1>3, Zenon DEF IsArenaTrees
<1> QED
  BY <1>1, <1>4, Zenon

LEMMA ExtendsAcyclic ==
  ASSUME NEW nodes, Acyclic(nodes), NEW new, Extends(nodes, new)
  PROVE  Acyclic(new)
<1>1. /\ new \in Seq(Node) /\ Len(nodes) \in Nat /\ Len(new) \in Nat
      /\ Len(nodes) <= Len(new)
  BY DEF Extends, Acyclic
<1>2. ASSUME NEW id \in 1 .. Len(new)
      PROVE  OperandsOlder(new, id)
  <2>1. CASE id \in 1 .. Len(nodes)
    <3>1. new[id] = nodes[id] /\ OperandsOlder(nodes, id)
      BY <2>1, Zenon DEF Extends, Acyclic
    <3> QED
      BY <3>1, Zenon DEF OperandsOlder
  <2>2. CASE id \in Len(nodes) + 1 .. Len(new)
    BY <2>2, Zenon DEF Extends
  <2> QED
    BY <1>1, <2>1, <2>2
<1> QED
  BY <1>1, <1>2 DEF Acyclic

LEMMA ArenaTreesKept ==
  ASSUME NEW nodes, Acyclic(nodes), NEW new, Extends(nodes, new)
  PROVE  \A id \in 1 .. Len(nodes) : ArenaTrees(new)[id] = ArenaTrees(nodes)[id]
<1> DEFINE S == {n \in 0 .. Len(nodes) : AgreeBefore(n + 1, ArenaTrees(new), ArenaTrees(nodes))}
           len == Len(nodes)
<1>1. len \in Nat /\ Acyclic(new) /\ Len(nodes) <= Len(new) /\ Len(new) \in Nat
  BY ExtendsAcyclic DEF Acyclic, Extends
<1>2. 0 \in S
  <2>1. \A k \in 1 .. (0 + 1) - 1 : FALSE
    OBVIOUS
  <2>2. AgreeBefore(0 + 1, ArenaTrees(new), ArenaTrees(nodes))
    BY <2>1, Zenon DEF AgreeBefore
  <2> QED
    BY <1>1, <2>2
<1>3. ASSUME NEW n \in 0 .. len - 1, n \in S
      PROVE  n + 1 \in S
  <2>1. AgreeBefore(n + 1, ArenaTrees(new), ArenaTrees(nodes))
    BY <1>3
  <2>2. n + 1 \in 1 .. Len(nodes) /\ n + 1 \in 1 .. Len(new) /\ n + 1 \in 0 .. len
    BY <1>1, SMT
  <2>3. /\ ArenaTrees(new)[n + 1] = NodeTree(ArenaTrees(new), new[n + 1])
        /\ ArenaTrees(nodes)[n + 1] = NodeTree(ArenaTrees(nodes), nodes[n + 1])
    BY <1>1, <2>2, ArenaTreesUnfold, Zenon
  <2>4. new[n + 1] = nodes[n + 1] /\ OperandsOlder(nodes, n + 1)
    BY <2>2, Zenon DEF Extends, Acyclic
  <2>5. NodeTree(ArenaTrees(new), nodes[n + 1]) = NodeTree(ArenaTrees(nodes), nodes[n + 1])
    BY <2>1, <2>4, SameNodeTree, Zenon
  <2>6. ArenaTrees(new)[n + 1] = ArenaTrees(nodes)[n + 1]
    BY <2>3, <2>4, <2>5, Zenon
  <2>7. \A k \in 1 .. ((n + 1) + 1) - 1 : k \in 1 .. (n + 1) - 1 \/ k = n + 1
    OBVIOUS
  <2>8. AgreeBefore((n + 1) + 1, ArenaTrees(new), ArenaTrees(nodes))
    BY <2>1, <2>6, <2>7, Zenon DEF AgreeBefore
  <2> QED
    BY <2>2, <2>8
<1> HIDE DEF S
<1>4. \A n \in 0 .. len : n \in S
  BY <1>1, <1>2, <1>3, UpTo
<1>5. AgreeBefore(len + 1, ArenaTrees(new), ArenaTrees(nodes))
  BY <1>1, <1>4 DEF S
<1>6. \A id \in 1 .. len : id \in 1 .. (len + 1) - 1
  BY <1>1
<1> QED
  BY <1>5, <1>6, Zenon DEF AgreeBefore

(***************************************************************************)
(* The trees of what the makers build.                                     *)
(***************************************************************************)
TreeMade(made) == ArenaTrees(made.arena)[made.node]

LEMMA AppendedTree ==
  ASSUME NEW nodes, Acyclic(nodes), NEW new, Extends(nodes, new), NEW node \in Node,
         IF node.kind \in LeafKinds
         THEN node.left = NoNode /\ node.right = NoNode
         ELSE node.left \in 1 .. Len(new) /\ node.right \in 1 .. Len(new)
  PROVE  ArenaTrees(Append(new, node))[Len(new) + 1] = NodeTree(ArenaTrees(new), node)
<1> DEFINE longer == Append(new, node)
           n == Len(new) + 1
<1>1. nodes \in Seq(Node) /\ new \in Seq(Node) /\ Acyclic(new)
  BY ExtendsAcyclic DEF Acyclic, Extends
<1>2. Extends(new, longer) /\ Len(longer) = n /\ n \in 1 .. n
  <2>1. Len(new) \in Nat
    BY <1>1
  <2>2. Extends(new, new)
    BY <1>1, ExtendsReflexive, Zenon
  <2>3. Extends(new, Append(new, node)) /\ Len(Append(new, node)) = Len(new) + 1
    BY <1>1, <2>2, ExtendsAppend
  <2> QED
    BY <2>1, <2>3
<1>3. longer[n] = node
  BY <1>1
<1>4. Acyclic(longer)
  BY <1>1, <1>2, ExtendsAcyclic, Zenon
<1>5. /\ ArenaTrees(longer)[n] = NodeTree(ArenaTrees(longer), longer[n])
      /\ OperandsOlder(longer, n)
  BY <1>2, <1>4, ArenaTreesUnfold, Zenon DEF Acyclic
<1>6. AgreeBefore(n, ArenaTrees(longer), ArenaTrees(new))
  <2>1. \A id \in 1 .. Len(new) : ArenaTrees(longer)[id] = ArenaTrees(new)[id]
    BY <1>1, <1>2, ArenaTreesKept, Zenon
  <2>2. \A k \in 1 .. n - 1 : k \in 1 .. Len(new)
    BY <1>1
  <2> QED
    BY <2>1, <2>2, Zenon DEF AgreeBefore
<1>7. NodeTree(ArenaTrees(longer), longer[n]) = NodeTree(ArenaTrees(new), longer[n])
  BY <1>5, <1>6, SameNodeTree, Zenon
<1> QED
  BY <1>3, <1>5, <1>7, Zenon

LEMMA MakeLeafTree ==
  ASSUME NEW nodes, Acyclic(nodes), NEW kind \in LeafKinds, NEW token \in Nat,
         NEW negative \in BOOLEAN, NEW loc \in Location
  PROVE  TreeMade(MakeLeaf(nodes, kind, token, negative, loc))
           = Tree(kind, token, negative, loc)
<1> DEFINE node == LeafNode(kind, token, negative, loc)
<1>1. node \in Node /\ node.kind = kind /\ node.left = NoNode /\ node.right = NoNode
  BY LeafNodeType
<1>2. /\ node.has_location = TRUE /\ node.token = token
      /\ node.negative = negative /\ node.location = loc
  BY DEF LeafNode
<1>3. nodes \in Seq(Node) /\ Extends(nodes, nodes)
  BY ExtendsReflexive DEF Acyclic
<1>4. /\ MakeLeaf(nodes, kind, token, negative, loc).arena = Append(nodes, node)
      /\ MakeLeaf(nodes, kind, token, negative, loc).node = Len(nodes) + 1
  BY <1>3 DEF MakeLeaf, Made
<1> HIDE DEF node
<1>5. ArenaTrees(Append(nodes, node))[Len(nodes) + 1] = NodeTree(ArenaTrees(nodes), node)
  BY <1>1, <1>3, AppendedTree
<1>6. NodeTree(ArenaTrees(nodes), node) = Tree(kind, token, negative, loc)
  BY <1>1, <1>2, Zenon DEF NodeTree, Tree
<1> QED
  BY <1>4, <1>5, <1>6, Zenon DEF TreeMade

LEMMA MakeBinaryTree ==
  ASSUME NEW nodes, Acyclic(nodes), NEW new, Extends(nodes, new),
         NEW kind \in BinaryKinds, NEW left \in 1 .. Len(new),
         NEW right \in 1 .. Len(new), NEW loc \in Location
  PROVE  TreeMade(MakeBinary(new, kind, left, right, loc))
           = Tree(kind, ArenaTrees(new)[left], ArenaTrees(new)[right], loc)
<1> DEFINE node == BinaryNode(kind, left, right, loc)
<1>1. new \in Seq(Node) /\ Len(new) \in Nat /\ left \in Nat /\ right \in Nat
  BY DEF Extends
<1>2. /\ node \in Node /\ node.kind \notin LeafKinds /\ node.kind = kind
      /\ node.left = left /\ node.right = right
  BY <1>1, BinaryNodeType DEF BinaryNode
<1>3. node.has_location = TRUE /\ node.location = loc
  BY DEF BinaryNode
<1>4. /\ MakeBinary(new, kind, left, right, loc).arena = Append(new, node)
      /\ MakeBinary(new, kind, left, right, loc).node = Len(new) + 1
  BY <1>1 DEF MakeBinary, Made
<1> HIDE DEF node
<1>5. ArenaTrees(Append(new, node))[Len(new) + 1] = NodeTree(ArenaTrees(new), node)
  BY <1>2, AppendedTree
<1>6. NodeTree(ArenaTrees(new), node)
        = Tree(kind, ArenaTrees(new)[left], ArenaTrees(new)[right], loc)
  BY <1>2, <1>3, Zenon DEF NodeTree, Tree
<1> QED
  BY <1>4, <1>5, <1>6, Zenon DEF TreeMade

LEMMA MakePowerTree ==
  ASSUME NEW nodes, Acyclic(nodes), NEW base \in 1 .. Len(nodes), NEW token \in Nat,
         NEW negative \in BOOLEAN, NEW tokenLoc \in Location, NEW loc \in Location
  PROVE  TreeMade(MakePower(nodes, base, token, negative, tokenLoc, loc))
           = Tree("pow", ArenaTrees(nodes)[base],
                  Tree("integer", token, negative, tokenLoc), loc)
<1> DEFINE leaf == MakeLeaf(nodes, "integer", token, negative, tokenLoc)
<1>1. nodes \in Seq(Node) /\ "integer" \in LeafKinds /\ "pow" \in BinaryKinds
  BY DEF Acyclic, LeafKinds, BinaryKinds
<1>2. Extends(nodes, leaf.arena)
  BY <1>1, MakeLeafExtends DEF MadeFrom
<1>3. TreeMade(leaf) = Tree("integer", token, negative, tokenLoc)
  BY <1>1, MakeLeafTree, Zenon
<1>4. leaf.node = Len(nodes) + 1 /\ Len(leaf.arena) = Len(nodes) + 1
  BY <1>1 DEF MakeLeaf, Made
<1>5. /\ base \in 1 .. Len(leaf.arena) /\ Len(nodes) + 1 \in 1 .. Len(leaf.arena)
  BY <1>1, <1>4
<1>6. ArenaTrees(leaf.arena)[base] = ArenaTrees(nodes)[base]
  BY <1>2, ArenaTreesKept, Zenon
<1>7. TreeMade(MakeBinary(leaf.arena, "pow", base, Len(nodes) + 1, loc))
        = Tree("pow", ArenaTrees(leaf.arena)[base],
               ArenaTrees(leaf.arena)[Len(nodes) + 1], loc)
  <2> HIDE DEF leaf
  <2> QED
    BY <1>1, <1>2, <1>5, MakeBinaryTree
<1> QED
  BY <1>3, <1>4, <1>6, <1>7, Zenon DEF MakePower, TreeMade

LEMMA MakeNegationTree ==
  ASSUME NEW nodes, Acyclic(nodes), NEW node \in 1 .. Len(nodes), NEW loc \in Location
  PROVE  TreeMade(MakeNegation(nodes, node, loc))
           = NegatedTree(ArenaTrees(nodes)[node], loc)
<1> DEFINE tree == ArenaTrees(nodes)[node]
<1>1. nodes \in Seq(Node) /\ nodes[node] \in Node
  BY DEF Acyclic
<1>2. tree = NodeTree(ArenaTrees(nodes), nodes[node])
  BY ArenaTreesUnfold, Zenon
<1>3. tree[1] = nodes[node].kind
  BY <1>2 DEF NodeTree
<1>4. CASE nodes[node].kind \in NumeralKinds
  <2>1. nodes[node].kind \in LeafKinds
    BY <1>4 DEF NumeralKinds, LeafKinds
  <2>2. tree[3] = nodes[node].token /\ tree[4] = nodes[node].negative
    BY <1>2, <2>1 DEF NodeTree
  <2>3. nodes[node].token \in Nat /\ (~ nodes[node].negative) \in BOOLEAN
    <3>1. nodes[node].token \in Nat
      BY <1>1 DEF Node
    <3> QED
      BY <3>1, Zenon
  <2>4. TreeMade(MakeLeaf(nodes, nodes[node].kind, nodes[node].token,
                          ~ nodes[node].negative, loc))
          = Tree(nodes[node].kind, nodes[node].token, ~ nodes[node].negative, loc)
    BY <2>1, <2>3, MakeLeafTree, Zenon
  <2> QED
    BY <1>3, <1>4, <2>2, <2>4, Zenon DEF MakeNegation, NegatedSign, NegatedTree
<1>5. CASE nodes[node].kind \notin NumeralKinds
  <2> DEFINE new == Append(nodes, MinusOne)
             factor == Len(nodes) + 1
  <2>1. /\ MinusOne \in Node /\ MinusOne.kind = "integer" /\ MinusOne.left = NoNode
        /\ MinusOne.right = NoNode /\ MinusOne.has_location = FALSE
        /\ MinusOne.token = 0 /\ MinusOne.negative = TRUE
        /\ MinusOne.location.start = 0 /\ MinusOne.location.end = 0
    BY DEF MinusOne, LeafNode, Node, NoNode, NoLocation, Location, LeafKinds
  <2>2. "integer" \in LeafKinds /\ "mul" \in BinaryKinds
    BY DEF LeafKinds, BinaryKinds
  <2>3. Extends(nodes, nodes)
    BY <1>1, ExtendsReflexive, Zenon
  <2>4. Extends(nodes, new) /\ Len(new) = factor
    BY <1>1, <2>1, <2>2, <2>3, ExtendsAppend
  <2>5. ArenaTrees(new)[factor] = NodeTree(ArenaTrees(nodes), MinusOne)
    BY <2>1, <2>2, <2>3, AppendedTree
  <2>6. NodeTree(ArenaTrees(nodes), MinusOne) = MinusOneTree
    BY <2>1, <2>2, Zenon DEF NodeTree, MinusOneTree
  <2>7. factor \in 1 .. Len(new) /\ node \in 1 .. Len(new)
    BY <1>1, <2>4
  <2>8. ArenaTrees(new)[node] = tree
    BY <2>4, ArenaTreesKept, Zenon
  <2>9. MakeNegation(nodes, node, loc) = MakeBinary(new, "mul", factor, node, loc)
    BY <1>5, Zenon DEF MakeNegation, NegationFactor
  <2> HIDE DEF new, factor, tree
  <2>10. TreeMade(MakeBinary(new, "mul", factor, node, loc))
           = Tree("mul", ArenaTrees(new)[factor], ArenaTrees(new)[node], loc)
    BY <2>2, <2>4, <2>7, MakeBinaryTree
  <2>11. TreeMade(MakeBinary(new, "mul", factor, node, loc))
           = Tree("mul", MinusOneTree, tree, loc)
    BY <2>5, <2>6, <2>8, <2>10, Zenon
  <2>12. NegatedTree(tree, loc) = Tree("mul", MinusOneTree, tree, loc)
    BY <1>3, <1>5, Zenon DEF NegatedTree
  <2> QED
    BY <2>9, <2>11, <2>12, Zenon DEF tree
<1> QED
  BY <1>4, <1>5

(***************************************************************************)
(* The meaning of each rule, by number as the semantic actions have it.    *)
(***************************************************************************)
LEMMA UnitMeaning ==
  ASSUME NEW r \in DerivingRules, RuleLength(r) = 1, NEW parts, NEW loc
  PROVE  Meaning(RuleRhs[r], parts, loc) = parts[1]
<1>1. Len(RuleRhs[r]) = 1
  BY DerivingRule
<1> QED
  BY <1>1, Zenon DEF Meaning

LEMMA OperatorMeaning ==
  ASSUME NEW parts, NEW loc, NEW x \in Nonterminals,
         NEW op \in {T_ADD, T_SUB, T_DOT, T_MUL, T_DIV, T_POW, T_AT}, NEW y
  PROVE  Meaning(<< x, op, y >>, parts, loc)
           = Tree(OperatorKind(op), parts[1], parts[3], loc)
<1> DEFINE rhs == << x, op, y >>
<1>1. Len(rhs) = 3 /\ rhs[1] = x /\ rhs[2] = op
  OBVIOUS
<1>2. x # T_LEFT_PAREN /\ x # T_SUB
  BY DEF Nonterminals, N_identifier, T_LEFT_PAREN, T_SUB, YYNTOKENS
<1>3. op # T_SUPERSCRIPT_INTEGER
  BY DEF T_SUPERSCRIPT_INTEGER, T_ADD, T_SUB, T_DOT, T_MUL, T_DIV, T_POW, T_AT
<1>4. Len(rhs) # 1 /\ Len(rhs) # 2
  BY <1>1
<1> HIDE DEF rhs
<1> QED
  BY <1>1, <1>2, <1>3, <1>4 DEF Meaning, rhs

LEMMA BinaryMeaning ==
  ASSUME NEW r \in BinaryRules, NEW parts, NEW loc
  PROVE  Meaning(RuleRhs[r], parts, loc)
           = Tree(BinaryKind(r), parts[1], parts[RuleLength(r)], loc)
<1>1. /\ RuleRhs[5] = << N_additive_exp, T_ADD, N_product_exp >>
      /\ RuleRhs[6] = << N_additive_exp, T_SUB, N_product_exp >>
      /\ RuleRhs[8] = << N_product_exp, N_power_exp >>
      /\ RuleRhs[9] = << N_product_exp, T_DOT, N_unary_exp >>
      /\ RuleRhs[10] = << N_product_exp, T_MUL, N_unary_exp >>
      /\ RuleRhs[11] = << N_product_exp, T_DIV, N_unary_exp >>
      /\ RuleRhs[15] = << N_simple, T_POW, N_unary_exp >>
      /\ RuleRhs[18] = << N_identifier, T_AT, N_signed_number >>
  BY DEF RuleRhs
<1>2. /\ N_additive_exp \in Nonterminals /\ N_product_exp \in Nonterminals
      /\ N_simple \in Nonterminals /\ N_identifier \in Nonterminals
  BY DEF N_additive_exp, N_product_exp, N_simple, N_identifier, Nonterminals,
         YYNTOKENS
<1>3. /\ OperatorKind(T_ADD) = "add" /\ OperatorKind(T_SUB) = "sub"
      /\ OperatorKind(T_DOT) = "mul" /\ OperatorKind(T_MUL) = "mul"
      /\ OperatorKind(T_DIV) = "div" /\ OperatorKind(T_POW) = "pow"
      /\ OperatorKind(T_AT) = "at"
  BY DEF OperatorKind, T_ADD, T_SUB, T_DOT, T_MUL, T_DIV, T_POW, T_AT
<1>4. /\ BinaryKind(5) = "add" /\ BinaryKind(6) = "sub" /\ BinaryKind(8) = "mul"
      /\ BinaryKind(9) = "mul" /\ BinaryKind(10) = "mul" /\ BinaryKind(11) = "div"
      /\ BinaryKind(15) = "pow" /\ BinaryKind(18) = "at"
  BY DEF BinaryKind
<1>5. /\ RuleLength(5) = 3 /\ RuleLength(6) = 3 /\ RuleLength(8) = 2
      /\ RuleLength(9) = 3 /\ RuleLength(10) = 3 /\ RuleLength(11) = 3
      /\ RuleLength(15) = 3 /\ RuleLength(18) = 3
  BY DEF RuleLength, yyr2
<1>6. CASE r = 5
  BY <1>1, <1>2, <1>3, <1>4, <1>5, <1>6, OperatorMeaning
<1>7. CASE r = 6
  BY <1>1, <1>2, <1>3, <1>4, <1>5, <1>7, OperatorMeaning
<1>8. CASE r = 8
  <2> DEFINE rhs == << N_product_exp, N_power_exp >>
  <2>1. Len(rhs) = 2 /\ rhs[1] = N_product_exp /\ rhs[2] = N_power_exp
    OBVIOUS
  <2>2. N_product_exp # T_LEFT_PAREN /\ N_product_exp # T_SUB
        /\ N_power_exp # T_SUPERSCRIPT_INTEGER
    BY DEF N_product_exp, N_power_exp, T_LEFT_PAREN, T_SUB, T_SUPERSCRIPT_INTEGER
  <2>3. Len(rhs) # 1
    BY <2>1
  <2> HIDE DEF rhs
  <2>4. Meaning(rhs, parts, loc) = Tree("mul", parts[1], parts[2], loc)
    BY <2>1, <2>2, <2>3 DEF Meaning
  <2> QED
    BY <1>1, <1>4, <1>5, <1>8, <2>4, Zenon DEF rhs
<1>9. CASE r = 9
  BY <1>1, <1>2, <1>3, <1>4, <1>5, <1>9, OperatorMeaning
<1>10. CASE r = 10
  BY <1>1, <1>2, <1>3, <1>4, <1>5, <1>10, OperatorMeaning
<1>11. CASE r = 11
  BY <1>1, <1>2, <1>3, <1>4, <1>5, <1>11, OperatorMeaning
<1>12. CASE r = 15
  BY <1>1, <1>2, <1>3, <1>4, <1>5, <1>12, OperatorMeaning
<1>13. CASE r = 18
  BY <1>1, <1>2, <1>3, <1>4, <1>5, <1>13, OperatorMeaning
<1> QED
  BY <1>6, <1>7, <1>8, <1>9, <1>10, <1>11, <1>12, <1>13 DEF BinaryRules

LEMMA OtherMeanings ==
  ASSUME NEW parts, NEW loc
  PROVE  /\ \A r \in {13, 24} : /\ Meaning(RuleRhs[r], parts, loc) = NegatedTree(parts[2], loc)
                                /\ RuleLength(r) = 2
         /\ Meaning(RuleRhs[19], parts, loc) = parts[2]
         /\ Meaning(RuleRhs[20], parts, loc) = Tree("pow", parts[1], parts[2], loc)
<1>1. /\ RuleRhs[13] = << T_SUB, N_unary_exp >> /\ RuleRhs[24] = << T_SUB, N_number >>
      /\ RuleRhs[19] = << T_LEFT_PAREN, N_exp, T_RIGHT_PAREN >>
      /\ RuleRhs[20] = << N_simple, T_SUPERSCRIPT_INTEGER >>
  BY DEF RuleRhs
<1>2. /\ T_SUB # T_LEFT_PAREN /\ N_simple # T_LEFT_PAREN /\ N_simple # T_SUB
  BY DEF T_SUB, T_LEFT_PAREN, N_simple
<1>3. ASSUME NEW y
      PROVE  Meaning(<< T_SUB, y >>, parts, loc) = NegatedTree(parts[2], loc)
  <2> DEFINE rhs == << T_SUB, y >>
  <2>1. Len(rhs) # 1 /\ rhs[1] = T_SUB
    OBVIOUS
  <2> HIDE DEF rhs
  <2>2. Meaning(rhs, parts, loc) = NegatedTree(parts[2], loc)
    BY <1>2, <2>1 DEF Meaning
  <2> QED
    BY <2>2 DEF rhs
<1>4. Meaning(<< T_LEFT_PAREN, N_exp, T_RIGHT_PAREN >>, parts, loc) = parts[2]
  <2> DEFINE rhs == << T_LEFT_PAREN, N_exp, T_RIGHT_PAREN >>
  <2>1. Len(rhs) # 1 /\ rhs[1] = T_LEFT_PAREN
    OBVIOUS
  <2> HIDE DEF rhs
  <2>2. Meaning(rhs, parts, loc) = parts[2]
    BY <2>1 DEF Meaning
  <2> QED
    BY <2>2 DEF rhs
<1>5. Meaning(<< N_simple, T_SUPERSCRIPT_INTEGER >>, parts, loc)
        = Tree("pow", parts[1], parts[2], loc)
  <2> DEFINE rhs == << N_simple, T_SUPERSCRIPT_INTEGER >>
  <2>1. Len(rhs) # 1 /\ rhs[1] = N_simple /\ rhs[2] = T_SUPERSCRIPT_INTEGER
    OBVIOUS
  <2> HIDE DEF rhs
  <2>2. Meaning(rhs, parts, loc) = Tree("pow", parts[1], parts[2], loc)
    BY <1>2, <2>1 DEF Meaning
  <2> QED
    BY <2>2 DEF rhs
<1>6. RuleLength(13) = 2 /\ RuleLength(24) = 2
  BY DEF RuleLength, yyr2
<1> QED
  BY <1>1, <1>3, <1>4, <1>5, <1>6, Zenon

(***************************************************************************)
(* A handle whose symbols derive adjacent stretches of tokens is a cut and *)
(* a phrase of its rule.                                                   *)
(***************************************************************************)
\* The symbol of a stack entry derives the tokens from the entry's own to j.
SymbolDerived(nodes, input, entry, symbol, j) ==
  /\ j \in 1 .. Len(input) /\ entry.token \in 1 .. j
  /\ entry.location.start = input[entry.token].location.start
  /\ entry.location.end = input[j].location.end
  /\ IF symbol \in Terminals
     THEN entry.token = j /\ input[j].type = symbol
     ELSE /\ symbol \in Nonterminals \ {N_accept}
          /\ entry.node \in 1 .. Len(nodes)
          /\ ArenaTrees(nodes)[entry.node] \in Trees(input)[<< symbol, entry.token, j >>]

EntryTree(nodes, input, symbol, entry) ==
  IF symbol \in Terminals THEN LexemeTree(input, entry.token)
  ELSE ArenaTrees(nodes)[entry.node]

HandleCut(rhs, last) ==
  IF Len(rhs) = 1 THEN << rhs[1].token, last + 1 >>
  ELSE IF Len(rhs) = 2 THEN << rhs[1].token, rhs[2].token, last + 1 >>
  ELSE << rhs[1].token, rhs[2].token, rhs[3].token, last + 1 >>

HandleParts(nodes, input, r, rhs) ==
  LET Part(n) == EntryTree(nodes, input, RuleRhs[r][n], rhs[n])
  IN  IF Len(rhs) = 1 THEN << Part(1) >>
      ELSE IF Len(rhs) = 2 THEN << Part(1), Part(2) >>
      ELSE << Part(1), Part(2), Part(3) >>

HandleDerived(nodes, input, r, rhs, last) ==
  /\ Len(rhs) = RuleLength(r)
  /\ \A n \in 1 .. RuleLength(r) :
       SymbolDerived(nodes, input, rhs[n], RuleRhs[r][n], HandleCut(rhs, last)[n + 1] - 1)

LEMMA HandleCutBorders ==
  ASSUME NEW rhs, Len(rhs) \in 1 .. 3, NEW last
  PROVE  /\ \A n \in 1 .. Len(rhs) : HandleCut(rhs, last)[n] = rhs[n].token
         /\ HandleCut(rhs, last)[Len(rhs) + 1] = last + 1
         /\ Len(rhs) = 1 => HandleCut(rhs, last) = << rhs[1].token, last + 1 >>
         /\ Len(rhs) = 2 =>
              HandleCut(rhs, last) = << rhs[1].token, rhs[2].token, last + 1 >>
         /\ Len(rhs) = 3 =>
              HandleCut(rhs, last) = << rhs[1].token, rhs[2].token, rhs[3].token, last + 1 >>
<1> DEFINE cut == HandleCut(rhs, last)
           len == Len(rhs)
<1>1. /\ len = 1 => cut = << rhs[1].token, last + 1 >>
      /\ len = 2 => cut = << rhs[1].token, rhs[2].token, last + 1 >>
      /\ len = 3 => cut = << rhs[1].token, rhs[2].token, rhs[3].token, last + 1 >>
  BY DEF HandleCut
<1>2. len \in 1 .. 3
  OBVIOUS
<1> SUFFICES /\ \A n \in 1 .. len : cut[n] = rhs[n].token
             /\ cut[len + 1] = last + 1
  BY <1>1, Zenon
<1> HIDE DEF cut, len
<1>3. CASE len = 1
  <2>1. \A n \in 1 .. len : n = 1
    BY <1>3
  <2>2. cut[1] = rhs[1].token /\ cut[2] = last + 1
    BY <1>1, <1>3
  <2> QED
    BY <1>3, <2>1, <2>2
<1>4. CASE len = 2
  <2>1. \A n \in 1 .. len : n = 1 \/ n = 2
    BY <1>4
  <2>2. cut[1] = rhs[1].token /\ cut[2] = rhs[2].token /\ cut[3] = last + 1
    BY <1>1, <1>4
  <2> QED
    BY <1>4, <2>1, <2>2
<1>5. CASE len = 3
  <2>1. \A n \in 1 .. len : n = 1 \/ n = 2 \/ n = 3
    BY <1>5
  <2>2. cut[1] = rhs[1].token /\ cut[2] = rhs[2].token /\ cut[3] = rhs[3].token
        /\ cut[4] = last + 1
    BY <1>1, <1>5
  <2> QED
    BY <1>5, <2>1, <2>2
<1> QED
  BY <1>2, <1>3, <1>4, <1>5

LEMMA HandlePartsFit ==
  ASSUME NEW nodes, NEW input, NEW r, NEW rhs, Len(rhs) \in 1 .. 3,
         Len(RuleRhs[r]) = Len(rhs), NEW cut,
         \A n \in 1 .. Len(rhs) : EntryTree(nodes, input, RuleRhs[r][n], rhs[n])
                                    \in PartTrees(Trees(input), input, RuleRhs[r], cut, n)
  PROVE  HandleParts(nodes, input, r, rhs) \in Phrases(Trees(input), input, RuleRhs[r], cut)
<1> DEFINE Part(n) == EntryTree(nodes, input, RuleRhs[r][n], rhs[n])
           Set(n) == PartTrees(Trees(input), input, RuleRhs[r], cut, n)
           len == Len(rhs)
<1>1. len \in 1 .. 3 /\ \A n \in 1 .. len : Part(n) \in Set(n)
  OBVIOUS
<1>2. HandleParts(nodes, input, r, rhs)
        = IF len = 1 THEN << Part(1) >>
          ELSE IF len = 2 THEN << Part(1), Part(2) >> ELSE << Part(1), Part(2), Part(3) >>
  BY DEF HandleParts
<1>3. Phrases(Trees(input), input, RuleRhs[r], cut)
        = CASE len = 1 -> { << tree >> : tree \in Set(1) }
            [] len = 2 -> Set(1) \X Set(2)
            [] OTHER   -> Set(1) \X Set(2) \X Set(3)
  BY DEF Phrases
<1> HIDE DEF Part, Set, len
<1>4. CASE len = 1
  <2>1. Part(1) \in Set(1)
    BY <1>1, <1>4
  <2> QED
    BY <1>2, <1>3, <1>4, <2>1
<1>5. CASE len = 2
  <2>1. Part(1) \in Set(1) /\ Part(2) \in Set(2)
    BY <1>1, <1>5
  <2> QED
    BY <1>2, <1>3, <1>5, <2>1
<1>6. CASE len = 3
  <2>1. Part(1) \in Set(1) /\ Part(2) \in Set(2) /\ Part(3) \in Set(3)
    BY <1>1, <1>6
  <2> QED
    BY <1>2, <1>3, <1>6, <2>1
<1> QED
  BY <1>1, <1>4, <1>5, <1>6

LEMMA LhsOfDerivingRule ==
  ASSUME NEW r \in DerivingRules
  PROVE  RuleLhs(r) \in Nonterminals \ {N_accept}
<1>1. r \in 2 .. 25
  BY DEF DerivingRules, Rules, YYNRULES
<1>2. \A q \in 2 .. 25 : RuleLhs(q) \in 20 .. 29
  <2>1. \A q \in 2 .. 9 : RuleLhs(q) \in 20 .. 29
    BY SMT DEF RuleLhs, yyr1
  <2>2. \A q \in 10 .. 17 : RuleLhs(q) \in 20 .. 29
    BY SMT DEF RuleLhs, yyr1
  <2>3. \A q \in 18 .. 25 : RuleLhs(q) \in 20 .. 29
    BY SMT DEF RuleLhs, yyr1
  <2> QED
    BY <2>1, <2>2, <2>3
<1>3. RuleLhs(r) \in 20 .. 29
  BY <1>1, <1>2, Zenon
<1> QED
  BY <1>3, SMT DEF Nonterminals, YYNTOKENS, N_identifier, N_accept

\* The borders of a handle, as numbers.
BordersInOrder(rhs, len, last, high) ==
  /\ \A n \in 1 .. len : rhs[n].token \in Nat \ {0}
  /\ \A n \in 1 .. len - 1 : rhs[n].token < rhs[n + 1].token
  /\ rhs[len].token <= last
  /\ last <= high

LEMMA HandleInOrder ==
  ASSUME NEW nodes, NEW input, Len(input) \in Nat, NEW r \in DerivingRules, NEW rhs,
         NEW last \in Int, HandleDerived(nodes, input, r, rhs, last)
  PROVE  BordersInOrder(rhs, RuleLength(r), last, Len(input))
<1> DEFINE len == RuleLength(r)
           cut == HandleCut(rhs, last)
           high == Len(input)
<1>1. len \in 1 .. 3 /\ Len(rhs) = len
  BY DerivingRule DEF HandleDerived
<1>2. /\ \A n \in 1 .. len : cut[n] = rhs[n].token
      /\ cut[len + 1] = last + 1
  <2>1. Len(rhs) \in 1 .. 3
    BY <1>1, Zenon
  <2>2. /\ \A n \in 1 .. Len(rhs) : HandleCut(rhs, last)[n] = rhs[n].token
        /\ HandleCut(rhs, last)[Len(rhs) + 1] = last + 1
    BY <2>1, HandleCutBorders
  <2> QED
    BY <1>1, <2>2, Zenon
<1>3. \A n \in 1 .. len : /\ cut[n + 1] - 1 \in 1 .. high
                          /\ rhs[n].token \in 1 .. cut[n + 1] - 1
  BY Zenon DEF HandleDerived, SymbolDerived
<1> SUFFICES BordersInOrder(rhs, len, last, high)
  OBVIOUS
<1> HIDE DEF len, cut, high
<1>4. \A n \in 1 .. len : rhs[n].token \in Nat \ {0}
  BY <1>3
<1>5. ASSUME NEW n \in 1 .. len - 1
      PROVE  rhs[n].token < rhs[n + 1].token
  <2>1. n \in 1 .. len /\ n + 1 \in 1 .. len
    BY <1>1
  <2>2. cut[n + 1] = rhs[n + 1].token /\ rhs[n + 1].token \in Nat
    BY <1>2, <1>4, <2>1
  <2>3. rhs[n].token \in 1 .. cut[n + 1] - 1
    BY <1>3, <2>1
  <2> QED
    BY <2>2, <2>3
<1>6. rhs[len].token <= last /\ last <= high
  <2>1. len \in 1 .. len
    BY <1>1
  <2>2. last + 1 - 1 \in 1 .. high /\ rhs[len].token \in 1 .. last + 1 - 1
    BY <1>2, <1>3, <2>1
  <2> QED
    BY <2>2
<1> QED
  BY <1>4, <1>5, <1>6 DEF BordersInOrder

LEMMA HandleIsCut ==
  ASSUME NEW nodes, NEW input, Len(input) \in Nat, NEW r \in DerivingRules, NEW rhs,
         NEW last \in Int, HandleDerived(nodes, input, r, rhs, last)
  PROVE  HandleCut(rhs, last) \in Cuts(input, RuleRhs[r], rhs[1].token, last)
<1> DEFINE len == RuleLength(r)
           cut == HandleCut(rhs, last)
           i == rhs[1].token
<1>1. len \in 1 .. 3 /\ Len(rhs) = len /\ Len(RuleRhs[r]) = len
  BY DerivingRule DEF HandleDerived
<1>2. /\ \A n \in 1 .. len : cut[n] = rhs[n].token
      /\ cut[len + 1] = last + 1
      /\ len = 1 => cut = << rhs[1].token, last + 1 >>
      /\ len = 2 => cut = << rhs[1].token, rhs[2].token, last + 1 >>
      /\ len = 3 => cut = << rhs[1].token, rhs[2].token, rhs[3].token, last + 1 >>
  <2>1. Len(rhs) \in 1 .. 3
    BY <1>1, Zenon
  <2>2. /\ \A n \in 1 .. Len(rhs) : HandleCut(rhs, last)[n] = rhs[n].token
        /\ HandleCut(rhs, last)[Len(rhs) + 1] = last + 1
        /\ Len(rhs) = 1 => HandleCut(rhs, last) = << rhs[1].token, last + 1 >>
        /\ Len(rhs) = 2 =>
             HandleCut(rhs, last) = << rhs[1].token, rhs[2].token, last + 1 >>
        /\ Len(rhs) = 3 =>
             HandleCut(rhs, last) = << rhs[1].token, rhs[2].token, rhs[3].token, last + 1 >>
    BY <2>1, HandleCutBorders
  <2> QED
    BY <1>1, <2>2, Zenon
<1>3. BordersInOrder(rhs, len, last, Len(input))
  BY HandleInOrder, Zenon
<1>4. \A n \in 1 .. len : SymbolDerived(nodes, input, rhs[n], RuleRhs[r][n], cut[n + 1] - 1)
  BY Zenon DEF HandleDerived
<1> HIDE DEF len, cut
<1>5. cut \in Borders(len, i, last)
  <2>1. CASE len = 1
    BY <1>2, <2>1 DEF Borders
  <2>2. CASE len = 2
    <3>1. i \in Nat /\ rhs[2].token \in Nat /\ i < rhs[2].token /\ rhs[2].token <= last
      BY <1>3, <2>2 DEF BordersInOrder
    <3>2. rhs[2].token \in i + 1 .. last
      BY <3>1
    <3>3. cut = << i, rhs[2].token, last + 1 >>
      BY <1>2, <2>2
    <3> HIDE DEF i
    <3> QED
      BY <2>2, <3>2, <3>3 DEF Borders
  <2>3. CASE len = 3
    <3>1. i \in Nat /\ rhs[2].token \in Nat /\ i < rhs[2].token
          /\ rhs[3].token \in Nat /\ rhs[2].token < rhs[3].token /\ rhs[3].token <= last
      BY <1>3, <2>3 DEF BordersInOrder
    <3>2. rhs[2].token \in i + 1 .. last /\ rhs[3].token \in i + 1 .. last
      BY <3>1
    <3>3. cut = << i, rhs[2].token, rhs[3].token, last + 1 >>
      BY <1>2, <2>3
    <3> HIDE DEF i
    <3> QED
      BY <2>3, <3>2, <3>3 DEF Borders
  <2> QED
    BY <1>1, <2>1, <2>2, <2>3
<1>6. ASSUME NEW n \in 1 .. len
      PROVE  /\ cut[n] < cut[n + 1]
             /\ RuleRhs[r][n] \in Terminals =>
                  cut[n + 1] = cut[n] + 1 /\ input[cut[n]].type = RuleRhs[r][n]
  <2>1. /\ cut[n + 1] - 1 \in 1 .. Len(input) /\ rhs[n].token \in 1 .. cut[n + 1] - 1
        /\ RuleRhs[r][n] \in Terminals =>
             /\ rhs[n].token = cut[n + 1] - 1
             /\ input[cut[n + 1] - 1].type = RuleRhs[r][n]
    BY <1>4, Zenon DEF SymbolDerived
  <2>2. cut[n + 1] \in Int
    <3>1. n + 1 \in 1 .. len \/ n = len
      BY <1>1
    <3>2. CASE n + 1 \in 1 .. len
      BY <1>2, <1>3, <3>2 DEF BordersInOrder
    <3>3. CASE n = len
      BY <1>2, <3>3
    <3> QED
      BY <3>1, <3>2, <3>3
  <2>3. cut[n] = rhs[n].token
    BY <1>2
  <2> QED
    BY <2>1, <2>2, <2>3
<1>7. cut \in { c \in Borders(len, i, last) :
                  \A n \in 1 .. len :
                    /\ c[n] < c[n + 1]
                    /\ RuleRhs[r][n] \in Terminals =>
                         c[n + 1] = c[n] + 1 /\ input[c[n]].type = RuleRhs[r][n] }
  BY <1>5, <1>6, Zenon
<1> QED
  BY <1>1, <1>7, Zenon DEF Cuts, cut

LEMMA HandleIsDerivation ==
  ASSUME NEW nodes, NEW input, Len(input) \in Nat, NEW r \in DerivingRules, NEW rhs,
         NEW last \in Int, HandleDerived(nodes, input, r, rhs, last)
  PROVE  Meaning(RuleRhs[r], HandleParts(nodes, input, r, rhs), Span(input, rhs[1].token, last))
           \in Trees(input)[<< RuleLhs(r), rhs[1].token, last >>]
<1> DEFINE len == RuleLength(r)
           cut == HandleCut(rhs, last)
           parts == HandleParts(nodes, input, r, rhs)
           goal == << RuleLhs(r), rhs[1].token, last >>
           tree == Meaning(RuleRhs[r], parts, Span(input, goal[2], goal[3]))
<1>1. len \in 1 .. 3 /\ Len(rhs) = len /\ Len(RuleRhs[r]) = len
  BY DerivingRule DEF HandleDerived
<1>2. goal[1] = RuleLhs(r) /\ goal[2] = rhs[1].token /\ goal[3] = last
  OBVIOUS
<1>3. cut \in Cuts(input, RuleRhs[r], rhs[1].token, last)
  BY HandleIsCut, Zenon
<1>4. \A n \in 1 .. len : cut[n] = rhs[n].token
  <2>1. Len(rhs) \in 1 .. 3
    BY <1>1, Zenon
  <2>2. \A n \in 1 .. Len(rhs) : HandleCut(rhs, last)[n] = rhs[n].token
    BY <2>1, HandleCutBorders
  <2> QED
    BY <1>1, <2>2, Zenon
<1>5. ASSUME NEW n \in 1 .. len
      PROVE  EntryTree(nodes, input, RuleRhs[r][n], rhs[n])
               \in PartTrees(Trees(input), input, RuleRhs[r], cut, n)
  <2>1. SymbolDerived(nodes, input, rhs[n], RuleRhs[r][n], cut[n + 1] - 1)
    BY Zenon DEF HandleDerived
  <2>2. CASE RuleRhs[r][n] \in Terminals
    BY <1>4, <2>2, Zenon DEF EntryTree, PartTrees
  <2>3. CASE RuleRhs[r][n] \notin Terminals
    BY <1>4, <2>1, <2>3, Zenon DEF EntryTree, PartTrees, SymbolDerived
  <2> QED
    BY <2>2, <2>3
<1>6. parts \in Phrases(Trees(input), input, RuleRhs[r], cut)
  BY <1>1, <1>5, HandlePartsFit
<1>7. goal \in Goals(input)
  <2>1. BordersInOrder(rhs, len, last, Len(input))
    BY HandleInOrder, Zenon
  <2>2. rhs[1].token \in 1 .. Len(input) /\ last \in 1 .. Len(input)
    <3> HIDE DEF len
    <3>1. rhs[1].token <= last
      <4>1. CASE len = 1
        BY <2>1, <4>1 DEF BordersInOrder
      <4>2. CASE len = 2
        BY <2>1, <4>2 DEF BordersInOrder
      <4>3. CASE len = 3
        BY <2>1, <4>3 DEF BordersInOrder
      <4> QED
        BY <1>1, <4>1, <4>2, <4>3
    <3>2. rhs[1].token \in Nat \ {0} /\ last <= Len(input)
      BY <1>1, <2>1 DEF BordersInOrder
    <3> QED
      BY <3>1, <3>2
  <2>3. RuleLhs(r) \in Nonterminals \ {N_accept}
    BY LhsOfDerivingRule, Zenon
  <2> QED
    BY <2>2, <2>3 DEF Goals
<1>8. DerivedBy(tree, input, goal, r, cut, parts)
  BY <1>2, <1>3, <1>6, Zenon DEF DerivedBy
<1>9. tree \in Trees(input)[goal]
  <2> HIDE DEF goal, cut, parts, tree
  <2> QED
    BY <1>7, <1>8, TreeDerived, Zenon
<1> QED
  BY <1>2, <1>9, Zenon

LEMMA HandlePartsValues ==
  ASSUME NEW nodes, NEW input, NEW r, NEW rhs, Len(rhs) \in 1 .. 3,
         NEW n \in 1 .. Len(rhs)
  PROVE  HandleParts(nodes, input, r, rhs)[n] = EntryTree(nodes, input, RuleRhs[r][n], rhs[n])
<1> DEFINE Part(k) == EntryTree(nodes, input, RuleRhs[r][k], rhs[k])
           parts == HandleParts(nodes, input, r, rhs)
           len == Len(rhs)
<1>1. parts = IF len = 1 THEN << Part(1) >>
              ELSE IF len = 2 THEN << Part(1), Part(2) >>
              ELSE << Part(1), Part(2), Part(3) >>
  BY DEF HandleParts
<1>2. len \in 1 .. 3 /\ n \in 1 .. len
  OBVIOUS
<1> SUFFICES parts[n] = Part(n)
  OBVIOUS
<1> HIDE DEF Part, parts, len
<1>3. CASE len = 1
  <2>1. n = 1
    BY <1>2, <1>3
  <2>2. parts[1] = Part(1)
    BY <1>1, <1>3
  <2> QED
    BY <2>1, <2>2
<1>4. CASE len = 2
  <2>1. n = 1 \/ n = 2
    BY <1>2, <1>4
  <2>2. parts[1] = Part(1) /\ parts[2] = Part(2)
    BY <1>1, <1>4
  <2> QED
    BY <2>1, <2>2
<1>5. CASE len = 3
  <2>1. n = 1 \/ n = 2 \/ n = 3
    BY <1>2, <1>5
  <2>2. parts[1] = Part(1) /\ parts[2] = Part(2) /\ parts[3] = Part(3)
    BY <1>1, <1>5
  <2> QED
    BY <2>1, <2>2
<1> QED
  BY <1>2, <1>3, <1>4, <1>5

\* Each symbol of a handle is derived by what its border says.
LEMMA SymbolOfHandle ==
  ASSUME NEW nodes, NEW input, NEW r \in DerivingRules, NEW rhs, NEW last \in Int,
         HandleDerived(nodes, input, r, rhs, last), NEW n \in 1 .. RuleLength(r)
  PROVE  /\ \E j \in 1 .. Len(input) :
              SymbolDerived(nodes, input, rhs[n], RuleRhs[r][n], j)
         /\ n = RuleLength(r) => SymbolDerived(nodes, input, rhs[n], RuleRhs[r][n], last)
<1>1. RuleLength(r) \in 1 .. 3 /\ Len(rhs) = RuleLength(r)
  BY DerivingRule DEF HandleDerived
<1>2. SymbolDerived(nodes, input, rhs[n], RuleRhs[r][n], HandleCut(rhs, last)[n + 1] - 1)
  BY Zenon DEF HandleDerived
<1>3. HandleCut(rhs, last)[n + 1] - 1 \in 1 .. Len(input)
  BY <1>2, Zenon DEF SymbolDerived
<1>4. HandleCut(rhs, last)[RuleLength(r) + 1] - 1 = last
  <2>1. HandleCut(rhs, last)[Len(rhs) + 1] = last + 1
    BY <1>1, HandleCutBorders
  <2>2. (last + 1) - 1 = last
    OBVIOUS
  <2> QED
    BY <1>1, <2>1, <2>2, Zenon
<1> QED
  BY <1>2, <1>3, <1>4, Zenon

LEMMA SymbolsDisjoint ==
  \A symbol \in Nonterminals : symbol \notin Terminals
  BY DEF Terminals, Nonterminals, YYNTOKENS, N_identifier

\* The location of a handle is the span of what it derives.
LEMMA HandleSpan ==
  ASSUME NEW nodes, NEW input, NEW r \in DerivingRules, NEW rhs, NEW last \in Int,
         HandleDerived(nodes, input, r, rhs, last)
  PROVE  CommonLocation(rhs) = Span(input, rhs[1].token, last)
<1>1. RuleLength(r) \in 1 .. 3 /\ Len(rhs) = RuleLength(r)
  BY DerivingRule DEF HandleDerived
<1>2. 1 \in 1 .. RuleLength(r) /\ RuleLength(r) \in 1 .. RuleLength(r)
  BY <1>1
<1>3. rhs[1].location.start = input[rhs[1].token].location.start
  <2>1. PICK j \in 1 .. Len(input) : SymbolDerived(nodes, input, rhs[1], RuleRhs[r][1], j)
    BY <1>2, SymbolOfHandle, Zenon
  <2> QED
    BY <2>1, Zenon DEF SymbolDerived
<1>4. rhs[Len(rhs)].location.end = input[last].location.end
  <2>1. SymbolDerived(nodes, input, rhs[RuleLength(r)], RuleRhs[r][RuleLength(r)], last)
    BY <1>2, SymbolOfHandle, Zenon
  <2> QED
    BY <1>1, <2>1, Zenon DEF SymbolDerived
<1> QED
  BY <1>3, <1>4, Zenon DEF CommonLocation, Span

\* The tree of a lexeme, where the stack has it.
LexemeKind(symbol) ==
  CASE symbol = T_FLOAT      -> "float"
    [] symbol = T_IDENTIFIER -> "identifier"
    [] OTHER                 -> "integer"

LEMMA LexemeOnStack ==
  ASSUME NEW nodes, NEW input, NEW entry, NEW symbol \in Terminals, NEW j,
         SymbolDerived(nodes, input, entry, symbol, j)
  PROVE  EntryTree(nodes, input, symbol, entry)
           = Tree(LexemeKind(symbol), entry.token, input[entry.token].negative,
                  entry.location)
<1>1. /\ entry.token = j /\ input[j].type = symbol
      /\ entry.location.start = input[j].location.start
      /\ entry.location.end = input[j].location.end
  BY Zenon DEF SymbolDerived
<1>2. LexemeTree(input, j)
        = Tree(LexemeKind(symbol), j, input[j].negative, input[j].location)
  BY <1>1, Zenon DEF LexemeTree, LexemeKind
<1> QED
  BY <1>1, <1>2, Zenon DEF EntryTree, Tree

LEMMA LeafSymbols ==
  /\ RuleRhs[21][1] = T_INTEGER /\ RuleRhs[22][1] = T_FLOAT /\ RuleRhs[25][1] = T_IDENTIFIER
  /\ RuleRhs[20][2] = T_SUPERSCRIPT_INTEGER
  /\ LeafKind(21) = "integer" /\ LeafKind(22) = "float" /\ LeafKind(25) = "identifier"
  /\ T_INTEGER # T_FLOAT /\ T_INTEGER # T_IDENTIFIER /\ T_IDENTIFIER # T_FLOAT
  /\ T_SUPERSCRIPT_INTEGER \notin {T_INTEGER, T_FLOAT, T_IDENTIFIER}
<1>1. /\ RuleRhs[21] = << T_INTEGER >> /\ RuleRhs[22] = << T_FLOAT >>
      /\ RuleRhs[25] = << T_IDENTIFIER >>
      /\ RuleRhs[20] = << N_simple, T_SUPERSCRIPT_INTEGER >>
  BY DEF RuleRhs
<1>2. LeafKind(21) = "integer" /\ LeafKind(22) = "float" /\ LeafKind(25) = "identifier"
  BY DEF LeafKind
<1>3. /\ T_INTEGER # T_FLOAT /\ T_INTEGER # T_IDENTIFIER /\ T_IDENTIFIER # T_FLOAT
      /\ T_SUPERSCRIPT_INTEGER \notin {T_INTEGER, T_FLOAT, T_IDENTIFIER}
  BY DEF T_INTEGER, T_FLOAT, T_IDENTIFIER, T_SUPERSCRIPT_INTEGER
<1> QED
  BY <1>1, <1>2, <1>3

\* What a leaf rule makes of its lexeme.
IsLeafTree(nodes, input, r, entry) ==
  /\ EntryTree(nodes, input, RuleRhs[r][1], entry)
       = Tree(LeafKind(r), entry.token, input[entry.token].negative, entry.location)
  /\ entry.token \in 1 .. Len(input)
  /\ input[entry.token].type # T_SUPERSCRIPT_INTEGER

LEMMA LeafOnStack ==
  ASSUME NEW nodes, NEW input, NEW r \in LeafRules, NEW entry, NEW j,
         RuleRhs[r][1] \in Terminals,
         SymbolDerived(nodes, input, entry, RuleRhs[r][1], j)
  PROVE  IsLeafTree(nodes, input, r, entry)
<1>1. /\ entry.token = j /\ j \in 1 .. Len(input) /\ input[j].type = RuleRhs[r][1]
  BY Zenon DEF SymbolDerived
<1>2. RuleRhs[r][1] # T_SUPERSCRIPT_INTEGER
  BY LeafSymbols, Zenon DEF LeafRules
<1>3. LeafKind(r) = LexemeKind(RuleRhs[r][1])
  <2>1. CASE r = 21
    BY <2>1, LeafSymbols DEF LexemeKind
  <2>2. CASE r = 22
    BY <2>2, LeafSymbols DEF LexemeKind
  <2>3. CASE r = 25
    BY <2>3, LeafSymbols DEF LexemeKind
  <2> QED
    BY <2>1, <2>2, <2>3 DEF LeafRules
<1>4. EntryTree(nodes, input, RuleRhs[r][1], entry)
        = Tree(LexemeKind(RuleRhs[r][1]), entry.token, input[entry.token].negative,
               entry.location)
  BY LexemeOnStack
<1> QED
  BY <1>1, <1>2, <1>3, <1>4, Zenon DEF IsLeafTree

\* No rule that a state reduces by takes the end of the input.
LEMMA ReducedRuleDerives ==
  ASSUME ParserInvariant, yystate \in ReducingStates, NEW r, r = DefaultReduction(yystate)
  PROVE  r \in DerivingRules
<1>1. r \in Rules
  BY ReducingRule
<1>2. r # 1
  <2> SUFFICES ASSUME r = 1 PROVE FALSE
    OBVIOUS
  <2>1. RuleLength(r) = 2 /\ RuleRhs[r][2] = YYEOF
    BY RuleSymbols
  <2>2. 2 \in 1 .. RuleLength(r)
    BY <2>1
  <2> QED
    BY <2>1, <2>2, HandleHasNoEnd
<1> QED
  BY <1>1, <1>2 DEF DerivingRules

\* The rules that build no node pass on the tree of a nonterminal.
LEMMA PassingMeaning ==
  ASSUME NEW r \in DerivingRules, r \notin LeafRules \cup BinaryRules \cup {13, 20, 24},
         NEW parts, NEW loc
  PROVE  LET k == IF r = 19 THEN 2 ELSE 1
         IN  /\ k \in 1 .. RuleLength(r)
             /\ RuleRhs[r][k] \in Nonterminals
             /\ Meaning(RuleRhs[r], parts, loc) = parts[k]
<1>1. /\ RuleLength(r) \in 1 .. 3 /\ r \in Rules
  BY DerivingRule
<1>2. CASE r = 19
  <2>1. RuleLength(19) = 3 /\ RuleRhs[19][2] \in Nonterminals
    BY <1>1, <1>2, ActionsConsistent DEF ActionsFitRules, LeafRules, BinaryRules
  <2>2. Meaning(RuleRhs[19], parts, loc) = parts[2]
    BY OtherMeanings
  <2> QED
    BY <1>2, <2>1, <2>2
<1>3. CASE r # 19
  <2>1. r \in 2 .. 25
    BY DEF DerivingRules, Rules, YYNRULES
  <2>2. r \in {2, 3, 4, 7, 12, 14, 16, 17, 23}
    BY <1>3, <2>1 DEF LeafRules, BinaryRules
  <2>3. \A q \in {2, 3, 4, 7, 12, 14, 16, 17, 23} : RuleLength(q) = 1
    BY SMT DEF RuleLength, yyr2
  <2>4. RuleLength(r) = 1
    BY <2>2, <2>3, Zenon
  <2>5. RuleRhs[r][1] \in Nonterminals
    BY <1>1, <1>3, ActionsConsistent DEF ActionsFitRules
  <2>6. Meaning(RuleRhs[r], parts, loc) = parts[1]
    BY <2>4, UnitMeaning
  <2> QED
    BY <1>3, <2>4, <2>5, <2>6
<1> QED
  BY <1>2, <1>3

\* A semantic action builds what its rule means.
LEMMA ActionTree ==
  ASSUME ParserInvariant, SignInvariant, yystate \in ReducingStates,
         NEW r, r = DefaultReduction(yystate), NEW last \in Int,
         HandleDerived(arena, tokens, r, Handle(r), last)
  PROVE  TreeMade(SemanticAction(r, Handle(r), CommonLocation(Handle(r))))
           = Meaning(RuleRhs[r], HandleParts(arena, tokens, r, Handle(r)),
                     Span(tokens, Handle(r)[1].token, last))
<1> DEFINE rhs   == Handle(r)
           loc   == CommonLocation(rhs)
           first == rhs[1]
           end   == rhs[Len(rhs)]
           len   == RuleLength(r)
           made  == SemanticAction(r, rhs, loc)
           parts == HandleParts(arena, tokens, r, rhs)
           NodeAt(k) == ArenaTrees(arena)[rhs[k].node]
<1>1. /\ arena \in Seq(Node) /\ tokens \in Seq(Token) /\ ActionsFitRules
      /\ Acyclic(arena) /\ SignsOfLexemes
  BY ActionsConsistent DEF ParserInvariant, TypeOK, ArenaIsAcyclic, Acyclic,
                           OperandsOlder, SignInvariant
<1>2. r \in DerivingRules /\ r \in Rules
  BY ReducedRuleDerives DEF DerivingRules
<1>3. len \in 1 .. 3 /\ Len(rhs) = len
  BY HandleValues
<1>4. loc = Span(tokens, rhs[1].token, last)
  <2> HIDE DEF rhs
  <2>1. HandleDerived(arena, tokens, r, rhs, last)
    BY DEF rhs
  <2> QED
    BY <1>2, <2>1, HandleSpan
<1>5. ASSUME NEW k \in 1 .. len
      PROVE  /\ rhs[k] \in Entry
             /\ RuleRhs[r][k] \in Nonterminals => /\ rhs[k].node \in 1 .. Len(arena)
                                                  /\ parts[k] = NodeAt(k)
             /\ parts[k] = EntryTree(arena, tokens, RuleRhs[r][k], rhs[k])
             /\ \E j : SymbolDerived(arena, tokens, rhs[k], RuleRhs[r][k], j)
  <2>1. /\ rhs[k] \in Entry
        /\ RuleRhs[r][k] \in Nonterminals => rhs[k].node \in 1 .. Len(arena)
    BY HandleValues
  <2>2. parts[k] = EntryTree(arena, tokens, RuleRhs[r][k], rhs[k])
    <3>1. Len(rhs) \in 1 .. 3 /\ k \in 1 .. Len(rhs)
      BY <1>3, Zenon
    <3> HIDE DEF rhs
    <3> QED
      BY <3>1, HandlePartsValues
  <2>3. \E j : SymbolDerived(arena, tokens, rhs[k], RuleRhs[r][k], j)
    <3> HIDE DEF rhs
    <3>1. HandleDerived(arena, tokens, r, rhs, last)
      BY DEF rhs
    <3> QED
      BY <1>2, <3>1, SymbolOfHandle, Zenon
  <2>4. RuleRhs[r][k] \in Nonterminals => parts[k] = NodeAt(k)
    BY <2>2, SymbolsDisjoint, Zenon DEF EntryTree
  <2> QED
    BY <2>1, <2>2, <2>3, <2>4, Zenon
<1>6. loc \in Location
  BY HandleValues
<1> SUFFICES TreeMade(made) = Meaning(RuleRhs[r], parts, loc)
  BY <1>4, Zenon
<1> HIDE DEF rhs, loc, parts
<1>7. 1 \in 1 .. len /\ len \in 1 .. len /\ end = rhs[len]
  BY <1>3
<1>8. /\ first.token \in Nat /\ first.location \in Location
      /\ end.location \in Location
  <2>1. first \in Entry /\ end \in Entry
    BY <1>5, <1>7
  <2> QED
    BY <2>1 DEF Entry
<1>9. CASE r \in LeafRules
  <2>1. r \notin BinaryRules /\ r \notin {13, 24} /\ r # 20 /\ r # 19
    BY <1>9 DEF BinaryRules, LeafRules
  <2>2. made = MakeLeaf(arena, LeafKind(r), first.token, FALSE, first.location)
    BY <1>9, <2>1, Zenon DEF SemanticAction
  <2>3. RuleRhs[r][1] \in Terminals
    BY <1>1, <1>2, <1>9, <2>1, Zenon DEF ActionsFitRules
  <2>4. PICK j : SymbolDerived(arena, tokens, first, RuleRhs[r][1], j)
    BY <1>5, <1>7
  <2>5. /\ parts[1] = Tree(LeafKind(r), first.token, tokens[first.token].negative,
                           first.location)
        /\ first.token \in 1 .. Len(tokens)
        /\ tokens[first.token].type # T_SUPERSCRIPT_INTEGER
    <3>1. IsLeafTree(arena, tokens, r, first)
      <4> HIDE DEF first
      <4>1. SymbolDerived(arena, tokens, first, RuleRhs[r][1], j)
        BY <2>4
      <4> QED
        BY <1>9, <2>3, <4>1, LeafOnStack, Zenon
    <3> QED
      BY <1>5, <1>7, <3>1, Zenon DEF IsLeafTree
  <2>6. tokens[first.token].negative = FALSE
    <3>1. tokens[first.token] \in Token
      BY <1>1, <2>5
    <3>2. tokens[first.token].negative \in BOOLEAN
      BY <3>1 DEF Token
    <3>3. ~ tokens[first.token].negative
      BY <1>1, <2>5, Zenon DEF SignsOfLexemes
    <3> QED
      BY <3>2, <3>3
  <2>7. LeafKind(r) \in LeafKinds
    BY DEF LeafKind, LeafKinds
  <2>8. TreeMade(made) = Tree(LeafKind(r), first.token, FALSE, first.location)
    <3>1. ASSUME NEW negative \in BOOLEAN
          PROVE  TreeMade(MakeLeaf(arena, LeafKind(r), first.token, negative, first.location))
                   = Tree(LeafKind(r), first.token, negative, first.location)
      BY <1>1, <1>8, <2>7, MakeLeafTree
    <3>2. FALSE \in BOOLEAN
      OBVIOUS
    <3> QED
      BY <2>2, <3>1, <3>2, Zenon
  <2>9. Meaning(RuleRhs[r], parts, loc) = parts[1]
    <3>1. RuleLength(r) = 1
      BY <1>9, SignsInRules DEF LeafRules
    <3> QED
      BY <1>2, <3>1, UnitMeaning
  <2> QED
    BY <2>5, <2>6, <2>8, <2>9, Zenon
<1>10. CASE r \in BinaryRules
  <2>1. BinaryKind(r) \in BinaryKinds
    BY DEF BinaryKind, BinaryKinds
  <2>2. made = MakeBinary(arena, BinaryKind(r), first.node, end.node, loc)
    BY <1>10 DEF SemanticAction, BinaryRules, LeafRules
  <2>3. RuleRhs[r][1] \in Nonterminals /\ RuleRhs[r][len] \in Nonterminals
    BY <1>1, <1>2, <1>10 DEF ActionsFitRules, LeafRules, BinaryRules
  <2>4. /\ first.node \in 1 .. Len(arena) /\ end.node \in 1 .. Len(arena)
        /\ parts[1] = ArenaTrees(arena)[first.node]
        /\ parts[len] = ArenaTrees(arena)[end.node]
    BY <1>5, <1>7, <2>3
  <2>5. Extends(arena, arena)
    BY <1>1, ExtendsReflexive
  <2>6. TreeMade(made) = Tree(BinaryKind(r), ArenaTrees(arena)[first.node],
                              ArenaTrees(arena)[end.node], loc)
    BY <1>1, <1>6, <2>1, <2>2, <2>4, <2>5, MakeBinaryTree
  <2>7. Meaning(RuleRhs[r], parts, loc) = Tree(BinaryKind(r), parts[1], parts[len], loc)
    BY <1>10, BinaryMeaning
  <2> QED
    BY <2>4, <2>6, <2>7, Zenon
<1>11. CASE r \in {13, 24}
  <2>1. made = MakeNegation(arena, end.node, loc)
    BY <1>11 DEF SemanticAction, BinaryRules, LeafRules
  <2>2. RuleRhs[r][len] \in Nonterminals
    BY <1>1, <1>2, <1>11 DEF ActionsFitRules, LeafRules, BinaryRules
  <2>3. end.node \in 1 .. Len(arena) /\ parts[len] = ArenaTrees(arena)[end.node]
    BY <1>5, <1>7, <2>2
  <2>4. Meaning(RuleRhs[r], parts, loc) = NegatedTree(parts[2], loc) /\ len = 2
    BY <1>11, OtherMeanings
  <2>5. TreeMade(made) = NegatedTree(ArenaTrees(arena)[end.node], loc)
    BY <1>1, <1>6, <2>1, <2>3, MakeNegationTree, Zenon
  <2> QED
    BY <2>3, <2>4, <2>5, Zenon
<1>12. CASE r = 20
  <2>1. made = MakePower(arena, first.node, end.token, tokens[end.token].negative,
                         end.location, loc)
    BY <1>12 DEF SemanticAction, BinaryRules, LeafRules
  <2>2. RuleRhs[r][1] \in Nonterminals /\ RuleRhs[r][len] \in Terminals
    BY <1>1, <1>2, <1>12 DEF ActionsFitRules, LeafRules, BinaryRules
  <2>3. len = 2 /\ RuleRhs[r][2] = T_SUPERSCRIPT_INTEGER
    BY <1>12, SignsInRules
  <2>4. first.node \in 1 .. Len(arena) /\ parts[1] = ArenaTrees(arena)[first.node]
    BY <1>5, <1>7, <2>2
  <2>5. PICK j : SymbolDerived(arena, tokens, end, T_SUPERSCRIPT_INTEGER, j)
    BY <1>5, <1>7, <2>3
  <2>6. end.token \in 1 .. Len(tokens)
    BY <2>2, <2>3, <2>5, Zenon DEF SymbolDerived
  <2>7. tokens[end.token].negative \in BOOLEAN /\ end.token \in Nat
    <3>1. tokens[end.token] \in Token
      BY <1>1, <2>6
    <3> QED
      BY <2>6, <3>1 DEF Token
  <2>8. parts[2] = Tree("integer", end.token, tokens[end.token].negative, end.location)
    <3>1. LexemeKind(T_SUPERSCRIPT_INTEGER) = "integer"
      BY LeafSymbols DEF LexemeKind
    <3>2. T_SUPERSCRIPT_INTEGER \in Terminals
      BY <2>2, <2>3
    <3>3. EntryTree(arena, tokens, T_SUPERSCRIPT_INTEGER, end)
            = Tree(LexemeKind(T_SUPERSCRIPT_INTEGER), end.token,
                   tokens[end.token].negative, end.location)
      BY <2>5, <3>2, LexemeOnStack
    <3> QED
      BY <1>5, <1>7, <2>3, <3>1, <3>3
  <2>9. TreeMade(made) = Tree("pow", ArenaTrees(arena)[first.node],
                              Tree("integer", end.token, tokens[end.token].negative,
                                   end.location), loc)
    BY <1>1, <1>6, <1>8, <2>1, <2>4, <2>7, MakePowerTree
  <2>10. Meaning(RuleRhs[r], parts, loc) = Tree("pow", parts[1], parts[2], loc)
    BY <1>12, OtherMeanings
  <2> QED
    BY <2>4, <2>8, <2>9, <2>10, Zenon
<1>13. CASE r \notin LeafRules \cup BinaryRules \cup {13, 20, 24}
  <2> DEFINE k == IF r = 19 THEN 2 ELSE 1
  <2>1. made = [arena |-> arena, node |-> PassedNode(r, rhs)]
    BY <1>13 DEF SemanticAction
  <2>2. /\ k \in 1 .. len /\ RuleRhs[r][k] \in Nonterminals
        /\ Meaning(RuleRhs[r], parts, loc) = parts[k]
    BY <1>2, <1>13, PassingMeaning
  <2>3. PassedNode(r, rhs) = rhs[k].node
    BY DEF PassedNode
  <2>4. made.arena = arena /\ made.node = rhs[k].node
    BY <2>1, <2>3
  <2> HIDE DEF k, made
  <2>5. parts[k] = ArenaTrees(arena)[rhs[k].node]
    BY <1>5, <2>2
  <2> QED
    BY <2>2, <2>4, <2>5, Zenon DEF TreeMade
<1> QED
  BY <1>9, <1>10, <1>11, <1>12, <1>13

(***************************************************************************)
(* Reading on changes nothing for the tokens already read.                 *)
(***************************************************************************)
PrefixOf(input, longer) ==
  /\ Len(input) \in Nat /\ Len(longer) \in Nat /\ Len(input) <= Len(longer)
  /\ \A k \in 1 .. Len(input) : longer[k] = input[k]

CutsKept(input, longer, rhs, i, j) == Cuts(longer, rhs, i, j) = Cuts(input, rhs, i, j)

LEMMA PrefixCuts ==
  ASSUME NEW input, NEW longer, PrefixOf(input, longer), NEW rhs, Len(rhs) \in 1 .. 3,
         NEW i \in 1 .. Len(input), NEW j \in 1 .. Len(input)
  PROVE  CutsKept(input, longer, rhs, i, j)
<1> DEFINE Matches(a, cut) == \A n \in 1 .. Len(rhs) :
                                /\ cut[n] < cut[n + 1]
                                /\ rhs[n] \in Terminals =>
                                     cut[n + 1] = cut[n] + 1 /\ a[cut[n]].type = rhs[n]
<1>1. \A a : Cuts(a, rhs, i, j) = { cut \in Borders(Len(rhs), i, j) : Matches(a, cut) }
  BY DEF Cuts
<1>2. i \in Int /\ j \in Int /\ \A k \in i .. j : k \in 1 .. Len(input)
  BY DEF PrefixOf
<1>3. ASSUME NEW a, NEW cut \in Cuts(a, rhs, i, j)
      PROVE  \A n \in 1 .. Len(rhs) : longer[cut[n]] = input[cut[n]]
  <2>1. InOrder(cut, Len(rhs), i, j)
    BY <1>2, CutInOrder
  <2> QED
    BY <1>2, <2>1, Zenon DEF InOrder, PrefixOf
<1>4. \A a : \A cut \in Cuts(a, rhs, i, j) : Matches(longer, cut) <=> Matches(input, cut)
  BY <1>3, Zenon
<1> HIDE DEF Matches
<1>5. \A cut \in Cuts(longer, rhs, i, j) : cut \in Cuts(input, rhs, i, j)
  BY <1>1, <1>4
<1>6. \A cut \in Cuts(input, rhs, i, j) : cut \in Cuts(longer, rhs, i, j)
  BY <1>1, <1>4
<1> QED
  BY <1>5, <1>6, Zenon DEF CutsKept

\* The trees of a goal stay.
TreesKept(input, longer, goal) == Trees(longer)[goal] = Trees(input)[goal]

TreesKeptBelow(input, longer, goal) ==
  \A q \in Goals(input) : Distance(q) < Distance(goal) => TreesKept(input, longer, q)

LEMMA PrefixPart ==
  ASSUME NEW input, NEW longer, PrefixOf(input, longer), NEW goal \in Goals(input),
         TreesKeptBelow(input, longer, goal),
         NEW r \in Rules, RuleLhs(r) = goal[1],
         NEW cut \in Cuts(input, RuleRhs[r], goal[2], goal[3]), NEW n \in 1 .. RuleLength(r)
  PROVE  PartTrees(Trees(longer), longer, RuleRhs[r], cut, n)
           = PartTrees(Trees(input), input, RuleRhs[r], cut, n)
<1> DEFINE rhs == RuleRhs[r]
<1>1. Len(rhs) = RuleLength(r) /\ RuleLength(r) \in 1 .. 3 /\ Len(input) \in Nat
  BY TablesAreConsistent DEF LrConsistent, RulesConsistent, PrefixOf
<1>2. goal[2] \in 1 .. Len(input) /\ goal[3] \in 1 .. Len(input)
  BY DEF Goals
<1>3. CASE rhs[n] \in Terminals
  <2>1. InOrder(cut, Len(rhs), goal[2], goal[3])
    <3>1. goal[2] \in Int /\ goal[3] \in Int
      BY <1>1, <1>2
    <3> QED
      BY <1>1, <3>1, CutInOrder
  <2>2. cut[n] \in goal[2] .. goal[3]
    BY <1>1, <2>1, Zenon DEF InOrder
  <2>3. cut[n] \in 1 .. Len(input)
    BY <1>1, <1>2, <2>2
  <2>4. longer[cut[n]] = input[cut[n]]
    BY <2>3, Zenon DEF PrefixOf
  <2> QED
    BY <1>3, <2>4, Zenon DEF PartTrees, LexemeTree
<1>4. CASE rhs[n] \notin Terminals
  <2>1. TreesKept(input, longer, PartGoal(rhs, cut, n))
    BY <1>1, <1>4, PartsAreCloser, Zenon DEF TreesKeptBelow
  <2> QED
    BY <1>4, <2>1, Zenon DEF PartTrees, PartGoal, TreesKept
<1> QED
  BY <1>3, <1>4

LEMMA PrefixStep ==
  ASSUME NEW input, NEW longer, PrefixOf(input, longer), NEW goal \in Goals(input),
         TreesKeptBelow(input, longer, goal)
  PROVE  TreesKept(input, longer, goal)
<1>1. /\ Len(input) \in Nat /\ Len(longer) \in Nat
      /\ goal[2] \in 1 .. Len(input) /\ goal[3] \in 1 .. Len(input)
      /\ goal \in Goals(longer)
  BY DEF Goals, PrefixOf
<1>2. Span(longer, goal[2], goal[3]) = Span(input, goal[2], goal[3])
  BY <1>1, Zenon DEF Span, PrefixOf
<1>3. ASSUME NEW r \in Rules, RuleLhs(r) = goal[1], NEW tree
      PROVE  ByRule(tree, Trees(longer), longer, goal, r)
               <=> ByRule(tree, Trees(input), input, goal, r)
  <2>1. Len(RuleRhs[r]) = RuleLength(r) /\ RuleLength(r) \in 1 .. 3
    BY TablesAreConsistent DEF LrConsistent, RulesConsistent
  <2>2. CutsKept(input, longer, RuleRhs[r], goal[2], goal[3])
    BY <1>1, <2>1, PrefixCuts
  <2>3. ASSUME NEW cut \in Cuts(input, RuleRhs[r], goal[2], goal[3])
        PROVE  Phrases(Trees(longer), longer, RuleRhs[r], cut)
                 = Phrases(Trees(input), input, RuleRhs[r], cut)
    <3>1. ASSUME NEW n \in 1 .. RuleLength(r)
          PROVE  PartTrees(Trees(longer), longer, RuleRhs[r], cut, n)
                   = PartTrees(Trees(input), input, RuleRhs[r], cut, n)
      BY <1>3, PrefixPart
    <3>2. SamePartTrees(Trees(longer), longer, Trees(input), input, RuleRhs[r], cut)
      BY <2>1, <3>1, Zenon DEF SamePartTrees
    <3>3. Len(RuleRhs[r]) \in 1 .. 3
      BY <2>1, Zenon
    <3>4. PhrasesAgree(Trees(longer), longer, Trees(input), input, RuleRhs[r], cut)
      BY <3>2, <3>3, PhrasesOfSameParts
    <3> QED
      BY <3>4 DEF PhrasesAgree
  <2> QED
    BY <1>2, <2>2, <2>3, Zenon DEF ByRule, CutsKept
<1>4. \A tree : tree \in TreesOf(Trees(longer), longer, goal)
                  <=> tree \in TreesOf(Trees(input), input, goal)
  BY <1>3, InTreesOf, Zenon
<1>5. TreesOf(Trees(longer), longer, goal) = TreesOf(Trees(input), input, goal)
  BY <1>4, Zenon
<1> QED
  BY <1>1, <1>5, TreesUnfold, Zenon DEF TreesKept

LEMMA PrefixTrees ==
  ASSUME NEW input, NEW longer, PrefixOf(input, longer)
  PROVE  \A goal \in Goals(input) : TreesKept(input, longer, goal)
<1> DEFINE S == {goal \in Goals(input) : TreesKept(input, longer, goal)}
<1>1. Len(input) \in Nat
  BY DEF PrefixOf
<1>2. \A goal \in Goals(input) :
        (\A q \in Goals(input) : Distance(q) < Distance(goal) => q \in S) => goal \in S
  BY PrefixStep, Zenon DEF TreesKeptBelow
<1>3. \A goal \in Goals(input) : goal \in S
  <2> HIDE DEF S
  <2> QED
    BY <1>1, <1>2, GoalInduction, Zenon
<1> QED
  BY <1>3

\* A symbol stays derived while nodes are built and tokens read.
LEMMA SymbolKept ==
  ASSUME NEW nodes, NEW new, Acyclic(nodes), Extends(nodes, new),
         NEW input, NEW longer, PrefixOf(input, longer),
         NEW entry, NEW symbol, NEW j, SymbolDerived(nodes, input, entry, symbol, j)
  PROVE  SymbolDerived(new, longer, entry, symbol, j)
<1>1. /\ Len(input) \in Nat /\ Len(longer) \in Nat /\ Len(input) <= Len(longer)
      /\ \A k \in 1 .. Len(input) : longer[k] = input[k]
  BY DEF PrefixOf
<1>2. /\ Len(nodes) \in Nat /\ Len(new) \in Nat /\ Len(nodes) <= Len(new)
  BY DEF Acyclic, Extends
<1>3. j \in 1 .. Len(input) /\ entry.token \in 1 .. j
  BY Zenon DEF SymbolDerived
<1>4. /\ j \in 1 .. Len(longer) /\ entry.token \in 1 .. Len(input)
  BY <1>1, <1>3
<1>5. longer[j] = input[j] /\ longer[entry.token] = input[entry.token]
  BY <1>1, <1>3, <1>4, Zenon
<1>6. CASE symbol \in Terminals
  BY <1>3, <1>4, <1>5, <1>6, Zenon DEF SymbolDerived
<1>7. CASE symbol \notin Terminals
  <2>1. /\ symbol \in Nonterminals \ {N_accept}
        /\ entry.node \in 1 .. Len(nodes)
        /\ ArenaTrees(nodes)[entry.node] \in Trees(input)[<< symbol, entry.token, j >>]
    BY <1>7, Zenon DEF SymbolDerived
  <2>2. entry.node \in 1 .. Len(new)
    BY <1>2, <2>1
  <2>3. ArenaTrees(new)[entry.node] = ArenaTrees(nodes)[entry.node]
    <3>1. \A id \in 1 .. Len(nodes) : ArenaTrees(new)[id] = ArenaTrees(nodes)[id]
      BY ArenaTreesKept
    <3> QED
      BY <2>1, <3>1, Zenon
  <2>4. << symbol, entry.token, j >> \in Goals(input)
    BY <1>3, <1>4, <2>1 DEF Goals
  <2>5. TreesKept(input, longer, << symbol, entry.token, j >>)
    BY <2>4, PrefixTrees, Zenon
  <2>6. Trees(longer)[<< symbol, entry.token, j >>] = Trees(input)[<< symbol, entry.token, j >>]
    BY <2>5, Zenon DEF TreesKept
  <2> QED
    BY <1>3, <1>4, <1>5, <1>7, <2>1, <2>2, <2>3, <2>6, Zenon DEF SymbolDerived
<1> QED
  BY <1>6, <1>7

(***************************************************************************)
(* The stack.  Every symbol on it derives the tokens from its own to the   *)
(* one before the next symbol; the last one ends where the lookahead, if   *)
(* any, begins.                                                            *)
(***************************************************************************)
NextBorder(list, i, last) == IF i < Len(list) THEN list[i + 1].token ELSE last + 1

EntryDerived(nodes, input, list, i, last) ==
  SymbolDerived(nodes, input, list[i], AccessingSymbol(list[i].state),
                NextBorder(list, i, last) - 1)

StackDerived(nodes, input, list, last) ==
  \A i \in 2 .. Len(list) : EntryDerived(nodes, input, list, i, last)

\* A stack whose entries above `below' were replaced by one.
Replaces(list, newList, below, entry) ==
  /\ Len(list) \in Nat /\ below \in 1 .. Len(list)
  /\ Len(newList) = below + 1
  /\ \A i \in 1 .. below : newList[i] = list[i]
  /\ newList[below + 1] = entry

\* The borders below the entry stay.
LEMMA BordersBelow ==
  ASSUME NEW list, NEW newList, NEW below, NEW entry, Replaces(list, newList, below, entry),
         NEW last, NEW newLast, entry.token = NextBorder(list, below, last),
         NEW i \in 1 .. below
  PROVE  NextBorder(newList, i, newLast) = NextBorder(list, i, last)
<1>1. /\ Len(list) \in Nat /\ below \in 1 .. Len(list) /\ Len(newList) = below + 1
      /\ \A k \in 1 .. below : newList[k] = list[k]
      /\ newList[below + 1] = entry
  BY DEF Replaces
<1>2. CASE i = below
  <2>1. i < Len(newList) /\ newList[i + 1] = entry
    BY <1>1, <1>2
  <2> QED
    BY <1>2, <2>1 DEF NextBorder
<1>3. CASE i # below
  <2>1. i < Len(newList) /\ i < Len(list) /\ i + 1 \in 1 .. below
    BY <1>1, <1>3
  <2>2. newList[i + 1] = list[i + 1]
    BY <1>1, <2>1
  <2> QED
    BY <2>1, <2>2 DEF NextBorder
<1> QED
  BY <1>2, <1>3

LEMMA PushDerived ==
  ASSUME NEW nodes, NEW new, Acyclic(nodes), Extends(nodes, new),
         NEW input, Len(input) \in Nat,
         NEW list, NEW newList, NEW below, NEW entry, Replaces(list, newList, below, entry),
         NEW last, StackDerived(nodes, input, list, last),
         entry.token = NextBorder(list, below, last),
         NEW newLast \in Int,
         SymbolDerived(new, input, entry, AccessingSymbol(entry.state), newLast)
  PROVE  StackDerived(new, input, newList, newLast)
<1>1. /\ Len(list) \in Nat /\ below \in 1 .. Len(list) /\ Len(newList) = below + 1
      /\ \A k \in 1 .. below : newList[k] = list[k]
      /\ newList[below + 1] = entry
  BY DEF Replaces
<1>2. PrefixOf(input, input)
  BY DEF PrefixOf
<1>3. ASSUME NEW i \in 2 .. Len(newList)
      PROVE  EntryDerived(new, input, newList, i, newLast)
  <2>1. CASE i = below + 1
    <3>1. NextBorder(newList, i, newLast) - 1 = newLast
      BY <1>1, <2>1 DEF NextBorder
    <3>2. newList[i] = entry
      BY <1>1, <2>1
    <3> QED
      BY <3>1, <3>2, Zenon DEF EntryDerived
  <2>2. CASE i # below + 1
    <3>1. i \in 1 .. below /\ i \in 2 .. Len(list)
      BY <1>1, <2>2
    <3>2. newList[i] = list[i]
      BY <1>1, <3>1
    <3>3. NextBorder(newList, i, newLast) = NextBorder(list, i, last)
      BY <3>1, BordersBelow
    <3>4. SymbolDerived(nodes, input, list[i], AccessingSymbol(list[i].state),
                        NextBorder(list, i, last) - 1)
      BY <3>1, Zenon DEF StackDerived, EntryDerived
    <3>5. SymbolDerived(new, input, list[i], AccessingSymbol(list[i].state),
                        NextBorder(list, i, last) - 1)
      BY <1>2, <3>4, SymbolKept
    <3> QED
      BY <3>2, <3>3, <3>5, Zenon DEF EntryDerived
  <2> QED
    BY <2>1, <2>2
<1> QED
  BY <1>3 DEF StackDerived

\* Reading a token leaves the stack as it is.
LEMMA ReadDerived ==
  ASSUME NEW nodes, Acyclic(nodes), NEW input, NEW longer, PrefixOf(input, longer),
         NEW list, NEW last, StackDerived(nodes, input, list, last)
  PROVE  StackDerived(nodes, longer, list, last)
<1>1. Extends(nodes, nodes)
  BY ExtendsReflexive DEF Acyclic
<1>2. ASSUME NEW i \in 2 .. Len(list)
      PROVE  EntryDerived(nodes, longer, list, i, last)
  <2>1. SymbolDerived(nodes, input, list[i], AccessingSymbol(list[i].state),
                      NextBorder(list, i, last) - 1)
    BY Zenon DEF StackDerived, EntryDerived
  <2>2. SymbolDerived(nodes, longer, list[i], AccessingSymbol(list[i].state),
                      NextBorder(list, i, last) - 1)
    BY <1>1, <2>1, SymbolKept
  <2> QED
    BY <2>2, Zenon DEF EntryDerived
<1> QED
  BY <1>2 DEF StackDerived

(***************************************************************************)
(* The invariant.                                                          *)
(***************************************************************************)
LastShifted == IF yytoken = YYEMPTY THEN Len(tokens) ELSE Len(tokens) - 1

RootIsStart ==
  \A i \in 2 .. Len(stack) :
    AccessingSymbol(stack[i].state) = N_start => stack[i].node = root

TreesOnStack ==
  /\ StackDerived(arena, tokens, stack, LastShifted)
  /\ NextBorder(stack, 1, LastShifted) = 1
  /\ RootIsStart

TreeInvariant ==
  /\ phase \in {"parsing", "accepted"} => TreesOnStack
  /\ phase = "accepted" => yystate = YYFINAL /\ yytoken = YYEMPTY

\* The handle of a reduction is derived.
LEMMA HandleOfStack ==
  ASSUME ParserInvariant, StackDerived(arena, tokens, stack, LastShifted),
         yystate \in ReducingStates, NEW r, r = DefaultReduction(yystate)
  PROVE  HandleDerived(arena, tokens, r, Handle(r), LastShifted)
<1> DEFINE rhs == Handle(r)
           len == RuleLength(r)
           below == Len(stack) - len
           last == LastShifted
           cut == HandleCut(rhs, last)
<1>1. /\ stack \in Seq(Entry) /\ stack # << >> /\ StackIsPath /\ Len(stack) \in Nat
  BY DEF ParserInvariant, TypeOK
<1>2. /\ len \in 1 .. 3 /\ Len(rhs) = len
      /\ \A k \in 1 .. len : rhs[k] = stack[below + k]
  BY HandleValues
<1>3. /\ below \in 1 .. Len(stack) - 1
      /\ \A k \in 1 .. len : AccessingSymbol(stack[below + k].state) = RuleRhs[r][k]
  BY <1>1, HandleOnStack
<1>4. /\ \A k \in 1 .. len : cut[k] = rhs[k].token
      /\ cut[len + 1] = last + 1
  <2> HIDE DEF rhs, last, len
  <2>1. Len(rhs) \in 1 .. 3
    BY <1>2, Zenon
  <2>2. /\ \A n \in 1 .. Len(rhs) : HandleCut(rhs, last)[n] = rhs[n].token
        /\ HandleCut(rhs, last)[Len(rhs) + 1] = last + 1
    BY <2>1, HandleCutBorders
  <2> QED
    BY <1>2, <2>2, Zenon
<1>5. below + len = Len(stack)
  BY <1>1, <1>2
<1> SUFFICES HandleDerived(arena, tokens, r, rhs, last)
  OBVIOUS
<1>6. \A i \in 2 .. Len(stack) : EntryDerived(arena, tokens, stack, i, last)
  BY DEF StackDerived
<1> HIDE DEF rhs, len, below, last, cut
<1>7. ASSUME NEW k \in 1 .. len
      PROVE  SymbolDerived(arena, tokens, rhs[k], RuleRhs[r][k], cut[k + 1] - 1)
  <2>1. below + k \in 2 .. Len(stack)
    BY <1>1, <1>2, <1>3, <1>5
  <2>2. SymbolDerived(arena, tokens, rhs[k], RuleRhs[r][k],
                      NextBorder(stack, below + k, last) - 1)
    BY <1>2, <1>3, <1>6, <2>1, Zenon DEF EntryDerived
  <2>3. NextBorder(stack, below + k, last) = cut[k + 1]
    <3>1. CASE k = len
      BY <1>1, <1>4, <1>5, <3>1 DEF NextBorder
    <3>2. CASE k # len
      <4>1. k + 1 \in 1 .. len /\ below + k < Len(stack) /\ (below + k) + 1 = below + (k + 1)
        BY <1>2, <1>3, <1>5, <3>2
      <4>2. stack[below + (k + 1)] = rhs[k + 1] /\ cut[k + 1] = rhs[k + 1].token
        BY <1>2, <1>4, <4>1
      <4> QED
        BY <4>1, <4>2 DEF NextBorder
    <3> QED
      BY <3>1, <3>2
  <2> QED
    BY <2>2, <2>3, Zenon
<1> QED
  BY <1>2, <1>7, Zenon DEF HandleDerived, len, cut

LEMMA InitTrees ==
  ASSUME Init
  PROVE  TreeInvariant
<1>1. /\ Len(stack) = 1 /\ Len(tokens) = 0 /\ yytoken = YYEMPTY /\ phase = "parsing"
  BY DEF Init
<1>2. LastShifted = 0
  BY <1>1 DEF LastShifted
<1>3. \A i \in 2 .. Len(stack) : FALSE
  BY <1>1
<1>4. NextBorder(stack, 1, LastShifted) = 1
  BY <1>1, <1>2 DEF NextBorder
<1> QED
  BY <1>1, <1>3, <1>4 DEF TreeInvariant, TreesOnStack, StackDerived, RootIsStart

LEMMA LastShiftedType ==
  ASSUME TypeOK
  PROVE  LastShifted \in Int /\ Len(tokens) \in Nat
<1>1. Len(tokens) \in Nat
  BY DEF TypeOK
<1> QED
  BY <1>1 DEF LastShifted

\* Every token that yylex returns, its error token aside.
LEMMA ReadTrees ==
  ASSUME ParserInvariant, TreeInvariant, phase = "parsing", yytoken = YYEMPTY,
         NEW token \in Token, tokens' = Append(tokens, token),
         yytoken' \in Terminals,
         UNCHANGED << stack, phase, arena, root >>
  PROVE  TreeInvariant'
<1>1. /\ tokens \in Seq(Token) /\ Len(tokens) \in Nat /\ TypeOK /\ TreesOnStack
      /\ Acyclic(arena)
  BY DEF ParserInvariant, TypeOK, TreeInvariant, ArenaIsAcyclic, Acyclic, OperandsOlder
<1>2. /\ Len(tokens') = Len(tokens) + 1
      /\ \A k \in 1 .. Len(tokens) : tokens'[k] = tokens[k]
  BY <1>1, AppendProperties
<1>3. PrefixOf(tokens, tokens')
  BY <1>1, <1>2 DEF PrefixOf
<1>4. LastShifted' = LastShifted
  <2>1. yytoken' # YYEMPTY
    BY DEF Terminals, YYNTOKENS, YYEMPTY
  <2> QED
    BY <1>1, <1>2, <2>1 DEF LastShifted
<1>5. StackDerived(arena, tokens', stack, LastShifted)
  BY <1>1, <1>3, ReadDerived DEF TreesOnStack
<1>6. StackDerived(arena, tokens, stack, LastShifted)'
  BY <1>4, <1>5
<1>7. (NextBorder(stack, 1, LastShifted) = 1)'
  BY <1>1, <1>4 DEF TreesOnStack
<1>8. RootIsStart'
  BY <1>1 DEF TreesOnStack, RootIsStart
<1>9. phase' # "accepted"
  OBVIOUS
<1> QED
  BY <1>6, <1>7, <1>8, <1>9 DEF TreeInvariant, TreesOnStack

LEMMA EnteredIsFinal ==
  ASSUME NEW newStack, EnterState(newStack)
  PROVE  (phase = "accepted" => yystate = YYFINAL)'
  BY DEF EnterState, PhaseAfter, yystate, Top

LEMMA ShiftTrees ==
  ASSUME ParserInvariant, TreeInvariant, Shift
  PROVE  TreeInvariant'
<1> DEFINE entry == [state    |-> TableAction(yystate, yytoken),
                     node     |-> NoNode,
                     token    |-> Len(tokens),
                     location |-> yylloc]
           newStack == Append(stack, entry)
           last == LastShifted
<1>1. /\ TypeOK /\ stack \in Seq(Entry) /\ Len(stack) \in 1 .. Len(stack)
      /\ tokens \in Seq(Token) /\ Len(tokens) \in Nat /\ Len(stack) \in Nat /\ LookaheadRead
      /\ phase = "parsing" /\ yytoken # YYEMPTY /\ yytoken \in Terminals
      /\ TreesOnStack /\ Acyclic(arena)
  BY DEF ParserInvariant, TypeOK, Shift, TreeInvariant, ArenaIsAcyclic, Acyclic, OperandsOlder
<1>2. /\ TableAction(yystate, yytoken) \in States
      /\ AccessingSymbol(TableAction(yystate, yytoken)) = yytoken
  BY <1>1, YystateType, ShiftTarget DEF Shift
<1>3. yylloc \in Location
  BY <1>1, YyllocType
<1>4. entry \in Entry
  BY <1>1, <1>2, <1>3 DEF Entry, NoNode
<1>5. /\ stack' = newStack /\ yytoken' = YYEMPTY /\ EnterState(newStack)
      /\ UNCHANGED << arena, root, tokens >>
  BY DEF Shift, EnterState
<1>6. /\ entry.location = yylloc /\ entry.token = Len(tokens)
      /\ AccessingSymbol(entry.state) = yytoken
      /\ tokens # << >> /\ yylloc = tokens[Len(tokens)].location
      /\ tokens[Len(tokens)].type = yytoken
  BY <1>1, <1>2 DEF LookaheadRead, yylloc
<1> HIDE DEF entry
<1>7. /\ newStack \in Seq(Entry)
      /\ Len(newStack) = Len(stack) + 1
      /\ \A i \in 1 .. Len(stack) : newStack[i] = stack[i]
      /\ newStack[Len(stack) + 1] = entry
  BY <1>1, <1>4, AppendProperties
<1> HIDE DEF newStack
<1>8. Replaces(stack, newStack, Len(stack), entry)
  BY <1>1, <1>7, Zenon DEF Replaces
<1>9. last = Len(tokens) - 1 /\ LastShifted' = Len(tokens)
  BY <1>1, <1>5 DEF LastShifted
<1>10. entry.token = NextBorder(stack, Len(stack), last)
  BY <1>1, <1>6, <1>9 DEF NextBorder
<1> HIDE DEF last
<1>11. SymbolDerived(arena, tokens, entry, yytoken, Len(tokens))
  <2>1. Len(tokens) \in 1 .. Len(tokens)
    BY <1>1, <1>6
  <2> QED
    BY <1>1, <1>6, <2>1, Zenon DEF SymbolDerived
<1>12. Extends(arena, arena)
  BY <1>1, ExtendsReflexive DEF Acyclic
<1>13. StackDerived(arena, tokens, newStack, Len(tokens))
  <2>1. StackDerived(arena, tokens, stack, last)
    BY <1>1 DEF TreesOnStack, last
  <2>2. SymbolDerived(arena, tokens, entry, AccessingSymbol(entry.state), Len(tokens))
    BY <1>6, <1>11, Zenon
  <2>3. Len(tokens) \in Int
    BY <1>1
  <2> QED
    BY <1>1, <1>8, <1>10, <1>12, <2>1, <2>2, <2>3, PushDerived
<1>14. NextBorder(newStack, 1, Len(tokens)) = 1
  <2>1. 1 \in 1 .. Len(stack)
    BY <1>1
  <2>2. NextBorder(newStack, 1, Len(tokens)) = NextBorder(stack, 1, last)
    BY <1>8, <1>10, <2>1, BordersBelow
  <2> QED
    BY <1>1, <2>2 DEF TreesOnStack, last
<1>15. StackDerived(arena, tokens, stack, LastShifted)'
  BY <1>5, <1>9, <1>13
<1>16. (NextBorder(stack, 1, LastShifted) = 1)'
  BY <1>5, <1>9, <1>14
<1>17. RootIsStart'
  <2>1. yytoken # N_start
    <3>1. N_start \in Nonterminals
      BY DEF N_start, Nonterminals, YYNTOKENS, N_identifier
    <3> QED
      BY <1>1, <3>1, SymbolsDisjoint
  <2> SUFFICES ASSUME NEW i \in 2 .. Len(newStack),
                      AccessingSymbol(newStack[i].state) = N_start
               PROVE  newStack[i].node = root
    BY <1>5 DEF RootIsStart
  <2>2. CASE i = Len(stack) + 1
    BY <1>6, <1>7, <2>1, <2>2
  <2>3. CASE i # Len(stack) + 1
    <3>1. i \in 2 .. Len(stack) /\ newStack[i] = stack[i]
      BY <1>1, <1>7, <2>3
    <3> QED
      BY <1>1, <3>1 DEF TreesOnStack, RootIsStart
  <2> QED
    BY <2>2, <2>3
<1>18. (phase = "accepted" => yystate = YYFINAL /\ yytoken = YYEMPTY)'
  BY <1>5, EnteredIsFinal
<1> QED
  BY <1>15, <1>16, <1>17, <1>18 DEF TreeInvariant, TreesOnStack

\* `start' is on the stack only over its bottom, and by rule 2.
LEMMA StartOverBottom ==
  ASSUME StackIsPath, NEW i \in 2 .. Len(stack), Len(stack) \in Nat,
         AccessingSymbol(stack[i].state) = N_start
  PROVE  i = 2
<1>1. IsEdge(stack[i - 1].state, stack[i].state)
  BY DEF StackIsPath
<1>2. stack[i - 1].state \in States /\ stack[i].state \in States
  BY <1>1, EdgeStates
<1>3. stack[i - 1].state = 0
  BY <1>1, <1>2, TablesAreConsistent DEF LrConsistent, FinalStateIsAcceptance
<1>4. CASE i # 2
  <2>1. i - 1 \in 2 .. Len(stack)
    BY <1>4
  <2>2. IsEdge(stack[i - 1 - 1].state, stack[i - 1].state)
    BY <2>1 DEF StackIsPath
  <2> QED
    BY <1>3, <2>2, EdgeStates
<1> QED
  BY <1>4

\* What a reduction pushes is derived from what it pops.
LEMMA HandleReduced ==
  ASSUME NEW nodes, NEW input, Len(input) \in Nat, NEW r \in DerivingRules, NEW rhs,
         NEW last \in Int, HandleDerived(nodes, input, r, rhs, last),
         NEW new, NEW entry, entry.token = rhs[1].token,
         entry.location = CommonLocation(rhs), entry.node \in 1 .. Len(new),
         ArenaTrees(new)[entry.node] =
           Meaning(RuleRhs[r], HandleParts(nodes, input, r, rhs),
                   Span(input, rhs[1].token, last))
  PROVE  SymbolDerived(new, input, entry, RuleLhs(r), last)
<1>1. BordersInOrder(rhs, RuleLength(r), last, Len(input))
  BY HandleInOrder
<1>2. RuleLength(r) \in 1 .. 3
  BY DerivingRule
<1>3. /\ \A n \in 1 .. RuleLength(r) : rhs[n].token \in Nat \ {0}
      /\ \A n \in 1 .. RuleLength(r) - 1 : rhs[n].token < rhs[n + 1].token
      /\ rhs[RuleLength(r)].token <= last /\ last <= Len(input)
  BY <1>1, Zenon DEF BordersInOrder
<1>4. last \in 1 .. Len(input) /\ entry.token \in 1 .. last
  <2>1. CASE RuleLength(r) = 1
    BY <1>3, <2>1
  <2>2. CASE RuleLength(r) = 2
    BY <1>3, <2>2
  <2>3. CASE RuleLength(r) = 3
    BY <1>3, <2>3
  <2> QED
    BY <1>2, <2>1, <2>2, <2>3
<1>5. /\ entry.location.start = input[entry.token].location.start
      /\ entry.location.end = input[last].location.end
  <2>1. CommonLocation(rhs) = Span(input, rhs[1].token, last)
    BY HandleSpan
  <2> QED
    BY <2>1 DEF Span
<1>6. RuleLhs(r) \in Nonterminals \ {N_accept} /\ RuleLhs(r) \notin Terminals
  BY LhsOfDerivingRule, SymbolsDisjoint
<1>7. ArenaTrees(new)[entry.node] \in Trees(input)[<< RuleLhs(r), entry.token, last >>]
  <2>1. Meaning(RuleRhs[r], HandleParts(nodes, input, r, rhs), Span(input, rhs[1].token, last))
          \in Trees(input)[<< RuleLhs(r), rhs[1].token, last >>]
    BY HandleIsDerivation
  <2> QED
    BY <2>1, Zenon
<1> QED
  BY <1>4, <1>5, <1>6, <1>7, Zenon DEF SymbolDerived

LEMMA ReduceTrees ==
  ASSUME ParserInvariant, SignInvariant, TreeInvariant, phase = "parsing",
         yystate \in ReducingStates, Reduce(DefaultReduction(yystate)),
         UNCHANGED << yytoken, tokens >>
  PROVE  TreeInvariant'
<1> DEFINE r    == DefaultReduction(yystate)
           rhs  == Handle(r)
           loc  == CommonLocation(rhs)
           made == SemanticAction(r, rhs, loc)
           last == LastShifted
<1>1. /\ StackIsPath /\ TypeOK
      /\ stack \in Seq(Entry) /\ stack # << >> /\ Len(stack) \in Nat
      /\ arena \in Seq(Node) /\ tokens \in Seq(Token) /\ Len(tokens) \in Nat
      /\ TreesOnStack /\ Acyclic(arena)
  BY DEF ParserInvariant, TypeOK, TreeInvariant, ArenaIsAcyclic, Acyclic, OperandsOlder
<1>2. PICK entry \in Entry, newStack \in Seq(Entry),
           below \in 1 .. Len(stack) - 1 :
        /\ below = Len(stack) - RuleLength(r)
        /\ Len(newStack) = below + 1
        /\ \A i \in 1 .. below : newStack[i] = stack[i]
        /\ newStack[below + 1] = entry
        /\ EnterState(newStack)
        /\ entry.state = StateAfter(r)
        /\ entry.node \in 1 .. Len(arena')
        /\ entry.node = made.node
        /\ entry.location = loc
        /\ Extends(arena, arena')
  BY ReduceReplacesHandle
<1>3. stack' = newStack /\ arena' = made.arena
      /\ root' = IF r = 2 THEN rhs[1].node ELSE root
  BY <1>2 DEF Reduce, Handle, EnterState
<1>4. entry.token = rhs[1].token
  <2> DEFINE new == [state    |-> StateAfter(r),
                     node     |-> made.node,
                     token    |-> rhs[1].token,
                     location |-> loc]
             prefix == SubSeq(stack, 1, Len(stack) - RuleLength(r))
  <2>1. stack' = Append(prefix, new)
    BY DEF Reduce, Handle, EnterState
  <2>2. new.token = rhs[1].token
    OBVIOUS
  <2> HIDE DEF new
  <2>3. prefix \in Seq(Entry) /\ Len(prefix) = below
    <3>1. /\ 1 \in Int /\ below \in Int /\ \A i \in 1 .. below : stack[i] \in Entry
      BY <1>1, <1>2
    <3>2. /\ SubSeq(stack, 1, below) \in Seq(Entry)
          /\ Len(SubSeq(stack, 1, below)) = IF 1 <= below THEN below - 1 + 1 ELSE 0
      BY <3>1, SubSeqProperties
    <3> QED
      BY <1>1, <1>2, <3>2
  <2> HIDE DEF prefix
  <2>4. Append(prefix, new)[Len(prefix) + 1] = new
    BY <2>3
  <2> QED
    BY <1>2, <1>3, <2>1, <2>2, <2>3, <2>4
<1>5. /\ r \in DerivingRules
      /\ HandleDerived(arena, tokens, r, rhs, last)
      /\ last \in Int
  BY <1>1, ReducedRuleDerives, HandleOfStack, LastShiftedType DEF TreesOnStack
<1>6. /\ RuleLength(r) \in 1 .. 3
      /\ \A k \in 1 .. RuleLength(r) : rhs[k] = stack[below + k]
  BY <1>2, HandleValues
<1>7. AccessingSymbol(entry.state) = RuleLhs(r)
  BY <1>1, <1>2, HandleOnStack
<1>8. TreeMade(made) = Meaning(RuleRhs[r], HandleParts(arena, tokens, r, rhs),
                               Span(tokens, rhs[1].token, last))
  BY <1>5, ActionTree, Zenon
<1>9. r = 2 => made.node = rhs[1].node
  <2> SUFFICES ASSUME r = 2 PROVE made.node = rhs[1].node
    OBVIOUS
  <2>1. /\ r \notin LeafRules /\ r \notin BinaryRules /\ r \notin {13, 24} /\ r # 20 /\ r # 19
    BY DEF LeafRules, BinaryRules
  <2>2. SemanticAction(r, rhs, loc) = [arena |-> arena, node |-> PassedNode(r, rhs)]
    <3> HIDE DEF r, rhs, loc
    <3> QED
      BY <2>1, Zenon DEF SemanticAction
  <2> QED
    BY <2>1, <2>2 DEF PassedNode
<1>10. below + RuleLength(r) = Len(stack)
  BY <1>1, <1>2, <1>6
<1> HIDE DEF r, rhs, loc, made, last
<1>11. Replaces(stack, newStack, below, entry)
  BY <1>1, <1>2 DEF Replaces
<1>12. entry.token = NextBorder(stack, below, last)
  <2>1. below < Len(stack) /\ 1 \in 1 .. RuleLength(r)
    BY <1>1, <1>2, <1>6
  <2>2. rhs[1] = stack[below + 1]
    BY <1>6, <2>1
  <2> QED
    BY <1>4, <2>1, <2>2 DEF NextBorder
<1>13. SymbolDerived(arena', tokens, entry, RuleLhs(r), last)
  <2>1. ArenaTrees(arena')[entry.node] =
          Meaning(RuleRhs[r], HandleParts(arena, tokens, r, rhs), Span(tokens, rhs[1].token, last))
    BY <1>2, <1>3, <1>8, Zenon DEF TreeMade
  <2>2. entry.location = CommonLocation(rhs)
    BY <1>2 DEF loc
  <2> QED
    BY <1>1, <1>2, <1>4, <1>5, <2>1, <2>2, HandleReduced
<1>14. LastShifted' = last
  BY DEF LastShifted, last
<1>15. StackDerived(arena', tokens, newStack, last)
  <2>1. StackDerived(arena, tokens, stack, last)
    BY <1>1 DEF TreesOnStack, last
  <2>2. SymbolDerived(arena', tokens, entry, AccessingSymbol(entry.state), last)
    BY <1>7, <1>13, Zenon
  <2> QED
    BY <1>1, <1>2, <1>5, <1>11, <1>12, <2>1, <2>2, PushDerived
<1>16. NextBorder(newStack, 1, last) = 1
  <2>1. 1 \in 1 .. below
    BY <1>1, <1>2
  <2>2. NextBorder(newStack, 1, last) = NextBorder(stack, 1, last)
    BY <1>11, <1>12, <2>1, BordersBelow
  <2> QED
    BY <1>1, <2>2 DEF TreesOnStack, last
<1>17. RootIsStart'
  <2> SUFFICES ASSUME NEW i \in 2 .. Len(newStack),
                      AccessingSymbol(newStack[i].state) = N_start
               PROVE  newStack[i].node = root'
    BY <1>3 DEF RootIsStart
  <2>1. CASE i = below + 1
    <3>1. r = 2
      BY <1>2, <1>5, <1>7, <2>1, TablesAreConsistent
        DEF LrConsistent, FinalStateIsAcceptance, DerivingRules
    <3> QED
      BY <1>2, <1>3, <1>9, <2>1, <3>1
  <2>2. CASE i # below + 1
    <3>1. i \in 1 .. below /\ i \in 2 .. Len(stack) /\ newStack[i] = stack[i]
      BY <1>1, <1>2, <2>2
    <3>2. CASE r = 2
      <4>1. /\ IsEdge(stack[below].state, entry.state)
            /\ AccessingSymbol(entry.state) = N_start
        BY <1>1, <1>2, <1>7, <3>2, HandleOnStack, TablesAreConsistent
          DEF LrConsistent, StartIsLast, r
      <4>2. stack[below].state = 0
        BY <4>1, EdgeStates, TablesAreConsistent DEF LrConsistent, FinalStateIsAcceptance
      <4>3. below \in 2 .. Len(stack)
        BY <1>2, <3>1
      <4>4. IsEdge(stack[below - 1].state, stack[below].state)
        BY <1>1, <4>3 DEF StackIsPath
      <4> QED
        BY <4>2, <4>4, EdgeStates
    <3>3. CASE r # 2
      BY <1>1, <1>3, <3>1, <3>3 DEF TreesOnStack, RootIsStart
    <3> QED
      BY <3>2, <3>3
  <2> QED
    BY <2>1, <2>2
<1>18. phase' # "accepted"
  <2>1. phase' = "accepted" => yystate' = YYFINAL
    BY <1>2, EnteredIsFinal
  <2>2. yystate' = entry.state
    BY <1>2, <1>3 DEF yystate, Top
  <2>3. RuleLhs(r) \in Nonterminals /\ YYEOF \in Terminals
    BY <1>5, LhsOfDerivingRule DEF YYEOF, Terminals, YYNTOKENS
  <2> QED
    BY <1>7, <2>1, <2>2, <2>3, SymbolsDisjoint, TablesAreConsistent
      DEF LrConsistent, FinalStateIsAcceptance
<1>19. StackDerived(arena, tokens, stack, LastShifted)'
  BY <1>3, <1>14, <1>15
<1>20. (NextBorder(stack, 1, LastShifted) = 1)'
  BY <1>3, <1>14, <1>16
<1> QED
  BY <1>17, <1>18, <1>19, <1>20 DEF TreeInvariant, TreesOnStack

LEMMA YylexTrees ==
  ASSUME ParserInvariant, TreeInvariant, Yylex
  PROVE  TreeInvariant'
<1>1. TypeOK
  BY DEF ParserInvariant
<1>2. ASSUME NEW type \in TokenKinds, NEW loc \in TokenLocations(type),
             NEW negative \in LexemeSigns(type), ReadToken(type, loc, negative)
      PROVE  TreeInvariant'
  <2> DEFINE token == [type |-> type, location |-> loc, negative |-> negative]
  <2>1. type \in Terminals
    BY InputAssumption DEF LexemeTokens, Terminals, YYNTOKENS, T_INTEGER, T_INVALID_NUMBER
  <2>2. loc \in Location /\ negative \in BOOLEAN
    BY <1>1, TokenLocationType DEF LexemeSigns
  <2>3. token \in Token
    BY <2>1, <2>2 DEF Token
  <2>4. /\ phase = "parsing" /\ yytoken = YYEMPTY /\ yytoken' = type
        /\ tokens' = Append(tokens, token) /\ UNCHANGED << stack, phase, arena, root >>
    BY <1>2 DEF ReadToken, NeedsToken
  <2> HIDE DEF token
  <2> QED
    BY <2>1, <2>3, <2>4, ReadTrees
<1>3. ASSUME NEW loc \in EndLocations, ReadEnd(loc)
      PROVE  TreeInvariant'
  <2> DEFINE token == [type |-> YYEOF, location |-> loc, negative |-> FALSE]
  <2>1. YYEOF \in Terminals
    BY DEF YYEOF, Terminals, YYNTOKENS
  <2>2. loc \in Location
    BY <1>1, EndLocationType
  <2>3. token \in Token
    BY <2>1, <2>2 DEF Token
  <2>4. /\ phase = "parsing" /\ yytoken = YYEMPTY /\ yytoken' = YYEOF
        /\ tokens' = Append(tokens, token) /\ UNCHANGED << stack, phase, arena, root >>
    BY <1>3 DEF ReadEnd, NeedsToken
  <2> HIDE DEF token
  <2> QED
    BY <2>1, <2>3, <2>4, ReadTrees
<1>4. ASSUME NEW type \in TokenKinds, NEW loc \in TokenLocations(type),
             ReadOverLimit(type, loc)
      PROVE  TreeInvariant'
  BY <1>4 DEF ReadOverLimit, PhaseOverLimit, TreeInvariant
<1> QED
  BY <1>2, <1>3, <1>4 DEF Yylex

LEMMA NextTrees ==
  ASSUME ParserInvariant, SignInvariant, TreeInvariant, [Next]_vars
  PROVE  TreeInvariant'
<1>1. CASE UNCHANGED vars
  <2>1. UNCHANGED << stack, arena, root, tokens, phase, yytoken >>
    BY <1>1 DEF vars
  <2> QED
    BY <2>1 DEF TreeInvariant, TreesOnStack, StackDerived, RootIsStart, LastShifted, yystate, Top
<1>2. CASE ReduceWithoutToken
  BY <1>2, ReductionStates, ReduceTrees DEF ReduceWithoutToken
<1>3. CASE ReduceOnToken
  BY <1>3, ReductionStates, ReduceTrees DEF ReduceOnToken, NoTableAction
<1>4. CASE SyntaxError \/ Unwind \/ Abort
  <2>1. phase' \notin {"parsing", "accepted"}
    BY <1>4 DEF SyntaxError, Unwind, Abort
  <2> QED
    BY <2>1 DEF TreeInvariant
<1>5. CASE Step
  BY <1>2, <1>3, <1>4, <1>5, YylexTrees, ShiftTrees DEF Step
<1> QED
  BY <1>1, <1>5 DEF Next, Stopped

LEMMA TreesAreSafe == Spec => []TreeInvariant
<1>1. Init => TreeInvariant
  BY InitTrees
<1>2. ParserInvariant /\ SignInvariant /\ TreeInvariant /\ [Next]_vars
        => TreeInvariant'
  BY NextTrees
<1> QED
  BY <1>1, <1>2, ParserIsSafe, SignsAreSafe, PTL DEF Spec

\* An accepted stack holds its bottom, `start' and the end of the input.
LEMMA AcceptedStack ==
  ASSUME ParserInvariant, yystate = YYFINAL
  PROVE  /\ Len(stack) = 3
         /\ AccessingSymbol(stack[2].state) = N_start
         /\ AccessingSymbol(stack[3].state) = YYEOF
<1>1. /\ StackIsPath /\ Len(stack) \in Nat /\ Len(stack) # 0
      /\ stack[Len(stack)].state = YYFINAL
  BY DEF ParserInvariant, TypeOK, yystate, Top
<1>2. Len(stack) # 1
  BY <1>1 DEF StackIsPath, YYFINAL
<1>3. /\ Len(stack) \in 2 .. Len(stack)
      /\ IsEdge(stack[Len(stack) - 1].state, YYFINAL)
  <2>1. Len(stack) \in 2 .. Len(stack)
    BY <1>1, <1>2
  <2>2. IsEdge(stack[Len(stack) - 1].state, stack[Len(stack)].state)
    BY <1>1, <2>1, Zenon DEF StackIsPath
  <2> QED
    BY <1>1, <2>1, <2>2, Zenon
<1>4. AccessingSymbol(stack[Len(stack) - 1].state) = N_start
  BY <1>3, EdgeStates, TablesAreConsistent DEF LrConsistent, FinalStateIsAcceptance
<1>5. Len(stack) # 2
  <2> SUFFICES ASSUME Len(stack) = 2 PROVE FALSE
    OBVIOUS
  <2>1. stack[1].state = 0
    BY <1>1 DEF StackIsPath
  <2>2. AccessingSymbol(0) # N_start
    BY DEF AccessingSymbol, yystos, N_start
  <2> QED
    BY <1>4, <2>1, <2>2
<1>6. Len(stack) - 1 = 2
  <2>1. Len(stack) - 1 \in 2 .. Len(stack)
    <3>1. \A n \in Nat : n # 0 /\ n # 1 /\ n # 2 => n - 1 \in 2 .. n
      OBVIOUS
    <3> QED
      BY <1>1, <1>2, <1>5, <3>1, Zenon
  <2>2. ASSUME NEW i \in 2 .. Len(stack), AccessingSymbol(stack[i].state) = N_start
        PROVE  i = 2
    BY <1>1, <2>2, StartOverBottom
  <2> QED
    BY <1>4, <2>1, <2>2, Zenon
<1>7. Len(stack) = 3
  BY <1>1, <1>6
<1> QED
  BY <1>1, <1>4, <1>6, <1>7, TablesAreConsistent DEF LrConsistent, FinalStateIsAcceptance

\* Whatever the input: the tree of an accepted parse is the one tree the
\* reference grammar gives its tokens.
THEOREM TreeCorrect == Spec => []AcceptedTreeIsDerived
<1>1. ParserInvariant /\ TreeInvariant => AcceptedTreeIsDerived
  <2> SUFFICES ASSUME ParserInvariant, TreeInvariant, phase = "accepted"
               PROVE  Trees(tokens)[<< N_start, 1, Len(tokens) - 1 >>] = {ArenaTrees(arena)[root]}
    BY DEF AcceptedTreeIsDerived
  <2> DEFINE goal == << N_start, 1, Len(tokens) - 1 >>
  <2>1. /\ TreesOnStack /\ yystate = YYFINAL /\ LastShifted = Len(tokens)
        /\ Len(tokens) \in Nat
    <3>1. tokens \in Seq(Token)
      BY DEF ParserInvariant, TypeOK
    <3> QED
      BY <3>1 DEF TreeInvariant, LastShifted
  <2>2. /\ Len(stack) = 3
        /\ AccessingSymbol(stack[2].state) = N_start
        /\ AccessingSymbol(stack[3].state) = YYEOF
    BY <2>1, AcceptedStack
  <2>3. SymbolDerived(arena, tokens, stack[3], YYEOF, Len(tokens))
    <3>1. EntryDerived(arena, tokens, stack, 3, Len(tokens))
      BY <2>1, <2>2 DEF TreesOnStack, StackDerived
    <3>2. NextBorder(stack, 3, Len(tokens)) - 1 = Len(tokens)
      BY <2>1, <2>2 DEF NextBorder
    <3> QED
      BY <2>2, <3>1, <3>2, Zenon DEF EntryDerived
  <2>4. stack[3].token = Len(tokens)
    <3>1. YYEOF \in Terminals
      BY DEF YYEOF, Terminals, YYNTOKENS
    <3> QED
      BY <2>3, <3>1, Zenon DEF SymbolDerived
  <2>5. SymbolDerived(arena, tokens, stack[2], N_start, Len(tokens) - 1)
    <3>1. EntryDerived(arena, tokens, stack, 2, Len(tokens))
      BY <2>1, <2>2 DEF TreesOnStack, StackDerived
    <3>2. NextBorder(stack, 2, Len(tokens)) = Len(tokens)
      BY <2>1, <2>2, <2>4 DEF NextBorder
    <3> QED
      BY <2>2, <3>1, <3>2, Zenon DEF EntryDerived
  <2>6. stack[2].token = 1 /\ stack[2].node = root
    <3>1. stack[2].token = 1
      BY <2>1, <2>2 DEF TreesOnStack, NextBorder
    <3>2. 2 \in 2 .. Len(stack)
      BY <2>2
    <3>3. stack[2].node = root
      BY <2>1, <2>2, <3>2, Zenon DEF TreesOnStack, RootIsStart
    <3> QED
      BY <3>1, <3>3
  <2>7. N_start \in Nonterminals \ {N_accept} /\ N_start \notin Terminals
    BY DEF N_start, N_accept, Nonterminals, Terminals, YYNTOKENS, N_identifier
  <2>8. ArenaTrees(arena)[root] \in Trees(tokens)[goal]
    BY <2>5, <2>6, <2>7, Zenon DEF SymbolDerived
  <2>9. goal \in Goals(tokens)
    <3>1. Len(tokens) - 1 \in 1 .. Len(tokens)
      BY <2>5, Zenon DEF SymbolDerived
    <3>2. 1 \in 1 .. Len(tokens)
      BY <2>1, <3>1
    <3> QED
      BY <2>7, <3>1, <3>2 DEF Goals
  <2> HIDE DEF goal
  <2>10. OneTree(tokens, goal)
    BY <2>1, <2>9, Unambiguous
  <2>11. Trees(tokens)[goal] = {ArenaTrees(arena)[root]}
    BY <2>8, <2>10 DEF OneTree
  <2> QED
    BY <2>11 DEF goal
<1> QED
  BY <1>1, TreesAreSafe, ParserIsSafe, PTL
================================================================================
