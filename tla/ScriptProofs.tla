------------------------------ MODULE ScriptProofs ------------------------------
(***************************************************************************)
(* Proofs about the two PHP scripts.  The generator's tables are exact, as *)
(* short as can be and sorted the way the lexer's binary search assumes,   *)
(* for the code space as a whole and for every pattern; and the gate of    *)
(* the test run lets exactly the acceptable result files pass.             *)
(***************************************************************************)
EXTENDS RangeGenerator, RangeSearch, PhptPolicy, SequenceTheorems,
        WellFoundedInduction, TLAPS

Pairs == (0 .. LastCodePoint) \X (0 .. LastCodePoint)

GeneratorTypes ==
  /\ matching \in SUBSET ((0 .. LastCodePoint) \ Surrogates)
  /\ codePoint \in 0 .. LastCodePoint + 1
  /\ ranges \in Seq(Pairs)
  /\ phase \in {"collecting", "returned"}
  /\ phase = "returned" => codePoint = LastCodePoint + 1

\* The open range reaches to its last match, and only surrogates follow.
IsOpen == phase = "collecting" /\ rangeStart # null

OpenRange ==
  /\ IsOpen =>
       /\ rangeStart \in 0 .. previous
       /\ previous \in 0 .. codePoint - 1 /\ previous <= LastCodePoint
       /\ \A cp \in previous + 1 .. codePoint - 1 : cp \in Surrogates
  /\ rangeStart = null \/ rangeStart \in Nat

\* What was looked at is in a range iff it matches, what was not is in none.
LookedExactly ==
  \A cp \in 0 .. codePoint - 1 :
    cp \notin Surrogates =>
      ( InSome(cp, ranges) \/ (IsOpen /\ rangeStart <= cp /\ cp <= previous)
          <=> cp \in matching )

\* No closed range reaches what is still to be looked at.
ClosedBehind == \A i \in 1 .. Len(ranges) : ranges[i][2] \in 0 .. codePoint - 1

\* A code point that does not match, between `from' and `to'.
Divides(from, to) == \E cp \in from + 1 .. to - 1 : cp \notin Surrogates \cup matching

\* The next range, open or still to come, will be apart from the last one.
NextApart ==
  phase = "collecting" /\ ranges # << >> =>
    Divides(ranges[Len(ranges)][2], IF IsOpen THEN rangeStart ELSE codePoint)

GeneratorInvariant ==
  /\ GeneratorTypes
  /\ OpenRange
  /\ LookedExactly
  /\ ClosedBehind
  /\ TableIsMinimal
  /\ NextApart

LEMMA InSomeAppend ==
  ASSUME NEW list \in Seq(Pairs), NEW first \in 0 .. LastCodePoint,
         NEW last \in 0 .. LastCodePoint, NEW cp
  PROVE  InSome(cp, Append(list, << first, last >>)) <=>
           InSome(cp, list) \/ (first <= cp /\ cp <= last)
<1> DEFINE item == << first, last >>
           longer == Append(list, item)
<1>1. item \in Pairs /\ item[1] = first /\ item[2] = last
  BY DEF Pairs
<1> HIDE DEF item
<1>2. /\ Len(longer) = Len(list) + 1 /\ Len(list) \in Nat
      /\ \A i \in 1 .. Len(list) : longer[i] = list[i]
      /\ longer[Len(list) + 1] = item
  BY <1>1, AppendProperties
<1> HIDE DEF longer
<1>3. ASSUME InSome(cp, longer)
      PROVE  InSome(cp, list) \/ (first <= cp /\ cp <= last)
  <2>1. PICK i \in 1 .. Len(longer) : longer[i][1] <= cp /\ cp <= longer[i][2]
    BY <1>3 DEF InSome
  <2>2. CASE i = Len(list) + 1
    BY <1>1, <1>2, <2>1, <2>2
  <2>3. CASE i \in 1 .. Len(list)
    BY <1>2, <2>1, <2>3 DEF InSome
  <2> QED
    BY <1>2, <2>2, <2>3
<1>4. ASSUME InSome(cp, list)
      PROVE  InSome(cp, longer)
  <2>1. PICK i \in 1 .. Len(list) : list[i][1] <= cp /\ cp <= list[i][2]
    BY <1>4 DEF InSome
  <2>2. i \in 1 .. Len(longer) /\ longer[i] = list[i]
    BY <1>2
  <2> QED
    BY <2>1, <2>2 DEF InSome
<1>5. ASSUME first <= cp, cp <= last
      PROVE  InSome(cp, longer)
  <2>1. Len(list) + 1 \in 1 .. Len(longer)
    BY <1>2
  <2> QED
    BY <1>1, <1>2, <1>5, <2>1 DEF InSome
<1> QED
  BY <1>3, <1>4, <1>5 DEF longer, item

\* What closing the open range does to the table, at a code point or at the end.
LEMMA ClosedRange ==
  ASSUME GeneratorInvariant, IsOpen, NEW longer,
         longer = Append(ranges, << rangeStart, previous >>)
  PROVE  /\ longer \in Seq(Pairs) /\ longer # << >>
         /\ longer[Len(longer)][2] = previous
         /\ \A i \in 1 .. Len(longer) : longer[i][2] \in 0 .. codePoint - 1
         /\ \A cp : InSome(cp, longer) <=>
                      InSome(cp, ranges) \/ (rangeStart <= cp /\ cp <= previous)
         /\ \A i \in 1 .. Len(longer) : longer[i][1] <= longer[i][2]
         /\ \A i \in 2 .. Len(longer) :
              \E cp \in longer[i - 1][2] + 1 .. longer[i][1] - 1 :
                cp \notin Surrogates \cup matching
<1> DEFINE item == << rangeStart, previous >>
<1>1. /\ rangeStart \in 0 .. LastCodePoint /\ previous \in 0 .. LastCodePoint
      /\ rangeStart <= previous /\ ranges \in Seq(Pairs)
  BY GeneratorAssumption DEF GeneratorInvariant, GeneratorTypes, OpenRange, IsOpen
<1>2. item \in Pairs /\ item[1] = rangeStart /\ item[2] = previous
  BY <1>1 DEF Pairs
<1> HIDE DEF item
<1>3. /\ Len(longer) = Len(ranges) + 1 /\ Len(ranges) \in Nat
      /\ \A i \in 1 .. Len(ranges) : longer[i] = ranges[i]
      /\ longer[Len(ranges) + 1] = item
      /\ longer \in Seq(Pairs)
  BY <1>1, <1>2, AppendProperties DEF item
<1>4. longer # << >>
  BY <1>3
<1>5. \A cp : InSome(cp, longer) <=>
                InSome(cp, ranges) \/ (rangeStart <= cp /\ cp <= previous)
  BY <1>1, InSomeAppend
<1>6. ASSUME NEW i \in 1 .. Len(longer)
      PROVE  longer[i][1] <= longer[i][2]
  <2>1. CASE i = Len(ranges) + 1
    BY <1>1, <1>2, <1>3, <2>1
  <2>2. CASE i \in 1 .. Len(ranges)
    BY <1>3, <2>2 DEF GeneratorInvariant, TableIsMinimal
  <2> QED
    BY <1>3, <2>1, <2>2
<1>7. ASSUME NEW i \in 2 .. Len(longer)
      PROVE  \E cp \in longer[i - 1][2] + 1 .. longer[i][1] - 1 :
               cp \notin Surrogates \cup matching
  <2>1. CASE i = Len(ranges) + 1
    <3>1. Len(ranges) \in 1 .. Len(ranges) /\ i - 1 = Len(ranges)
      BY <1>3, <2>1
    <3>2. ranges # << >>
      BY <3>1
    <3>3. Divides(ranges[Len(ranges)][2], rangeStart)
      BY <3>2 DEF GeneratorInvariant, NextApart, IsOpen
    <3>4. longer[i - 1] = ranges[Len(ranges)] /\ longer[i][1] = rangeStart
      BY <1>2, <1>3, <2>1, <3>1
    <3> QED
      BY <3>3, <3>4 DEF Divides
  <2>2. CASE i \in 2 .. Len(ranges)
    <3>1. longer[i] = ranges[i] /\ longer[i - 1] = ranges[i - 1]
      BY <1>3, <2>2
    <3> QED
      BY <2>2, <3>1 DEF GeneratorInvariant, TableIsMinimal
  <2> QED
    BY <1>3, <2>1, <2>2
<1>8. ASSUME NEW i \in 1 .. Len(longer)
      PROVE  longer[i][2] \in 0 .. codePoint - 1
  <2>1. CASE i = Len(ranges) + 1
    BY <1>1, <1>2, <1>3, <2>1 DEF GeneratorInvariant, OpenRange, IsOpen
  <2>2. CASE i \in 1 .. Len(ranges)
    BY <1>3, <2>2 DEF GeneratorInvariant, ClosedBehind
  <2> QED
    BY <1>3, <2>1, <2>2
<1> QED
  BY <1>2, <1>3, <1>4, <1>5, <1>6, <1>7, <1>8

LEMMA DividesFarther ==
  ASSUME NEW from \in Int, NEW to \in Int, Divides(from, to)
  PROVE  Divides(from, to + 1)
BY DEF Divides

LEMMA LastEnd ==
  ASSUME GeneratorTypes, ranges # << >>
  PROVE  ranges[Len(ranges)][2] \in Int
<1>1. Len(ranges) \in 1 .. Len(ranges)
  BY DEF GeneratorTypes
<1>2. ranges[Len(ranges)] \in Pairs
  BY <1>1 DEF GeneratorTypes
<1> QED
  BY <1>2, GeneratorAssumption DEF Pairs

LEMMA InitKeeps == GeneratorInit => GeneratorInvariant
<1> SUFFICES ASSUME GeneratorInit PROVE GeneratorInvariant
  OBVIOUS
<1>1. GeneratorTypes
  BY GeneratorAssumption DEF GeneratorInit, GeneratorTypes
<1>2. OpenRange /\ LookedExactly /\ ClosedBehind
  BY DEF GeneratorInit, OpenRange, IsOpen, LookedExactly, ClosedBehind
<1>3. TableIsMinimal /\ NextApart
  BY DEF GeneratorInit, TableIsMinimal, NextApart
<1> QED
  BY <1>1, <1>2, <1>3 DEF GeneratorInvariant

\* The code point looked at in a step joins those that were looked at.
LEMMA OneMore ==
  ASSUME GeneratorTypes, NEW cp \in 0 .. codePoint + 1 - 1
  PROVE  cp \in 0 .. codePoint - 1 \/ cp = codePoint
BY GeneratorAssumption DEF GeneratorTypes

\* What there is to show of LookedExactly once the step is taken.
LEMMA LookedNext ==
  ASSUME \A cp \in 0 .. codePoint' - 1 :
           cp \notin Surrogates =>
             ( InSome(cp, ranges')
                 \/ (/\ phase' = "collecting" /\ rangeStart' # null
                     /\ rangeStart' <= cp /\ cp <= previous')
                 <=> cp \in matching' )
  PROVE  LookedExactly'
BY DEF LookedExactly, IsOpen, InSome

LEMMA SkipSurrogateKeeps == GeneratorInvariant /\ SkipSurrogate => GeneratorInvariant'
<1> SUFFICES ASSUME GeneratorInvariant, SkipSurrogate PROVE GeneratorInvariant'
  OBVIOUS
<1> USE DEF GeneratorInvariant, SkipSurrogate, Looks
<1>1. GeneratorTypes'
  BY GeneratorAssumption DEF GeneratorTypes
<1>2. OpenRange'
  BY GeneratorAssumption DEF GeneratorTypes, OpenRange, IsOpen
<1>3. LookedExactly'
  <2> SUFFICES ASSUME NEW cp \in 0 .. codePoint + 1 - 1, cp \notin Surrogates
               PROVE  InSome(cp, ranges)
                        \/ (IsOpen /\ rangeStart <= cp /\ cp <= previous)
                        <=> cp \in matching
    BY LookedNext, GeneratorAssumption DEF IsOpen, GeneratorTypes
  <2>1. cp \in 0 .. codePoint - 1
    BY OneMore
  <2> QED
    BY <2>1 DEF LookedExactly
<1>4. TableIsMinimal'
  BY DEF TableIsMinimal
<1>5. NextApart'
  BY GeneratorAssumption, LastEnd, DividesFarther DEF GeneratorTypes, NextApart, IsOpen, Divides
<1>6. ClosedBehind'
  BY GeneratorAssumption DEF GeneratorTypes, ClosedBehind
<1> QED
  BY <1>1, <1>2, <1>3, <1>4, <1>5, <1>6

LEMMA ExtendKeeps == GeneratorInvariant /\ Extend => GeneratorInvariant'
<1> SUFFICES ASSUME GeneratorInvariant, Extend PROVE GeneratorInvariant'
  OBVIOUS
<1> USE DEF GeneratorInvariant, Extend, Looks
<1>1. GeneratorTypes'
  BY GeneratorAssumption DEF GeneratorTypes
<1>2. OpenRange'
  BY GeneratorAssumption DEF GeneratorTypes, OpenRange, IsOpen, null
<1>3. LookedExactly'
  <2> SUFFICES ASSUME NEW cp \in 0 .. codePoint + 1 - 1, cp \notin Surrogates
               PROVE  InSome(cp, ranges) \/ (rangeStart' <= cp /\ cp <= codePoint)
                        <=> cp \in matching
    BY GeneratorAssumption DEF LookedExactly, IsOpen, InSome, GeneratorTypes, null, OpenRange
  <2>1. CASE cp = codePoint
    BY <2>1, GeneratorAssumption DEF GeneratorTypes, OpenRange, IsOpen, null
  <2>2. CASE cp \in 0 .. codePoint - 1
    <3>1. InSome(cp, ranges) \/ (IsOpen /\ rangeStart <= cp /\ cp <= previous)
            <=> cp \in matching
      BY <2>2 DEF LookedExactly
    <3>2. CASE rangeStart = null
      BY <2>2, <3>1, <3>2, GeneratorAssumption DEF GeneratorTypes, IsOpen
    <3>3. CASE rangeStart # null
      BY <2>2, <3>1, <3>3, GeneratorAssumption DEF GeneratorTypes, IsOpen, OpenRange
    <3> QED
      BY <3>2, <3>3
  <2> QED
    BY <2>1, <2>2, OneMore
<1>4. TableIsMinimal'
  BY DEF TableIsMinimal
<1>5. NextApart'
  BY GeneratorAssumption DEF GeneratorTypes, NextApart, IsOpen, Divides, null
<1>6. ClosedBehind'
  BY GeneratorAssumption DEF GeneratorTypes, ClosedBehind
<1> QED
  BY <1>1, <1>2, <1>3, <1>4, <1>5, <1>6

LEMMA CloseKeeps == GeneratorInvariant /\ Close => GeneratorInvariant'
<1> SUFFICES ASSUME GeneratorInvariant, Close PROVE GeneratorInvariant'
  OBVIOUS
<1> USE DEF Close, Looks
<1>0. IsOpen
  BY DEF IsOpen
<1>1. GeneratorTypes'
  BY <1>0, ClosedRange, GeneratorAssumption DEF GeneratorTypes, GeneratorInvariant
<1>2. OpenRange'
  BY DEF OpenRange, IsOpen
<1>3. LookedExactly'
  <2> SUFFICES ASSUME NEW cp \in 0 .. codePoint + 1 - 1, cp \notin Surrogates
               PROVE  InSome(cp, ranges') <=> cp \in matching
    BY LookedNext, GeneratorAssumption DEF GeneratorInvariant, GeneratorTypes
  <2>1. InSome(cp, ranges') <=>
          InSome(cp, ranges) \/ (rangeStart <= cp /\ cp <= previous)
    BY <1>0, ClosedRange
  <2>2. CASE cp \in 0 .. codePoint - 1
    BY <1>0, <2>1, <2>2 DEF LookedExactly, GeneratorInvariant
  <2>3. CASE cp = codePoint
    <3>1. ~ InSome(cp, ranges)
      BY <2>3, GeneratorAssumption DEF GeneratorInvariant, GeneratorTypes, ClosedBehind, InSome
    <3> QED
      BY <1>0, <2>1, <2>3, <3>1, GeneratorAssumption
      DEF GeneratorInvariant, GeneratorTypes, OpenRange
  <2> QED
    BY <2>2, <2>3, OneMore DEF GeneratorInvariant
<1>4. TableIsMinimal'
  BY <1>0, ClosedRange DEF TableIsMinimal
<1>5. NextApart'
  BY <1>0, ClosedRange, GeneratorAssumption, SMTT(30)
  DEF GeneratorInvariant, GeneratorTypes, OpenRange, NextApart, IsOpen, Divides
<1>6. ClosedBehind'
  BY <1>0, ClosedRange, GeneratorAssumption, SMTT(30) DEF GeneratorInvariant, GeneratorTypes, ClosedBehind
<1> QED
  BY <1>1, <1>2, <1>3, <1>4, <1>5, <1>6 DEF GeneratorInvariant

LEMMA PassKeeps == GeneratorInvariant /\ Pass => GeneratorInvariant'
<1> SUFFICES ASSUME GeneratorInvariant, Pass PROVE GeneratorInvariant'
  OBVIOUS
<1> USE DEF GeneratorInvariant, Pass, Looks
<1>1. GeneratorTypes'
  BY GeneratorAssumption DEF GeneratorTypes
<1>2. OpenRange'
  BY DEF OpenRange, IsOpen
<1>3. LookedExactly'
  <2> SUFFICES ASSUME NEW cp \in 0 .. codePoint + 1 - 1, cp \notin Surrogates
               PROVE  InSome(cp, ranges) <=> cp \in matching
    BY LookedNext, GeneratorAssumption DEF GeneratorInvariant, GeneratorTypes
  <2>1. CASE cp \in 0 .. codePoint - 1
    BY <2>1 DEF LookedExactly, IsOpen
  <2>2. CASE cp = codePoint
    BY <2>2, GeneratorAssumption DEF GeneratorTypes, ClosedBehind, InSome
  <2> QED
    BY <2>1, <2>2, OneMore
<1>4. TableIsMinimal'
  BY DEF TableIsMinimal
<1>5. NextApart'
  BY GeneratorAssumption, LastEnd, DividesFarther DEF GeneratorTypes, NextApart, IsOpen, Divides
<1>6. ClosedBehind'
  BY GeneratorAssumption DEF GeneratorTypes, ClosedBehind
<1> QED
  BY <1>1, <1>2, <1>3, <1>4, <1>5, <1>6

LEMMA ReturnRangesKeeps == GeneratorInvariant /\ ReturnRanges => GeneratorInvariant'
<1> SUFFICES ASSUME GeneratorInvariant, ReturnRanges PROVE GeneratorInvariant'
  OBVIOUS
<1>1. CASE rangeStart = null
  <2> USE <1>1 DEF GeneratorInvariant, ReturnRanges
  <2>1. GeneratorTypes'
    BY GeneratorAssumption DEF GeneratorTypes
  <2>2. OpenRange' /\ NextApart'
    BY DEF OpenRange, NextApart, IsOpen
  <2>3. LookedExactly'
    BY DEF LookedExactly, IsOpen, InSome
  <2>4. TableIsMinimal' /\ ClosedBehind'
    BY DEF TableIsMinimal, ClosedBehind
  <2> QED
    BY <2>1, <2>2, <2>3, <2>4
<1>2. CASE rangeStart # null
  <2>1. IsOpen /\ ranges' = Append(ranges, << rangeStart, previous >>)
    BY <1>2 DEF ReturnRanges, IsOpen
  <2>2. GeneratorTypes'
    BY <2>1, ClosedRange, GeneratorAssumption, SMTT(30)
    DEF GeneratorInvariant, GeneratorTypes, ReturnRanges
  <2>3. OpenRange' /\ NextApart'
    BY DEF GeneratorInvariant, ReturnRanges, OpenRange, NextApart, IsOpen
  <2>4. LookedExactly'
    <3> SUFFICES ASSUME NEW cp \in 0 .. codePoint - 1, cp \notin Surrogates
                 PROVE  InSome(cp, ranges') <=> cp \in matching
      BY DEF LookedExactly, IsOpen, InSome, ReturnRanges
    <3>1. InSome(cp, ranges') <=>
            InSome(cp, ranges) \/ (rangeStart <= cp /\ cp <= previous)
      BY <2>1, ClosedRange
    <3> QED
      BY <2>1, <3>1 DEF LookedExactly, GeneratorInvariant
  <2>5. TableIsMinimal' /\ ClosedBehind'
    BY <2>1, ClosedRange DEF TableIsMinimal, ClosedBehind, ReturnRanges
  <2> QED
    BY <2>2, <2>3, <2>4, <2>5 DEF GeneratorInvariant
<1> QED
  BY <1>1, <1>2

LEMMA GeneratorInvariantCorrect == GeneratorSpec => []GeneratorInvariant
<1>1. GeneratorInvariant /\ [Collect \/ Collected]_generatorVars => GeneratorInvariant'
  <2> SUFFICES ASSUME GeneratorInvariant, [Collect \/ Collected]_generatorVars
               PROVE  GeneratorInvariant'
    OBVIOUS
  <2>1. CASE Collect
    BY <2>1, SkipSurrogateKeeps, ExtendKeeps, CloseKeeps, PassKeeps, ReturnRangesKeeps
    DEF Collect
  <2>2. CASE UNCHANGED generatorVars
    BY <2>2 DEF generatorVars, GeneratorInvariant, GeneratorTypes, OpenRange, IsOpen,
       LookedExactly, InSome, ClosedBehind, TableIsMinimal, NextApart, Divides
  <2> QED
    BY <2>1, <2>2 DEF Collected
<1> QED
  BY InitKeeps, <1>1, PTL DEF GeneratorSpec

\* The table written for a pattern holds a code point that is no surrogate
\* iff it matches, whatever the code space, the pattern and the surrogates.
THEOREM TableExact == GeneratorSpec => []TableIsExact
<1>1. GeneratorInvariant => TableIsExact
  BY GeneratorAssumption
  DEF GeneratorInvariant, GeneratorTypes, LookedExactly, IsOpen, TableIsExact
<1> QED
  BY <1>1, GeneratorInvariantCorrect, PTL

\* The ranges written are not empty, in order and apart, as the binary search
\* assumes, and a code point that does not match lies between any two.
THEOREM TableMinimal == GeneratorSpec => []TableIsMinimal
<1>1. GeneratorInvariant => TableIsMinimal
  BY DEF GeneratorInvariant
<1> QED
  BY <1>1, GeneratorInvariantCorrect, PTL

(***************************************************************************)
(* Induction: a set of numbers that is not empty has a least element.      *)
(***************************************************************************)
LEMMA LeastNumber ==
  ASSUME NEW T, T \subseteq Nat, T # {}
  PROVE  \E least \in T : \A n \in T : least <= n
<1>1. IsWellFoundedOn(OpToRel(<, Nat), Nat)
  BY NatLessThanWellFounded, Zenon
<1>2. PICK least \in T : \A n \in T : << n, least >> \notin OpToRel(<, Nat)
  BY <1>1, WFMin, Zenon
<1>3. \A n \in T : ~ (n < least)
  BY <1>2 DEF OpToRel
<1>4. least \in Nat /\ \A n \in T : n \in Nat
  OBVIOUS
<1>5. \A n \in T : least <= n
  BY <1>3, <1>4, SMT
<1> QED
  BY <1>5

(***************************************************************************)
(* What the binary search of the lexer assumes of a table holds of every   *)
(* table the generator is about to write: the ranges are in order and do   *)
(* not overlap, the distant ones as little as the neighbours.              *)
(***************************************************************************)
LEMMA NeighboursSuffice ==
  ASSUME NEW list \in Seq(Pairs),
         \A i \in 1 .. Len(list) : list[i][1] <= list[i][2],
         \A i \in 2 .. Len(list) : list[i - 1][2] < list[i][1]
  PROVE  IsSorted(list)
<1>t. /\ Len(list) \in Nat
      /\ \A i \in 1 .. Len(list) : list[i][1] \in Int /\ list[i][2] \in Int
  BY GeneratorAssumption, SMT DEF Pairs
<1>1. ASSUME NEW i \in 1 .. Len(list), NEW j \in 1 .. Len(list), i < j,
             ~ (list[i][2] < list[j][1])
      PROVE  FALSE
  <2> DEFINE T == {k \in Nat : i < k /\ k <= Len(list) /\ ~ (list[i][2] < list[k][1])}
  <2>1. j \in T
    BY <1>1, SMT
  <2>2. PICK k \in T : \A n \in T : k <= n
    <3> HIDE DEF T
    <3>1. T \subseteq Nat
      BY DEF T
    <3> QED
      BY <2>1, <3>1, LeastNumber
  <2>3. k \in 2 .. Len(list) /\ k - 1 \in 1 .. Len(list) /\ k \in 1 .. Len(list)
    BY <1>t, <1>1, SMT
  <2>4. CASE k - 1 = i
    BY <2>3, <2>4
  <2>5. CASE k - 1 # i
    <3>1. k - 1 \notin T
      <4> HIDE DEF T
      <4> QED
        BY <2>2, <2>3, SMT
    <3>2. list[i][2] < list[k - 1][1]
      BY <1>t, <2>3, <2>5, <3>1, SMT
    <3>3. list[k - 1][1] <= list[k - 1][2] /\ list[k - 1][2] < list[k][1]
      BY <2>3
    <3>4. list[i][2] < list[k][1]
      BY <1>t, <2>3, <3>2, <3>3, SMT
    <3> QED
      BY <3>4
  <2> QED
    BY <2>4, <2>5
<1> QED
  BY <1>1 DEF IsSorted

\* While a pattern is being scanned the ranges already closed are not empty,
\* in order and apart, as the binary search over the table assumes.
THEOREM TableSorted == GeneratorSpec => []IsSorted(ranges)
<1>1. ASSUME GeneratorInvariant PROVE IsSorted(ranges)
  <2>1. ranges \in Seq(Pairs) /\ Len(ranges) \in Nat
    BY <1>1 DEF GeneratorInvariant, GeneratorTypes
  <2>2. \A i \in 1 .. Len(ranges) : ranges[i][1] \in Int /\ ranges[i][2] \in Int
    BY <2>1, GeneratorAssumption, SMT DEF Pairs
  <2>3. ASSUME NEW i \in 2 .. Len(ranges)
        PROVE  ranges[i - 1][2] < ranges[i][1]
    <3>1. PICK cp \in ranges[i - 1][2] + 1 .. ranges[i][1] - 1 : TRUE
      BY <1>1 DEF GeneratorInvariant, TableIsMinimal
    <3>2. i - 1 \in 1 .. Len(ranges) /\ i \in 1 .. Len(ranges)
      BY <2>1, SMT
    <3> QED
      BY <2>2, <3>1, <3>2, SMT
  <2>4. \A i \in 1 .. Len(ranges) : ranges[i][1] <= ranges[i][2]
    BY <1>1 DEF GeneratorInvariant, TableIsMinimal
  <2> QED
    BY <2>1, <2>3, <2>4, NeighboursSuffice
<1> QED
  BY <1>1, GeneratorInvariantCorrect, PTL

(***************************************************************************)
(* The gate.  Every line read is a status and a name, no name is read      *)
(* twice, and `actual' is what the lines read say of their names.          *)
(***************************************************************************)
ReadSoFar ==
  /\ index \in 0 .. Len(resultLines)
  /\ \A i \in 1 .. index : resultLines[i] \in Statuses \X Names
  /\ \A i, j \in 1 .. index : resultLines[i][2] = resultLines[j][2] => i = j
  /\ DOMAIN actual = {resultLines[i][2] : i \in 1 .. index}
  /\ \A i \in 1 .. index : actual[resultLines[i][2]] = resultLines[i][1]

PolicyInvariant ==
  /\ testFiles \subseteq Names
  /\ requireQualification \in BOOLEAN
  /\ resultLines \in Seq(Lines)
  /\ ReadSoFar
  /\ SuccessIsEarned

LEMMA PolicyInitial == PolicyInit => PolicyInvariant
<1> SUFFICES ASSUME PolicyInit PROVE PolicyInvariant
  OBVIOUS
<1>1. PICK n \in 0 .. MaxLines : resultLines \in [1 .. n -> Lines]
  BY DEF PolicyInit
<1>2. resultLines \in Seq(Lines) /\ Len(resultLines) \in Nat
  BY <1>1, PolicyAssumption, SMT
<1>3. ReadSoFar
  BY <1>2, SMT DEF PolicyInit, ReadSoFar
<1> QED
  BY <1>2, <1>3 DEF PolicyInit, PolicyInvariant, SuccessIsEarned

\* A line that is refused, or a setup that is, makes the file unacceptable.
LEMMA RefusalIsDeserved ==
  ASSUME PolicyInvariant, RefuseSetup \/ RefuseLine
  PROVE  ~ Acceptable
<1> USE DEF PolicyInvariant
<1>1. CASE RefuseSetup
  BY <1>1 DEF RefuseSetup, Misconfigured, Acceptable
<1>2. CASE RefuseLine
  <2> SUFFICES ASSUME Acceptable PROVE FALSE
    OBVIOUS
  <2>1. /\ index \in Nat /\ index + 1 \in 1 .. Len(resultLines)
        /\ DOMAIN resultLines = 1 .. Len(resultLines) /\ Len(resultLines) \in Nat
    BY <1>2, SMT DEF RefuseLine, Reading, ReadSoFar
  <2>2. PICK name \in testFiles : index + 1 \in LinesOf(name)
    BY <2>1 DEF Acceptable
  <2>3. PICK status \in Statuses : Line = << status, name >>
    BY <2>2 DEF LinesOf, Line
  <2>4. Line # << >> /\ Line[2] = name
    BY <2>3
  <2>5. name \in DOMAIN actual
    BY <1>2, <2>4 DEF RefuseLine, IsRefused
  <2>6. PICK i \in 1 .. index : resultLines[i][2] = name
    BY <2>5 DEF ReadSoFar
  <2>7. i \in DOMAIN resultLines /\ i # index + 1
    BY <2>1, <2>6, SMT
  <2>8. resultLines[i] \in Statuses \X {name}
    BY <2>6 DEF ReadSoFar
  <2>9. i \in LinesOf(name)
    BY <2>7, <2>8 DEF LinesOf
  <2> QED
    BY <2>2, <2>7, <2>9 DEF Acceptable
<1> QED
  BY <1>1, <1>2

\* When every line was read, there is no error iff the file is acceptable.
LEMMA ComparisonDecides ==
  ASSUME PolicyInvariant, ~ Misconfigured, index = Len(resultLines)
  PROVE  Errors = {} <=> Acceptable
<1> USE DEF PolicyInvariant
<1>d. DOMAIN resultLines = 1 .. index /\ index \in Nat
  BY SMT DEF ReadSoFar
<1>e. ASSUME NEW name \in Names
      PROVE  Expected(name) = IF name \in OtherTests \/ requireQualification
                              THEN "PASSED" ELSE "SKIPPED"
  BY PolicyAssumption DEF Names, Expected
<1>l. ASSUME NEW name, NEW i \in 1 .. index
      PROVE  i \in LinesOf(name) <=> resultLines[i][2] = name
  <2>1. resultLines[i] \in Statuses \X Names
    BY DEF ReadSoFar
  <2> QED
    BY <1>d, <2>1 DEF LinesOf
<1>1. ASSUME Errors = {} PROVE Acceptable
  <2>1. DOMAIN actual = testFiles
    BY <1>1 DEF Errors
  <2>2. \A name \in testFiles : actual[name] = Expected(name)
    BY <1>1, <2>1 DEF Errors
  <2>3. ASSUME NEW i \in 1 .. index
        PROVE  resultLines[i][2] \in testFiles
    BY <2>1 DEF ReadSoFar
  <2>4. \A i \in DOMAIN resultLines : \E name \in testFiles : i \in LinesOf(name)
    BY <1>d, <1>l, <2>3
  <2>5. ASSUME NEW name \in testFiles
        PROVE  \E i \in DOMAIN resultLines :
                 /\ LinesOf(name) = {i}
                 /\ resultLines[i][1] =
                      IF name \in OtherTests \/ requireQualification THEN "PASSED"
                      ELSE "SKIPPED"
    <3>1. PICK i \in 1 .. index : resultLines[i][2] = name
      BY <2>1 DEF ReadSoFar
    <3>2. \A j \in 1 .. index : resultLines[j][2] = name => j = i
      BY <3>1 DEF ReadSoFar
    <3>3. LinesOf(name) \subseteq 1 .. index
      BY <1>d DEF LinesOf
    <3>4. LinesOf(name) = {i}
      BY <1>l, <3>1, <3>2, <3>3
    <3>5. resultLines[i][1] = actual[name]
      BY <3>1 DEF ReadSoFar
    <3> QED
      BY <1>d, <1>e, <2>2, <3>4, <3>5
  <2>6. testFiles # {} /\ (requireQualification => Qualification \in testFiles)
    BY DEF Misconfigured
  <2>7. Len(resultLines) > 0
    <3>1. PICK i \in 1 .. index : TRUE
      BY <2>1, <2>6 DEF ReadSoFar
    <3> QED
      BY <1>d, <3>1, SMT
  <2> QED
    BY <2>4, <2>5, <2>6, <2>7 DEF Acceptable
<1>2. ASSUME Acceptable PROVE Errors = {}
  <2>1. ASSUME NEW name \in testFiles
        PROVE  name \in DOMAIN actual /\ actual[name] = Expected(name)
    <3>1. PICK i \in DOMAIN resultLines :
                 /\ LinesOf(name) = {i}
                 /\ resultLines[i][1] =
                      IF name \in OtherTests \/ requireQualification THEN "PASSED"
                      ELSE "SKIPPED"
      BY <1>2 DEF Acceptable
    <3>2. i \in 1 .. index /\ resultLines[i][2] = name
      BY <1>d, <1>l, <3>1
    <3> QED
      BY <1>e, <3>1, <3>2 DEF ReadSoFar
  <2>2. ASSUME NEW name \in DOMAIN actual
        PROVE  name \in testFiles
    <3>1. PICK i \in 1 .. index : resultLines[i][2] = name
      BY <2>2 DEF ReadSoFar
    <3>2. PICK other \in testFiles : i \in LinesOf(other)
      BY <1>2, <1>d DEF Acceptable
    <3> QED
      BY <1>l, <3>1, <3>2
  <2> QED
    BY <2>1, <2>2 DEF Errors
<1> QED
  BY <1>1, <1>2

LEMMA ReadLineKeeps ==
  ASSUME PolicyInvariant, ReadLine
  PROVE  ReadSoFar'
<1> USE DEF PolicyInvariant
<1>1. /\ index \in Nat /\ index' = index + 1 /\ resultLines' = resultLines
      /\ Len(resultLines) \in Nat /\ index + 1 \in 1 .. Len(resultLines)
  BY SMT DEF ReadLine, Reading, ReadSoFar
<1>2. 1 .. index + 1 = (1 .. index) \cup {index + 1} /\ index + 1 \notin 1 .. index
  BY <1>1, SMT
<1>3. Line \in Lines /\ Line # << >> /\ Line[2] \notin DOMAIN actual
  BY <1>1 DEF ReadLine, IsRefused, Line
<1>4. Line \in Statuses \X Names
  BY <1>3 DEF Lines
<1>5. /\ DOMAIN actual' = (DOMAIN actual) \cup {Line[2]}
      /\ actual'[Line[2]] = Line[1]
      /\ \A name \in DOMAIN actual : name # Line[2] => actual'[name] = actual[name]
  BY DEF ReadLine
<1>6. index' \in 0 .. Len(resultLines)
  BY <1>1, SMT
<1>7. \A i \in 1 .. index + 1 : resultLines[i] \in Statuses \X Names
  BY <1>2, <1>4 DEF ReadSoFar, Line
<1>8. ASSUME NEW i \in 1 .. index
      PROVE  resultLines[i][2] \in DOMAIN actual /\ resultLines[i][2] # Line[2]
  BY <1>3 DEF ReadSoFar
<1>9. \A i, j \in 1 .. index + 1 : resultLines[i][2] = resultLines[j][2] => i = j
  BY <1>2, <1>8 DEF ReadSoFar, Line
<1>10. DOMAIN actual' = {resultLines[i][2] : i \in 1 .. index + 1}
  BY <1>2, <1>5 DEF ReadSoFar, Line
<1>11. \A i \in 1 .. index + 1 : actual'[resultLines[i][2]] = resultLines[i][1]
  BY <1>2, <1>5, <1>8 DEF ReadSoFar, Line
<1> QED
  BY <1>1, <1>6, <1>7, <1>9, <1>10, <1>11 DEF ReadSoFar

LEMMA PolicyStepKeeps ==
  ASSUME PolicyInvariant,
         [RefuseSetup \/ RefuseLine \/ ReadLine \/ Compare \/ Exited]_policyVars
  PROVE  PolicyInvariant'
<1>1. CASE RefuseSetup \/ RefuseLine
  <2>1. ~ Acceptable
    BY <1>1, RefusalIsDeserved
  <2>2. /\ exit' = "failure"
        /\ UNCHANGED << testFiles, requireQualification, resultLines, index, actual >>
    BY <1>1 DEF RefuseSetup, RefuseLine
  <2>3. Acceptable' <=> Acceptable
    BY <2>2 DEF Acceptable, LinesOf
  <2> QED
    BY <2>1, <2>2, <2>3 DEF PolicyInvariant, ReadSoFar, SuccessIsEarned
<1>2. CASE ReadLine
  BY <1>2, ReadLineKeeps DEF ReadLine, Reading, PolicyInvariant, SuccessIsEarned
<1>3. CASE Compare
  <2>1. Errors = {} <=> Acceptable
    BY <1>3, ComparisonDecides DEF Compare
  <2> QED
    BY <1>3, <2>1 DEF Compare, PolicyInvariant, ReadSoFar, SuccessIsEarned,
       Acceptable, LinesOf
<1>4. CASE UNCHANGED policyVars
  BY <1>4 DEF policyVars, PolicyInvariant, ReadSoFar, SuccessIsEarned, Acceptable,
     LinesOf
<1> QED
  BY <1>1, <1>2, <1>3, <1>4 DEF Exited

(***************************************************************************)
(* The gate opens for a result file iff it is acceptable, however many     *)
(* tests there are and however long the file is.                           *)
(***************************************************************************)
THEOREM SuccessEarned == PolicySpec => []SuccessIsEarned
<1>1. PolicySpec => []PolicyInvariant
  BY PolicyInitial, PolicyStepKeeps, PTL DEF PolicySpec
<1>2. PolicyInvariant => SuccessIsEarned
  BY DEF PolicyInvariant
<1> QED
  BY <1>1, <1>2, PTL

===============================================================================
