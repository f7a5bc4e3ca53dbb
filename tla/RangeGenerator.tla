---------------------------- MODULE RangeGenerator ----------------------------
(***************************************************************************)
(* collectRanges (src/scripts/generate-unicode-ranges.php): one pass over  *)
(* all code points but the surrogates collects the ranges of those that    *)
(* match a pattern.  The lexer's binary search relies on what it writes.   *)
(* preg_match is a set here: what it answers is not modelled.              *)
(***************************************************************************)
EXTENDS Integers, Sequences

CONSTANTS
  LastCodePoint,  \* 0x10ffff
  Surrogates,     \* 0xd800 .. 0xdfff
  Patterns        \* for each pattern the set of the code points that match

ASSUME GeneratorAssumption ==
  /\ LastCodePoint \in Nat
  /\ Surrogates \subseteq 0 .. LastCodePoint
  /\ \A matching \in Patterns : matching \subseteq (0 .. LastCodePoint) \ Surrogates

VARIABLES
  matching,    \* what the pattern matches
  codePoint,   \* the next code point
  ranges,      \* the ranges closed so far, as << first, last >>
  rangeStart,  \* where the open range starts, -1 for null
  previous,    \* its last code point so far, -1 for null
  phase        \* "collecting" or "returned"

generatorVars == << matching, codePoint, ranges, rangeStart, previous, phase >>

null == -1

GeneratorInit ==
  /\ matching \in Patterns
  /\ codePoint = 0
  /\ ranges = << >>
  /\ rangeStart = null
  /\ previous = null
  /\ phase = "collecting"

Looks(at) == phase = "collecting" /\ codePoint <= LastCodePoint /\ at

FaultySkipSurrogate ==
  /\ Looks(codePoint \in Surrogates)
  /\ ranges' = IF rangeStart = null THEN ranges
               ELSE Append(ranges, << rangeStart, previous >>)
  /\ rangeStart' = null
  /\ previous' = null
  /\ codePoint' = codePoint + 1
  /\ UNCHANGED << matching, phase >>

SkipSurrogate ==
  /\ Looks(codePoint \in Surrogates)
  /\ codePoint' = codePoint + 1
  /\ UNCHANGED << matching, ranges, rangeStart, previous, phase >>

Extend ==
  /\ Looks(codePoint \notin Surrogates /\ codePoint \in matching)
  /\ rangeStart' = IF rangeStart = null THEN codePoint ELSE rangeStart
  /\ previous' = codePoint
  /\ codePoint' = codePoint + 1
  /\ UNCHANGED << matching, ranges, phase >>

FaultyClose ==
  /\ Looks(codePoint \notin Surrogates /\ codePoint \notin matching)
  /\ rangeStart # null
  /\ ranges' = Append(ranges, << rangeStart, codePoint >>)
  /\ rangeStart' = null
  /\ previous' = null
  /\ codePoint' = codePoint + 1
  /\ UNCHANGED << matching, phase >>

Close ==
  /\ Looks(codePoint \notin Surrogates /\ codePoint \notin matching)
  /\ rangeStart # null
  /\ ranges' = Append(ranges, << rangeStart, previous >>)
  /\ rangeStart' = null
  /\ previous' = null
  /\ codePoint' = codePoint + 1
  /\ UNCHANGED << matching, phase >>

Pass ==
  /\ Looks(codePoint \notin Surrogates /\ codePoint \notin matching)
  /\ rangeStart = null
  /\ codePoint' = codePoint + 1
  /\ UNCHANGED << matching, ranges, rangeStart, previous, phase >>

\* The range that reaches the last code point.
ReturnRanges ==
  /\ phase = "collecting"
  /\ codePoint > LastCodePoint
  /\ ranges' = IF rangeStart = null THEN ranges
               ELSE Append(ranges, << rangeStart, previous >>)
  /\ phase' = "returned"
  /\ UNCHANGED << matching, codePoint, rangeStart, previous >>

Collect == SkipSurrogate \/ Extend \/ Close \/ Pass \/ ReturnRanges

Collected == phase = "returned" /\ UNCHANGED generatorVars

GeneratorSpec == GeneratorInit /\ [][Collect \/ Collected]_generatorVars

-------------------------------------------------------------------------------
InSome(cp, list) ==
  \E i \in 1 .. Len(list) : list[i][1] <= cp /\ cp <= list[i][2]

\* A table holds the code points that match, and of all others at most
\* surrogates, which the decoder refuses: one range may reach across them.
TableIsExact ==
  phase = "returned" =>
    \A cp \in 0 .. LastCodePoint :
      cp \notin Surrogates => (InSome(cp, ranges) <=> cp \in matching)

\* The binary search needs ranges that are not empty, in order, and apart.
\* They are more: between two ranges a code point that is no surrogate does
\* not match, so no shorter table says the same.
TableIsMinimal ==
  /\ \A i \in 1 .. Len(ranges) : ranges[i][1] <= ranges[i][2]
  /\ \A i \in 2 .. Len(ranges) :
       \E cp \in ranges[i - 1][2] + 1 .. ranges[i][1] - 1 :
         cp \notin Surrogates \cup matching
===============================================================================
