------------------------------ MODULE LexerProofs ------------------------------
(***************************************************************************)
(* Proofs about the scanner and the PHP method that runs it: for every     *)
(* input the buffer is restored, the context counts what was consumed, the *)
(* automaton never gets stuck, no two numbers touch, tokens stop where the *)
(* limits say; and every call leaves the heap as it found it.              *)
(***************************************************************************)
EXTENDS ScannerProperties, NativeLexerProperties, SequenceTheorems,
        WellFoundedInduction, TLAPS

(***************************************************************************)
(* Induction: a set of numbers that is not empty has a least element.      *)
(***************************************************************************)
LEMMA LeastNumber ==
  ASSUME NEW T, T \subseteq Nat, T # {}
  PROVE  \E least \in T : \A n \in T : least <= n
<1>1. IsWellFoundedOn(OpToRel(<, Nat), Nat)
  BY NatLessThanWellFounded, Zenon
<1>2. PICK least \in T : \A n \in T : << n, least >> \notin OpToRel(<, Nat)
  BY <1>1, WFMin, Zenon
<1>3. \A n \in T : ~ (n < least)
  BY <1>2 DEF OpToRel
<1>4. least \in Nat /\ \A n \in T : n \in Nat
  OBVIOUS
<1>5. \A n \in T : least <= n
  BY <1>3, <1>4, SMT
<1> QED
  BY <1>5

(***************************************************************************)
(* The loops of the lexer as recursive functions.  `next' is where a loop  *)
(* goes on from an offset, or the offset itself where it stops: there is a *)
(* function that follows it, and every such function ends where it stops.  *)
(***************************************************************************)
Follows(f, next, low, high) ==
  f = [o \in low .. high |-> IF next[o] # o THEN f[next[o]] ELSE o]

GoesForward(next, low, high) ==
  \A o \in low .. high : next[o] \in o .. high

LEMMA LoopExists ==
  ASSUME NEW low \in Nat, NEW high \in Nat, NEW next, GoesForward(next, low, high)
  PROVE  \E f : Follows(f, next, low, high)
<1> DEFINE Holds(k) == \E f : Follows(f, next, high + 1 - k, high)
           T == {k \in Nat : k <= high + 1 - low /\ ~ Holds(k)}
<1>1. Holds(0)
  <2>1. high + 1 - 0 .. high = {}
    BY SMT
  <2> DEFINE f == [o \in high + 1 - 0 .. high |-> o]
  <2>2. Follows(f, next, high + 1 - 0, high)
    BY <2>1 DEF Follows
  <2> QED
    BY <2>2
<1>2. ASSUME NEW k \in Nat, k + 1 <= high + 1 - low, Holds(k)
      PROVE  Holds(k + 1)
  <2> DEFINE at == high - k
  <2>1. PICK f : Follows(f, next, high + 1 - k, high)
    BY <1>2
  <2>2. /\ at \in low .. high /\ high + 1 - (k + 1) = at /\ high + 1 - k = at + 1
        /\ at .. high = {at} \cup (at + 1 .. high) /\ at \notin at + 1 .. high
        /\ \A o \in at + 1 .. high : o \in low .. high
    BY <1>2, SMT
  <2> HIDE DEF at
  <2>3. next[at] \in at .. high /\ \A o \in at + 1 .. high : next[o] \in at + 1 .. high
    <3>1. \A o \in at .. high : next[o] \in o .. high
      BY <2>2 DEF GoesForward
    <3>2. at \in Int
      BY <2>2
    <3> QED
      BY <2>2, <3>1, <3>2, SMT
  <2> DEFINE g == [o \in at .. high |->
                     IF o \in at + 1 .. high THEN f[o]
                     ELSE IF next[at] # at THEN f[next[at]] ELSE at]
  <2>4. f = [o \in at + 1 .. high |-> IF next[o] # o THEN f[next[o]] ELSE o]
    BY <2>1, <2>2 DEF Follows
  <2>5. ASSUME NEW o \in at .. high
        PROVE  g[o] = IF next[o] # o THEN g[next[o]] ELSE o
    <3>1. CASE o = at
      <4>1. g[at] = IF next[at] # at THEN f[next[at]] ELSE at
        BY <2>2
      <4>2. next[at] # at => next[at] \in at + 1 .. high
        BY <2>2, <2>3
      <4>3. next[at] # at => g[next[at]] = f[next[at]]
        BY <2>2, <4>2
      <4> QED
        BY <3>1, <4>1, <4>3
    <3>2. CASE o \in at + 1 .. high
      <4>1. g[o] = f[o] /\ g[next[o]] = f[next[o]]
        BY <2>2, <2>3, <3>2
      <4>2. f[o] = IF next[o] # o THEN f[next[o]] ELSE o
        BY <2>4, <3>2
      <4> QED
        BY <4>1, <4>2
    <3> QED
      BY <2>2, <3>1, <3>2
  <2>6. Follows(g, next, at, high)
    <3>1. g = [o \in at .. high |-> g[o]]
      OBVIOUS
    <3> HIDE DEF g
    <3> QED
      BY <2>5, <3>1 DEF Follows
  <2> QED
    BY <2>2, <2>6
<1>3. T = {}
  <2> SUFFICES ASSUME T # {} PROVE FALSE
    OBVIOUS
  <2> HIDE DEF Holds
  <2>1. T \subseteq Nat
    OBVIOUS
  <2>2. PICK k \in T : \A n \in T : k <= n
    <3> HIDE DEF T
    <3> QED
      BY <2>1, LeastNumber
  <2>3. k \in Nat /\ k <= high + 1 - low /\ ~ Holds(k) /\ k # 0
    BY <1>1, <2>2
  <2>4. k - 1 \in Nat /\ k - 1 <= high + 1 - low /\ k - 1 \notin T
    <3>1. k - 1 \in Nat /\ k - 1 <= high + 1 - low
      BY <2>3, SMT
    <3>2. k - 1 \notin T
      <4> HIDE DEF T
      <4> QED
        BY <2>2, <2>3, SMT
    <3> QED
      BY <3>1, <3>2
  <2>5. Holds(k - 1)
    BY <2>4
  <2>6. Holds((k - 1) + 1)
    <3>1. (k - 1) + 1 <= high + 1 - low
      BY <2>3, SMT
    <3> QED
      BY <1>2, <2>4, <2>5, <3>1
  <2>7. (k - 1) + 1 = k
    BY <2>3, SMT
  <2> QED
    BY <2>3, <2>6, <2>7
<1> QED
  <2>1. CASE low <= high + 1
    <3>1. high + 1 - low \in Nat
      BY <2>1, SMT
    <3> DEFINE k == high + 1 - low
    <3>2. Holds(k)
      <4> HIDE DEF Holds
      <4>1. k \in Nat /\ k <= high + 1 - low
        BY <3>1, SMT
      <4> QED
        BY <1>3, <4>1
    <3>3. high + 1 - k = low
      BY SMT
    <3> QED
      BY <3>2, <3>3
  <2>2. CASE low > high + 1
    <3>1. low .. high = {}
      BY <2>2, SMT
    <3> DEFINE f == [o \in low .. high |-> o]
    <3>2. Follows(f, next, low, high)
      BY <3>1 DEF Follows
    <3> QED
      BY <3>2
  <2> QED
    BY <2>1, <2>2, SMT

LEMMA LoopEnds ==
  ASSUME NEW low \in Nat, NEW high \in Nat, NEW next, GoesForward(next, low, high),
         NEW f, Follows(f, next, low, high), NEW from \in low .. high
  PROVE  /\ f[from] \in from .. high
         /\ next[f[from]] = f[from]
         /\ f[from] = from \/ \E o \in low .. high : next[o] # o /\ f[from] = next[o]
<1> DEFINE Ends(o) == /\ f[o] \in o .. high
                      /\ next[f[o]] = f[o]
                      /\ f[o] = o \/ \E p \in low .. high : next[p] # p /\ f[o] = next[p]
           T == {k \in Nat : k <= high - low /\ ~ Ends(high - k)}
<1>1. ASSUME NEW o \in low .. high, next[o] # o => Ends(next[o])
      PROVE  Ends(o)
  <2>1. f[o] = IF next[o] # o THEN f[next[o]] ELSE o
    BY DEF Follows
  <2>2. next[o] \in o .. high
    BY DEF GoesForward
  <2>3. CASE next[o] = o
    BY <2>1, <2>3
  <2>4. CASE next[o] # o
    <3>1. f[o] = f[next[o]] /\ f[next[o]] \in next[o] .. high
      BY <1>1, <2>1, <2>4
    <3>2. f[o] \in o .. high
      <4> HIDE DEF Ends
      <4> QED
        BY <2>2, <3>1, SMT
    <3> QED
      BY <1>1, <2>4, <3>1, <3>2
  <2> QED
    BY <2>3, <2>4
<1> HIDE DEF Ends
<1>2. T = {}
  <2> SUFFICES ASSUME T # {} PROVE FALSE
    OBVIOUS
  <2>1. T \subseteq Nat
    OBVIOUS
  <2>2. PICK k \in T : \A n \in T : k <= n
    <3> HIDE DEF T
    <3> QED
      BY <2>1, LeastNumber
  <2> DEFINE o == high - k
  <2>3. k \in Nat /\ k <= high - low /\ ~ Ends(o)
    BY <2>2
  <2>4. o \in low .. high
    BY <2>3, SMT
  <2>5. next[o] # o => Ends(next[o])
    <3> SUFFICES ASSUME next[o] # o PROVE Ends(next[o])
      OBVIOUS
    <3>1. next[o] \in o .. high
      BY <2>4 DEF GoesForward
    <3> DEFINE n == high - next[o]
    <3>2. n \in Nat /\ n < k /\ n <= high - low /\ high - n = next[o]
      BY <2>3, <2>4, <3>1, SMT
    <3>3. n \notin T
      <4> HIDE DEF T, n
      <4> QED
        BY <2>1, <2>2, <3>2, SMT
    <3> HIDE DEF n
    <3>4. Ends(high - n)
      BY <3>2, <3>3
    <3> QED
      BY <3>2, <3>4
  <2> QED
    BY <1>1, <2>3, <2>4, <2>5
<1>3. high - from \in Nat /\ high - from <= high - low /\ high - (high - from) = from
  BY SMT
<1>4. Ends(high - (high - from))
  BY <1>2, <1>3
<1> QED
  BY <1>3, <1>4 DEF Ends

(***************************************************************************)
(* What is decoded lies in the text, and is never empty.                   *)
(***************************************************************************)
LEMMA DecodedInText ==
  ASSUME NEW text \in Seq(Byte), NEW offset \in Nat, offset < Len(text)
  PROVE  /\ Utf8Decode(text, offset).width \in 1 .. 4
         /\ offset + Utf8Decode(text, offset).width <= Len(text)
         /\ Utf8Decode(text, offset).ok \in BOOLEAN
<1>1. Len(text) \in Nat /\ ~ (offset >= Len(text))
  BY SMT
<1>2. IsTwoBytes(text, offset) => offset + 2 <= Len(text)
  BY <1>1, SMT DEF IsTwoBytes
<1>3. IsThreeBytes(text, offset) => offset + 3 <= Len(text)
  BY <1>1, SMT DEF IsThreeBytes
<1>4. IsFourBytes(text, offset) => offset + 4 <= Len(text)
  BY <1>1, SMT DEF IsFourBytes
<1>5. offset + 1 <= Len(text)
  BY <1>1, SMT
<1>6. 1 \in 1 .. 4 /\ 2 \in 1 .. 4 /\ 3 \in 1 .. 4 /\ 4 \in 1 .. 4
  BY SMT
<1> QED
  BY <1>1, <1>2, <1>3, <1>4, <1>5, <1>6 DEF Utf8Decode, Decoded

(***************************************************************************)
(* A run of a class ends in the text, where no code point of the class     *)
(* starts; it is not empty when one starts where the run does.             *)
(***************************************************************************)
StartsClass(text, offset, class) ==
  /\ offset < Len(text)
  /\ Utf8Decode(text, offset).ok
  /\ Belongs(Utf8Decode(text, offset).code_point, class)

LEMMA RunEnds ==
  ASSUME NEW text \in Seq(Byte), NEW from \in Nat, from <= Len(text), NEW class
  PROVE  /\ EndOfRun(text, from, class) \in from .. Len(text)
         /\ ~ StartsClass(text, EndOfRun(text, from, class), class)
         /\ StartsClass(text, from, class) => EndOfRun(text, from, class) > from
<1> DEFINE length == Len(text)
           next == [o \in from .. length |->
                      IF StartsClass(text, o, class)
                      THEN o + Utf8Decode(text, o).width ELSE o]
           end[offset \in from .. Len(text)] ==
             LET following == Utf8Decode(text, offset)
             IN  IF /\ offset < Len(text)
                    /\ following.ok
                    /\ Belongs(following.code_point, class)
                 THEN end[offset + following.width]
                 ELSE offset
<1>1. EndOfRun(text, from, class) = end[from]
  BY DEF EndOfRun
<1>2. length \in Nat /\ from \in from .. length
  BY SMT
<1>3. ASSUME NEW o \in from .. length
      PROVE  /\ StartsClass(text, o, class) =>
                  next[o] = o + Utf8Decode(text, o).width /\ next[o] \in o + 1 .. length
             /\ ~ StartsClass(text, o, class) => next[o] = o
  <2>1. StartsClass(text, o, class) =>
          Utf8Decode(text, o).width \in 1 .. 4 /\ o + Utf8Decode(text, o).width <= length
    <3>1. o \in Nat
      BY <1>2, SMT
    <3> QED
      BY <3>1, DecodedInText DEF StartsClass
  <2>2. StartsClass(text, o, class) => o + Utf8Decode(text, o).width \in o + 1 .. length
    BY <1>2, <2>1, SMT
  <2> QED
    BY <2>2
<1> HIDE DEF next
<1>4. GoesForward(next, from, length)
  <2> SUFFICES ASSUME NEW o \in from .. length PROVE next[o] \in o .. length
    BY DEF GoesForward
  <2>1. next[o] = o \/ next[o] \in o + 1 .. length
    BY <1>3
  <2> QED
    BY <1>2, <2>1, SMT
<1>5. ASSUME NEW f, f = [offset \in from .. Len(text) |->
                            IF /\ offset < Len(text)
                               /\ Utf8Decode(text, offset).ok
                               /\ Belongs(Utf8Decode(text, offset).code_point, class)
                            THEN f[offset + Utf8Decode(text, offset).width]
                            ELSE offset]
      PROVE  Follows(f, next, from, length)
  <2>1. ASSUME NEW o \in from .. length
        PROVE  f[o] = IF next[o] # o THEN f[next[o]] ELSE o
    <3>1. f[o] = IF StartsClass(text, o, class)
                 THEN f[o + Utf8Decode(text, o).width] ELSE o
      BY <1>5 DEF StartsClass
    <3>2. StartsClass(text, o, class) => next[o] # o
      BY <1>2, <1>3, SMT
    <3> QED
      BY <1>3, <3>1, <3>2
  <2>2. f = [o \in from .. length |-> f[o]]
    BY <1>5
  <2> QED
    BY <2>1, <2>2 DEF Follows
<1>6. ASSUME NEW f, Follows(f, next, from, length)
      PROVE  f = [offset \in from .. Len(text) |->
                            IF /\ offset < Len(text)
                               /\ Utf8Decode(text, offset).ok
                               /\ Belongs(Utf8Decode(text, offset).code_point, class)
                            THEN f[offset + Utf8Decode(text, offset).width]
                            ELSE offset]
  <2>1. ASSUME NEW o \in from .. length
        PROVE  f[o] = IF StartsClass(text, o, class)
                      THEN f[o + Utf8Decode(text, o).width] ELSE o
    <3>1. f[o] = IF next[o] # o THEN f[next[o]] ELSE o
      BY <1>6 DEF Follows
    <3>2. StartsClass(text, o, class) => next[o] # o
      BY <1>2, <1>3, SMT
    <3> QED
      BY <1>3, <3>1, <3>2
  <2>2. f = [o \in from .. length |-> f[o]]
    BY <1>6 DEF Follows
  <2> QED
    BY <2>1, <2>2 DEF StartsClass
<1>7. \E f : Follows(f, next, from, length)
  BY <1>2, <1>4, LoopExists
<1>8. Follows(end, next, from, length)
  BY <1>5, <1>6, <1>7
<1> HIDE DEF end
<1>9. end[from] \in from .. length /\ next[end[from]] = end[from]
  BY <1>2, <1>4, <1>8, LoopEnds
<1>10. ~ StartsClass(text, end[from], class)
  <2>1. end[from] \in from .. length
    BY <1>9
  <2>2. StartsClass(text, end[from], class) => next[end[from]] \in end[from] + 1 .. length
    BY <1>3, <2>1
  <2> QED
    BY <1>9, <2>1, <2>2, SMT
<1>11. ASSUME StartsClass(text, from, class)
       PROVE  end[from] > from
  <2>1. next[from] \in from + 1 .. length
    BY <1>2, <1>3, <1>11
  <2>2. end[from] = end[next[from]]
    BY <1>2, <1>8, <2>1, SMT DEF Follows
  <2>3. end[next[from]] \in next[from] .. length
    <3>1. next[from] \in from .. length
      BY <1>2, <2>1, SMT
    <3> QED
      BY <1>2, <1>4, <1>8, <3>1, LoopEnds
  <2> QED
    BY <1>2, <2>1, <2>2, <2>3, SMT
<1> QED
  BY <1>1, <1>9, <1>10, <1>11

(***************************************************************************)
(* A number ends in the text, and no digit follows it: whatever its last   *)
(* part was, it was a run of digits.                                       *)
(***************************************************************************)
DigitAt(text, offset) == StartsClass(text, offset, "decimal_digit")

LEMMA DigitsEnd ==
  ASSUME NEW text \in Seq(Byte), NEW from \in Nat, from <= Len(text)
  PROVE  /\ EndOfDigits(text, from) \in from .. Len(text)
         /\ ~ DigitAt(text, EndOfDigits(text, from))
         /\ DigitAt(text, from) => EndOfDigits(text, from) > from
  BY RunEnds DEF EndOfDigits, DigitAt

StartsSegment(text, offset) ==
  /\ offset < Len(text)
  /\ text[offset + 1] = Dot
  /\ EndOfDigits(text, offset + 1) > offset + 1

LEMMA SegmentsEnd ==
  ASSUME NEW text \in Seq(Byte), NEW from \in Nat, from <= Len(text),
         ~ DigitAt(text, from)
  PROVE  /\ EndOfSegments(text, from) \in from .. Len(text)
         /\ ~ DigitAt(text, EndOfSegments(text, from))
<1> DEFINE length == Len(text)
           next == [o \in from .. length |->
                      IF StartsSegment(text, o) THEN EndOfDigits(text, o + 1) ELSE o]
           end[offset \in from .. Len(text)] ==
             IF /\ offset < Len(text)
                /\ text[offset + 1] = Dot
                /\ EndOfDigits(text, offset + 1) > offset + 1
             THEN end[EndOfDigits(text, offset + 1)]
             ELSE offset
<1>1. EndOfSegments(text, from) = end[from]
  BY DEF EndOfSegments
<1>2. length \in Nat /\ from \in from .. length
  BY SMT
<1>3. ASSUME NEW o \in from .. length
      PROVE  /\ StartsSegment(text, o) =>
                  /\ next[o] = EndOfDigits(text, o + 1)
                  /\ next[o] \in o + 1 .. length /\ next[o] # o
                  /\ ~ DigitAt(text, next[o])
             /\ ~ StartsSegment(text, o) => next[o] = o
  <2> SUFFICES ASSUME StartsSegment(text, o)
               PROVE  /\ next[o] = EndOfDigits(text, o + 1)
                      /\ next[o] \in o + 1 .. length /\ next[o] # o
                      /\ ~ DigitAt(text, next[o])
    OBVIOUS
  <2>1. o + 1 \in Nat /\ o + 1 <= length
    BY <1>2, SMT DEF StartsSegment
  <2>2. EndOfDigits(text, o + 1) \in o + 1 .. length /\ ~ DigitAt(text, EndOfDigits(text, o + 1))
    BY <2>1, DigitsEnd
  <2>3. EndOfDigits(text, o + 1) # o
    BY <2>1, <2>2, SMT
  <2> QED
    BY <2>2, <2>3
<1> HIDE DEF next
<1>4. GoesForward(next, from, length)
  <2> SUFFICES ASSUME NEW o \in from .. length PROVE next[o] \in o .. length
    BY DEF GoesForward
  <2>1. next[o] = o \/ next[o] \in o + 1 .. length
    BY <1>3
  <2> QED
    BY <1>2, <2>1, SMT
<1>5. ASSUME NEW f,
             f = [offset \in from .. Len(text) |->
                    IF /\ offset < Len(text)
                       /\ text[offset + 1] = Dot
                       /\ EndOfDigits(text, offset + 1) > offset + 1
                    THEN f[EndOfDigits(text, offset + 1)]
                    ELSE offset]
      PROVE  Follows(f, next, from, length)
  <2>1. ASSUME NEW o \in from .. length
        PROVE  f[o] = IF next[o] # o THEN f[next[o]] ELSE o
    <3>1. f[o] = IF StartsSegment(text, o) THEN f[EndOfDigits(text, o + 1)] ELSE o
      BY <1>5 DEF StartsSegment
    <3> QED
      BY <1>3, <3>1
  <2>2. f = [o \in from .. length |-> f[o]]
    BY <1>5
  <2> QED
    BY <2>1, <2>2 DEF Follows
<1>6. ASSUME NEW f, Follows(f, next, from, length)
      PROVE  f = [offset \in from .. Len(text) |->
                    IF /\ offset < Len(text)
                       /\ text[offset + 1] = Dot
                       /\ EndOfDigits(text, offset + 1) > offset + 1
                    THEN f[EndOfDigits(text, offset + 1)]
                    ELSE offset]
  <2>1. ASSUME NEW o \in from .. length
        PROVE  f[o] = IF StartsSegment(text, o) THEN f[EndOfDigits(text, o + 1)] ELSE o
    <3>1. f[o] = IF next[o] # o THEN f[next[o]] ELSE o
      BY <1>6 DEF Follows
    <3> QED
      BY <1>3, <3>1
  <2>2. f = [o \in from .. length |-> f[o]]
    BY <1>6 DEF Follows
  <2> QED
    BY <2>1, <2>2 DEF StartsSegment
<1>7. \E f : Follows(f, next, from, length)
  BY <1>2, <1>4, LoopExists
<1>8. Follows(end, next, from, length)
  BY <1>5, <1>6, <1>7
<1> HIDE DEF end
<1>9. /\ end[from] \in from .. length
      /\ end[from] = from \/ \E o \in from .. length : next[o] # o /\ end[from] = next[o]
  BY <1>2, <1>4, <1>8, LoopEnds
<1>10. ~ DigitAt(text, end[from])
  BY <1>3, <1>9
<1> QED
  BY <1>1, <1>9, <1>10

LEMMA NumberEnds ==
  ASSUME NEW text \in Seq(Byte)
  PROVE  /\ ClassifyNumber(text).length \in 0 .. Len(text)
         /\ ~ DigitAt(text, ClassifyNumber(text).length)
         /\ DigitAt(text, 0) => ClassifyNumber(text).length > 0
         /\ ClassifyNumber(text).type \in {T_IDENTIFIER, T_INVALID_NUMBER, T_FLOAT, T_INTEGER}
<1> DEFINE first == EndOfDigits(text, 0)
           mantissa == EndOfSegments(text, first)
           length == EndOfExponent(text, mantissa)
<1>1. ClassifyNumber(text) = Lexeme(length, NumberType(text, mantissa, length))
  BY DEF ClassifyNumber, NumberOn, NumberFrom
<1>2. /\ first \in 0 .. Len(text) /\ ~ DigitAt(text, first)
      /\ DigitAt(text, 0) => first > 0
  <2>1. 0 \in Nat /\ 0 <= Len(text)
    BY SMT
  <2> QED
    BY <2>1, DigitsEnd
<1>3. mantissa \in first .. Len(text) /\ ~ DigitAt(text, mantissa)
  <2>1. first \in Nat /\ first <= Len(text)
    BY <1>2, SMT
  <2> QED
    BY <1>2, <2>1, SegmentsEnd
<1>4. length \in mantissa .. Len(text) /\ ~ DigitAt(text, length)
  <2>1. mantissa \in Nat /\ Len(text) \in Nat /\ mantissa <= Len(text)
    BY <1>2, <1>3, SMT
  <2>2. CASE ~ HasExponent(text, mantissa)
    <3>1. length = mantissa
      BY <2>2 DEF EndOfExponent
    <3> QED
      BY <1>3, <2>1, <3>1, SMT
  <2>3. CASE HasExponent(text, mantissa)
    <3> DEFINE start == ExponentStart(text, mantissa)
    <3>1. length = EndOfDigits(text, start)
      BY <2>3 DEF EndOfExponent
    <3>2. start \in Nat /\ start <= Len(text) /\ mantissa <= start
      BY <2>1, <2>3, SMT DEF HasExponent, ExponentStart
    <3> HIDE DEF start
    <3>3. length \in start .. Len(text) /\ ~ DigitAt(text, length)
      BY <3>1, <3>2, DigitsEnd
    <3> HIDE DEF length, mantissa
    <3> QED
      BY <2>1, <3>2, <3>3, SMT
  <2> QED
    BY <2>2, <2>3
<1>5. NumberType(text, mantissa, length)
        \in {T_IDENTIFIER, T_INVALID_NUMBER, T_FLOAT, T_INTEGER}
  BY DEF NumberType
<1> HIDE DEF first, mantissa, length
<1>6. length \in 0 .. Len(text) /\ (DigitAt(text, 0) => length > 0)
  BY <1>2, <1>3, <1>4, SMT
<1> QED
  BY <1>1, <1>4, <1>5, <1>6 DEF Lexeme

(***************************************************************************)
(* The token cut out of a chunk is not empty and lies in it; it is a       *)
(* number only if a digit starts it, and then no digit follows.            *)
(***************************************************************************)
OperatorTypes == {T_DOT, T_MUL, T_DIV, T_POW, T_SUB, T_ADD, T_LEFT_PAREN,
                  T_RIGHT_PAREN, T_AT}

TokenTypes ==
  OperatorTypes \cup {T_IDENTIFIER, T_SKIP, T_INTEGER, T_FLOAT, T_INVALID_NUMBER,
                      T_SUPERSCRIPT_INTEGER, T_INVALID_SUPERSCRIPT}

LEMMA OperatorTyped ==
  ASSUME NEW code_point, IsOperator(code_point)
  PROVE  OperatorType(code_point) \in OperatorTypes
<1> DEFINE i == CHOOSE i \in DOMAIN OperatorOf : OperatorOf[i][1] = code_point
<1>1. i \in DOMAIN OperatorOf
  BY DEF IsOperator
<1>2. DOMAIN OperatorOf = 1 .. 9
  BY DEF OperatorOf
<1>3. OperatorType(code_point) = OperatorOf[i][2]
  BY DEF OperatorType
<1> HIDE DEF i
<1>4. \A j \in 1 .. 9 : OperatorOf[j][2] \in OperatorTypes
  BY DEF OperatorOf, OperatorTypes
<1> QED
  BY <1>1, <1>2, <1>3, <1>4

LEMMA TypesApart ==
  /\ NumeralTypes \cap (OperatorTypes \cup {T_IDENTIFIER, T_SKIP, T_SUPERSCRIPT_INTEGER,
                                            T_INVALID_SUPERSCRIPT}) = {}
  /\ TokenTypes \subseteq Nat
  BY DEF NumeralTypes, OperatorTypes, TokenTypes, T_DOT, T_MUL, T_DIV, T_POW, T_SUB,
     T_ADD, T_LEFT_PAREN, T_RIGHT_PAREN, T_AT, T_IDENTIFIER, T_SKIP, T_INTEGER,
     T_FLOAT, T_INVALID_NUMBER, T_SUPERSCRIPT_INTEGER, T_INVALID_SUPERSCRIPT

LEMMA ChunkCut ==
  ASSUME NEW text \in Seq(Byte), text # << >>
  PROVE  /\ ClassifyUnicodeChunk(text).length \in 1 .. Len(text)
         /\ ClassifyUnicodeChunk(text).type \in TokenTypes
         /\ ClassifyUnicodeChunk(text).type \in NumeralTypes =>
              /\ DigitAt(text, 0)
              /\ ~ DigitAt(text, ClassifyUnicodeChunk(text).length)
<1> DEFINE cut == ClassifyUnicodeChunk(text)
           first == Utf8Decode(text, 0)
           code_point == first.code_point
           run(class) == EndOfRun(text, first.width, class)
<1>1. Len(text) \in Nat /\ 0 < Len(text) /\ 0 \in Nat
  BY SMT
<1>2. first.width \in 1 .. 4 /\ 0 + first.width <= Len(text) /\ first.ok \in BOOLEAN
  BY <1>1, DecodedInText
<1>3. first.width \in Nat /\ first.width <= Len(text) /\ first.width \in 1 .. Len(text)
  BY <1>1, <1>2, SMT
<1>4. ASSUME NEW class
      PROVE  run(class) \in 1 .. Len(text)
  <2>1. run(class) \in first.width .. Len(text)
    BY <1>3, RunEnds
  <2> QED
    BY <1>1, <1>3, <2>1, SMT
<1> DEFINE Good(lexeme) ==
             /\ lexeme.length \in 1 .. Len(text)
             /\ lexeme.type \in TokenTypes
             /\ lexeme.type \in NumeralTypes =>
                  DigitAt(text, 0) /\ ~ DigitAt(text, lexeme.length)
<1>5. ASSUME NEW length \in 1 .. Len(text), NEW type \in TokenTypes,
             type \notin NumeralTypes
      PROVE  Good(Lexeme(length, type))
  BY <1>5 DEF Lexeme
<1>6. \A type \in OperatorTypes \cup {T_IDENTIFIER, T_SKIP, T_SUPERSCRIPT_INTEGER,
                                     T_INVALID_SUPERSCRIPT} :
        type \in TokenTypes /\ type \notin NumeralTypes
  BY TypesApart DEF TokenTypes
<1>7. ASSUME first.ok, IsDecimalDigit(code_point)
      PROVE  Good(ClassifyNumber(text))
  <2>1. DigitAt(text, 0)
    BY <1>1, <1>7 DEF DigitAt, StartsClass, Belongs
  <2>2. ClassifyNumber(text).length \in 1 .. Len(text)
    BY <1>1, <2>1, NumberEnds, SMT
  <2> QED
    BY <2>1, <2>2, NumberEnds DEF TokenTypes
<1>8. ASSUME first.ok, IsIdentifier(code_point)
      PROVE  EndOfRun(text, 0, "identifier") \in 1 .. Len(text)
  <2>1. StartsClass(text, 0, "identifier")
    BY <1>1, <1>8 DEF StartsClass, Belongs
  <2>2. /\ EndOfRun(text, 0, "identifier") \in 0 .. Len(text)
        /\ EndOfRun(text, 0, "identifier") > 0
    BY <1>1, <2>1, RunEnds
  <2> QED
    BY <1>1, <2>2, SMT
<1> HIDE DEF Good
<1>a. CASE ~ first.ok
  <2>1. cut = Lexeme(first.width, T_IDENTIFIER)
    BY <1>a DEF ClassifyUnicodeChunk
  <2> QED
    BY <1>3, <1>5, <1>6, <2>1 DEF Good
<1>b. CASE first.ok /\ IsOperator(code_point)
  <2>1. cut = Lexeme(first.width, OperatorType(code_point))
    BY <1>b DEF ClassifyUnicodeChunk
  <2> QED
    BY <1>3, <1>5, <1>6, <1>b, <2>1, OperatorTyped DEF Good
<1>c. CASE first.ok /\ ~ IsOperator(code_point) /\ IsWhitespace(code_point)
  <2>1. cut = Lexeme(run("whitespace"), T_SKIP)
    BY <1>c DEF ClassifyUnicodeChunk
  <2> QED
    BY <1>4, <1>5, <1>6, <2>1 DEF Good
<1>d. CASE /\ first.ok /\ ~ IsOperator(code_point) /\ ~ IsWhitespace(code_point)
           /\ IsDecimalDigit(code_point)
  <2>1. cut = ClassifyNumber(text)
    BY <1>d DEF ClassifyUnicodeChunk
  <2> QED
    BY <1>7, <1>d, <2>1 DEF Good
<1>e. CASE /\ first.ok /\ ~ IsOperator(code_point) /\ ~ IsWhitespace(code_point)
           /\ ~ IsDecimalDigit(code_point)
  <2>1. \/ IsIdentifier(code_point) /\ cut = Lexeme(EndOfRun(text, 0, "identifier"), T_IDENTIFIER)
        \/ cut = Lexeme(first.width, T_MUL)
        \/ cut = Lexeme(first.width, T_INVALID_SUPERSCRIPT)
        \/ cut = Lexeme(run("superscript"), T_SUPERSCRIPT_INTEGER)
        \/ cut = Lexeme(first.width, T_IDENTIFIER)
    BY <1>e DEF ClassifyUnicodeChunk
  <2>2. T_MUL \in OperatorTypes
    BY DEF OperatorTypes
  <2> HIDE DEF cut
  <2>3. Good(cut)
    BY <1>3, <1>4, <1>5, <1>6, <1>8, <1>e, <2>1, <2>2
  <2> QED
    BY <2>3 DEF Good, cut
<1> QED
  BY <1>2, <1>a, <1>b, <1>c, <1>d, <1>e

LEMMA ByteAt ==
  ASSUME NEW text \in Seq(Byte), NEW i \in 1 .. Len(text)
  PROVE  text[i] \in Byte /\ text[i] \in Int
<1>1. text[i] \in Byte
  OBVIOUS
<1>2. Byte \subseteq Int
  BY SMT DEF Byte
<1> QED
  BY <1>1, <1>2, Zenon

(***************************************************************************)
(* A code point is decoded alike in a text and in a slice of it that holds *)
(* all of its bytes.                                                       *)
(***************************************************************************)
IsSlice(text, whole, from) ==
  /\ from + Len(text) <= Len(whole)
  /\ \A i \in 1 .. Len(text) : text[i] = whole[from + i]

LEMMA FormsInSlice ==
  ASSUME NEW text \in Seq(Byte), NEW whole \in Seq(Byte), NEW from \in Nat,
         IsSlice(text, whole, from), NEW offset \in Nat, offset < Len(text)
  PROVE  /\ text[offset + 1] = whole[from + offset + 1]
         /\ IsTwoBytes(text, offset) <=>
              IsTwoBytes(whole, from + offset) /\ offset + 2 <= Len(text)
         /\ IsThreeBytes(text, offset) <=>
              IsThreeBytes(whole, from + offset) /\ offset + 3 <= Len(text)
         /\ IsFourBytes(text, offset) <=>
              IsFourBytes(whole, from + offset) /\ offset + 4 <= Len(text)
         /\ \A i \in 1 .. 4 : offset + i <= Len(text) =>
              text[offset + i] = whole[from + offset + i]
<1>1. Len(text) \in Nat /\ Len(whole) \in Nat /\ from + Len(text) <= Len(whole)
  BY SMT DEF IsSlice
<1>2. ASSUME NEW i \in 1 .. 4, offset + i <= Len(text)
      PROVE  text[offset + i] = whole[from + offset + i]
  <2>1. offset + i \in 1 .. Len(text) /\ from + (offset + i) = from + offset + i
    BY <1>1, <1>2, SMT
  <2> QED
    BY <2>1 DEF IsSlice
<1>3. text[offset + 1] = whole[from + offset + 1]
  BY <1>1, <1>2, SMT
<1>4. ASSUME NEW w \in 2 .. 4
      PROVE  /\ Len(text) - offset >= w <=> offset + w <= Len(text)
             /\ offset + w <= Len(text) => Len(whole) - (from + offset) >= w
             /\ offset + w <= Len(text) =>
                  \A i \in 2 .. w : text[offset + i] = whole[from + offset + i]
  <2>1. ASSUME offset + w <= Len(text), NEW i \in 2 .. w
        PROVE  text[offset + i] = whole[from + offset + i]
    <3>1. i \in 1 .. 4 /\ offset + i <= Len(text)
      BY <1>1, <2>1, SMT
    <3> QED
      BY <1>2, <3>1
  <2>2. /\ Len(text) - offset >= w <=> offset + w <= Len(text)
        /\ offset + w <= Len(text) => Len(whole) - (from + offset) >= w
    BY <1>1, SMT
  <2> QED
    BY <2>1, <2>2
<1>5. IsTwoBytes(text, offset) <=>
        IsTwoBytes(whole, from + offset) /\ offset + 2 <= Len(text)
  <2>1. 2 \in 2 .. 4 /\ 2 \in 2 .. 2
    BY SMT
  <2> QED
    BY <1>3, <1>4, <2>1, Zenon DEF IsTwoBytes
<1>6. IsThreeBytes(text, offset) <=>
        IsThreeBytes(whole, from + offset) /\ offset + 3 <= Len(text)
  <2>1. 3 \in 2 .. 4 /\ 2 \in 2 .. 3
    BY SMT
  <2>2. offset + 3 <= Len(text) =>
          /\ text[offset + 2] = whole[from + offset + 2]
          /\ (\A i \in 2 .. 3 : IsContinuation(text[offset + i])) <=>
               (\A i \in 2 .. 3 : IsContinuation(whole[from + offset + i]))
    BY <1>4, <2>1, Zenon
  <2>3. /\ Len(text) - offset >= 3 <=> offset + 3 <= Len(text)
        /\ offset + 3 <= Len(text) => Len(whole) - (from + offset) >= 3
    BY <1>4, <2>1, Zenon
  <2> QED
    BY <1>3, <2>2, <2>3, ZenonT(60) DEF IsThreeBytes
<1>7. IsFourBytes(text, offset) <=>
        IsFourBytes(whole, from + offset) /\ offset + 4 <= Len(text)
  <2>1. 4 \in 2 .. 4 /\ 2 \in 2 .. 4
    BY SMT
  <2>2. offset + 4 <= Len(text) =>
          /\ text[offset + 2] = whole[from + offset + 2]
          /\ (\A i \in 2 .. 4 : IsContinuation(text[offset + i])) <=>
               (\A i \in 2 .. 4 : IsContinuation(whole[from + offset + i]))
    BY <1>4, <2>1, Zenon
  <2>3. /\ Len(text) - offset >= 4 <=> offset + 4 <= Len(text)
        /\ offset + 4 <= Len(text) => Len(whole) - (from + offset) >= 4
    BY <1>4, <2>1, Zenon
  <2> QED
    BY <1>3, <2>2, <2>3, ZenonT(60) DEF IsFourBytes
<1> QED
  BY <1>2, <1>3, <1>5, <1>6, <1>7

\* The five outcomes of the decoder, one by one.
Low6(text, i) == text[i] % 64
Value2(text, o) == (text[o + 1] % 32) * 64 + Low6(text, o + 2)
Value3(text, o) ==
  (text[o + 1] % 16) * 4096 + Low6(text, o + 2) * 64 + Low6(text, o + 3)
Value4(text, o) ==
  (text[o + 1] % 8) * 262144 + Low6(text, o + 2) * 4096 + Low6(text, o + 3) * 64
    + Low6(text, o + 4)

IsAscii(text, o) == text[o + 1] < 128
NoCodePoint(byte) == [ok |-> FALSE, code_point |-> byte, width |-> 1]

Forms(text, o, decoded) ==
  /\ IsAscii(text, o) => decoded = Decoded(text[o + 1], 1)
  /\ ~ IsAscii(text, o) /\ IsTwoBytes(text, o) =>
       decoded = Decoded(Value2(text, o), 2)
  /\ ~ IsAscii(text, o) /\ ~ IsTwoBytes(text, o) /\ IsThreeBytes(text, o) =>
       decoded = Decoded(Value3(text, o), 3)
  /\ ~ IsAscii(text, o) /\ ~ IsTwoBytes(text, o) /\ ~ IsThreeBytes(text, o)
       /\ IsFourBytes(text, o) => decoded = Decoded(Value4(text, o), 4)
  /\ ~ IsAscii(text, o) /\ ~ IsTwoBytes(text, o) /\ ~ IsThreeBytes(text, o)
       /\ ~ IsFourBytes(text, o) => decoded = NoCodePoint(text[o + 1])

LEMMA DecoderForms ==
  ASSUME NEW text, NEW offset, ~ (offset >= Len(text))
  PROVE  Forms(text, offset, Utf8Decode(text, offset))
<1>1. ASSUME IsAscii(text, offset)
      PROVE  Utf8Decode(text, offset) = Decoded(text[offset + 1], 1)
  BY <1>1 DEF Utf8Decode, IsAscii
<1>2. ASSUME ~ IsAscii(text, offset), IsTwoBytes(text, offset)
      PROVE  Utf8Decode(text, offset) = Decoded(Value2(text, offset), 2)
  BY <1>2 DEF Utf8Decode, IsAscii, Value2, Low6
<1>3. ASSUME ~ IsAscii(text, offset), ~ IsTwoBytes(text, offset),
             IsThreeBytes(text, offset)
      PROVE  Utf8Decode(text, offset) = Decoded(Value3(text, offset), 3)
  BY <1>3 DEF Utf8Decode, IsAscii, Value3, Low6
<1>4. ASSUME ~ IsAscii(text, offset), ~ IsTwoBytes(text, offset),
             ~ IsThreeBytes(text, offset), IsFourBytes(text, offset)
      PROVE  Utf8Decode(text, offset) = Decoded(Value4(text, offset), 4)
  BY <1>4 DEF Utf8Decode, IsAscii, Value4, Low6
<1>5. ASSUME ~ IsAscii(text, offset), ~ IsTwoBytes(text, offset),
             ~ IsThreeBytes(text, offset), ~ IsFourBytes(text, offset)
      PROVE  Utf8Decode(text, offset) = NoCodePoint(text[offset + 1])
  BY <1>5 DEF Utf8Decode, IsAscii, NoCodePoint
<1> QED
  BY <1>1, <1>2, <1>3, <1>4, <1>5 DEF Forms

LEMMA FormFields ==
  /\ \A code_point, width :
       /\ Decoded(code_point, width).ok = TRUE
       /\ Decoded(code_point, width).code_point = code_point
       /\ Decoded(code_point, width).width = width
  /\ \A byte : NoCodePoint(byte).ok = FALSE
  BY DEF Decoded, NoCodePoint

LEMMA FormsApart ==
  ASSUME NEW text \in Seq(Byte), NEW offset \in Nat, offset < Len(text)
  PROVE  /\ IsTwoBytes(text, offset) => ~ IsThreeBytes(text, offset)
         /\ IsTwoBytes(text, offset) => ~ IsFourBytes(text, offset)
         /\ IsThreeBytes(text, offset) => ~ IsFourBytes(text, offset)
<1>1. offset + 1 \in 1 .. Len(text)
  BY SMT
<1>2. text[offset + 1] \in Int
  BY <1>1, ByteAt, Zenon
<1> QED
  BY <1>2, SMT DEF IsTwoBytes, IsThreeBytes, IsFourBytes

Fits(text, o, width) == o + width <= Len(text)

LEMMA SameForm ==
  ASSUME NEW text, NEW whole, NEW offset, NEW at, NEW decoded, NEW same,
         Forms(text, offset, decoded), Forms(whole, at, same),
         Fits(text, offset, 4) => Fits(text, offset, 3), Fits(text, offset, 3) => Fits(text, offset, 2),
         IsAscii(text, offset) <=> IsAscii(whole, at),
         IsTwoBytes(text, offset) <=> IsTwoBytes(whole, at) /\ Fits(text, offset, 2),
         IsThreeBytes(text, offset) <=> IsThreeBytes(whole, at) /\ Fits(text, offset, 3),
         IsFourBytes(text, offset) <=> IsFourBytes(whole, at) /\ Fits(text, offset, 4),
         text[offset + 1] = whole[at + 1],
         Fits(text, offset, 2) => text[offset + 2] = whole[at + 2],
         Fits(text, offset, 3) => text[offset + 3] = whole[at + 3],
         Fits(text, offset, 4) => text[offset + 4] = whole[at + 4],
         IsTwoBytes(whole, at) => ~ IsThreeBytes(whole, at),
         IsTwoBytes(whole, at) => ~ IsFourBytes(whole, at),
         IsThreeBytes(whole, at) => ~ IsFourBytes(whole, at),
         decoded.ok \/ (same.ok /\ (same.width = 1 \/ Fits(text, offset, same.width)))
  PROVE  decoded = same
<1>1. /\ Fits(text, offset, 2) => Value2(text, offset) = Value2(whole, at)
      /\ Fits(text, offset, 3) => Value3(text, offset) = Value3(whole, at)
      /\ Fits(text, offset, 4) => Value4(text, offset) = Value4(whole, at)
  BY SMT DEF Value2, Value3, Value4, Low6
<1>2. CASE IsAscii(whole, at)
  BY <1>2, Zenon DEF Forms
<1>3. CASE ~ IsAscii(whole, at) /\ IsTwoBytes(whole, at)
  <2>1. same = Decoded(Value2(whole, at), 2)
    BY <1>3, Zenon DEF Forms
  <2>2. same.width = 2 /\ 2 # 1
    BY <2>1, FormFields, SMT
  <2>3. ASSUME ~ Fits(text, offset, 2)
        PROVE  FALSE
    <3>1. decoded = NoCodePoint(text[offset + 1])
      BY <1>3, <2>3, Zenon DEF Forms
    <3>2. ~ decoded.ok
      BY <3>1, FormFields, Zenon
    <3> QED
      BY <2>2, <2>3, <3>2
  <2>4. decoded = Decoded(Value2(text, offset), 2)
    BY <1>3, <2>3, Zenon DEF Forms
  <2> QED
    BY <1>1, <2>1, <2>3, <2>4
<1>4. CASE ~ IsAscii(whole, at) /\ IsThreeBytes(whole, at)
  <2>1. same = Decoded(Value3(whole, at), 3)
    BY <1>4, Zenon DEF Forms
  <2>2. same.width = 3 /\ 3 # 1
    BY <2>1, FormFields, SMT
  <2>3. ASSUME ~ Fits(text, offset, 3)
        PROVE  FALSE
    <3>1. decoded = NoCodePoint(text[offset + 1])
      BY <1>4, <2>3, Zenon DEF Forms
    <3>2. ~ decoded.ok
      BY <3>1, FormFields, Zenon
    <3> QED
      BY <2>2, <2>3, <3>2
  <2>4. decoded = Decoded(Value3(text, offset), 3)
    BY <1>4, <2>3, Zenon DEF Forms
  <2> QED
    BY <1>1, <2>1, <2>3, <2>4
<1>5. CASE ~ IsAscii(whole, at) /\ IsFourBytes(whole, at)
  <2>1. same = Decoded(Value4(whole, at), 4)
    BY <1>5, Zenon DEF Forms
  <2>2. same.width = 4 /\ 4 # 1
    BY <2>1, FormFields, SMT
  <2>3. ASSUME ~ Fits(text, offset, 4)
        PROVE  FALSE
    <3>1. decoded = NoCodePoint(text[offset + 1])
      BY <1>5, <2>3, Zenon DEF Forms
    <3>2. ~ decoded.ok
      BY <3>1, FormFields, Zenon
    <3> QED
      BY <2>2, <2>3, <3>2
  <2>4. decoded = Decoded(Value4(text, offset), 4)
    BY <1>5, <2>3, Zenon DEF Forms
  <2> QED
    BY <1>1, <2>1, <2>3, <2>4
<1>6. CASE /\ ~ IsAscii(whole, at) /\ ~ IsTwoBytes(whole, at)
           /\ ~ IsThreeBytes(whole, at) /\ ~ IsFourBytes(whole, at)
  <2>1. decoded = NoCodePoint(text[offset + 1]) /\ same = NoCodePoint(whole[at + 1])
    BY <1>6, Zenon DEF Forms
  <2> QED
    BY <2>1
<1> QED
  BY <1>2, <1>3, <1>4, <1>5, <1>6

LEMMA SliceDecodes ==
  ASSUME NEW text \in Seq(Byte), NEW whole \in Seq(Byte), NEW from \in Nat,
         IsSlice(text, whole, from), NEW offset \in Nat, offset < Len(text)
  PROVE  /\ Utf8Decode(text, offset).ok =>
              Utf8Decode(text, offset) = Utf8Decode(whole, from + offset)
         /\ /\ Utf8Decode(whole, from + offset).ok
            /\ offset + Utf8Decode(whole, from + offset).width <= Len(text)
            => Utf8Decode(text, offset) = Utf8Decode(whole, from + offset)
<1> DEFINE at == from + offset
           decoded == Utf8Decode(text, offset)
           same == Utf8Decode(whole, at)
<1>1. /\ Len(text) \in Nat /\ Len(whole) \in Nat
      /\ at \in Nat /\ at < Len(whole)
      /\ ~ (offset >= Len(text)) /\ ~ (at >= Len(whole))
  BY SMT DEF IsSlice
<1>2. /\ text[offset + 1] = whole[at + 1]
      /\ IsTwoBytes(text, offset) <=> IsTwoBytes(whole, at) /\ Fits(text, offset, 2)
      /\ IsThreeBytes(text, offset) <=> IsThreeBytes(whole, at) /\ Fits(text, offset, 3)
      /\ IsFourBytes(text, offset) <=> IsFourBytes(whole, at) /\ Fits(text, offset, 4)
      /\ \A i \in 1 .. 4 : Fits(text, offset, i) => text[offset + i] = whole[at + i]
  BY FormsInSlice, Zenon DEF Fits
<1>3. /\ IsTwoBytes(whole, at) => ~ IsThreeBytes(whole, at)
      /\ IsTwoBytes(whole, at) => ~ IsFourBytes(whole, at)
      /\ IsThreeBytes(whole, at) => ~ IsFourBytes(whole, at)
  BY <1>1, FormsApart, Zenon
<1>4. 2 \in 1 .. 4 /\ 3 \in 1 .. 4 /\ 4 \in 1 .. 4
  BY SMT
<1>5. /\ Fits(text, offset, 2) => text[offset + 2] = whole[at + 2]
      /\ Fits(text, offset, 3) => text[offset + 3] = whole[at + 3]
      /\ Fits(text, offset, 4) => text[offset + 4] = whole[at + 4]
  BY <1>2, <1>4, Zenon
<1>6. /\ Fits(text, offset, 4) => Fits(text, offset, 3)
      /\ Fits(text, offset, 3) => Fits(text, offset, 2)
  BY <1>1, SMT DEF Fits
<1>7. IsAscii(text, offset) <=> IsAscii(whole, at)
  BY <1>2, Zenon DEF IsAscii
<1>8. Forms(text, offset, decoded) /\ Forms(whole, at, same)
  BY <1>1, DecoderForms, Zenon
<1> HIDE DEF at, decoded, same
<1>9. decoded.ok \/ (same.ok /\ Fits(text, offset, same.width)) => decoded = same
  BY <1>2, <1>3, <1>5, <1>6, <1>7, <1>8, SameForm, Zenon
<1>10. decoded.ok => decoded = same
  BY <1>9, Zenon
<1>11. same.ok /\ offset + same.width <= Len(text) => decoded = same
  BY <1>9, Zenon DEF Fits
<1> QED
  BY <1>10, <1>11, Zenon DEF at, decoded, same

\* The bytes behind the first one of a code point are not ASCII, and neither
\* is the first one if there are more.
LEMMA BytesOfCodePoint ==
  ASSUME NEW text \in Seq(Byte), NEW offset \in Nat, offset < Len(text),
         NEW decoded, decoded = Utf8Decode(text, offset), decoded.ok
  PROVE  /\ \A i \in 2 .. decoded.width : text[offset + i] >= 128
         /\ text[offset + 1] < 128 =>
              decoded.code_point = text[offset + 1] /\ decoded.width = 1
<1>1. Len(text) \in Nat /\ ~ (offset >= Len(text))
  BY SMT
<1>2. Forms(text, offset, decoded)
  BY <1>1, DecoderForms, Zenon
<1>3. decoded.width \in 1 .. 4 /\ offset + decoded.width <= Len(text)
  BY DecodedInText, Zenon
<1>4. ASSUME IsAscii(text, offset)
      PROVE  decoded.width = 1 /\ decoded.code_point = text[offset + 1]
  <2>1. decoded = Decoded(text[offset + 1], 1)
    BY <1>2, <1>4, Zenon DEF Forms
  <2> QED
    BY <2>1, FormFields, SMT
<1>5. ASSUME ~ IsAscii(text, offset)
      PROVE
        \/ IsTwoBytes(text, offset) /\ decoded.width = 2
        \/ IsThreeBytes(text, offset) /\ decoded.width = 3
        \/ IsFourBytes(text, offset) /\ decoded.width = 4
  <2>1. \/ IsTwoBytes(text, offset) /\ decoded = Decoded(Value2(text, offset), 2)
        \/ IsThreeBytes(text, offset) /\ decoded = Decoded(Value3(text, offset), 3)
        \/ IsFourBytes(text, offset) /\ decoded = Decoded(Value4(text, offset), 4)
        \/ decoded = NoCodePoint(text[offset + 1])
    BY <1>2, <1>5, Zenon DEF Forms
  <2> QED
    BY <2>1, FormFields, SMT
<1>6. ASSUME NEW i \in 2 .. decoded.width
      PROVE  text[offset + i] >= 128
  <2>1. /\ decoded.width \in 2 .. 4 /\ i \in 2 .. 4
        /\ offset + i \in 1 .. Len(text) /\ decoded.width # 1
    BY <1>1, <1>3, SMT
  <2>2. text[offset + i] \in Byte /\ text[offset + i] \in Int
    BY <2>1, ByteAt, Zenon
  <2>3. IsContinuation(text[offset + i])
    <3>1. CASE IsTwoBytes(text, offset) /\ decoded.width = 2
      <4>1. i = 2
        BY <3>1, SMT
      <4> QED
        BY <3>1, <4>1, Zenon DEF IsTwoBytes
    <3>2. CASE IsThreeBytes(text, offset) /\ decoded.width = 3
      BY <3>2, Zenon DEF IsThreeBytes
    <3>3. CASE IsFourBytes(text, offset) /\ decoded.width = 4
      BY <3>3, Zenon DEF IsFourBytes
    <3> QED
      BY <1>4, <1>5, <2>1, <3>1, <3>2, <3>3
  <2> QED
    BY <2>2, <2>3, SMT DEF IsContinuation
<1> QED
  BY <1>4, <1>6 DEF IsAscii


(***************************************************************************)
(* The blocks of the generated scanner: which ones are live is known at    *)
(* every stage of the method, whatever yylex does.                         *)
(***************************************************************************)
Heaps == [live : SUBSET Blocks, current : SUBSET Blocks, misused : BOOLEAN]

IsHeap(in, live, current) ==
  in \in Heaps /\ in.live = live /\ in.current = current /\ ~ in.misused

HeapInv ==
  /\ stage \in LexerStages
  /\ stage \in {"idle", "checking", "lex_init", "result"} => IsHeap(heap, {}, {})
  /\ stage = "scan_bytes" => IsHeap(heap, {"yyguts"}, {})
  /\ stage = "tokenize" => IsHeap(heap, Blocks, {"yy_buffer"})
  /\ stage = "lex_destroy" => IsHeap(heap, {"yyguts", "buffer_stack"}, {})

LEMMA HeapInitially == LexerInit => HeapInv
  BY DEF LexerInit, HeapInv, LexerStages, IsHeap, Heaps, EmptyHeap

\* What yylex and the loop around it read is live.
LEMMA HeapRead ==
  ASSUME HeapInv, stage = "tokenize", ReadsHeap
  PROVE  IsHeap(heap', Blocks, {"yy_buffer"})
<1>1. IsHeap(heap, Blocks, {"yy_buffer"})
  BY DEF HeapInv
<1>2. heap' = [heap EXCEPT !.misused = FALSE]
  <2>1. heap.live = Blocks /\ heap.misused = FALSE
    BY <1>1 DEF IsHeap, Heaps
  <2> QED
    BY <2>1 DEF ReadsHeap
<1> QED
  BY <1>1, <1>2 DEF IsHeap, Heaps

\* The functions that make the blocks and free them.
LEMMA HeapFunctions ==
  /\ \A in : IsHeap(in, {}, {}) => IsHeap(InitExtra(in), {"yyguts"}, {})
  /\ \A in : IsHeap(in, {"yyguts"}, {}) =>
       IsHeap(ScanBytesOf(in), Blocks, {"yy_buffer"})
  /\ \A in : IsHeap(in, Blocks, {"yy_buffer"}) =>
       IsHeap(DeleteBuffer(in), {"yyguts", "buffer_stack"}, {})
  /\ \A in : IsHeap(in, {"yyguts", "buffer_stack"}, {}) =>
       IsHeap(LexDestroy(in), {}, {})
  /\ \A in : IsHeap(in, {"yyguts"}, {}) => IsHeap(LexDestroy(in), {}, {})
<1>1. ASSUME NEW in, NEW live, NEW current, NEW blocks, NEW after,
             IsHeap(in, live, current), blocks \subseteq Blocks,
             after = live \cup blocks
      PROVE  IsHeap(Alloc(blocks, in), after, current)
  BY <1>1 DEF Alloc, IsHeap, Heaps
<1>2. ASSUME NEW in, NEW live, NEW current, NEW blocks, NEW after,
             IsHeap(in, live, current), blocks \subseteq live,
             after = live \ blocks
      PROVE  IsHeap(Free(blocks, in), after, current)
  <2>1. in.misused = FALSE /\ blocks \subseteq in.live
    BY <1>2 DEF IsHeap, Heaps
  <2>2. Free(blocks, in) = [in EXCEPT !.live = @ \ blocks, !.misused = FALSE]
    BY <2>1 DEF Free
  <2> QED
    BY <1>2, <2>2 DEF IsHeap, Heaps
<1>3. ASSUME NEW in, NEW live, NEW current, NEW after,
             IsHeap(in, live, current), after \subseteq Blocks
      PROVE  IsHeap([in EXCEPT !.current = after], live, after)
  BY <1>3 DEF IsHeap, Heaps
<1>4. ASSUME NEW in, IsHeap(in, {}, {})
      PROVE  IsHeap(InitExtra(in), {"yyguts"}, {})
  <2>1. {"yyguts"} = {} \cup {"yyguts"} /\ {"yyguts"} \subseteq Blocks
    BY DEF Blocks
  <2> QED
    BY <1>1, <1>4, <2>1, Zenon DEF InitExtra
<1>5. ASSUME NEW in, IsHeap(in, {"yyguts"}, {})
      PROVE  IsHeap(ScanBytesOf(in), Blocks, {"yy_buffer"})
  <2> DEFINE bytes == Alloc({"yy_ch_buf"}, in)
             buffer == Alloc({"yy_buffer"}, bytes)
             stack == Alloc({"buffer_stack"}, buffer)
  <2>1. IsHeap(bytes, {"yyguts", "yy_ch_buf"}, {})
    <3>1. /\ {"yyguts", "yy_ch_buf"} = {"yyguts"} \cup {"yy_ch_buf"}
          /\ {"yy_ch_buf"} \subseteq Blocks
      BY DEF Blocks
    <3> QED
      BY <1>1, <1>5, <3>1, Zenon
  <2>2. IsHeap(buffer, {"yyguts", "yy_ch_buf", "yy_buffer"}, {})
    <3>1. /\ {"yyguts", "yy_ch_buf", "yy_buffer"} =
               {"yyguts", "yy_ch_buf"} \cup {"yy_buffer"}
          /\ {"yy_buffer"} \subseteq Blocks
      BY DEF Blocks
    <3> HIDE DEF bytes
    <3> QED
      BY <1>1, <2>1, <3>1, Zenon
  <2>3. IsHeap(stack, Blocks, {})
    <3>1. /\ Blocks = {"yyguts", "yy_ch_buf", "yy_buffer"} \cup {"buffer_stack"}
          /\ {"buffer_stack"} \subseteq Blocks
      BY DEF Blocks
    <3> HIDE DEF buffer
    <3> QED
      BY <1>1, <2>2, <3>1, Zenon
  <2>4. IsHeap([stack EXCEPT !.current = {"yy_buffer"}], Blocks, {"yy_buffer"})
    <3>1. {"yy_buffer"} \subseteq Blocks
      BY DEF Blocks
    <3> HIDE DEF stack
    <3> QED
      BY <1>3, <2>3, <3>1, Zenon
  <2>5. ScanBytesOf(in) = [stack EXCEPT !.current = {"yy_buffer"}]
    BY DEF ScanBytesOf, ScanBuffer, SwitchToBuffer, EnsureBufferStack
  <2> QED
    BY <2>4, <2>5, Zenon
<1>6. ASSUME NEW in, IsHeap(in, Blocks, {"yy_buffer"})
      PROVE  IsHeap(DeleteBuffer(in), {"yyguts", "buffer_stack"}, {})
  <2>1. /\ {"yy_ch_buf", "yy_buffer"} \subseteq Blocks
        /\ {"yyguts", "buffer_stack"} = Blocks \ {"yy_ch_buf", "yy_buffer"}
        /\ {} \subseteq Blocks
    BY DEF Blocks
  <2>2. IsHeap(Free({"yy_ch_buf", "yy_buffer"}, in), {"yyguts", "buffer_stack"},
               {"yy_buffer"})
    BY <1>2, <1>6, <2>1, Zenon
  <2> QED
    BY <1>3, <2>1, <2>2, Zenon DEF DeleteBuffer
<1>7. ASSUME NEW live \in {{"yyguts", "buffer_stack"}, {"yyguts"}},
             NEW in, IsHeap(in, live, {})
      PROVE  IsHeap(LexDestroy(in), {}, {})
  <2> DEFINE stack == in.live \cap {"buffer_stack"}
             rest == live \ stack
  <2>1. in.live = live /\ in.current = {}
    BY <1>7, Zenon DEF IsHeap
  <2>2. /\ stack \subseteq live /\ {"yyguts"} \subseteq rest
        /\ rest \ {"yyguts"} = {}
    BY <2>1
  <2>3. LexDestroy(in) = Free({"yyguts"}, Free(stack, in))
    BY <2>1 DEF LexDestroy
  <2> HIDE DEF stack
  <2>4. IsHeap(Free(stack, in), rest, {})
    BY <1>2, <1>7, <2>2, Zenon
  <2> HIDE DEF rest
  <2>5. IsHeap(Free({"yyguts"}, Free(stack, in)), {}, {})
    BY <1>2, <2>2, <2>4, Zenon
  <2> QED
    BY <2>3, <2>5, Zenon
<1> QED
  BY <1>4, <1>5, <1>6, <1>7, Zenon

LEMMA HeapPreserved ==
  HeapInv /\ [Tokenize \/ \E string \in Strings : Call(string)]_allLexerVars => HeapInv'
<1> SUFFICES ASSUME HeapInv,
                    \/ Tokenize
                    \/ \E string \in Strings : Call(string)
                    \/ UNCHANGED allLexerVars
             PROVE  HeapInv'
  OBVIOUS
<1> USE DEF LexerStages
<1>1. ASSUME NEW string \in Strings, Call(string)
      PROVE  HeapInv'
  BY <1>1 DEF HeapInv, Call
<1>2. CASE RefuseString
  BY <1>2 DEF HeapInv, RefuseString, Answer
<1>3. CASE AcceptString
  BY <1>3 DEF HeapInv, AcceptString
<1>4. CASE InitScanner
  BY <1>4, HeapFunctions DEF HeapInv, InitScanner
<1>5. CASE FailScanner
  BY <1>5 DEF HeapInv, FailScanner, Answer
<1>6. CASE ScanBytes
  BY <1>6, HeapFunctions DEF HeapInv, ScanBytes
<1>7. CASE FailBuffer
  BY <1>7, HeapFunctions DEF HeapInv, FailBuffer, Answer
<1>8. CASE CallYylex \/ RunYylex \/ AddToken
  <2>1. stage = "tokenize" /\ stage' = "tokenize" /\ ReadsHeap
    BY <1>8 DEF CallYylex, RunYylex, AddToken
  <2>2. IsHeap(heap', Blocks, {"yy_buffer"})
    BY <2>1, HeapRead
  <2> QED
    BY <2>1, <2>2 DEF HeapInv
<1>9. CASE EndLoop
  BY <1>9, HeapFunctions DEF HeapInv, EndLoop
<1>10. CASE DestroyScanner
  BY <1>10, HeapFunctions DEF HeapInv, DestroyScanner
<1>11. CASE ThrowLimit \/ ReturnArray
  BY <1>11 DEF HeapInv, ThrowLimit, ReturnArray, Answer
<1>12. CASE UNCHANGED allLexerVars
  BY <1>12 DEF HeapInv, allLexerVars, lexerVars
<1> QED
  BY <1>1, <1>2, <1>3, <1>4, <1>5, <1>6, <1>7, <1>8, <1>9, <1>10, <1>11, <1>12
     DEF Tokenize

\* However a call of NativeLexer::tokenize ends, and however many there are:
\* no block of the scanner is freed twice, read after it was freed, or left
\* behind (native_lexer.c, the two functions that free buffers).
THEOREM HeapKept == LexerSpec => []HeapSound
<1>1. HeapInv => HeapSound
  <2> SUFFICES ASSUME HeapInv PROVE HeapSound
    OBVIOUS
  <2>1. {"yy_buffer"} \subseteq Blocks
    BY DEF Blocks
  <2> QED
    BY <2>1 DEF HeapInv, HeapSound, IsHeap, LexerStages
<1> QED
  BY <1>1, HeapInitially, HeapPreserved, PTL DEF LexerSpec

(***************************************************************************)
(* The automaton from one byte to another: the states it goes through.  A  *)
(* NUL that is part of a lexeme counts as any other byte.                  *)
(***************************************************************************)
GoesTo(at, class) == yy_transition[at, class]

Lexing == Behind \ {EndState, JamState}

ClassAt(text, p) == IF text[p + 1] # 0 THEN yy_ec[text[p + 1]] ELSE NulClass

Path(text, start, from, to, path) ==
  /\ path \in [from .. to -> ScannerStates]
  /\ path[from] = start
  /\ \A i \in from .. to - 1 : path[i + 1] = GoesTo(path[i], ClassAt(text, i))
  /\ \A i \in from + 1 .. to :
       path[i] \in Lexing /\ (path[i] \in BehindDigit => ClassAt(text, from) = Digits)

Reached(text, start, from, to, at) ==
  \E path : Path(text, start, from, to, path) /\ path[to] = at

\* A number or a chunk that ends here could not have been longer.
StopsAt(text, at, p) ==
  yy_accept[at] \in {ChunkRule, NumberRule} => ClassAt(text, p) \notin GoesOn

\* A rule matches the bytes up to p.
Matched(text, start, from, at, p) ==
  /\ p \in Nat /\ from < p /\ p + 2 <= Len(text)
  /\ yy_accept[at] # 0
  /\ Reached(text, start, from, p, at)
  /\ StopsAt(text, at, p)

\* The automaton stands behind a NUL it took for the end of the buffer.
BehindNul(text, start, from, at, p) ==
  /\ at = EndState
  /\ p \in Nat /\ from < p /\ p < Len(text)
  /\ text[p] = 0
  /\ \E before : Reached(text, start, from, p - 1, before)

\* What follows from the tables.
LEMMA StateFacts ==
  /\ StartStates \subseteq ScannerStates /\ Behind \subseteq ScannerStates
  /\ Lexing \subseteq ScannerStates /\ Lexing \subseteq Behind
  /\ StartStates \cap Behind = {} /\ StartStates \cap BehindDigit = {}
  /\ EndState \in ScannerStates /\ JamState \in ScannerStates /\ EndState \in Behind
  /\ EndState # JamState /\ EndState # 0 /\ 0 \notin Behind
  /\ yy_accept[EndState] = YY_END_OF_BUFFER /\ yy_accept[JamState] = 0
  /\ YY_END_OF_BUFFER # 0
  /\ \A s \in StartStates : yy_accept[s] = 0
  /\ \A s \in Lexing : yy_accept[s] \in 0 .. 15
<1>1. /\ StartStates = {1, 3} /\ Behind = 5 .. 35 /\ ScannerStates = 1 .. 35
      /\ EndState = 5 /\ JamState = 35 /\ YY_END_OF_BUFFER = 17
  BY SMT DEF StartStates, StartState, INITIAL, INVALID_UTF8, Behind, ScannerStates,
             EndState, JamState, YY_END_OF_BUFFER
<1>2. /\ StartStates \subseteq ScannerStates /\ Behind \subseteq ScannerStates
      /\ StartStates \cap Behind = {} /\ StartStates \cap BehindDigit = {}
      /\ EndState \in ScannerStates /\ JamState \in ScannerStates /\ EndState \in Behind
      /\ EndState # JamState /\ EndState # 0 /\ 0 \notin Behind
      /\ YY_END_OF_BUFFER # 0
  BY <1>1, SMT DEF BehindDigit
<1>3. Lexing \subseteq ScannerStates /\ Lexing \subseteq Behind
  BY <1>2, Zenon DEF Lexing
<1>4. /\ \A s \in ScannerStates : yy_accept[s] \in 0 .. 15 \cup {YY_END_OF_BUFFER}
      /\ \A s \in ScannerStates : yy_accept[s] = YY_END_OF_BUFFER <=> s = EndState
      /\ yy_accept[JamState] = 0
      /\ \A s \in StartStates : yy_accept[s] = 0
  BY AutomatonIsSound, Zenon
     DEF AutomatonSound, TablesAreTotal, BufferEndStops, EveryByteIsMatched
<1>5. yy_accept[EndState] = YY_END_OF_BUFFER
  BY <1>2, <1>4, Zenon
<1>6. ASSUME NEW s \in Lexing
      PROVE  yy_accept[s] \in 0 .. 15
  <2>1. s \in ScannerStates /\ s # EndState
    BY <1>3, Zenon DEF Lexing
  <2> QED
    BY <1>4, <2>1, Zenon
<1> QED
  BY <1>2, <1>3, <1>4, <1>5, <1>6, Zenon

LEMMA ClassFacts ==
  ASSUME NEW text \in Seq(Byte), NEW p \in Nat, p < Len(text)
  PROVE  /\ ClassAt(text, p) \in Classes /\ ClassAt(text, p) # 0
         /\ text[p + 1] \in Byte
         /\ text[p + 1] # 0 => yy_ec[text[p + 1]] = ClassAt(text, p)
         /\ text[p + 1] = 0 => yy_ec[text[p + 1]] = 0 /\ ClassAt(text, p) \notin GoesOn
<1>1. p + 1 \in 1 .. Len(text)
  BY SMT
<1>2. text[p + 1] \in Byte
  BY <1>1, ByteAt, Zenon
<1>3. /\ \A byte \in Byte : yy_ec[byte] \in Classes
      /\ \A byte \in Byte : yy_ec[byte] = 0 <=> byte = 0
  BY AutomatonIsSound, Zenon
     DEF AutomatonSound, TablesAreTotal, BufferEndStops, Byte, YY_END_OF_BUFFER_CHAR
<1>4. NulClass \in Classes /\ NulClass # 0 /\ NulClass \notin GoesOn
  BY SMT DEF NulClass, Classes, GoesOn, Digits, HighBytes
<1> QED
  BY <1>2, <1>3, <1>4, Zenon DEF ClassAt

LEMMA StepFacts ==
  ASSUME NEW s \in ScannerStates, NEW c \in Classes, NEW t, t = GoesTo(s, c)
  PROVE  /\ t \in Behind /\ t \in ScannerStates
         /\ c # 0 => t # EndState
         /\ c = 0 => t \in {EndState, JamState}
         /\ c # 0 /\ t # JamState => t \in Lexing
         /\ s = EndState => t = JamState
         /\ s \in StartStates => t # JamState /\ yy_accept[t] # 0
         /\ s \in Behind /\ c \in GoesOn /\ yy_accept[s] \in {ChunkRule, NumberRule} =>
              yy_accept[t] # 0
         /\ t \in BehindDigit => s \in BehindDigit \/ (s \notin Behind /\ c = Digits)
<1>1. /\ t \in Behind
      /\ c # 0 => t # EndState
      /\ c = 0 => t \in {EndState, JamState}
      /\ s = EndState => t = JamState
  BY AutomatonIsSound, Zenon DEF GoesTo, AutomatonSound, TablesAreTotal, BufferEndStops
<1>2. s \in StartStates => t # JamState /\ yy_accept[t] # 0
  BY AutomatonIsSound, Zenon DEF GoesTo, AutomatonSound, EveryByteIsMatched
<1>3. /\ s \in Behind /\ c \in GoesOn /\ yy_accept[s] \in {ChunkRule, NumberRule} =>
              yy_accept[t] # 0
      /\ t \in BehindDigit => s \in BehindDigit \/ (s \notin Behind /\ c = Digits)
  BY AutomatonIsSound, Zenon
     DEF GoesTo, AutomatonSound, NumbersAreGreedy, NumbersStartWithDigits
<1> QED
  BY <1>1, <1>2, <1>3, StateFacts, Zenon DEF Lexing

LEMMA ReachedStart ==
  ASSUME NEW text, NEW start \in StartStates, NEW from \in Nat
  PROVE  Reached(text, start, from, from, start)
<1> DEFINE path == [i \in from .. from |-> start]
<1>1. /\ from \in from .. from /\ from .. from - 1 = {} /\ from + 1 .. from = {}
      /\ start \in ScannerStates
  BY StateFacts, SMT
<1>2. Path(text, start, from, from, path)
  BY <1>1 DEF Path
<1>3. path[from] = start
  BY <1>1
<1> QED
  BY <1>2, <1>3, Zenon DEF Reached

LEMMA ReachedState ==
  ASSUME NEW text, NEW start, NEW from \in Nat, NEW to \in Nat, from <= to,
         NEW at, Reached(text, start, from, to, at)
  PROVE  /\ at \in ScannerStates
         /\ from = to => at = start
         /\ from < to =>
              at \in Lexing /\ (at \in BehindDigit => ClassAt(text, from) = Digits)
<1>1. PICK path : Path(text, start, from, to, path) /\ path[to] = at
  BY Zenon DEF Reached
<1>2. to \in from .. to /\ (from < to => to \in from + 1 .. to)
  BY SMT
<1>3. path \in [from .. to -> ScannerStates] /\ path[from] = start
  BY <1>1, Zenon DEF Path
<1>4. path[to] \in ScannerStates
  BY <1>2, <1>3
<1>5. \A i \in from + 1 .. to :
        path[i] \in Lexing /\ (path[i] \in BehindDigit => ClassAt(text, from) = Digits)
  BY <1>1, Zenon DEF Path
<1> QED
  BY <1>1, <1>2, <1>3, <1>4, <1>5, Zenon

LEMMA ReachedStep ==
  ASSUME NEW text \in Seq(Byte), NEW start \in StartStates,
         NEW from \in Nat, NEW to \in Nat, from <= to, to < Len(text),
         NEW at, Reached(text, start, from, to, at),
         NEW next, next = GoesTo(at, ClassAt(text, to)), next # JamState
  PROVE  Reached(text, start, from, to + 1, next)
<1>1. PICK path : Path(text, start, from, to, path) /\ path[to] = at
  BY Zenon DEF Reached
<1>2. /\ path \in [from .. to -> ScannerStates] /\ path[from] = start
      /\ \A i \in from .. to - 1 : path[i + 1] = GoesTo(path[i], ClassAt(text, i))
      /\ \A i \in from + 1 .. to :
           path[i] \in Lexing /\ (path[i] \in BehindDigit => ClassAt(text, from) = Digits)
  BY <1>1, Zenon DEF Path
<1>3. ClassAt(text, to) \in Classes /\ ClassAt(text, to) # 0
  BY ClassFacts, Zenon
<1>4. /\ at \in ScannerStates
      /\ from = to => at = start
      /\ from < to =>
           at \in Lexing /\ (at \in BehindDigit => ClassAt(text, from) = Digits)
  BY ReachedState, Zenon
<1>5. /\ next \in Lexing
      /\ next \in BehindDigit => at \in BehindDigit \/ (at \notin Behind /\ ClassAt(text, to) = Digits)
  <2> DEFINE c == ClassAt(text, to)
  <2>1. at \in ScannerStates /\ c \in Classes /\ c # 0 /\ next = GoesTo(at, c)
    BY <1>3, <1>4, Zenon
  <2> HIDE DEF c
  <2>2. /\ c # 0 /\ next # JamState => next \in Lexing
        /\ next \in BehindDigit => at \in BehindDigit \/ (at \notin Behind /\ c = Digits)
    BY <2>1, StepFacts, Zenon
  <2> QED
    BY <2>1, <2>2 DEF c
<1>6. next \in ScannerStates /\ Lexing \subseteq Behind
  BY <1>5, StateFacts, Zenon
<1>7. next \in BehindDigit => ClassAt(text, from) = Digits
  <2>1. CASE from = to
    <3>1. start \notin BehindDigit
      BY StateFacts, Zenon
    <3> QED
      BY <1>4, <1>5, <2>1, <3>1, Zenon
  <2>2. CASE from < to
    BY <1>4, <1>5, <1>6, <2>2, Zenon
  <2>3. from = to \/ from < to
    BY SMT
  <2> QED
    BY <2>1, <2>2, <2>3, Zenon
<1> DEFINE longer == [i \in from .. to + 1 |-> IF i = to + 1 THEN next ELSE path[i]]
<1>8. /\ to + 1 \in from .. to + 1 /\ from \in from .. to + 1 /\ from # to + 1
      /\ \A i \in from .. to + 1 : i # to + 1 => i \in from .. to
      /\ \A i \in from .. (to + 1) - 1 : i \in from .. to + 1 /\ i # to + 1
      /\ \A i \in from .. (to + 1) - 1 : i # to =>
           /\ i \in from .. to - 1 /\ i + 1 # to + 1 /\ i + 1 \in from .. to + 1
      /\ \A i \in from + 1 .. to + 1 : i \in from .. to + 1
      /\ \A i \in from + 1 .. to + 1 : i # to + 1 => i \in from + 1 .. to
  <2>1. to + 1 \in from .. to + 1 /\ from \in from .. to + 1 /\ from # to + 1
    BY SMT
  <2>2. /\ \A i \in from .. to + 1 : i # to + 1 => i \in from .. to
        /\ \A i \in from + 1 .. to + 1 : i \in from .. to + 1
        /\ \A i \in from + 1 .. to + 1 : i # to + 1 => i \in from + 1 .. to
    BY SMT
  <2>3. /\ \A i \in from .. (to + 1) - 1 : i \in from .. to + 1 /\ i # to + 1
        /\ \A i \in from .. (to + 1) - 1 : i # to => i \in from .. to - 1
    BY SMT
  <2>4. \A i \in from .. (to + 1) - 1 : i # to =>
          i + 1 # to + 1 /\ i + 1 \in from .. to + 1
    BY SMT
  <2> QED
    BY <2>1, <2>2, <2>3, <2>4
<1>9. longer \in [from .. to + 1 -> ScannerStates]
  BY <1>2, <1>6, <1>8
<1>10. longer[from] = start /\ longer[to + 1] = next
  BY <1>2, <1>8
<1>11. ASSUME NEW i \in from .. (to + 1) - 1
       PROVE  longer[i + 1] = GoesTo(longer[i], ClassAt(text, i))
  <2>1. longer[i] = path[i]
    BY <1>8
  <2>2. CASE i = to
    BY <1>1, <1>10, <2>1, <2>2
  <2>3. CASE i # to
    <3>1. longer[i + 1] = path[i + 1]
      BY <1>8, <2>3
    <3>2. i \in from .. to - 1
      BY <1>8, <2>3
    <3> QED
      BY <1>2, <2>1, <3>1, <3>2, Zenon
  <2> QED
    BY <2>2, <2>3
<1>12. ASSUME NEW i \in from + 1 .. to + 1
       PROVE  longer[i] \in Lexing /\ (longer[i] \in BehindDigit => ClassAt(text, from) = Digits)
  <2>1. CASE i = to + 1
    BY <1>5, <1>7, <1>10, <2>1
  <2>2. CASE i # to + 1
    <3>1. longer[i] = path[i] /\ i \in from + 1 .. to
      BY <1>8, <2>2
    <3> QED
      BY <1>2, <3>1, Zenon
  <2> QED
    BY <2>1, <2>2
<1> HIDE DEF longer
<1>13. Path(text, start, from, to + 1, longer)
  BY <1>9, <1>10, <1>11, <1>12, Zenon DEF Path
<1> QED
  BY <1>10, <1>13, Zenon DEF Reached

\* A number or a chunk that cannot go on is as long as it can be.
LEMMA StopsWhereJammed ==
  ASSUME NEW text, NEW at \in Behind, NEW p, ClassAt(text, p) \in Classes,
         yy_accept[GoesTo(at, ClassAt(text, p))] = 0
  PROVE  StopsAt(text, at, p)
<1>1. at \in ScannerStates
  BY StateFacts, Zenon
<1> DEFINE c == ClassAt(text, p)
<1>2. c \in Classes /\ yy_accept[GoesTo(at, c)] = 0
  OBVIOUS
<1> HIDE DEF c
<1>3. c \in GoesOn /\ yy_accept[at] \in {ChunkRule, NumberRule} =>
        yy_accept[GoesTo(at, c)] # 0
  BY <1>1, <1>2, StepFacts, Zenon
<1> QED
  BY <1>2, <1>3, Zenon DEF StopsAt, c

LEMMA Induction ==
  ASSUME NEW low \in Nat, NEW high \in Nat, NEW S,
         low \in S, \A i \in low .. high - 1 : i \in S => i + 1 \in S
  PROVE  \A i \in low .. high : i \in S
<1> DEFINE T == {i \in low .. high : i \notin S}
<1> SUFFICES ASSUME T # {} PROVE FALSE
  OBVIOUS
<1>1. T \subseteq Nat
  BY SMT
<1>2. PICK least \in T : \A i \in T : least <= i
  <2> HIDE DEF T
  <2> QED
    BY <1>1, LeastNumber
<1>3. least \in low .. high /\ least \notin S
  BY <1>2
<1>4. least # low
  BY <1>3
<1>5. least - 1 \in low .. high - 1 /\ least - 1 \in low .. high
  BY <1>3, <1>4, SMT
<1>6. least - 1 \notin T
  <2> HIDE DEF T
  <2> QED
    BY <1>2, <1>3, SMT
<1>7. least - 1 \in S
  BY <1>5, <1>6
<1>8. (least - 1) + 1 \in S
  BY <1>5, <1>7
<1>9. (least - 1) + 1 = least
  BY <1>3, SMT
<1> QED
  BY <1>3, <1>8, <1>9

(***************************************************************************)
(* yy_get_previous_state goes through the same states again, and remembers *)
(* a match unless the last of them is one.                                 *)
(***************************************************************************)
RunStart == [state |-> yy_start, last |-> << last_state, last_cpos >>]

RunStep(position, before) ==
  [state |-> yy_transition[before.state,
                           IF Restored[position] # 0 THEN yy_ec[Restored[position]]
                           ELSE NulClass],
   last  |-> IF yy_accept[before.state] # 0 THEN << before.state, position - 1 >>
             ELSE before.last]

IsRun(run, end) ==
  run = [position \in text_ptr .. end |->
           IF position = text_ptr THEN RunStart
           ELSE RunStep(position, run[position - 1])]

LEMMA RunExists ==
  ASSUME text_ptr \in Nat, NEW end \in Nat, text_ptr <= end
  PROVE  \E run : IsRun(run, end)
<1> DEFINE S == {k \in Nat : \E run : IsRun(run, k)}
<1>1. text_ptr \in S
  <2> DEFINE run == [position \in text_ptr .. text_ptr |-> RunStart]
  <2>1. \A position \in text_ptr .. text_ptr : position = text_ptr
    BY SMT
  <2>2. IsRun(run, text_ptr)
    BY <2>1, Zenon DEF IsRun
  <2> QED
    BY <2>2
<1>2. ASSUME NEW k \in text_ptr .. end - 1, k \in S
      PROVE  k + 1 \in S
  <2>1. PICK run : IsRun(run, k)
    BY <1>2
  <2> DEFINE longer == [position \in text_ptr .. k + 1 |->
                          IF position = k + 1 THEN RunStep(k + 1, run[k])
                          ELSE run[position]]
  <2>2. /\ k \in Nat /\ k + 1 \in Nat /\ (k + 1) - 1 = k /\ k + 1 # text_ptr /\ k # k + 1
        /\ k \in text_ptr .. k + 1 /\ text_ptr # k + 1
    BY SMT
  <2>3. \A position \in text_ptr .. k + 1 : position # k + 1 => position \in text_ptr .. k
    BY <2>2, SMT
  <2>4. \A position \in text_ptr .. k + 1 : position # k + 1 /\ position # text_ptr =>
          position - 1 \in text_ptr .. k + 1 /\ position - 1 # k + 1
    BY <2>2, SMT
  <2>5. ASSUME NEW position \in text_ptr .. k + 1
        PROVE  longer[position] = IF position = text_ptr THEN RunStart
                                  ELSE RunStep(position, longer[position - 1])
    <3>1. CASE position = k + 1
      <4>1. longer[k] = run[k]
        BY <2>2
      <4>2. longer[position] = RunStep(k + 1, run[k])
        BY <3>1
      <4> HIDE DEF longer
      <4> QED
        BY <2>2, <3>1, <4>1, <4>2, Zenon
    <3>2. CASE position # k + 1
      <4>1. position \in text_ptr .. k /\ longer[position] = run[position]
        BY <2>3, <3>2
      <4>2. run[position] = IF position = text_ptr THEN RunStart
                            ELSE RunStep(position, run[position - 1])
        BY <2>1, <4>1, Zenon DEF IsRun
      <4>3. position # text_ptr => longer[position - 1] = run[position - 1]
        BY <2>4, <3>2
      <4> HIDE DEF longer
      <4> QED
        BY <4>1, <4>2, <4>3, Zenon
    <3> QED
      BY <3>1, <3>2
  <2>6. longer = [position \in text_ptr .. k + 1 |-> longer[position]]
    BY Zenon
  <2> HIDE DEF longer
  <2>7. IsRun(longer, k + 1)
    BY <2>5, <2>6, Zenon DEF IsRun
  <2> QED
    BY <2>2, <2>7
<1> HIDE DEF S
<1>3. \A k \in text_ptr .. end : k \in S
  BY <1>1, <1>2, Induction
<1>4. end \in text_ptr .. end
  BY SMT
<1> QED
  BY <1>3, <1>4 DEF S

LEMMA PreviousRun ==
  ASSUME text_ptr \in Nat, NEW end \in Nat, text_ptr <= end
  PROVE  \E run : IsRun(run, end) /\ PreviousState(end) = run[end]
<1> DEFINE class(position) ==
             IF Restored[position] # 0 THEN yy_ec[Restored[position]] ELSE NulClass
           run[position \in text_ptr .. end] ==
             IF position = text_ptr
             THEN [state |-> yy_start, last |-> << last_state, last_cpos >>]
             ELSE LET before == run[position - 1]
                  IN  [state |-> yy_transition[before.state, class(position)],
                       last  |-> IF yy_accept[before.state] # 0
                                 THEN << before.state, position - 1 >>
                                 ELSE before.last]
<1>1. PreviousState(end) = run[end]
  BY DEF PreviousState
<1>2. IsRun(run, end)
  BY RunExists, Zenon DEF IsRun, RunStart, RunStep
<1> HIDE DEF run
<1> QED
  BY <1>1, <1>2, Zenon

LEMMA RunStepFields ==
  ASSUME NEW text, Restored = text, NEW position \in Int, NEW before
  PROVE  /\ RunStep(position + 1, before).state =
              GoesTo(before.state, ClassAt(text, position))
         /\ RunStep(position + 1, before).last =
              IF yy_accept[before.state] # 0 THEN << before.state, position >>
              ELSE before.last
<1>1. (position + 1) - 1 = position
  BY SMT
<1>2. RunStep(position + 1, before).state =
        yy_transition[before.state, IF Restored[position + 1] # 0
                                    THEN yy_ec[Restored[position + 1]] ELSE NulClass]
  BY DEF RunStep
<1>3. RunStep(position + 1, before).last =
        IF yy_accept[before.state] # 0 THEN << before.state, (position + 1) - 1 >>
        ELSE before.last
  BY DEF RunStep
<1> QED
  BY <1>1, <1>2, <1>3, Zenon DEF GoesTo, ClassAt

LEMMA ReachedPrefix ==
  ASSUME NEW text, NEW start, NEW from \in Nat, NEW to \in Nat,
         NEW path, Path(text, start, from, to, path), NEW k \in from .. to
  PROVE  Reached(text, start, from, k, path[k])
<1> DEFINE prefix == [i \in from .. k |-> path[i]]
<1>1. /\ path \in [from .. to -> ScannerStates] /\ path[from] = start
      /\ \A i \in from .. to - 1 : path[i + 1] = GoesTo(path[i], ClassAt(text, i))
      /\ \A i \in from + 1 .. to :
           path[i] \in Lexing /\ (path[i] \in BehindDigit => ClassAt(text, from) = Digits)
  BY Zenon DEF Path
<1>2. /\ k \in from .. k /\ from \in from .. k
      /\ \A i \in from .. k : i \in from .. to
      /\ \A i \in from + 1 .. k : i \in from .. k /\ i \in from + 1 .. to
      /\ \A i \in from .. k - 1 : i \in from .. k /\ i + 1 \in from .. k /\ i \in from .. to - 1
  BY SMT
<1>3. prefix \in [from .. k -> ScannerStates]
  BY <1>1, <1>2
<1>4. \A i \in from .. k : prefix[i] = path[i]
  OBVIOUS
<1> HIDE DEF prefix
<1>5. Path(text, start, from, k, prefix)
  BY <1>1, <1>2, <1>3, <1>4, Zenon DEF Path
<1> QED
  BY <1>2, <1>4, <1>5, Zenon DEF Reached

\* A byte after which a match is remembered, or goes on in one.
LEMMA Remembered ==
  ASSUME NEW text \in Seq(Byte), NEW start \in StartStates,
         NEW from \in Nat, NEW p \in Nat, from <= p, p + 2 <= Len(text),
         NEW at, Reached(text, start, from, p, at),
         NEW last, NEW lastp,
         from < p => yy_accept[at] # 0 \/ Matched(text, start, from, last, lastp)
  PROVE  \/ yy_accept[GoesTo(at, ClassAt(text, p))] # 0
         \/ IF yy_accept[at] # 0 THEN Matched(text, start, from, at, p)
            ELSE Matched(text, start, from, last, lastp)
<1>1. ClassAt(text, p) \in Classes
  <2>1. p < Len(text)
    BY SMT
  <2> QED
    BY <2>1, ClassFacts, Zenon
<1>2. /\ at \in ScannerStates
      /\ from = p => at = start
      /\ from < p => at \in Lexing
  BY ReachedState, SMT
<1> SUFFICES ASSUME yy_accept[GoesTo(at, ClassAt(text, p))] = 0
             PROVE  IF yy_accept[at] # 0 THEN Matched(text, start, from, at, p)
                    ELSE Matched(text, start, from, last, lastp)
  OBVIOUS
<1>3. from # p
  <2> SUFFICES ASSUME from = p PROVE FALSE
    OBVIOUS
  <2> DEFINE c == ClassAt(text, p)
  <2>1. at \in StartStates /\ c \in Classes /\ at \in ScannerStates
    BY <1>1, <1>2, Zenon
  <2> HIDE DEF c
  <2>2. yy_accept[GoesTo(at, c)] # 0
    BY <2>1, StepFacts, Zenon
  <2> QED
    BY <2>2 DEF c
<1>4. from < p
  BY <1>3, SMT
<1>5. CASE yy_accept[at] # 0
  <2>1. at \in Behind
    BY <1>2, <1>4, StateFacts, Zenon
  <2>2. StopsAt(text, at, p)
    BY <1>1, <2>1, StopsWhereJammed, Zenon
  <2>3. Matched(text, start, from, at, p)
    BY <1>4, <1>5, <2>2, Zenon DEF Matched
  <2> QED
    BY <1>5, <2>3, Zenon
<1>6. CASE ~ (yy_accept[at] # 0)
  BY <1>4, <1>6, Zenon
<1> QED
  BY <1>5, <1>6, Zenon

LEMMA Rerun ==
  ASSUME NEW text \in Seq(Byte), Restored = text,
         yy_start \in StartStates, text_ptr \in Nat,
         NEW end \in Nat, text_ptr <= end, end + 2 <= Len(text),
         NEW at, Reached(text, yy_start, text_ptr, end, at)
  PROVE  /\ PreviousState(end).state = at
         /\ text_ptr < end =>
              \/ yy_accept[at] # 0
              \/ Matched(text, yy_start, text_ptr, PreviousState(end).last[1],
                         PreviousState(end).last[2])
<1>1. PICK path : Path(text, yy_start, text_ptr, end, path) /\ path[end] = at
  BY Zenon DEF Reached
<1>2. PICK run : IsRun(run, end) /\ PreviousState(end) = run[end]
  BY PreviousRun, Zenon
<1>3. /\ path[text_ptr] = yy_start
      /\ \A i \in text_ptr .. end - 1 : path[i + 1] = GoesTo(path[i], ClassAt(text, i))
  BY <1>1, Zenon DEF Path
<1>4. /\ run[text_ptr] = RunStart
      /\ \A i \in text_ptr .. end - 1 : run[i + 1] = RunStep(i + 1, run[i])
  <2>1. \A position \in text_ptr .. end :
          run[position] = IF position = text_ptr THEN RunStart
                          ELSE RunStep(position, run[position - 1])
    BY <1>2, Zenon DEF IsRun
  <2>2. text_ptr \in text_ptr .. end
    BY SMT
  <2>3. \A i \in text_ptr .. end - 1 :
          i + 1 \in text_ptr .. end /\ i + 1 # text_ptr /\ (i + 1) - 1 = i
    BY SMT
  <2> QED
    BY <2>1, <2>2, <2>3
<1> DEFINE Same(i) == /\ run[i].state = path[i]
                      /\ text_ptr < i =>
                           \/ yy_accept[path[i]] # 0
                           \/ Matched(text, yy_start, text_ptr, run[i].last[1], run[i].last[2])
           S == {i \in Nat : Same(i)}
<1>5. Same(text_ptr)
  <2>1. RunStart.state = yy_start
    BY DEF RunStart
  <2>2. ~ (text_ptr < text_ptr)
    BY SMT
  <2> QED
    BY <1>3, <1>4, <2>1, <2>2, Zenon
<1>6. ASSUME NEW i \in text_ptr .. end - 1, Same(i)
      PROVE  Same(i + 1)
  <2>1. /\ i \in Nat /\ i + 1 \in Nat /\ text_ptr <= i /\ i + 2 <= Len(text)
        /\ i < Len(text) /\ i \in text_ptr .. end /\ (i + 1) - 1 = i
    BY SMT
  <2>2. Reached(text, yy_start, text_ptr, i, path[i])
    BY <1>1, <2>1, ReachedPrefix, Zenon
  <2>3. run[i + 1] = RunStep(i + 1, run[i]) /\ run[i].state = path[i]
    BY <1>4, <1>6, Zenon
  <2>4. i \in Int
    BY SMT
  <2>r. /\ run[i + 1].state = GoesTo(path[i], ClassAt(text, i))
        /\ run[i + 1].last =
             IF yy_accept[path[i]] # 0 THEN << path[i], i >> ELSE run[i].last
    <3>1. /\ RunStep(i + 1, run[i]).state = GoesTo(run[i].state, ClassAt(text, i))
          /\ RunStep(i + 1, run[i]).last =
               IF yy_accept[run[i].state] # 0 THEN << run[i].state, i >> ELSE run[i].last
      BY <2>4, RunStepFields, Zenon
    <3> QED
      BY <2>3, <3>1, Zenon
  <2>s. run[i + 1].state = path[i + 1]
    BY <1>3, <2>r, Zenon
  <2>5. \/ yy_accept[path[i + 1]] # 0
        \/ IF yy_accept[path[i]] # 0 THEN Matched(text, yy_start, text_ptr, path[i], i)
           ELSE Matched(text, yy_start, text_ptr, run[i].last[1], run[i].last[2])
    <3>1. path[i + 1] = GoesTo(path[i], ClassAt(text, i))
      BY <1>3, Zenon
    <3> DEFINE last == run[i].last[1]
               lastp == run[i].last[2]
    <3>2. text_ptr < i => yy_accept[path[i]] # 0 \/ Matched(text, yy_start, text_ptr, last, lastp)
      BY <1>6, Zenon
    <3> HIDE DEF last, lastp, Same
    <3>3. \/ yy_accept[GoesTo(path[i], ClassAt(text, i))] # 0
          \/ IF yy_accept[path[i]] # 0 THEN Matched(text, yy_start, text_ptr, path[i], i)
             ELSE Matched(text, yy_start, text_ptr, last, lastp)
      BY <2>1, <2>2, <3>2, Remembered, Zenon
    <3> QED
      BY <3>1, <3>3, Zenon DEF last, lastp
  <2>6. CASE yy_accept[path[i]] # 0
    <3>1. run[i + 1].last[1] = path[i] /\ run[i + 1].last[2] = i
      BY <2>r, <2>6
    <3> QED
      BY <2>s, <2>5, <2>6, <3>1, Zenon
  <2>7. CASE ~ (yy_accept[path[i]] # 0)
    <3>1. run[i + 1].last = run[i].last
      BY <2>r, <2>7
    <3> QED
      BY <2>s, <2>5, <2>7, <3>1, Zenon
  <2> QED
    BY <2>6, <2>7
<1> HIDE DEF Same
<1>7. text_ptr \in S /\ \A i \in text_ptr .. end - 1 : i \in S => i + 1 \in S
  <2>1. \A i \in text_ptr .. end - 1 : i + 1 \in Nat
    BY SMT
  <2> QED
    BY <1>5, <1>6, <2>1
<1> HIDE DEF S
<1>8. \A i \in text_ptr .. end : i \in S
  BY <1>7, Induction, Zenon
<1>9. end \in text_ptr .. end
  BY SMT
<1>10. Same(end)
  BY <1>8, <1>9 DEF S
<1> QED
  BY <1>1, <1>2, <1>10, Zenon DEF Same

(***************************************************************************)
(* yy_match: what it has seen so far, and what it leaves to the rules.     *)
(***************************************************************************)
Lexed(text, start, from, at, p, last, lastp) ==
  \/ /\ p \in Nat /\ from <= p /\ p + 2 <= Len(text)
     /\ Reached(text, start, from, p, at)
     /\ from < p => yy_accept[at] # 0 \/ Matched(text, start, from, last, lastp)
  \/ BehindNul(text, start, from, at, p)

Overrun(text, start, from, at, p, last, lastp) ==
  /\ p \in Nat /\ from < p /\ p + 2 <= Len(text)
  /\ yy_accept[at] = 0
  /\ Reached(text, start, from, p, at)
  /\ Matched(text, start, from, last, lastp)

Found(text, start, from, at, p, last, lastp) ==
  \/ Matched(text, start, from, at, p)
  \/ BehindNul(text, start, from, at, p)
  \/ Overrun(text, start, from, at, p, last, lastp)

SeenFrom(text, at, p) == yy_transition[at, yy_ec[text[p + 1]]]

\* What MatchNext and MatchEnd remember.
IsRemembered(at, p, last, lastp, l, lp) ==
  /\ yy_accept[at] # 0 => l = at /\ lp = p
  /\ yy_accept[at] = 0 => l = last /\ lp = lastp

IsBuffer(text) ==
  /\ text \in Seq(Byte) /\ Len(text) >= 2
  /\ text[Len(text) - 1] = 0

\* What flex calls an accepting state is one that a rule or the end of the
\* buffer accepts: the match ends behind it, or goes on.
LEMMA MatchMoves ==
  ASSUME NEW text, IsBuffer(text), NEW start \in StartStates, NEW from \in Nat,
         NEW at, NEW p, NEW last, NEW lastp,
         Lexed(text, start, from, at, p, last, lastp),
         NEW l, NEW lp, IsRemembered(at, p, last, lastp, l, lp),
         NEW seen, seen = SeenFrom(text, at, p)
  PROVE  /\ seen # JamState => Lexed(text, start, from, seen, p + 1, l, lp)
         /\ seen = JamState =>
              \/ Matched(text, start, from, l, lp)
              \/ BehindNul(text, start, from, l, lp)
<1>0. text \in Seq(Byte) /\ Len(text) \in Nat
  BY SMT DEF IsBuffer
<1>1. CASE BehindNul(text, start, from, at, p)
  <2>1. at = EndState /\ p \in Nat /\ p < Len(text)
    BY <1>1, Zenon DEF BehindNul
  <2>2. l = at /\ lp = p
    BY <2>1, StateFacts, Zenon DEF IsRemembered
  <2> DEFINE c == yy_ec[text[p + 1]]
  <2>3. c \in Classes
    <3>1. 0 \in Classes
      BY SMT DEF Classes
    <3> QED
      BY <1>0, <2>1, <3>1, ClassFacts, Zenon
  <2>4. seen = GoesTo(at, c)
    BY Zenon DEF SeenFrom, GoesTo
  <2> HIDE DEF c
  <2>5. seen = JamState
    BY <2>1, <2>3, <2>4, StateFacts, StepFacts, Zenon
  <2> QED
    BY <1>1, <2>2, <2>5, Zenon
<1>2. CASE /\ p \in Nat /\ from <= p /\ p + 2 <= Len(text)
           /\ Reached(text, start, from, p, at)
           /\ from < p => yy_accept[at] # 0 \/ Matched(text, start, from, last, lastp)
  <2>1. p < Len(text) /\ p + 1 \in Nat /\ from < p + 1
    BY <1>0, <1>2, SMT
  <2>2. /\ at \in ScannerStates
        /\ from = p => at = start
        /\ from < p => at \in Lexing
    BY <1>2, ReachedState, SMT
  <2>3. /\ ClassAt(text, p) \in Classes /\ ClassAt(text, p) # 0
        /\ text[p + 1] # 0 => yy_ec[text[p + 1]] = ClassAt(text, p)
        /\ text[p + 1] = 0 => yy_ec[text[p + 1]] = 0 /\ ClassAt(text, p) \notin GoesOn
    BY <1>0, <1>2, <2>1, ClassFacts, Zenon
  <2>4. 0 \in Classes
    BY SMT DEF Classes
  <2>5. from = p =>
          seen # JamState /\ yy_accept[seen] # 0
    <3> SUFFICES ASSUME from = p PROVE seen # JamState /\ yy_accept[seen] # 0
      OBVIOUS
    <3> DEFINE c == yy_ec[text[p + 1]]
    <3>1. c \in Classes /\ at \in StartStates /\ seen = GoesTo(at, c)
      BY <2>2, <2>3, <2>4, Zenon DEF SeenFrom, GoesTo
    <3> HIDE DEF c
    <3> QED
      BY <2>2, <3>1, StepFacts, Zenon
  <2>6. ASSUME text[p + 1] # 0
        PROVE  /\ seen = GoesTo(at, ClassAt(text, p))
               /\ seen # JamState => Lexed(text, start, from, seen, p + 1, l, lp)
    <3>1. seen = GoesTo(at, ClassAt(text, p))
      BY <2>3, <2>6, Zenon DEF SeenFrom, GoesTo
    <3>2. p + 1 + 2 <= Len(text)
      <4>1. p + 1 # Len(text) - 1
        BY <2>6 DEF IsBuffer
      <4> QED
        BY <1>0, <1>2, <4>1, SMT
    <3> SUFFICES ASSUME seen # JamState
                 PROVE  Lexed(text, start, from, seen, p + 1, l, lp)
      BY <3>1
    <3>3. Reached(text, start, from, p + 1, seen)
      BY <1>0, <1>2, <2>1, <3>1, ReachedStep, Zenon
    <3>4. yy_accept[seen] # 0 \/ Matched(text, start, from, l, lp)
      <4>1. \/ yy_accept[seen] # 0
            \/ IF yy_accept[at] # 0 THEN Matched(text, start, from, at, p)
               ELSE Matched(text, start, from, last, lastp)
        BY <1>0, <1>2, <3>1, Remembered, Zenon
      <4> QED
        BY <4>1, Zenon DEF IsRemembered
    <3>5. from <= p + 1
      BY <1>2, SMT
    <3> QED
      BY <2>1, <3>2, <3>3, <3>4, <3>5, Zenon DEF Lexed
  <2>7. ASSUME text[p + 1] = 0, seen # JamState
        PROVE  Lexed(text, start, from, seen, p + 1, l, lp)
    <3> DEFINE c == yy_ec[text[p + 1]]
    <3>1. c = 0 /\ c \in Classes /\ seen = GoesTo(at, c)
      BY <2>3, <2>4, <2>7, Zenon DEF SeenFrom, GoesTo
    <3> HIDE DEF c
    <3>2. seen \in {EndState, JamState}
      BY <2>2, <3>1, StepFacts, Zenon
    <3>3. p + 1 < Len(text) /\ (p + 1) - 1 = p
      BY <1>0, <1>2, SMT
    <3>4. BehindNul(text, start, from, seen, p + 1)
      BY <1>2, <2>1, <2>7, <3>2, <3>3, Zenon DEF BehindNul
    <3> QED
      BY <3>4, Zenon DEF Lexed
  <2>8. ASSUME seen = JamState
        PROVE  Matched(text, start, from, l, lp)
    <3>1. from # p /\ from < p
      BY <1>2, <2>5, <2>8, SMT
    <3>2. yy_accept[JamState] = 0
      BY StateFacts, Zenon
    <3>3. CASE yy_accept[at] = 0
      BY <1>2, <3>1, <3>3, Zenon DEF IsRemembered
    <3>4. CASE yy_accept[at] # 0
      <4>1. StopsAt(text, at, p)
        <5>1. CASE text[p + 1] # 0
          <6>1. yy_accept[GoesTo(at, ClassAt(text, p))] = 0
            BY <2>6, <2>8, <3>2, <5>1, Zenon
          <6>2. at \in Behind
            BY <2>2, <3>1, StateFacts, Zenon
          <6> QED
            BY <2>3, <6>1, <6>2, StopsWhereJammed, Zenon
        <5>2. CASE text[p + 1] = 0
          BY <2>3, <5>2, Zenon DEF StopsAt
        <5> QED
          BY <5>1, <5>2, Zenon
      <4>2. Matched(text, start, from, at, p)
        BY <1>2, <3>1, <3>4, <4>1, Zenon DEF Matched
      <4> QED
        BY <3>4, <4>2, Zenon DEF IsRemembered
    <3> QED
      BY <3>3, <3>4, Zenon
  <2> QED
    BY <2>6, <2>7, <2>8, Zenon
<1> QED
  BY <1>1, <1>2, Zenon DEF Lexed

(***************************************************************************)
(* Behind a NUL: what was matched before it is found again, and the NUL is *)
(* taken as a byte of the text, or the match before it.                    *)
(***************************************************************************)
LEMMA NulRerun ==
  ASSUME NEW text, IsBuffer(text), Restored = text,
         yy_start \in StartStates, text_ptr \in Nat,
         BehindNul(text, yy_start, text_ptr, state, cp),
         NEW end, end = cp - 1
  PROVE  /\ end \in Nat /\ text_ptr <= end /\ end + 2 <= Len(text) /\ end < Len(text)
         /\ end + 1 = cp
         /\ ClassAt(text, end) = NulClass /\ ClassAt(text, end) \notin GoesOn
         /\ NulClass \in Classes
         /\ Reached(text, yy_start, text_ptr, end, PreviousState(end).state)
         /\ text_ptr < end =>
              \/ yy_accept[PreviousState(end).state] # 0
              \/ Matched(text, yy_start, text_ptr, PreviousState(end).last[1],
                         PreviousState(end).last[2])
<1>1. /\ cp \in Nat /\ text_ptr < cp /\ cp < Len(text) /\ text[cp] = 0
  BY Zenon DEF BehindNul
<1>2. text \in Seq(Byte) /\ Len(text) \in Nat
  BY SMT DEF IsBuffer
<1>3. /\ end \in Nat /\ text_ptr <= end /\ end + 2 <= Len(text) /\ end < Len(text)
      /\ end + 1 = cp
  BY <1>1, <1>2, SMT
<1>4. text[end + 1] = 0
  BY <1>1, <1>3, Zenon
<1>5. ClassAt(text, end) = NulClass
  BY <1>4, Zenon DEF ClassAt
<1>6. ClassAt(text, end) \notin GoesOn /\ ClassAt(text, end) \in Classes
  BY <1>2, <1>3, <1>4, ClassFacts, Zenon
<1>7. PICK at : Reached(text, yy_start, text_ptr, end, at)
  BY Zenon DEF BehindNul
<1>8. /\ PreviousState(end).state = at
      /\ text_ptr < end =>
           \/ yy_accept[at] # 0
           \/ Matched(text, yy_start, text_ptr, PreviousState(end).last[1],
                      PreviousState(end).last[2])
  BY <1>2, <1>3, <1>7, Rerun, Zenon
<1> QED
  BY <1>3, <1>5, <1>6, <1>7, <1>8, Zenon

LEMMA NulMoves ==
  ASSUME NEW text, IsBuffer(text), Restored = text,
         yy_start \in StartStates, text_ptr \in Nat,
         BehindNul(text, yy_start, text_ptr, state, cp),
         MatchedEnd = cp - 1, cp + 2 <= Len(text)
  PROVE  /\ NulState # JamState =>
              Lexed(text, yy_start, text_ptr, NulState, MatchedEnd + 1, NulLast[1], NulLast[2])
         /\ NulState = JamState =>
              Matched(text, yy_start, text_ptr, NulLast[1], NulLast[2])
<1> DEFINE end == cp - 1
           at == PreviousState(end).state
           last == PreviousState(end).last[1]
           lastp == PreviousState(end).last[2]
<1>1. /\ end \in Nat /\ text_ptr <= end /\ end + 2 <= Len(text) /\ end < Len(text)
      /\ end + 1 = cp
      /\ ClassAt(text, end) = NulClass /\ ClassAt(text, end) \notin GoesOn
      /\ NulClass \in Classes
      /\ Reached(text, yy_start, text_ptr, end, at)
      /\ text_ptr < end =>
           yy_accept[at] # 0 \/ Matched(text, yy_start, text_ptr, last, lastp)
  BY NulRerun, Zenon
<1>2. /\ NulState = GoesTo(at, ClassAt(text, end))
      /\ yy_accept[at] # 0 => NulLast = << at, end >>
      /\ ~ (yy_accept[at] # 0) => NulLast = PreviousState(end).last
  <2>1. Previous = PreviousState(end)
    BY Zenon DEF Previous
  <2> HIDE DEF end
  <2> QED
    BY <1>1, <2>1, Zenon DEF NulState, NulLast, GoesTo, end
<1>3. yy_accept[at] # 0 => NulLast[1] = at /\ NulLast[2] = end
  BY <1>2
<1>4. ~ (yy_accept[at] # 0) => NulLast[1] = last /\ NulLast[2] = lastp
  BY <1>2, Zenon
<1>5. text \in Seq(Byte) /\ Len(text) \in Nat
  BY SMT DEF IsBuffer
<1>c. cp \in Nat /\ cp + 2 <= Len(text) /\ text_ptr <= cp /\ MatchedEnd + 1 = cp
  BY <1>1, SMT
<1> HIDE DEF end, at, last, lastp
<1>6. \/ yy_accept[NulState] # 0
      \/ IF yy_accept[at] # 0 THEN Matched(text, yy_start, text_ptr, at, end)
         ELSE Matched(text, yy_start, text_ptr, last, lastp)
  BY <1>1, <1>2, <1>5, Remembered, Zenon
<1>7. yy_accept[NulState] # 0 \/ Matched(text, yy_start, text_ptr, NulLast[1], NulLast[2])
  BY <1>3, <1>4, <1>6, Zenon
<1>8. ASSUME NulState # JamState
      PROVE  Lexed(text, yy_start, text_ptr, NulState, cp, NulLast[1], NulLast[2])
  <2>1. Reached(text, yy_start, text_ptr, end + 1, NulState)
    BY <1>1, <1>2, <1>5, <1>8, ReachedStep, Zenon
  <2>2. Reached(text, yy_start, text_ptr, cp, NulState)
    BY <1>1, <2>1, Zenon
  <2> QED
    BY <1>7, <1>c, <2>2, Zenon DEF Lexed
<1>9. yy_accept[JamState] = 0
  BY StateFacts, Zenon
<1> QED
  BY <1>7, <1>8, <1>9, <1>c, Zenon

LEMMA LastMoves ==
  ASSUME NEW text, IsBuffer(text), Restored = text,
         yy_start \in StartStates, text_ptr \in Nat,
         BehindNul(text, yy_start, text_ptr, state, cp),
         NEW end, end = cp - 1, text_ptr < end
  PROVE  Found(text, yy_start, text_ptr, PreviousState(end).state, end,
               PreviousState(end).last[1], PreviousState(end).last[2])
<1> DEFINE at == PreviousState(end).state
           last == PreviousState(end).last[1]
           lastp == PreviousState(end).last[2]
<1>1. /\ end \in Nat /\ end + 2 <= Len(text)
      /\ ClassAt(text, end) \notin GoesOn
      /\ Reached(text, yy_start, text_ptr, end, at)
      /\ yy_accept[at] # 0 \/ Matched(text, yy_start, text_ptr, last, lastp)
  BY NulRerun, Zenon
<1> HIDE DEF at, last, lastp
<1>2. CASE yy_accept[at] # 0
  <2>1. StopsAt(text, at, end)
    BY <1>1, Zenon DEF StopsAt
  <2>2. Matched(text, yy_start, text_ptr, at, end)
    BY <1>1, <1>2, <2>1, Zenon DEF Matched
  <2> QED
    BY <2>2, Zenon DEF Found, at, last, lastp
<1>3. CASE yy_accept[at] = 0
  <2>1. Overrun(text, yy_start, text_ptr, at, end, last, lastp)
    BY <1>1, <1>3, Zenon DEF Overrun
  <2> QED
    BY <2>1, Zenon DEF Found, at, last, lastp
<1> QED
  BY <1>2, <1>3, Zenon

\* What a rule has matched: its action, and a digit where a number starts.
LEMMA RuleMatched ==
  ASSUME NEW text, NEW start, NEW from \in Nat, NEW at, NEW p,
         Matched(text, start, from, at, p)
  PROVE  /\ at \in Lexing /\ at # 0 /\ at # EndState
         /\ yy_accept[at] \in 1 .. 15
         /\ yy_accept[at] = NumberRule => ClassAt(text, from) = Digits
<1>1. /\ p \in Nat /\ from < p /\ yy_accept[at] # 0 /\ Reached(text, start, from, p, at)
  BY Zenon DEF Matched
<1>2. from <= p
  BY <1>1, SMT
<1>3. /\ at \in ScannerStates /\ at \in Lexing
      /\ at \in BehindDigit => ClassAt(text, from) = Digits
  BY <1>1, <1>2, ReachedState, Zenon
<1>4. at # 0 /\ at # EndState /\ yy_accept[at] \in 0 .. 15
  BY <1>3, StateFacts, Zenon DEF Lexing
<1>5. yy_accept[at] \in 1 .. 15
  BY <1>1, <1>4, SMT
<1>6. yy_accept[at] = NumberRule => at \in BehindDigit
  BY <1>3, AutomatonIsSound, Zenon DEF AutomatonSound, NumbersStartWithDigits
<1> QED
  BY <1>3, <1>4, <1>5, <1>6, Zenon

(***************************************************************************)
(* The buffer, and the byte that is taken out of it and put back.          *)
(***************************************************************************)
LEMMA BufferFacts ==
  ASSUME input \in Seq(Byte)
  PROVE  /\ IsBuffer(Buffer) /\ Buffer \in Seq(Byte)
         /\ Len(Buffer) = Len(input) + 2 /\ Len(input) \in Nat
         /\ \A i \in 1 .. Len(input) : Buffer[i] = input[i]
         /\ Buffer[Len(input) + 1] = 0 /\ Buffer[Len(input) + 2] = 0
<1> DEFINE nuls == << YY_END_OF_BUFFER_CHAR, YY_END_OF_BUFFER_CHAR >>
<1>1. Len(input) \in Nat
  BY SMT
<1>2. /\ nuls \in Seq(Byte) /\ Len(nuls) = 2 /\ nuls[1] = 0 /\ nuls[2] = 0
  BY SMT DEF YY_END_OF_BUFFER_CHAR, Byte
<1> HIDE DEF nuls
<1>3. Buffer = input \o nuls
  BY DEF Buffer, nuls
<1>4. /\ Buffer \in Seq(Byte) /\ Len(Buffer) = Len(input) + Len(nuls)
      /\ \A i \in 1 .. Len(input) + Len(nuls) :
           Buffer[i] = IF i <= Len(input) THEN input[i] ELSE nuls[i - Len(input)]
  BY <1>2, <1>3, ConcatProperties, Zenon
<1>5. Len(Buffer) = Len(input) + 2
  BY <1>2, <1>4, Zenon
<1>6. \A i \in 1 .. Len(input) + 2 :
        Buffer[i] = IF i <= Len(input) THEN input[i] ELSE nuls[i - Len(input)]
  BY <1>2, <1>4, Zenon
<1>7. \A i \in 1 .. Len(input) : i \in 1 .. Len(input) + 2 /\ i <= Len(input)
  BY <1>1, SMT
<1>8. /\ Len(input) + 1 \in 1 .. Len(input) + 2 /\ Len(input) + 2 \in 1 .. Len(input) + 2
      /\ ~ (Len(input) + 1 <= Len(input)) /\ ~ (Len(input) + 2 <= Len(input))
      /\ Len(input) + 1 - Len(input) = 1 /\ Len(input) + 2 - Len(input) = 2
      /\ Len(input) + 2 >= 2 /\ Len(input) + 2 - 1 = Len(input) + 1
  BY <1>1, SMT
<1>9. /\ Buffer[Len(input) + 1] = 0 /\ Buffer[Len(input) + 2] = 0
  BY <1>2, <1>6, <1>8
<1>10. \A i \in 1 .. Len(input) : Buffer[i] = input[i]
  BY <1>6, <1>7, Zenon
<1>11. Len(Buffer) >= 2 /\ Buffer[Len(Buffer) - 1] = 0
  BY <1>5, <1>8, <1>9
<1> QED
  BY <1>1, <1>4, <1>5, <1>9, <1>10, <1>11, Zenon DEF IsBuffer

LEMMA PutFacts ==
  ASSUME NEW text \in Seq(Byte), NEW p \in Nat, p < Len(text), NEW byte \in Byte
  PROVE  /\ Put(text, p, byte) \in Seq(Byte) /\ Len(Put(text, p, byte)) = Len(text)
         /\ \A i \in 1 .. Len(text) :
              Put(text, p, byte)[i] = IF i = p + 1 THEN byte ELSE text[i]
<1>1. p + 1 \in 1 .. Len(text)
  BY SMT
<1> QED
  BY <1>1, ExceptSeq DEF Put

LEMMA PutBack ==
  ASSUME NEW text \in Seq(Byte), NEW p \in Nat, p < Len(text), NEW byte \in Byte
  PROVE  /\ Put(Put(text, p, byte), p, text[p + 1]) = text
         /\ Put(text, p, text[p + 1]) = text
<1>1. p + 1 \in 1 .. Len(text)
  BY SMT
<1>2. text[p + 1] \in Byte
  BY <1>1, ByteAt, Zenon
<1> DEFINE over == Put(text, p, byte)
           back == Put(over, p, text[p + 1])
           same == Put(text, p, text[p + 1])
<1>3. /\ over \in Seq(Byte) /\ Len(over) = Len(text)
      /\ \A i \in 1 .. Len(text) : over[i] = IF i = p + 1 THEN byte ELSE text[i]
  BY PutFacts, Zenon
<1> HIDE DEF over
<1>4. p < Len(over)
  BY <1>3, Zenon
<1>5. /\ back \in Seq(Byte) /\ Len(back) = Len(text)
      /\ \A i \in 1 .. Len(text) : back[i] = IF i = p + 1 THEN text[p + 1] ELSE over[i]
  <2>1. /\ back \in Seq(Byte) /\ Len(back) = Len(over)
        /\ \A i \in 1 .. Len(over) : back[i] = IF i = p + 1 THEN text[p + 1] ELSE over[i]
    BY <1>2, <1>3, <1>4, PutFacts, Zenon
  <2> HIDE DEF back
  <2> QED
    BY <1>3, <2>1, Zenon
<1>6. /\ same \in Seq(Byte) /\ Len(same) = Len(text)
      /\ \A i \in 1 .. Len(text) : same[i] = IF i = p + 1 THEN text[p + 1] ELSE text[i]
  BY <1>2, PutFacts, Zenon
<1> HIDE DEF back, same
<1>7. \A i \in 1 .. Len(back) : back[i] = text[i]
  BY <1>3, <1>5, Zenon
<1>8. \A i \in 1 .. Len(same) : same[i] = text[i]
  BY <1>6, Zenon
<1>9. back = text /\ same = text
  BY <1>5, <1>6, <1>7, <1>8, SeqEqual, Zenon
<1> QED
  BY <1>9 DEF back, same, over

LEMMA SubSeqSame ==
  ASSUME NEW s \in Seq(Byte), NEW t \in Seq(Byte), NEW m \in Nat, NEW n \in Nat,
         0 < m, n <= Len(s), n <= Len(t), \A i \in m .. n : s[i] = t[i]
  PROVE  SubSeq(s, m, n) = SubSeq(t, m, n)
<1>1. Len(s) \in Nat /\ Len(t) \in Nat /\ m \in Int /\ n \in Int
  BY SMT
<1>2. \A i \in m .. n : s[i] \in Byte /\ t[i] \in Byte
  <2>1. \A i \in m .. n : i \in 1 .. Len(s) /\ i \in 1 .. Len(t)
    BY <1>1, SMT
  <2> QED
    BY <2>1, ByteAt, Zenon
<1> DEFINE a == SubSeq(s, m, n)
           b == SubSeq(t, m, n)
<1>3. /\ a \in Seq(Byte) /\ Len(a) = IF m <= n THEN n - m + 1 ELSE 0
      /\ \A i \in 1 .. n - m + 1 : a[i] = s[m + i - 1]
  BY <1>1, <1>2, SubSeqProperties
<1>4. /\ b \in Seq(Byte) /\ Len(b) = IF m <= n THEN n - m + 1 ELSE 0
      /\ \A i \in 1 .. n - m + 1 : b[i] = t[m + i - 1]
  BY <1>1, <1>2, SubSeqProperties
<1> HIDE DEF a, b
<1>5. \A i \in 1 .. Len(a) : i \in 1 .. n - m + 1 /\ m + i - 1 \in m .. n
  BY <1>1, <1>3, SMT
<1>6. a = b
  BY <1>3, <1>4, <1>5, SeqEqual
<1> QED
  BY <1>6 DEF a, b

(***************************************************************************)
(* yytext: the bytes between two offsets of the input.                     *)
(***************************************************************************)
LEMMA TextFacts ==
  ASSUME NEW text \in Seq(Byte), NEW from \in Nat, NEW end \in Nat,
         from < end, end <= Len(text)
  PROVE  /\ SubSeq(text, from + 1, end) \in Seq(Byte)
         /\ Len(SubSeq(text, from + 1, end)) = end - from
         /\ SubSeq(text, from + 1, end) # << >>
         /\ IsSlice(SubSeq(text, from + 1, end), text, from)
<1>1. Len(text) \in Nat /\ from + 1 \in Int /\ end \in Int /\ from + 1 <= end
      /\ end - (from + 1) + 1 = end - from
  BY SMT
<1>2. \A i \in from + 1 .. end : text[i] \in Byte
  <2>1. \A i \in from + 1 .. end : i \in 1 .. Len(text)
    BY <1>1, SMT
  <2> QED
    BY <2>1, ByteAt, Zenon
<1> DEFINE s == SubSeq(text, from + 1, end)
<1>3. /\ s \in Seq(Byte)
      /\ Len(s) = IF from + 1 <= end THEN end - (from + 1) + 1 ELSE 0
      /\ \A i \in 1 .. end - (from + 1) + 1 : s[i] = text[from + 1 + i - 1]
  BY <1>1, <1>2, SubSeqProperties
<1> HIDE DEF s
<1>4. Len(s) = end - from /\ Len(s) # 0
  BY <1>1, <1>3, SMT
<1>5. s # << >>
  BY <1>4
<1>6. IsSlice(s, text, from)
  <2>1. from + Len(s) <= Len(text)
    BY <1>1, <1>4, SMT
  <2>2. \A i \in 1 .. Len(s) : i \in 1 .. end - (from + 1) + 1 /\ from + 1 + i - 1 = from + i
    BY <1>1, <1>4, SMT
  <2>3. \A i \in 1 .. Len(s) : s[i] = text[from + i]
    BY <1>3, <2>2
  <2> QED
    BY <2>1, <2>3, Zenon DEF IsSlice
<1> QED
  BY <1>3, <1>4, <1>5, <1>6 DEF s

(***************************************************************************)
(* Digits in the text and in the classes of its bytes.                     *)
(***************************************************************************)
LEMMA DigitFacts ==
  ASSUME NEW text \in Seq(Byte), NEW p \in Nat, p < Len(text)
  PROVE  /\ DigitAt(text, p) => Utf8Decode(text, p).ok
         /\ DigitAt(text, p) => IsDecimalDigit(Utf8Decode(text, p).code_point)
         /\ Utf8Decode(text, p).ok /\ IsDecimalDigit(Utf8Decode(text, p).code_point) =>
              DigitAt(text, p)
  BY Zenon DEF DigitAt, StartsClass, Belongs

LEMMA DigitClasses ==
  ASSUME input \in Seq(Byte), NEW p \in Nat, p < Len(input)
  PROVE  /\ ClassAt(Buffer, p) = Digits => DigitAt(input, p)
         /\ ClassAt(Buffer, p) \notin GoesOn => ~ DigitAt(input, p) /\ input[p + 1] < 128
<1> DEFINE byte == input[p + 1]
           decoded == Utf8Decode(input, p)
<1>1. /\ p + 1 \in 1 .. Len(input) /\ ~ (p >= Len(input))
  BY SMT
<1>2. byte \in Byte /\ byte \in Int
  BY <1>1, ByteAt, Zenon
<1>3. Buffer[p + 1] = byte
  BY <1>1, BufferFacts, Zenon
<1>4. /\ yy_ec[byte] = Digits <=> byte \in 48 .. 57
      /\ yy_ec[byte] = HighBytes <=> byte >= 128
      /\ byte \in 0 .. 127 => (IsDecimalDigit(byte) <=> byte \in 48 .. 57)
  <2>1. /\ \A b \in 0 .. 255 :
             /\ yy_ec[b] = Digits <=> b \in 48 .. 57
             /\ yy_ec[b] = HighBytes <=> b >= 128
        /\ \A b \in 0 .. 127 : IsDecimalDigit(b) <=> b \in 48 .. 57
    BY AutomatonIsSound, Zenon DEF AutomatonSound, ClassesOfBytes
  <2>2. byte \in 0 .. 255
    BY <1>2, Zenon DEF Byte
  <2> HIDE DEF byte
  <2> QED
    BY <2>1, <2>2, ZenonT(60)
<1>5. NulClass # Digits
  BY SMT DEF NulClass, Digits
<1>6. ClassAt(Buffer, p) = IF byte # 0 THEN yy_ec[byte] ELSE NulClass
  BY <1>3, Zenon DEF ClassAt
<1>7. /\ byte \in 48 .. 57 => byte < 128 /\ byte \in 0 .. 127
      /\ ~ (byte >= 128) => byte < 128 /\ byte \in 0 .. 127
      /\ byte = 0 => byte < 128 /\ byte \in 0 .. 127 /\ byte \notin 48 .. 57
  <2>1. byte \in 0 .. 255
    BY <1>2, Zenon DEF Byte
  <2> HIDE DEF byte
  <2> QED
    BY <2>1, SMT
<1>8. Forms(input, p, decoded)
  BY <1>1, DecoderForms, Zenon
<1> HIDE DEF decoded
<1>9. ASSUME ClassAt(Buffer, p) = Digits
      PROVE  DigitAt(input, p)
  <2>1. byte \in 48 .. 57
    BY <1>4, <1>5, <1>6, <1>9, Zenon
  <2>2. IsAscii(input, p) /\ IsDecimalDigit(byte)
    BY <1>4, <1>7, <2>1, Zenon DEF IsAscii
  <2>3. decoded = Decoded(byte, 1)
    BY <1>8, <2>2, Zenon DEF Forms
  <2>4. decoded.ok = TRUE /\ decoded.code_point = byte
    BY <2>3, FormFields, SMT
  <2> QED
    BY <2>2, <2>4, DigitFacts, Zenon DEF decoded
<1>10. ASSUME ClassAt(Buffer, p) \notin GoesOn
       PROVE  ~ DigitAt(input, p) /\ byte < 128
  <2>1. byte = 0 \/ (byte \notin 48 .. 57 /\ ~ (byte >= 128))
    BY <1>4, <1>6, <1>10, Zenon DEF GoesOn
  <2>2. byte < 128 /\ ~ IsDecimalDigit(byte)
    BY <1>4, <1>7, <2>1, Zenon
  <2>3. ASSUME decoded.ok
        PROVE  decoded.code_point = byte
    BY <2>2, <2>3, BytesOfCodePoint, Zenon DEF decoded
  <2> QED
    BY <2>2, <2>3, DigitFacts, Zenon DEF decoded
<1> QED
  BY <1>9, <1>10, Zenon

\* A number that was cut out of a chunk is one in the text, and ends there:
\* what follows the chunk is neither a digit nor the rest of a code point.
LEMMA ChunkNumeral ==
  ASSUME input \in Seq(Byte), NEW from \in Nat, NEW end \in Nat,
         from < end, end <= Len(input),
         end < Len(input) => ClassAt(Buffer, end) \notin GoesOn,
         NEW chunk, chunk = SubSeq(input, from + 1, end),
         NEW cut, cut = ClassifyUnicodeChunk(chunk), cut.type \in NumeralTypes
  PROVE  DigitAt(input, from) /\ ~ DigitAt(input, from + cut.length)
<1>1. /\ chunk \in Seq(Byte) /\ Len(chunk) = end - from /\ chunk # << >>
      /\ IsSlice(chunk, input, from)
  BY TextFacts, Zenon
<1>2. /\ cut.length \in 1 .. Len(chunk)
      /\ DigitAt(chunk, 0) /\ ~ DigitAt(chunk, cut.length)
  BY <1>1, ChunkCut, Zenon
<1> DEFINE len == cut.length
           at == from + len
<1>3. /\ Len(input) \in Nat /\ 0 \in Nat /\ 0 < Len(chunk) /\ from + 0 = from
      /\ from < Len(input) /\ len \in Nat /\ at \in Nat /\ at <= end
      /\ len < Len(chunk) \/ at = end
  BY <1>1, <1>2, SMT
<1>4. DigitAt(input, from)
  <2> DEFINE decoded == Utf8Decode(chunk, 0)
             same == Utf8Decode(input, from + 0)
  <2>1. decoded.ok /\ IsDecimalDigit(decoded.code_point)
    BY <1>1, <1>2, <1>3, DigitFacts, Zenon
  <2>2. decoded = same
    <3>1. /\ decoded.ok \/ (same.ok /\ 0 + same.width <= Len(chunk))
          /\ decoded = Utf8Decode(chunk, 0) /\ same = Utf8Decode(input, from + 0)
      BY <2>1, Zenon DEF decoded, same
    <3>2. chunk \in Seq(Byte) /\ IsSlice(chunk, input, from) /\ 0 < Len(chunk)
          /\ 0 \in Nat /\ from \in Nat /\ input \in Seq(Byte)
      BY <1>1, <1>3, Zenon
    <3> HIDE DEF decoded, same
    <3> HIDE <1>1, <1>2, <1>3
    <3>3. /\ Utf8Decode(chunk, 0).ok =>
               Utf8Decode(chunk, 0) = Utf8Decode(input, from + 0)
          /\ /\ Utf8Decode(input, from + 0).ok
             /\ 0 + Utf8Decode(input, from + 0).width <= Len(chunk)
             => Utf8Decode(chunk, 0) = Utf8Decode(input, from + 0)
      BY <3>2, SliceDecodes, Zenon
    <3> QED
      BY <3>1, <3>3, Zenon
  <2>3. same = Utf8Decode(input, from)
    BY <1>3, Zenon
  <2> HIDE DEF decoded, same
  <2> QED
    BY <1>3, <2>1, <2>2, <2>3, DigitFacts, Zenon
<1> HIDE DEF len, at
<1>5. ASSUME DigitAt(input, at)
      PROVE  FALSE
  <2>1. at < Len(input)
    BY <1>5, Zenon DEF DigitAt, StartsClass
  <2>2. CASE at = end
    BY <1>5, <2>1, <2>2, DigitClasses, Zenon
  <2>3. CASE at # end
    <3> DEFINE decoded == Utf8Decode(chunk, len)
               same == Utf8Decode(input, at)
    <3>1. same.ok /\ IsDecimalDigit(same.code_point)
      BY <1>3, <1>5, <2>1, DigitFacts, Zenon
    <3>2. len < Len(chunk) /\ at = from + len
      BY <1>3, <2>3, Zenon DEF at
    <3>3. same.width \in 1 .. 4 /\ at + same.width <= Len(input)
      BY <1>3, <2>1, DecodedInText, Zenon
    <3>d. decoded = Utf8Decode(chunk, len) /\ same = Utf8Decode(input, at)
      OBVIOUS
    <3> HIDE DEF decoded, same
    <3>4. CASE len + same.width <= Len(chunk)
      <4>1. same = Utf8Decode(input, from + len)
        BY <3>2, <3>d, Zenon
      <4>2. decoded = same
        <5>1. /\ Utf8Decode(input, from + len).ok
              /\ len + Utf8Decode(input, from + len).width <= Len(chunk)
          BY <3>1, <3>4, <4>1, Zenon
        <5>2. Utf8Decode(chunk, len) = Utf8Decode(input, from + len)
          <6>1. /\ chunk \in Seq(Byte) /\ input \in Seq(Byte) /\ from \in Nat
                /\ IsSlice(chunk, input, from) /\ len \in Nat /\ len < Len(chunk)
            BY <1>1, <1>3, <3>2, Zenon
          <6> QED
            BY <5>1, <6>1, SliceDecodes, Zenon
        <5> QED
          BY <3>d, <4>1, <5>2, Zenon
      <4>3. DigitAt(chunk, len)
        BY <1>1, <1>3, <3>1, <3>2, <3>d, <4>2, DigitFacts, Zenon
      <4> QED
        BY <1>2, <4>3 DEF len
    <3>5. CASE ~ (len + same.width <= Len(chunk))
      <4> DEFINE i == end - at + 1
      <4>1. /\ i \in 2 .. same.width /\ at + i = end + 1
            /\ end < Len(input) /\ end + 1 \in 1 .. Len(input)
        BY <1>1, <1>3, <2>3, <3>2, <3>3, <3>5, SMTT(60)
      <4> HIDE DEF i
      <4>2. input[at + i] >= 128
        BY <1>3, <2>1, <3>1, <3>d, <4>1, BytesOfCodePoint, Zenon
      <4>3. input[end + 1] < 128 /\ input[end + 1] >= 128
        BY <4>1, <4>2, DigitClasses, Zenon
      <4>4. input[end + 1] \in Int
        BY <4>1, ByteAt, Zenon
      <4> QED
        BY <4>3, <4>4, SMT
    <3> QED
      BY <3>4, <3>5, Zenon
  <2> QED
    BY <2>2, <2>3, Zenon
<1> QED
  BY <1>4, <1>5, Zenon DEF at, len

(***************************************************************************)
(* What was returned so far: each token is the text it was cut out of, they *)
(* follow each other, and no digit goes on with a number.                  *)
(***************************************************************************)
ScannerTokens == [type : Nat, start : Nat, end : Nat, text : Seq(Byte)]

IsCut(token, text, offset) ==
  /\ token.start < token.end /\ token.end <= offset
  /\ token.text = SubSeq(text, token.start + 1, token.end)

ComesAfter(token, before) ==
  /\ before.end <= token.start
  /\ before.end = token.start => ~ {before.type, token.type} \subseteq NumeralTypes

NumeralEnds(token, text, offset) ==
  token.end = offset /\ token.type \in NumeralTypes => ~ DigitAt(text, offset)

Returned(toks, text, offset) ==
  /\ toks \in Seq(ScannerTokens)
  /\ \A i \in 1 .. Len(toks) : IsCut(toks[i], text, offset)
  /\ \A i \in 2 .. Len(toks) : ComesAfter(toks[i], toks[i - 1])
  /\ toks # << >> => NumeralEnds(toks[Len(toks)], text, offset)

LEMMA ReturnedTypes ==
  ASSUME NEW toks \in Seq(ScannerTokens), NEW i \in 1 .. Len(toks)
  PROVE  toks[i] \in ScannerTokens /\ toks[i].end \in Nat /\ toks[i].start \in Nat
<1>1. toks[i] \in ScannerTokens
  BY ElementOfSeq, Zenon
<1> QED
  BY <1>1 DEF ScannerTokens

LEMMA ReturnedSkip ==
  ASSUME NEW toks, NEW text, NEW offset \in Nat, NEW next \in Nat, offset <= next,
         Returned(toks, text, offset)
  PROVE  Returned(toks, text, next)
<1>1. toks \in Seq(ScannerTokens) /\ Len(toks) \in Nat
  BY DEF Returned
<1>2. ASSUME NEW i \in 1 .. Len(toks)
      PROVE  IsCut(toks[i], text, next)
  <2>1. IsCut(toks[i], text, offset)
    BY Zenon DEF Returned
  <2> QED
    BY <1>1, <2>1, ReturnedTypes DEF IsCut
<1>3. ASSUME toks # << >>
      PROVE  NumeralEnds(toks[Len(toks)], text, next)
  <2>1. Len(toks) \in 1 .. Len(toks)
    BY <1>1, <1>3
  <2>2. IsCut(toks[Len(toks)], text, offset) /\ NumeralEnds(toks[Len(toks)], text, offset)
    BY <1>3, <2>1, Zenon DEF Returned
  <2>3. toks[Len(toks)].end \in Nat
    BY <1>1, <2>1, ReturnedTypes, Zenon
  <2>4. toks[Len(toks)].end = next => next = offset
    BY <2>2, <2>3 DEF IsCut
  <2> QED
    BY <2>2, <2>4, Zenon DEF NumeralEnds
<1> QED
  BY <1>1, <1>2, <1>3, Zenon DEF Returned

LEMMA ReturnedAppend ==
  ASSUME NEW toks, NEW text, NEW offset \in Nat, Returned(toks, text, offset),
         NEW token \in ScannerTokens, token.start = offset, offset < token.end,
         token.text = SubSeq(text, offset + 1, token.end),
         token.type \in NumeralTypes => DigitAt(text, offset),
         token.type \in NumeralTypes => ~ DigitAt(text, token.end)
  PROVE  Returned(Append(toks, token), text, token.end)
<1> DEFINE more == Append(toks, token)
<1>1. /\ toks \in Seq(ScannerTokens) /\ Len(toks) \in Nat
      /\ more \in Seq(ScannerTokens) /\ Len(more) = Len(toks) + 1
      /\ \A i \in 1 .. Len(toks) : more[i] = toks[i]
      /\ more[Len(toks) + 1] = token
  BY DEF Returned
<1>2. token.end \in Nat /\ token.end <= token.end
  BY SMT DEF ScannerTokens
<1>3. IsCut(token, text, token.end)
  BY <1>2, Zenon DEF IsCut
<1>4. \A i \in 1 .. Len(toks) : IsCut(toks[i], text, token.end)
  <2>1. Returned(toks, text, token.end)
    BY <1>2, ReturnedSkip, SMT
  <2> QED
    BY <2>1, Zenon DEF Returned
<1>5. ASSUME toks # << >>
      PROVE  ComesAfter(token, toks[Len(toks)])
  <2>1. Len(toks) \in 1 .. Len(toks)
    BY <1>1, <1>5
  <2>2. IsCut(toks[Len(toks)], text, offset) /\ NumeralEnds(toks[Len(toks)], text, offset)
    BY <1>5, <2>1, Zenon DEF Returned
  <2>3. toks[Len(toks)].end <= token.start
    BY <2>2, Zenon DEF IsCut
  <2>4. /\ toks[Len(toks)].type \in {toks[Len(toks)].type, token.type}
        /\ token.type \in {toks[Len(toks)].type, token.type}
    BY Zenon
  <2>5. {toks[Len(toks)].type, token.type} \subseteq NumeralTypes =>
          toks[Len(toks)].type \in NumeralTypes /\ token.type \in NumeralTypes
    BY <2>4, Zenon
  <2> QED
    BY <2>2, <2>3, <2>5, Zenon DEF ComesAfter, NumeralEnds
<1> HIDE DEF more
<1>6. \A i \in 1 .. Len(more) : IsCut(more[i], text, token.end)
  <2>1. \A i \in 1 .. Len(more) : i \in 1 .. Len(toks) \/ i = Len(toks) + 1
    BY <1>1, SMT
  <2> QED
    BY <1>1, <1>3, <1>4, <2>1, Zenon
<1>7. \A i \in 2 .. Len(more) : ComesAfter(more[i], more[i - 1])
  <2> SUFFICES ASSUME NEW i \in 2 .. Len(more) PROVE ComesAfter(more[i], more[i - 1])
    OBVIOUS
  <2>1. CASE i \in 2 .. Len(toks)
    <3>1. i \in 1 .. Len(toks) /\ i - 1 \in 1 .. Len(toks)
      BY <1>1, <2>1, SMT
    <3> QED
      BY <1>1, <2>1, <3>1, Zenon DEF Returned
  <2>2. CASE i \notin 2 .. Len(toks)
    <3>1. i = Len(toks) + 1 /\ i - 1 = Len(toks) /\ Len(toks) \in 1 .. Len(toks)
          /\ Len(toks) # 0
      BY <1>1, <2>2, SMT
    <3>2. toks # << >>
      BY <3>1
    <3> QED
      BY <1>1, <1>5, <3>1, <3>2, Zenon
  <2> QED
    BY <2>1, <2>2, Zenon
<1>8. NumeralEnds(more[Len(more)], text, token.end)
  BY <1>1, Zenon DEF NumeralEnds
<1> QED
  BY <1>1, <1>6, <1>7, <1>8, Zenon DEF more, Returned

\* Counting a token does not move the context.
LEMMA AcceptTyped ==
  ASSUME NEW c \in LexerContexts, NEW type \in Nat, NEW loc \in Location,
         loc.start <= loc.end
  PROVE  AcceptToken(c, type, loc) \in LexerContexts /\ AcceptToken(c, type, loc).offset = c.offset
<1> DEFINE depth == NextDepth(c, type)
           counted == [c EXCEPT !.token_count = @ + 1]
           bytes == loc.end - loc.start
           error == Exceeded("token_count", TokenCountLimit, counted.token_count, loc)
           error2 == Exceeded("token_bytes", TokenBytesLimit, bytes, loc)
           error3 == Exceeded("nesting_depth", NestingDepthLimit, depth, loc)
<1>1. depth \in Nat
  BY SMT DEF NextDepth, LexerContexts
<1>2. bytes \in Nat
  BY SMT DEF Location
<1>3. counted \in LexerContexts /\ counted.offset = c.offset /\ counted.token_count \in Nat
  BY SMT DEF LexerContexts
<1>4. error \in LexerError /\ error2 \in LexerError /\ error3 \in LexerError
  BY <1>1, <1>2, <1>3, LimitsAssumption, SMT DEF LexerError, Exceeded, Limits
<1> HIDE DEF depth, counted, bytes, error, error2, error3
<1> DEFINE nested == [counted EXCEPT !.nesting_depth = depth]
<1>5. nested \in LexerContexts /\ nested.offset = c.offset /\ nested.nesting_depth = depth
  BY <1>1, <1>3, SMT DEF LexerContexts
<1> HIDE DEF nested
<1>6. /\ [counted EXCEPT !.error = error] \in LexerContexts
      /\ [counted EXCEPT !.error = error].offset = c.offset
      /\ [counted EXCEPT !.error = error2] \in LexerContexts
      /\ [counted EXCEPT !.error = error2].offset = c.offset
      /\ [nested EXCEPT !.error = error3] \in LexerContexts
      /\ [nested EXCEPT !.error = error3].offset = c.offset
  BY <1>3, <1>4, <1>5, SMT DEF LexerContexts
<1>7. AcceptToken(c, type, loc) \in
        {[counted EXCEPT !.error = error], [counted EXCEPT !.error = error2],
         [nested EXCEPT !.error = error3], nested}
  <2>1. nested.nesting_depth = depth
    BY <1>5
  <2> QED
    BY <2>1, Zenon DEF AcceptToken, Counted, counted, nested, depth, bytes, error, error2, error3
<1> QED
  BY <1>5, <1>6, <1>7, Zenon

(***************************************************************************)
(* The inductive invariant of yylex: what the buffer, the cursor and the   *)
(* locals of the match are at each of its labels.                          *)
(***************************************************************************)
ScanTyped ==
  /\ input \in Seq(Byte)
  /\ ch_buf \in Seq(Byte) /\ Len(ch_buf) = Len(input) + 2
  /\ hold_char \in Byte
  /\ ctx \in LexerContexts
  /\ pc \in {"caller", "begin", "match", "find", "act"}

ScanStarted ==
  /\ yy_init \in BOOLEAN
  /\ yy_init = TRUE => yy_start \in StartStates
  /\ yy_init = FALSE => pc = "caller" /\ c_buf_p = 0 /\ ch_buf = Buffer

ScanReturned == Returned(tokens, input, ctx.offset)

\* Between two matches.
ScanReady ==
  pc \in {"caller", "begin"} =>
    /\ c_buf_p \in Nat /\ c_buf_p <= Len(input)
    /\ ctx.offset = c_buf_p
    /\ Put(ch_buf, c_buf_p, hold_char) = Buffer

ScanBusy ==
  pc \in {"match", "find", "act"} =>
    /\ bp \in Nat /\ bp <= Len(input)
    /\ ctx.offset = bp

ScanMatch ==
  pc = "match" =>
    /\ ch_buf = Buffer
    /\ Lexed(Buffer, yy_start, bp, state, cp, last_state, last_cpos)

ScanFind == pc = "find" => ch_buf = Buffer

ScanAct ==
  pc = "act" =>
    /\ text_ptr = bp /\ leng = cp - bp /\ c_buf_p = cp
    /\ ch_buf = Put(Buffer, cp, 0) /\ hold_char = Buffer[cp + 1]

ScanFound ==
  pc \in {"find", "act"} =>
    Found(Buffer, yy_start, bp, state, cp, last_state, last_cpos)

ScanInv ==
  /\ ScanTyped /\ ScanStarted /\ ScanReturned /\ ScanReady /\ ScanBusy
  /\ ScanMatch /\ ScanFind /\ ScanAct /\ ScanFound

LEMMA ScanInitially == ScannerInit => ScanInv
<1> SUFFICES ASSUME ScannerInit PROVE ScanInv
  OBVIOUS
<1>1. input \in Seq(Byte) /\ ~ IsOversize(Len(input))
  BY InputsAssumption, Zenon DEF ScannerInit
<1>2. ch_buf = Buffer /\ pc = "caller" /\ yy_init = FALSE /\ c_buf_p = 0
      /\ hold_char = ch_buf[1] /\ tokens = << >> /\ ctx = EmptyContext
  BY <1>1, Zenon DEF ScannerInit, Buffer, ContextInit
<1>3. /\ Buffer \in Seq(Byte) /\ Len(Buffer) = Len(input) + 2 /\ Len(input) \in Nat
  BY <1>1, BufferFacts, Zenon
<1>4. EmptyContext \in LexerContexts /\ EmptyContext.offset = 0
  BY DEF EmptyContext, LexerContexts, LexerError, Limits, NoLimit, Exceeded, NoLocation,
         Location
<1>5. 0 \in Nat /\ 0 < Len(Buffer) /\ 0 + 1 = 1 /\ 0 <= Len(input) /\ 1 \in 1 .. Len(Buffer)
  BY <1>3, SMT
<1>6. Buffer[1] \in Byte
  BY <1>3, <1>5, ElementOfSeq, Zenon
<1>7. Put(Buffer, 0, Buffer[1]) = Buffer
  BY <1>3, <1>5, <1>6, PutBack
<1>8. Returned(<< >>, input, 0)
  BY DEF Returned
<1>9. ScanTyped
  BY <1>1, <1>2, <1>3, <1>4, <1>6, Zenon DEF ScanTyped
<1>10. ScanStarted /\ ScanReturned
  BY <1>2, <1>4, <1>8, Zenon DEF ScanStarted, ScanReturned
<1>11. ScanReady
  BY <1>2, <1>4, <1>5, <1>7, Zenon DEF ScanReady
<1>12. pc # "match" /\ pc # "find" /\ pc # "act"
  BY <1>2, Zenon
<1> QED
  BY <1>9, <1>10, <1>11, <1>12, Zenon DEF ScanInv, ScanBusy, ScanMatch, ScanFind,
     ScanAct, ScanFound

\* What every action needs to know.
LEMMA ScanFacts ==
  ASSUME ScanInv
  PROVE  /\ input \in Seq(Byte) /\ Buffer \in Seq(Byte) /\ IsBuffer(Buffer)
         /\ Len(Buffer) = Len(input) + 2 /\ Len(input) \in Nat
         /\ ch_buf \in Seq(Byte) /\ Len(ch_buf) = Len(Buffer)
         /\ pc # "caller" => yy_init = TRUE /\ yy_start \in StartStates
         /\ ctx \in LexerContexts /\ hold_char \in Byte
  BY BufferFacts, Zenon DEF ScanInv, ScanTyped, ScanStarted

LEMMA CallMoves ==
  ASSUME ScanInv, FirstCall \/ CallAgain
  PROVE  ScanInv'
<1>1. Buffer' = Buffer /\ pc = "caller" /\ pc' = "begin"
  BY Zenon DEF FirstCall, CallAgain, Buffer
<1>2. /\ pc' # "caller" /\ pc' # "match" /\ pc' # "find" /\ pc' # "act"
      /\ pc' \in {"caller", "begin", "match", "find", "act"}
  BY <1>1, Zenon
<1>3. /\ input \in Seq(Byte) /\ Buffer \in Seq(Byte) /\ Len(Buffer) = Len(input) + 2
      /\ ch_buf \in Seq(Byte) /\ Len(ch_buf) = Len(Buffer) /\ Len(input) \in Nat
  BY ScanFacts, Zenon
<1>4. /\ input' = input /\ ch_buf' = ch_buf /\ ctx' = ctx /\ tokens' = tokens
      /\ yy_init' = TRUE
  BY Zenon DEF FirstCall, CallAgain, flexVars, ScanInv, ScanStarted
<1>5. /\ hold_char' \in Byte /\ yy_start' \in StartStates
      /\ c_buf_p' = c_buf_p
      /\ Put(ch_buf, c_buf_p', hold_char') = Buffer
  <2>1. CASE FirstCall
    <3>1. /\ c_buf_p = 0 /\ ch_buf = Buffer /\ c_buf_p' = 0 /\ hold_char' = Buffer[1]
      BY <2>1, Zenon DEF FirstCall, ScanInv, ScanStarted
    <3>2. yy_start' \in StartStates
      BY <2>1, Zenon DEF FirstCall, StartStates
    <3>3. 0 \in Nat /\ 0 < Len(Buffer) /\ 0 + 1 = 1 /\ 1 \in 1 .. Len(Buffer)
      BY <1>3, SMT
    <3>4. Buffer[1] \in Byte
      BY <1>3, <3>3, ElementOfSeq, Zenon
    <3>5. Put(Buffer, 0, Buffer[1]) = Buffer
      BY <1>3, <3>3, <3>4, PutBack
    <3> QED
      BY <3>1, <3>2, <3>4, <3>5, Zenon
  <2>2. CASE CallAgain
    BY <1>1, <2>2, Zenon DEF CallAgain, flexVars, ScanInv, ScanTyped, ScanStarted, ScanReady
  <2> QED
    BY <2>1, <2>2, Zenon
<1>6. ScanTyped' /\ ScanStarted' /\ ScanReturned'
  BY <1>1, <1>2, <1>3, <1>4, <1>5, Zenon DEF ScanTyped, ScanStarted, ScanReturned, ScanInv
<1>7. ScanReady'
  BY <1>1, <1>4, <1>5, Zenon DEF ScanReady, ScanInv
<1> QED
  BY <1>2, <1>6, <1>7, Zenon DEF ScanInv, ScanBusy, ScanMatch, ScanFind, ScanAct, ScanFound

LEMMA BeginMoves ==
  ASSUME ScanInv, Begin
  PROVE  ScanInv'
<1>1. /\ pc = "begin" /\ pc' = "match" /\ Buffer' = Buffer
      /\ ch_buf' = Put(ch_buf, c_buf_p, hold_char)
      /\ cp' = c_buf_p /\ bp' = c_buf_p /\ state' = yy_start
      /\ input' = input /\ ctx' = ctx /\ tokens' = tokens /\ hold_char' = hold_char
      /\ yy_init' = yy_init /\ yy_start' = yy_start
  BY Zenon DEF Begin, Buffer, flexVars
<1>2. /\ pc' # "caller" /\ pc' # "begin" /\ pc' # "find" /\ pc' # "act"
      /\ pc' \in {"caller", "begin", "match", "find", "act"}
      /\ pc # "caller" /\ pc \in {"caller", "begin"}
  BY <1>1, Zenon
<1>3. /\ input \in Seq(Byte) /\ Buffer \in Seq(Byte) /\ Len(Buffer) = Len(input) + 2
      /\ Len(input) \in Nat /\ yy_init = TRUE /\ yy_start \in StartStates
      /\ ctx \in LexerContexts /\ hold_char \in Byte
  BY <1>2, ScanFacts, Zenon
<1>4. /\ c_buf_p \in Nat /\ c_buf_p <= Len(input) /\ ctx.offset = c_buf_p
      /\ ch_buf' = Buffer
  BY <1>1, <1>2, Zenon DEF ScanInv, ScanReady
<1>5. c_buf_p <= c_buf_p /\ ~ (c_buf_p < c_buf_p) /\ c_buf_p + 2 <= Len(Buffer)
  BY <1>3, <1>4, SMT
<1>6. Reached(Buffer, yy_start, c_buf_p, c_buf_p, yy_start)
  BY <1>3, <1>4, ReachedStart, Zenon
<1>7. Lexed(Buffer, yy_start, c_buf_p, yy_start, c_buf_p, last_state', last_cpos')
  BY <1>4, <1>5, <1>6, Zenon DEF Lexed
<1>8. ScanTyped' /\ ScanStarted' /\ ScanReturned'
  BY <1>1, <1>2, <1>3, <1>4, Zenon DEF ScanTyped, ScanStarted, ScanReturned, ScanInv
<1>9. ScanBusy' /\ ScanMatch'
  BY <1>1, <1>4, <1>7, Zenon DEF ScanBusy, ScanMatch
<1> QED
  BY <1>2, <1>8, <1>9, Zenon DEF ScanInv, ScanReady, ScanFind, ScanAct, ScanFound

\* What MatchNext and MatchEnd have in common.
LEMMA Matching ==
  ASSUME ScanInv, pc = "match"
  PROVE  /\ bp \in Nat /\ ch_buf = Buffer /\ yy_start \in StartStates
         /\ IsBuffer(Buffer)
         /\ IsRemembered(state, cp, last_state, last_cpos, Accepting(state, cp)[1],
                         Accepting(state, cp)[2])
         /\ SeenState = SeenFrom(Buffer, state, cp)
         /\ Lexed(Buffer, yy_start, bp, state, cp, last_state, last_cpos)
<1>1. pc # "caller" /\ pc \in {"match", "find", "act"}
  BY Zenon
<1>2. /\ IsBuffer(Buffer) /\ yy_start \in StartStates
  BY <1>1, ScanFacts, Zenon
<1>3. /\ bp \in Nat /\ ch_buf = Buffer
      /\ Lexed(Buffer, yy_start, bp, state, cp, last_state, last_cpos)
  BY <1>1, Zenon DEF ScanInv, ScanBusy, ScanMatch
<1>4. IsRemembered(state, cp, last_state, last_cpos, Accepting(state, cp)[1],
                   Accepting(state, cp)[2])
  BY DEF IsRemembered, Accepting
<1>5. SeenState = SeenFrom(Buffer, state, cp)
  BY <1>3, Zenon DEF SeenState, SeenFrom
<1> QED
  BY <1>2, <1>3, <1>4, <1>5, Zenon

LEMMA MatchNextMoves ==
  ASSUME ScanInv, MatchNext
  PROVE  ScanInv'
<1> DEFINE l == Accepting(state, cp)[1]
           lp == Accepting(state, cp)[2]
           seen == SeenState
<1>1. /\ pc = "match" /\ pc' = pc /\ Buffer' = Buffer
      /\ seen # JamState
      /\ last_state' = l /\ last_cpos' = lp
      /\ cp' = cp + 1 /\ state' = seen
      /\ input' = input /\ ctx' = ctx /\ tokens' = tokens /\ hold_char' = hold_char
      /\ yy_init' = yy_init /\ yy_start' = yy_start /\ ch_buf' = ch_buf /\ bp' = bp
  BY Zenon DEF MatchNext, Buffer, flexVars
<1>2. /\ bp \in Nat /\ ch_buf = Buffer /\ yy_start \in StartStates
      /\ IsBuffer(Buffer)
      /\ IsRemembered(state, cp, last_state, last_cpos, l, lp)
      /\ seen = SeenFrom(Buffer, state, cp)
      /\ Lexed(Buffer, yy_start, bp, state, cp, last_state, last_cpos)
  BY <1>1, Matching, Zenon
<1> HIDE DEF l, lp, seen
<1>3. Lexed(Buffer, yy_start, bp, seen, cp + 1, l, lp)
  BY <1>1, <1>2, MatchMoves, Zenon
<1>4. /\ pc' # "caller" /\ pc' # "begin" /\ pc' # "find" /\ pc' # "act"
      /\ pc' = "match" /\ pc \in {"match", "find", "act"} /\ pc # "caller"
  BY <1>1, Zenon
<1>5. ScanTyped' /\ ScanStarted' /\ ScanReturned' /\ ScanBusy'
  BY <1>1, <1>4, Zenon DEF ScanTyped, ScanStarted, ScanReturned, ScanBusy, ScanInv
<1>6. ScanMatch'
  BY <1>1, <1>2, <1>3, Zenon DEF ScanMatch
<1> QED
  BY <1>4, <1>5, <1>6, Zenon DEF ScanInv, ScanReady, ScanFind, ScanAct, ScanFound

LEMMA MatchEndMoves ==
  ASSUME ScanInv, MatchEnd
  PROVE  ScanInv'
<1> DEFINE l == Accepting(state, cp)[1]
           lp == Accepting(state, cp)[2]
           seen == SeenState
<1>1. /\ pc = "match" /\ pc' = "find" /\ Buffer' = Buffer
      /\ seen = JamState
      /\ last_state' = l /\ last_cpos' = lp
      /\ cp' = lp /\ state' = l
      /\ input' = input /\ ctx' = ctx /\ tokens' = tokens /\ hold_char' = hold_char
      /\ yy_init' = yy_init /\ yy_start' = yy_start /\ ch_buf' = ch_buf /\ bp' = bp
  BY Zenon DEF MatchEnd, Buffer, flexVars
<1>2. /\ bp \in Nat /\ ch_buf = Buffer /\ yy_start \in StartStates
      /\ IsBuffer(Buffer)
      /\ IsRemembered(state, cp, last_state, last_cpos, l, lp)
      /\ seen = SeenFrom(Buffer, state, cp)
      /\ Lexed(Buffer, yy_start, bp, state, cp, last_state, last_cpos)
  BY <1>1, Matching, Zenon
<1> HIDE DEF l, lp, seen
<1>3. \/ Matched(Buffer, yy_start, bp, l, lp)
      \/ BehindNul(Buffer, yy_start, bp, l, lp)
  BY <1>1, <1>2, MatchMoves, Zenon
<1>4. /\ pc' # "caller" /\ pc' # "begin" /\ pc' # "match" /\ pc' # "act"
      /\ pc' \in {"caller", "begin", "match", "find", "act"}
      /\ pc \in {"match", "find", "act"} /\ pc # "caller"
  BY <1>1, Zenon
<1>5. ScanTyped' /\ ScanStarted' /\ ScanReturned' /\ ScanBusy'
  BY <1>1, <1>4, Zenon DEF ScanTyped, ScanStarted, ScanReturned, ScanBusy, ScanInv
<1>6. ScanFind' /\ ScanFound'
  BY <1>1, <1>2, <1>3, Zenon DEF ScanFind, ScanFound, Found
<1> QED
  BY <1>4, <1>5, <1>6, Zenon DEF ScanInv, ScanReady, ScanMatch, ScanAct

\* What was found, told by the action of its state.
LEMMA FoundFacts ==
  ASSUME NEW text, IsBuffer(text), NEW start \in StartStates, NEW from \in Nat,
         NEW at, NEW p, NEW last, NEW lastp, Found(text, start, from, at, p, last, lastp)
  PROVE  /\ p \in Nat /\ from < p /\ p < Len(text)
         /\ at # 0 /\ yy_accept[at] \in 0 .. 15 \cup {YY_END_OF_BUFFER}
         /\ yy_accept[at] = 0 => Overrun(text, start, from, at, p, last, lastp)
         /\ yy_accept[at] = YY_END_OF_BUFFER => BehindNul(text, start, from, at, p)
         /\ yy_accept[at] \notin {0, YY_END_OF_BUFFER} => Matched(text, start, from, at, p)
<1>1. Len(text) \in Nat /\ YY_END_OF_BUFFER \notin 0 .. 15
  BY DEF IsBuffer, YY_END_OF_BUFFER
<1>2. CASE Matched(text, start, from, at, p)
  <2>1. p \in Nat /\ from < p /\ p + 2 <= Len(text)
    BY <1>2, Zenon DEF Matched
  <2>2. p < Len(text)
    BY <1>1, <2>1, SMT
  <2>3. at # 0 /\ yy_accept[at] \in 1 .. 15
    BY <1>2, RuleMatched, Zenon
  <2>4. yy_accept[at] \in 0 .. 15 /\ yy_accept[at] # 0
    BY <2>3, SMT
  <2> QED
    BY <1>1, <1>2, <2>1, <2>2, <2>3, <2>4, Zenon
<1>3. CASE BehindNul(text, start, from, at, p)
  BY <1>3, StateFacts, Zenon DEF BehindNul
<1>4. CASE Overrun(text, start, from, at, p, last, lastp)
  <2>1. /\ p \in Nat /\ from < p /\ p + 2 <= Len(text) /\ yy_accept[at] = 0
        /\ Reached(text, start, from, p, at)
    BY <1>4, Zenon DEF Overrun
  <2>2. p < Len(text) /\ from <= p /\ 0 \in 0 .. 15
    BY <1>1, <2>1, SMT
  <2>3. at \in Lexing
    BY <2>1, <2>2, ReachedState, Zenon
  <2> QED
    BY <1>4, <2>1, <2>2, <2>3, StateFacts, Zenon
<1> QED
  BY <1>2, <1>3, <1>4, Zenon DEF Found

LEMMA FindActionMoves ==
  ASSUME ScanInv, FindAction
  PROVE  ScanInv'
<1>1. /\ pc = "find" /\ pc' = "act" /\ Buffer' = Buffer
      /\ text_ptr' = bp /\ leng' = cp - bp /\ hold_char' = ch_buf[cp + 1]
      /\ ch_buf' = Put(ch_buf, cp, 0) /\ c_buf_p' = cp
      /\ input' = input /\ ctx' = ctx /\ tokens' = tokens
      /\ yy_init' = yy_init /\ yy_start' = yy_start
      /\ bp' = bp /\ cp' = cp /\ state' = state
      /\ last_state' = last_state /\ last_cpos' = last_cpos
  BY Zenon DEF FindAction, Buffer, matchVars
<1>2. /\ pc' # "caller" /\ pc' # "begin" /\ pc' # "match" /\ pc' # "find"
      /\ pc' \in {"caller", "begin", "match", "find", "act"}
      /\ pc \in {"match", "find", "act"} /\ pc \in {"find", "act"} /\ pc # "caller"
  BY <1>1, Zenon
<1>3. /\ input \in Seq(Byte) /\ Buffer \in Seq(Byte) /\ IsBuffer(Buffer)
      /\ Len(Buffer) = Len(input) + 2 /\ Len(input) \in Nat
      /\ yy_init = TRUE /\ yy_start \in StartStates /\ ctx \in LexerContexts
  BY <1>2, ScanFacts, Zenon
<1>4. /\ bp \in Nat /\ ch_buf = Buffer
      /\ Found(Buffer, yy_start, bp, state, cp, last_state, last_cpos)
  BY <1>1, <1>2, Zenon DEF ScanInv, ScanBusy, ScanFind, ScanFound
<1>5. cp \in Nat /\ cp < Len(Buffer)
  BY <1>3, <1>4, FoundFacts, Zenon
<1>6. cp + 1 \in 1 .. Len(Buffer) /\ 0 \in Byte
  BY <1>3, <1>5, SMT DEF Byte
<1>7. hold_char' \in Byte
  BY <1>1, <1>3, <1>4, <1>6, ElementOfSeq, Zenon
<1>8. ch_buf' \in Seq(Byte) /\ Len(ch_buf') = Len(input') + 2
  <2>1. Put(Buffer, cp, 0) \in Seq(Byte) /\ Len(Put(Buffer, cp, 0)) = Len(Buffer)
    BY <1>3, <1>5, <1>6, PutFacts
  <2> QED
    BY <1>1, <1>3, <1>4, <2>1, Zenon
<1>9. ScanTyped' /\ ScanStarted' /\ ScanReturned' /\ ScanBusy'
  BY <1>1, <1>2, <1>3, <1>7, <1>8, Zenon
     DEF ScanTyped, ScanStarted, ScanReturned, ScanBusy, ScanInv
<1>10. ScanAct' /\ ScanFound'
  BY <1>1, <1>4, Zenon DEF ScanAct, ScanFound
<1> QED
  BY <1>2, <1>9, <1>10, Zenon DEF ScanInv, ScanReady, ScanMatch, ScanFind

\* What the actions of the rules start from.
LEMMA Acting ==
  ASSUME ScanInv, pc = "act"
  PROVE  /\ yy_init = TRUE /\ yy_start \in StartStates /\ IsBuffer(Buffer)
         /\ bp \in Nat /\ bp <= Len(input) /\ ctx.offset = bp
         /\ text_ptr = bp /\ leng = cp - bp /\ c_buf_p = cp
         /\ ch_buf = Put(Buffer, cp, 0) /\ hold_char = Buffer[cp + 1]
         /\ Restored = Buffer
         /\ cp \in Nat /\ bp < cp /\ cp < Len(Buffer)
         /\ Found(Buffer, yy_start, bp, state, cp, last_state, last_cpos)
<1>1. pc \in {"match", "find", "act"} /\ pc \in {"find", "act"} /\ pc # "caller"
  BY Zenon
<1>2. /\ Buffer \in Seq(Byte) /\ IsBuffer(Buffer)
      /\ yy_init = TRUE /\ yy_start \in StartStates
  BY <1>1, ScanFacts, Zenon
<1>3. /\ bp \in Nat /\ bp <= Len(input) /\ ctx.offset = bp
      /\ text_ptr = bp /\ leng = cp - bp /\ c_buf_p = cp
      /\ ch_buf = Put(Buffer, cp, 0) /\ hold_char = Buffer[cp + 1]
      /\ Found(Buffer, yy_start, bp, state, cp, last_state, last_cpos)
  BY <1>1, Zenon DEF ScanInv, ScanBusy, ScanAct, ScanFound
<1>4. cp \in Nat /\ bp < cp /\ cp < Len(Buffer)
  BY <1>2, <1>3, FoundFacts, Zenon
<1>5. 0 \in Byte
  BY SMT DEF Byte
<1>6. Put(Put(Buffer, cp, 0), cp, Buffer[cp + 1]) = Buffer
  BY <1>2, <1>4, <1>5, PutBack
<1>7. Restored = Buffer
  BY <1>3, <1>6, Zenon DEF Restored
<1> QED
  BY <1>1, <1>2, <1>3, <1>4, <1>7, Zenon

LEMMA BackUpMoves ==
  ASSUME ScanInv, BackUp
  PROVE  ScanInv'
<1>1. /\ pc = "act" /\ pc' = "find" /\ Buffer' = Buffer
      /\ yy_accept[state] = 0 /\ ch_buf' = Restored
      /\ cp' = last_cpos /\ state' = last_state
      /\ input' = input /\ ctx' = ctx /\ tokens' = tokens /\ hold_char' = hold_char
      /\ yy_init' = yy_init /\ yy_start' = yy_start /\ bp' = bp
  BY Zenon DEF BackUp, Buffer, flexVars, yy_act
<1>2. /\ pc' # "caller" /\ pc' # "begin" /\ pc' # "match" /\ pc' # "act"
      /\ pc' \in {"caller", "begin", "match", "find", "act"}
      /\ pc \in {"match", "find", "act"} /\ pc # "caller"
  BY <1>1, Zenon
<1>3. /\ Buffer \in Seq(Byte) /\ Len(Buffer) = Len(input) + 2
  BY <1>2, ScanFacts, Zenon
<1>4. /\ yy_init = TRUE /\ yy_start \in StartStates /\ IsBuffer(Buffer)
      /\ bp \in Nat /\ Restored = Buffer
      /\ Found(Buffer, yy_start, bp, state, cp, last_state, last_cpos)
  BY <1>1, Acting, Zenon
<1>5. Matched(Buffer, yy_start, bp, last_state, last_cpos)
  <2>1. Overrun(Buffer, yy_start, bp, state, cp, last_state, last_cpos)
    BY <1>1, <1>4, FoundFacts, Zenon
  <2> QED
    BY <2>1, Zenon DEF Overrun
<1>6. ScanTyped' /\ ScanStarted' /\ ScanReturned' /\ ScanBusy'
  BY <1>1, <1>2, <1>3, <1>4, Zenon
     DEF ScanTyped, ScanStarted, ScanReturned, ScanBusy, ScanInv
<1>7. ScanFind' /\ ScanFound'
  BY <1>1, <1>4, <1>5, Zenon DEF ScanFind, ScanFound, Found
<1> QED
  BY <1>2, <1>6, <1>7, Zenon DEF ScanInv, ScanReady, ScanMatch, ScanAct

\* What stands between two offsets of the buffer while a NUL ends it.
LEMMA LexemeText ==
  ASSUME input \in Seq(Byte), NEW from \in Nat, NEW end \in Nat,
         from < end, end <= Len(input)
  PROVE  SubSeq(Put(Buffer, end, 0), from + 1, end) = SubSeq(input, from + 1, end)
<1>1. /\ Buffer \in Seq(Byte) /\ Len(Buffer) = Len(input) + 2 /\ Len(input) \in Nat
      /\ \A i \in 1 .. Len(input) : Buffer[i] = input[i]
  BY BufferFacts, Zenon
<1>2. /\ end < Len(Buffer) /\ 0 \in Byte /\ from + 1 \in Nat /\ 0 < from + 1
      /\ end <= Len(Buffer)
      /\ \A i \in from + 1 .. end :
           i \in 1 .. Len(Buffer) /\ i \in 1 .. Len(input) /\ i # end + 1
  BY <1>1, SMT DEF Byte
<1>3. /\ Put(Buffer, end, 0) \in Seq(Byte) /\ Len(Put(Buffer, end, 0)) = Len(Buffer)
      /\ \A i \in 1 .. Len(Buffer) :
           Put(Buffer, end, 0)[i] = IF i = end + 1 THEN 0 ELSE Buffer[i]
  BY <1>1, <1>2, PutFacts
<1> DEFINE text == Put(Buffer, end, 0)
<1>4. /\ text \in Seq(Byte) /\ Len(text) = Len(Buffer)
      /\ \A i \in from + 1 .. end : text[i] = input[i]
  BY <1>1, <1>2, <1>3, Zenon
<1> HIDE DEF text
<1>5. SubSeq(text, from + 1, end) = SubSeq(input, from + 1, end)
  BY <1>1, <1>2, <1>4, SubSeqSame
<1> QED
  BY <1>5, Zenon DEF text

\* A rule is done with the bytes up to `end'.
LEMMA CutMoves ==
  ASSUME ScanInv, pc = "act", NEW end \in Nat, bp < end, end <= Len(input),
         pc' \in {"caller", "begin"},
         input' = input, yy_init' = yy_init, yy_start' = yy_start,
         c_buf_p' = end, hold_char' = Buffer[end + 1], ch_buf' = Put(Buffer, end, 0),
         ctx' \in LexerContexts, ctx'.offset = end, Returned(tokens', input, end)
  PROVE  ScanInv'
<1>1. Buffer' = Buffer
  BY Zenon DEF Buffer
<1>2. /\ pc' # "match" /\ pc' # "find" /\ pc' # "act" /\ pc # "caller"
      /\ pc' \in {"caller", "begin", "match", "find", "act"}
  BY Zenon
<1>3. /\ input \in Seq(Byte) /\ Buffer \in Seq(Byte)
      /\ Len(Buffer) = Len(input) + 2 /\ Len(input) \in Nat
      /\ yy_init = TRUE /\ yy_start \in StartStates
  BY <1>2, ScanFacts, Zenon
<1>4. end < Len(Buffer) /\ end + 1 \in 1 .. Len(Buffer) /\ 0 \in Byte
  BY <1>3, SMT DEF Byte
<1>5. Put(Buffer, end, 0) \in Seq(Byte) /\ Len(Put(Buffer, end, 0)) = Len(Buffer)
  BY <1>3, <1>4, PutFacts
<1>6. Put(Put(Buffer, end, 0), end, Buffer[end + 1]) = Buffer
  BY <1>3, <1>4, PutBack
<1>7. Buffer[end + 1] \in Byte
  BY <1>3, <1>4, ElementOfSeq, Zenon
<1>8. ScanTyped' /\ ScanStarted' /\ ScanReturned'
  BY <1>1, <1>2, <1>3, <1>5, <1>7, Zenon DEF ScanTyped, ScanStarted, ScanReturned
<1>9. ScanReady'
  BY <1>1, <1>6, Zenon DEF ScanReady
<1> QED
  BY <1>2, <1>8, <1>9, Zenon DEF ScanInv, ScanBusy, ScanMatch, ScanFind, ScanAct, ScanFound

\* White space: only the context moves.
LEMMA SkipMoves ==
  ASSUME ScanInv, pc = "act", NEW end \in Nat, bp < end, end <= Len(input),
         pc' = "begin", ctx' = [ctx EXCEPT !.offset = end], tokens' = tokens,
         input' = input, yy_init' = yy_init, yy_start' = yy_start,
         c_buf_p' = end, hold_char' = Buffer[end + 1], ch_buf' = Put(Buffer, end, 0)
  PROVE  ScanInv'
<1>1. bp \in Nat /\ ctx.offset = bp
  BY Acting, Zenon
<1>2. ctx \in LexerContexts /\ Returned(tokens, input, bp)
  BY <1>1, ScanFacts, Zenon DEF ScanInv, ScanReturned
<1>3. ctx' \in LexerContexts /\ ctx'.offset = end
  BY <1>2, SMT DEF LexerContexts
<1>4. bp <= end
  BY <1>1, SMT
<1>5. Returned(tokens, input, end)
  BY <1>1, <1>2, <1>4, ReturnedSkip, Zenon
<1>6. pc' \in {"caller", "begin"}
  BY Zenon
<1> QED
  BY <1>3, <1>5, <1>6, CutMoves, Zenon

\* A token: it is counted, and returned unless a limit is exceeded.
LEMMA ReturnMoves ==
  ASSUME ScanInv, pc = "act", NEW end \in Nat, bp < end, end <= Len(input),
         NEW type \in Nat, ReturnToken(type, end),
         type \in NumeralTypes => DigitAt(input, bp),
         type \in NumeralTypes => ~ DigitAt(input, end),
         input' = input, yy_init' = yy_init, yy_start' = yy_start,
         text_ptr' = bp, leng' = end - bp,
         c_buf_p' = end, hold_char' = Buffer[end + 1], ch_buf' = Put(Buffer, end, 0)
  PROVE  ScanInv'
<1> DEFINE moved == [ctx EXCEPT !.offset = end]
           loc == [start |-> bp, end |-> end]
           accepted == AcceptToken(moved, type, loc)
           lexeme == SubSeq(ch_buf', text_ptr' + 1, text_ptr' + leng')
           token == [type |-> type, start |-> bp, end |-> end, text |-> lexeme]
<1>1. bp \in Nat /\ ctx.offset = bp /\ input \in Seq(Byte) /\ Buffer \in Seq(Byte)
      /\ ctx \in LexerContexts /\ Len(Buffer) = Len(input) + 2 /\ Len(input) \in Nat
  BY Acting, ScanFacts, Zenon
<1>2. /\ pc' = "caller" /\ ctx' = accepted
      /\ tokens' = IF InLimits(accepted) THEN Append(tokens, token) ELSE tokens
  BY <1>1, Zenon DEF ReturnToken
<1>3. lexeme = SubSeq(input, bp + 1, end)
  <2>1. text_ptr' + 1 = bp + 1 /\ text_ptr' + leng' = end
    BY <1>1, SMT
  <2>2. SubSeq(Put(Buffer, end, 0), bp + 1, end) = SubSeq(input, bp + 1, end)
    BY <1>1, LexemeText, Zenon
  <2> QED
    BY <2>1, <2>2, Zenon
<1> HIDE DEF lexeme
<1>4. moved \in LexerContexts /\ moved.offset = end /\ loc \in Location
      /\ loc.start <= loc.end
  <2>1. moved \in LexerContexts /\ moved.offset = end
    BY <1>1, SMTT(40) DEF LexerContexts
  <2>2. loc \in Location /\ loc.start <= loc.end
    BY <1>1, SMT DEF Location
  <2> QED
    BY <2>1, <2>2, Zenon
<1> HIDE DEF moved, loc
<1>5. accepted \in LexerContexts /\ accepted.offset = end
  BY <1>4, AcceptTyped, Zenon
<1> HIDE DEF accepted
<1>6. Returned(tokens, input, bp)
  BY <1>1, Zenon DEF ScanInv, ScanReturned
<1>7. token \in ScannerTokens /\ token.start = bp /\ token.end = end
      /\ token.text = lexeme /\ token.type = type
  <2>1. lexeme \in Seq(Byte)
    BY <1>1, <1>3, TextFacts, Zenon
  <2> QED
    BY <1>1, <2>1, SMT DEF ScannerTokens
<1> HIDE DEF token
<1>8. Returned(Append(tokens, token), input, end)
  <2>1. /\ token.start = bp /\ bp < token.end
        /\ token.text = SubSeq(input, bp + 1, token.end)
        /\ token.type \in NumeralTypes => DigitAt(input, bp)
        /\ token.type \in NumeralTypes => ~ DigitAt(input, token.end)
    BY <1>3, <1>7, Zenon
  <2>2. Returned(Append(tokens, token), input, token.end)
    BY <1>1, <1>6, <1>7, <2>1, ReturnedAppend, Zenon
  <2> QED
    BY <1>7, <2>2, Zenon
<1>9. Returned(tokens, input, end)
  <2>1. bp <= end
    BY <1>1, SMT
  <2> QED
    BY <1>1, <1>6, <2>1, ReturnedSkip, Zenon
<1>10. Returned(tokens', input, end)
  BY <1>2, <1>8, <1>9, Zenon
<1>11. pc' \in {"caller", "begin"} /\ ctx' \in LexerContexts /\ ctx'.offset = end
  BY <1>2, <1>5, Zenon
<1> QED
  BY <1>10, <1>11, CutMoves, Zenon

\* The rules: what they have matched.
LEMMA Ruling ==
  ASSUME ScanInv, pc = "act", yy_act \in 1 .. 15
  PROVE  /\ Matched(Buffer, yy_start, bp, state, cp)
         /\ bp \in Nat /\ cp \in Nat /\ bp < cp /\ cp <= Len(input)
         /\ bp + leng = cp /\ leng = cp - bp
         /\ input \in Seq(Byte) /\ Len(input) \in Nat
         /\ yytext = SubSeq(input, bp + 1, cp)
<1>1. /\ IsBuffer(Buffer) /\ yy_start \in StartStates
      /\ bp \in Nat /\ cp \in Nat /\ bp < cp
      /\ text_ptr = bp /\ leng = cp - bp /\ ch_buf = Put(Buffer, cp, 0)
      /\ Found(Buffer, yy_start, bp, state, cp, last_state, last_cpos)
  BY Acting, Zenon
<1>2. input \in Seq(Byte) /\ Len(Buffer) = Len(input) + 2 /\ Len(input) \in Nat
  BY ScanFacts, Zenon
<1>3. yy_accept[state] \notin {0, YY_END_OF_BUFFER}
  BY SMT DEF yy_act, YY_END_OF_BUFFER
<1>4. Matched(Buffer, yy_start, bp, state, cp)
  BY <1>1, <1>3, FoundFacts, Zenon
<1>5. cp + 2 <= Len(Buffer)
  BY <1>4, Zenon DEF Matched
<1>6. cp <= Len(input) /\ bp + leng = cp
  BY <1>1, <1>2, <1>5, SMT
<1>7. SubSeq(Put(Buffer, cp, 0), bp + 1, cp) = SubSeq(input, bp + 1, cp)
  BY <1>1, <1>2, <1>6, LexemeText, Zenon
<1>8. yytext = SubSeq(input, bp + 1, cp)
  BY <1>1, <1>6, <1>7, Zenon DEF yytext
<1> QED
  BY <1>1, <1>2, <1>4, <1>6, <1>8, Zenon

\* No digit goes on with what the rules of numbers and of chunks match.
LEMMA RuleEnds ==
  ASSUME ScanInv, pc = "act", yy_act \in {ChunkRule, NumberRule}
  PROVE  /\ cp < Len(input) => ClassAt(Buffer, cp) \notin GoesOn
         /\ ~ DigitAt(input, cp)
         /\ yy_act = NumberRule => DigitAt(input, bp)
<1>1. yy_act \in 1 .. 15
  BY SMT DEF ChunkRule, NumberRule
<1>2. /\ Matched(Buffer, yy_start, bp, state, cp)
      /\ bp \in Nat /\ cp \in Nat /\ bp < cp /\ cp <= Len(input)
      /\ input \in Seq(Byte) /\ Len(input) \in Nat
  BY <1>1, Ruling, Zenon
<1>3. ClassAt(Buffer, cp) \notin GoesOn
  BY <1>2, Zenon DEF Matched, StopsAt, yy_act
<1>4. ~ DigitAt(input, cp)
  <2>1. CASE cp < Len(input)
    BY <1>2, <1>3, <2>1, DigitClasses, Zenon
  <2>2. CASE ~ (cp < Len(input))
    BY <2>2, Zenon DEF DigitAt, StartsClass
  <2> QED
    BY <2>1, <2>2, Zenon
<1>5. bp < Len(input)
  BY <1>2, SMT
<1>6. yy_act = NumberRule => DigitAt(input, bp)
  BY <1>2, <1>5, RuleMatched, DigitClasses, Zenon DEF yy_act
<1> QED
  BY <1>3, <1>4, <1>6, Zenon

LEMMA SkipBlankMoves ==
  ASSUME ScanInv, SkipBlank
  PROVE  ScanInv'
<1>1. /\ pc = "act" /\ pc' = "begin" /\ yy_act = 2
      /\ ctx' = [ctx EXCEPT !.offset = ctx.offset + leng] /\ tokens' = tokens
      /\ input' = input /\ yy_init' = yy_init /\ yy_start' = yy_start
      /\ c_buf_p' = c_buf_p /\ hold_char' = hold_char /\ ch_buf' = ch_buf
  BY Zenon DEF SkipBlank, flexVars
<1>2. yy_act \in 1 .. 15
  BY <1>1, SMT
<1>3. bp \in Nat /\ cp \in Nat /\ bp < cp /\ cp <= Len(input) /\ bp + leng = cp
  BY <1>1, <1>2, Ruling, Zenon
<1>4. /\ ctx.offset = bp /\ c_buf_p = cp
      /\ ch_buf = Put(Buffer, cp, 0) /\ hold_char = Buffer[cp + 1]
  BY <1>1, Acting, Zenon
<1> QED
  BY <1>1, <1>3, <1>4, SkipMoves, Zenon

LEMMA RuleTypesFacts ==
  /\ \A rule \in {1} \cup 5 .. 15 : RuleTypes[rule] \in Nat /\ RuleTypes[rule] \notin NumeralTypes
  /\ {T_IDENTIFIER, T_INVALID_NUMBER, T_FLOAT, T_INTEGER} \subseteq Nat
<1>1. {T_IDENTIFIER, T_INVALID_NUMBER, T_FLOAT, T_INTEGER} \subseteq Nat
  BY SMT DEF T_IDENTIFIER, T_INVALID_NUMBER, T_FLOAT, T_INTEGER
<1>2. ASSUME NEW rule \in {1} \cup 5 .. 15
      PROVE  RuleTypes[rule] \in
               {T_IDENTIFIER, T_DOT, T_MUL, T_DIV, T_POW, T_SUB, T_ADD, T_LEFT_PAREN,
                T_RIGHT_PAREN, T_AT}
  <2>1. \/ rule = 1 \/ rule = 5 \/ rule = 6 \/ rule = 7 \/ rule = 8 \/ rule = 9
        \/ rule = 10 \/ rule = 11 \/ rule = 12 \/ rule = 13 \/ rule = 14 \/ rule = 15
    BY SMT
  <2> QED
    BY <2>1 DEF RuleTypes
<1>3. {T_IDENTIFIER, T_DOT, T_MUL, T_DIV, T_POW, T_SUB, T_ADD, T_LEFT_PAREN,
       T_RIGHT_PAREN, T_AT} \subseteq Nat \ NumeralTypes
  BY SMT DEF NumeralTypes, T_IDENTIFIER, T_DOT, T_MUL, T_DIV, T_POW, T_SUB, T_ADD,
     T_LEFT_PAREN, T_RIGHT_PAREN, T_AT, T_INTEGER, T_FLOAT, T_INVALID_NUMBER
<1> QED
  BY <1>1, <1>2, <1>3, Zenon

LEMMA TakeMatchMoves ==
  ASSUME ScanInv, TakeMatch
  PROVE  ScanInv'
<1> DEFINE type == IF yy_act = 4 THEN ClassifyNumber(yytext).type ELSE RuleTypes[yy_act]
<1>1. /\ pc = "act" /\ yy_act \in {1} \cup 4 .. 15
      /\ ReturnToken(type, ctx.offset + leng)
      /\ input' = input /\ yy_init' = yy_init /\ yy_start' = yy_start
      /\ text_ptr' = text_ptr /\ leng' = leng
      /\ c_buf_p' = c_buf_p /\ hold_char' = hold_char /\ ch_buf' = ch_buf
  BY Zenon DEF TakeMatch, flexVars
<1>2. /\ yy_act \in 1 .. 15 /\ NumberRule = 4
      /\ yy_act # 4 => yy_act \in {1} \cup 5 .. 15
  BY <1>1, SMT DEF NumberRule
<1>3. /\ bp \in Nat /\ cp \in Nat /\ bp < cp /\ cp <= Len(input)
      /\ bp + leng = cp /\ leng = cp - bp
      /\ input \in Seq(Byte) /\ yytext = SubSeq(input, bp + 1, cp)
  BY <1>1, <1>2, Ruling, Zenon
<1>4. /\ ctx.offset = bp /\ c_buf_p = cp /\ text_ptr = bp
      /\ ch_buf = Put(Buffer, cp, 0) /\ hold_char = Buffer[cp + 1]
  BY <1>1, Acting, Zenon
<1>5. /\ type \in Nat
      /\ type \in NumeralTypes => yy_act = 4
  <2>1. yytext \in Seq(Byte)
    BY <1>3, TextFacts, Zenon
  <2>2. ClassifyNumber(yytext).type \in Nat
    BY <2>1, NumberEnds, RuleTypesFacts, Zenon
  <2> QED
    BY <1>2, <2>2, RuleTypesFacts, Zenon
<1>6. type \in NumeralTypes => DigitAt(input, bp) /\ ~ DigitAt(input, cp)
  BY <1>1, <1>2, <1>5, RuleEnds, Zenon
<1> HIDE DEF type
<1>7. ReturnToken(type, cp)
  BY <1>1, <1>3, <1>4, Zenon
<1> QED
  BY <1>1, <1>3, <1>4, <1>5, <1>6, <1>7, ReturnMoves, Zenon

LEMMA CutChunkMoves ==
  ASSUME ScanInv, CutChunk
  PROVE  ScanInv'
<1>1. /\ pc = "act" /\ yy_act = ChunkRule
      /\ \E cut \in {ClassifyUnicodeChunk(yytext)} : SkipChunk(cut) \/ TakeChunk(cut)
  BY Zenon DEF CutChunk, ChunkRule
<1>2. yy_act \in 1 .. 15
  BY <1>1, SMT DEF ChunkRule
<1>3. /\ bp \in Nat /\ cp \in Nat /\ bp < cp /\ cp <= Len(input)
      /\ leng = cp - bp /\ Len(input) \in Nat
      /\ input \in Seq(Byte) /\ yytext = SubSeq(input, bp + 1, cp)
  BY <1>1, <1>2, Ruling, Zenon
<1>4. ctx.offset = bp /\ Restored = Buffer
  BY <1>1, Acting, Zenon
<1>5. PICK cut : cut = ClassifyUnicodeChunk(yytext) /\ (SkipChunk(cut) \/ TakeChunk(cut))
  BY <1>1, Zenon
<1>6. /\ yytext \in Seq(Byte) /\ yytext # << >> /\ Len(yytext) = cp - bp
  BY <1>3, TextFacts, Zenon
<1>7. cut.length \in 1 .. cp - bp /\ cut.type \in Nat
  BY <1>5, <1>6, ChunkCut, TypesApart, Zenon
<1> DEFINE end == bp + cut.length
<1>8. /\ end \in Nat /\ bp < end /\ end <= Len(input) /\ cut.length = end - bp
      /\ TrimmedEnd(cut) = end
  BY <1>3, <1>4, <1>7, SMT DEF TrimmedEnd
<1>9. /\ cut.type \in NumeralTypes => DigitAt(input, bp)
      /\ cut.type \in NumeralTypes => ~ DigitAt(input, end)
  <2>1. cp < Len(input) => ClassAt(Buffer, cp) \notin GoesOn
    BY <1>1, RuleEnds, Zenon
  <2> QED
    BY <1>3, <1>5, <2>1, ChunkNumeral, Zenon
<1>10. /\ Trim(cut) => /\ c_buf_p' = end /\ text_ptr' = bp /\ leng' = end - bp
                       /\ hold_char' = Buffer[end + 1] /\ ch_buf' = Put(Buffer, end, 0)
                       /\ input' = input /\ yy_init' = yy_init /\ yy_start' = yy_start
  BY <1>4, <1>8, Zenon DEF Trim
<1> HIDE DEF end
<1>11. CASE SkipChunk(cut)
  <2>1. /\ Trim(cut) /\ pc' = "begin" /\ ctx' = [ctx EXCEPT !.offset = end]
        /\ tokens' = tokens
    BY <1>8, <1>11, Zenon DEF SkipChunk
  <2> QED
    BY <1>1, <1>8, <1>10, <2>1, SkipMoves, Zenon
<1>12. CASE TakeChunk(cut)
  <2>1. Trim(cut) /\ ReturnToken(cut.type, end)
    BY <1>8, <1>12, Zenon DEF TakeChunk
  <2> QED
    BY <1>1, <1>7, <1>8, <1>9, <1>10, <2>1, ReturnMoves, Zenon
<1> QED
  BY <1>5, <1>11, <1>12, Zenon

\* Where the end-of-buffer action starts from.
LEMMA Ending ==
  ASSUME ScanInv, AtNul
  PROVE  /\ BehindNul(Buffer, yy_start, text_ptr, state, cp)
         /\ yy_start \in StartStates /\ IsBuffer(Buffer) /\ Restored = Buffer
         /\ text_ptr \in Nat /\ text_ptr = bp /\ cp \in Nat /\ text_ptr < cp
         /\ c_buf_p = cp /\ cp < Len(Buffer)
         /\ MatchedEnd = cp - 1
         /\ Buffer \in Seq(Byte) /\ Len(Buffer) = Len(input) + 2 /\ Len(input) \in Nat
         /\ hold_char = Buffer[cp + 1] /\ ctx.offset = bp /\ bp <= Len(input)
<1>1. pc = "act" /\ yy_accept[state] = YY_END_OF_BUFFER
  BY Zenon DEF AtNul, yy_act
<1>2. /\ yy_start \in StartStates /\ IsBuffer(Buffer) /\ Restored = Buffer
      /\ bp \in Nat /\ text_ptr = bp /\ cp \in Nat /\ bp < cp
      /\ c_buf_p = cp /\ cp < Len(Buffer)
      /\ hold_char = Buffer[cp + 1] /\ ctx.offset = bp /\ bp <= Len(input)
      /\ Found(Buffer, yy_start, bp, state, cp, last_state, last_cpos)
  BY <1>1, Acting, Zenon
<1>3. BehindNul(Buffer, yy_start, bp, state, cp)
  BY <1>1, <1>2, FoundFacts, Zenon
<1>4. MatchedEnd = cp - 1
  BY <1>2, SMT DEF MatchedEnd
<1> QED
  BY <1>2, <1>3, <1>4, ScanFacts, Zenon

\* The buffer is whole again and the match goes on, or its rule is looked for.
LEMMA ResumeMoves ==
  ASSUME ScanInv, pc = "act", pc' \in {"match", "find"},
         input' = input, yy_init' = yy_init, yy_start' = yy_start,
         hold_char' = hold_char, ctx' = ctx, tokens' = tokens,
         ch_buf' = Restored, bp' = text_ptr,
         pc' = "match" =>
           Lexed(Buffer, yy_start, text_ptr, state', cp', last_state', last_cpos'),
         pc' = "find" =>
           Found(Buffer, yy_start, text_ptr, state', cp', last_state', last_cpos')
  PROVE  ScanInv'
<1>1. /\ pc' # "caller" /\ pc' # "begin" /\ pc' # "act"
      /\ pc' \in {"caller", "begin", "match", "find", "act"}
      /\ pc # "caller"
  BY Zenon
<1>2. /\ yy_init = TRUE /\ yy_start \in StartStates
      /\ bp \in Nat /\ text_ptr = bp /\ bp <= Len(input) /\ ctx.offset = bp
      /\ Restored = Buffer
  BY Acting, Zenon
<1>3. /\ Buffer \in Seq(Byte) /\ Len(Buffer) = Len(input) + 2
  BY ScanFacts, Zenon
<1>4. Buffer' = Buffer
  BY Zenon DEF Buffer
<1>5. ScanTyped' /\ ScanStarted' /\ ScanReturned' /\ ScanBusy'
  BY <1>1, <1>2, <1>3, Zenon
     DEF ScanTyped, ScanStarted, ScanReturned, ScanBusy, ScanInv
<1>6. ScanMatch' /\ ScanFind' /\ ScanFound'
  BY <1>1, <1>2, <1>4, Zenon DEF ScanMatch, ScanFind, ScanFound
<1> QED
  BY <1>1, <1>5, <1>6, Zenon DEF ScanInv, ScanReady, ScanAct

LEMMA TextNulMoves ==
  ASSUME ScanInv, MatchNul \/ EndBeforeNul
  PROVE  ScanInv'
<1>1. /\ AtNul /\ IsTextNul /\ pc = "act"
      /\ input' = input /\ yy_init' = yy_init /\ yy_start' = yy_start
      /\ hold_char' = hold_char /\ ctx' = ctx /\ tokens' = tokens
      /\ ch_buf' = Restored /\ bp' = text_ptr
      /\ last_state' = NulLast[1] /\ last_cpos' = NulLast[2]
  BY Zenon DEF MatchNul, EndBeforeNul, AtNul
<1>2. /\ BehindNul(Buffer, yy_start, text_ptr, state, cp)
      /\ yy_start \in StartStates /\ IsBuffer(Buffer) /\ Restored = Buffer
      /\ text_ptr \in Nat /\ cp \in Nat /\ c_buf_p = cp /\ MatchedEnd = cp - 1
      /\ Len(Buffer) = Len(input) + 2 /\ Len(input) \in Nat
  BY <1>1, Ending, Zenon
<1>3. cp + 2 <= Len(Buffer)
  BY <1>1, <1>2, SMT DEF IsTextNul, n_chars
<1>4. /\ NulState # JamState =>
           Lexed(Buffer, yy_start, text_ptr, NulState, MatchedEnd + 1, NulLast[1], NulLast[2])
      /\ NulState = JamState =>
           Matched(Buffer, yy_start, text_ptr, NulLast[1], NulLast[2])
  BY <1>2, <1>3, NulMoves, Zenon
<1>5. CASE MatchNul
  <2>1. /\ pc' = "match" /\ cp' = MatchedEnd + 1 /\ state' = NulState
        /\ NulState # JamState
    BY <1>5, Zenon DEF MatchNul
  <2>2. Lexed(Buffer, yy_start, text_ptr, state', cp', last_state', last_cpos')
    BY <1>1, <1>4, <2>1, Zenon
  <2>3. pc' \in {"match", "find"} /\ pc' # "find"
    BY <2>1, Zenon
  <2> QED
    BY <1>1, <2>2, <2>3, ResumeMoves, Zenon
<1>6. CASE EndBeforeNul
  <2>1. /\ pc' = "find" /\ cp' = last_cpos' /\ state' = last_state'
        /\ NulState = JamState
    BY <1>6, Zenon DEF EndBeforeNul
  <2>2. Found(Buffer, yy_start, text_ptr, state', cp', last_state', last_cpos')
    BY <1>1, <1>4, <2>1, Zenon DEF Found
  <2>3. pc' \in {"match", "find"} /\ pc' # "match"
    BY <2>1, Zenon
  <2> QED
    BY <1>1, <2>2, <2>3, ResumeMoves, Zenon
<1> QED
  BY <1>5, <1>6, Zenon

LEMMA EndOfFileMoves ==
  ASSUME ScanInv, EndOfFile
  PROVE  ScanInv'
<1>1. /\ AtNul /\ ~ IsTextNul /\ NothingMatched
      /\ pc' = "caller" /\ Buffer' = Buffer
      /\ ch_buf' = Restored /\ c_buf_p' = text_ptr
      /\ input' = input /\ yy_init' = yy_init /\ yy_start' = yy_start
      /\ hold_char' = hold_char /\ ctx' = ctx /\ tokens' = tokens
  BY Zenon DEF EndOfFile, Buffer
<1>2. /\ pc' # "begin" /\ pc' # "match" /\ pc' # "find" /\ pc' # "act"
      /\ pc' \in {"caller", "begin", "match", "find", "act"}
      /\ pc # "caller"
  BY <1>1, Zenon DEF AtNul
<1>3. /\ text_ptr \in Nat /\ text_ptr = bp /\ cp \in Nat
      /\ c_buf_p = cp /\ cp < Len(Buffer) /\ Restored = Buffer
      /\ Buffer \in Seq(Byte) /\ Len(Buffer) = Len(input) + 2 /\ Len(input) \in Nat
      /\ hold_char = Buffer[cp + 1] /\ ctx.offset = bp /\ bp <= Len(input)
  BY <1>1, Ending, Zenon
<1>4. /\ text_ptr = Len(input) /\ cp + 1 = Len(input) + 2
      /\ Len(input) < Len(Buffer) /\ Len(input) + 1 \in 1 .. Len(Buffer)
  BY <1>1, <1>3, SMT DEF IsTextNul, n_chars, NothingMatched
<1>5. input \in Seq(Byte) /\ yy_init = TRUE /\ yy_start \in StartStates
  BY <1>2, ScanFacts, Zenon
<1>6. hold_char = Buffer[Len(input) + 1]
  BY <1>3, <1>4, <1>5, BufferFacts, Zenon
<1>7. Put(Buffer, Len(input), hold_char) = Buffer
  <2>1. Buffer[Len(input) + 1] \in Byte
    BY <1>3, <1>4, ElementOfSeq, Zenon
  <2>2. Put(Buffer, Len(input), Buffer[Len(input) + 1]) = Buffer
    BY <1>3, <1>4, <2>1, PutBack
  <2> QED
    BY <1>6, <2>2, Zenon
<1>8. ScanTyped' /\ ScanStarted' /\ ScanReturned'
  BY <1>1, <1>2, <1>3, <1>5, Zenon DEF ScanTyped, ScanStarted, ScanReturned, ScanInv
<1>9. ScanReady'
  BY <1>1, <1>3, <1>4, <1>7, Zenon DEF ScanReady
<1> QED
  BY <1>2, <1>8, <1>9, Zenon DEF ScanInv, ScanBusy, ScanMatch, ScanFind, ScanAct, ScanFound

LEMMA LastMatchMoves ==
  ASSUME ScanInv, LastMatch
  PROVE  ScanInv'
<1> DEFINE previous == PreviousState(Len(input))
<1>1. /\ AtNul /\ ~ IsTextNul /\ ~ NothingMatched /\ pc = "act"
      /\ pc' = "find"
      /\ input' = input /\ yy_init' = yy_init /\ yy_start' = yy_start
      /\ hold_char' = hold_char /\ ctx' = ctx /\ tokens' = tokens
      /\ ch_buf' = Restored /\ bp' = text_ptr
      /\ last_state' = previous.last[1] /\ last_cpos' = previous.last[2]
      /\ cp' = Len(input) /\ state' = previous.state
  BY Zenon DEF LastMatch, AtNul, n_chars
<1>2. /\ BehindNul(Buffer, yy_start, text_ptr, state, cp)
      /\ yy_start \in StartStates /\ IsBuffer(Buffer) /\ Restored = Buffer
      /\ text_ptr \in Nat /\ cp \in Nat /\ text_ptr < cp
      /\ c_buf_p = cp /\ cp < Len(Buffer)
      /\ Len(Buffer) = Len(input) + 2 /\ Len(input) \in Nat
  BY <1>1, Ending, Zenon
<1>3. Len(input) = cp - 1 /\ text_ptr < Len(input)
  BY <1>1, <1>2, SMT DEF IsTextNul, n_chars, NothingMatched
<1>4. Found(Buffer, yy_start, text_ptr, previous.state, Len(input),
            previous.last[1], previous.last[2])
  BY <1>2, <1>3, LastMoves
<1> HIDE DEF previous
<1>5. Found(Buffer, yy_start, text_ptr, state', cp', last_state', last_cpos')
  BY <1>1, <1>4, Zenon
<1>6. pc' \in {"match", "find"} /\ pc' # "match"
  BY <1>1, Zenon
<1> QED
  BY <1>1, <1>5, <1>6, ResumeMoves, Zenon

LEMMA ScanUnchanged == ScanInv /\ UNCHANGED scannerVars => ScanInv'
  BY Zenon DEF ScanInv, ScanTyped, ScanStarted, ScanReturned, ScanReady, ScanBusy, ScanMatch,
     ScanFind, ScanAct, ScanFound, Buffer, scannerVars, flexVars, matchVars

\* yylex keeps its invariant, whatever the input.
LEMMA ScanInvariant == ScannerSpec => []ScanInv
<1>1. ScannerInit => ScanInv
  BY ScanInitially
<1>2. ScanInv /\ [FirstCall \/ CallAgain \/ Scan \/ Stopped]_scannerVars => ScanInv'
  <2> SUFFICES ASSUME ScanInv, [FirstCall \/ CallAgain \/ Scan \/ Stopped]_scannerVars
               PROVE  ScanInv'
    OBVIOUS
  <2>1. CASE FirstCall \/ CallAgain
    BY <2>1, CallMoves
  <2>2. CASE Begin \/ MatchNext \/ MatchEnd
    BY <2>2, BeginMoves, MatchNextMoves, MatchEndMoves
  <2>3. CASE FindAction \/ BackUp
    BY <2>3, FindActionMoves, BackUpMoves
  <2>4. CASE SkipBlank \/ TakeMatch \/ CutChunk
    BY <2>4, SkipBlankMoves, TakeMatchMoves, CutChunkMoves
  <2>5. CASE MatchNul \/ EndBeforeNul \/ EndOfFile \/ LastMatch
    BY <2>5, TextNulMoves, EndOfFileMoves, LastMatchMoves
  <2>6. CASE UNCHANGED scannerVars
    BY <2>6, ScanUnchanged
  <2> QED
    BY <2>1, <2>2, <2>3, <2>4, <2>5, <2>6 DEF Scan, Stopped
<1> QED
  BY <1>1, <1>2, PTL DEF ScannerSpec

\* Whatever the automaton matched and gave back: the byte under the NUL that
\* ends yytext is back in the buffer before the next byte is read.
THEOREM BufferKept == ScannerSpec => []BufferIsInput
<1>1. ScanInv => BufferIsInput
  <2> SUFFICES ASSUME ScanInv PROVE BufferIsInput
    OBVIOUS
  <2>1. CASE pc \in {"match", "find"}
    BY <2>1, Zenon DEF ScanInv, ScanMatch, ScanFind, BufferIsInput
  <2>2. CASE pc \in {"caller", "begin"}
    <3>1. pc \notin {"match", "find"}
      BY <2>2, Zenon
    <3> QED
      BY <2>2, <3>1, Zenon DEF ScanInv, ScanReady, BufferIsInput
  <2>3. CASE pc = "act"
    <3>1. pc \notin {"match", "find"}
      BY <2>3, Zenon
    <3> QED
      BY <2>3, <3>1, Acting, Zenon DEF BufferIsInput, Restored
  <2> QED
    BY <2>1, <2>2, <2>3, Zenon DEF ScanInv, ScanTyped
<1> QED
  BY <1>1, ScanInvariant, PTL

\* Between two matches the context has counted what the scanner has consumed.
THEOREM OffsetKept == ScannerSpec => []OffsetIsCursor
<1>1. ScanInv => OffsetIsCursor
  BY Zenon DEF ScanInv, ScanReady, OffsetIsCursor
<1> QED
  BY <1>1, ScanInvariant, PTL

\* None of the three fatal errors of the generated code can happen.
THEOREM FatalNever == ScannerSpec => []NeverFatal
<1>1. ScanInv => NeverFatal
  <2> SUFFICES ASSUME ScanInv PROVE NeverFatal
    OBVIOUS
  <2>1. ASSUME pc \in {"find", "act"}
        PROVE  state # 0 /\ yy_act \in 0 .. 15 \cup {YY_END_OF_BUFFER}
    <3>1. pc \in {"match", "find", "act"} /\ pc # "caller"
      BY <2>1, Zenon
    <3>2. /\ IsBuffer(Buffer) /\ yy_start \in StartStates /\ bp \in Nat
          /\ Found(Buffer, yy_start, bp, state, cp, last_state, last_cpos)
      BY <2>1, <3>1, ScanFacts, Zenon DEF ScanInv, ScanBusy, ScanFound
    <3> QED
      BY <3>2, FoundFacts, Zenon DEF yy_act
  <2>2. AtNul => c_buf_p <= n_chars + 1
    <3>1. ASSUME AtNul
          PROVE  c_buf_p <= Len(input) + 1
      <4>1. /\ c_buf_p = cp /\ cp \in Nat /\ cp < Len(Buffer)
            /\ Len(Buffer) = Len(input) + 2 /\ Len(input) \in Nat
        BY <3>1, Ending, Zenon
      <4> QED
        BY <4>1, SMT
    <3> QED
      BY <3>1, Zenon DEF n_chars
  <2> QED
    BY <2>1, <2>2, Zenon DEF NeverFatal
<1> QED
  BY <1>1, ScanInvariant, PTL

\* Two numbers that were returned one after the other do not touch.
THEOREM NumeralsKeptApart == ScannerSpec => []NumeralsApart
<1>1. ScanInv => NumeralsApart
  BY Zenon DEF ScanInv, ScanReturned, Returned, ComesAfter, NumeralsApart
<1> QED
  BY <1>1, ScanInvariant, PTL

\* A token is the text between its offsets, and the tokens follow each other:
\* neither what was matched too much nor the NULs in the buffer show.
TokensAreText ==
  /\ \A i \in 1 .. Len(tokens) :
       tokens[i].text = SubSeq(input, tokens[i].start + 1, tokens[i].end)
  /\ \A i \in 2 .. Len(tokens) : tokens[i - 1].end <= tokens[i].start

THEOREM TokensKept == ScannerSpec => []TokensAreText
<1>1. ScanInv => TokensAreText
  BY Zenon DEF ScanInv, ScanReturned, Returned, IsCut, ComesAfter, TokensAreText
<1> QED
  BY <1>1, ScanInvariant, PTL

(***************************************************************************)
(* The limits.  The context counts along the way what LexicalLimits says   *)
(* of all the tokens returned before; the depth of nesting there is a      *)
(* recursion over them, of which the context holds the last value.         *)
(***************************************************************************)
DepthStep(type, before) ==
  IF type = T_LEFT_PAREN THEN before + 1
  ELSE IF type = T_RIGHT_PAREN /\ before > 0 THEN before - 1
  ELSE before

IsDepth(depth, delivered) ==
  depth = [n \in 0 .. Len(delivered) |->
             IF n = 0 THEN 0 ELSE DepthStep(delivered[n].type, depth[n - 1])]

LEMMA SameKinds ==
  /\ Stream!T_LEFT_PAREN = T_LEFT_PAREN /\ Stream!T_RIGHT_PAREN = T_RIGHT_PAREN
  /\ Stream!Unbounded = SizedTokens /\ Stream!YYEOF = YYEOF
  /\ YYEOF \notin TokenTypes
<1>1. /\ Stream!T_LEFT_PAREN = T_LEFT_PAREN /\ Stream!T_RIGHT_PAREN = T_RIGHT_PAREN
      /\ Stream!YYEOF = YYEOF
  BY DEF Stream!T_LEFT_PAREN, Stream!T_RIGHT_PAREN, Stream!YYEOF, T_LEFT_PAREN,
         T_RIGHT_PAREN, YYEOF
<1>2. Stream!Unbounded = SizedTokens
  BY DEF Stream!Unbounded, SizedTokens, Stream!T_IDENTIFIER, Stream!T_INTEGER,
         Stream!T_FLOAT, Stream!T_SUPERSCRIPT_INTEGER, Stream!T_INVALID_NUMBER,
         T_IDENTIFIER, T_INTEGER, T_FLOAT, T_SUPERSCRIPT_INTEGER, T_INVALID_NUMBER
<1>3. YYEOF \notin TokenTypes
  BY DEF TokenTypes, OperatorTypes, YYEOF, T_DOT, T_MUL, T_DIV, T_POW, T_SUB,
     T_ADD, T_LEFT_PAREN, T_RIGHT_PAREN, T_AT, T_IDENTIFIER, T_SKIP, T_INTEGER,
     T_FLOAT, T_INVALID_NUMBER, T_SUPERSCRIPT_INTEGER, T_INVALID_SUPERSCRIPT
<1> QED
  BY <1>1, <1>2, <1>3

LEMMA DepthAppend ==
  ASSUME NEW delivered \in Seq(ScannerTokens), NEW token \in ScannerTokens,
         NEW depth, IsDepth(depth, delivered)
  PROVE  \E more : /\ IsDepth(more, Append(delivered, token))
                   /\ more[Len(Append(delivered, token))] =
                        DepthStep(token.type, depth[Len(delivered)])
<1> DEFINE last == Len(delivered)
           all == Append(delivered, token)
           new == DepthStep(token.type, depth[last])
           more == [n \in 0 .. last + 1 |-> IF n = last + 1 THEN new ELSE depth[n]]
<1>1. /\ last \in Nat /\ Len(all) = last + 1 /\ all[last + 1] = token
      /\ \A n \in 1 .. last : all[n] = delivered[n]
  OBVIOUS
<1>2. /\ last \in 0 .. last + 1 /\ last # last + 1 /\ last + 1 \in 0 .. last + 1
      /\ last + 1 # 0 /\ (last + 1) - 1 = last
      /\ \A n \in 0 .. last + 1 : n # last + 1 =>
           n \in 0 .. last /\ (n # 0 => n - 1 \in 0 .. last + 1 /\ n - 1 # last + 1
                                        /\ n \in 1 .. last)
  BY <1>1, SMT
<1>3. more[last + 1] = new /\ more[last] = depth[last]
  BY <1>2
<1>4. ASSUME NEW n \in 0 .. last + 1
      PROVE  more[n] = IF n = 0 THEN 0 ELSE DepthStep(all[n].type, more[n - 1])
  <2>1. CASE n = last + 1
    <3> HIDE DEF more, all, last
    <3> QED
      BY <1>1, <1>2, <1>3, <2>1, Zenon
  <2>2. CASE n # last + 1
    <3>1. more[n] = depth[n] /\ n \in 0 .. last
      BY <1>2, <2>2
    <3>2. depth[n] = IF n = 0 THEN 0 ELSE DepthStep(delivered[n].type, depth[n - 1])
      BY <3>1, Zenon DEF IsDepth
    <3>3. n # 0 => more[n - 1] = depth[n - 1] /\ all[n] = delivered[n]
      BY <1>1, <1>2, <2>2
    <3> HIDE DEF more, all
    <3> QED
      BY <3>1, <3>2, <3>3, Zenon
  <2> QED
    BY <2>1, <2>2
<1>5. more = [n \in 0 .. last + 1 |-> more[n]]
  BY Zenon
<1> HIDE DEF more
<1>6. IsDepth(more, all)
  BY <1>1, <1>4, <1>5, Zenon DEF IsDepth
<1> QED
  BY <1>1, <1>3, <1>6, Zenon

\* There is but one such function.
LEMMA DepthKnown ==
  ASSUME NEW delivered \in Seq(ScannerTokens), NEW depth, IsDepth(depth, delivered)
  PROVE  Stream!DepthOf(delivered) = depth[Len(delivered)]
<1> DEFINE f[n \in 0 .. Len(delivered)] ==
             IF n = 0 THEN 0
             ELSE IF delivered[n].type = T_LEFT_PAREN THEN f[n - 1] + 1
             ELSE IF delivered[n].type = T_RIGHT_PAREN /\ f[n - 1] > 0 THEN f[n - 1] - 1
             ELSE f[n - 1]
<1>1. Stream!DepthOf(delivered) = f[Len(delivered)]
  BY SameKinds DEF Stream!DepthOf
<1>2. IsDepth(f, delivered)
  BY Zenon DEF IsDepth, DepthStep
<1> HIDE DEF f
<1> DEFINE S == {n \in Nat : f[n] = depth[n]}
<1>3. Len(delivered) \in Nat
  OBVIOUS
<1>4. \A n \in 0 .. Len(delivered) :
        /\ f[n] = IF n = 0 THEN 0 ELSE DepthStep(delivered[n].type, f[n - 1])
        /\ depth[n] = IF n = 0 THEN 0 ELSE DepthStep(delivered[n].type, depth[n - 1])
  BY <1>2, Zenon DEF IsDepth
<1>5. 0 \in S
  <2>1. 0 \in 0 .. Len(delivered) /\ 0 \in Nat
    BY <1>3, SMT
  <2> QED
    BY <1>4, <2>1, Zenon
<1>6. ASSUME NEW n \in 0 .. Len(delivered) - 1, n \in S
      PROVE  n + 1 \in S
  <2>1. /\ n + 1 \in 0 .. Len(delivered) /\ n + 1 \in Nat /\ n + 1 # 0
        /\ (n + 1) - 1 = n
    BY <1>3, SMT
  <2> QED
    BY <1>4, <1>6, <2>1, Zenon
<1> HIDE DEF S
<1>7. \A n \in 0 .. Len(delivered) : n \in S
  BY <1>3, <1>5, <1>6, Induction
<1>8. Len(delivered) \in 0 .. Len(delivered)
  BY <1>3, SMT
<1> QED
  BY <1>1, <1>7, <1>8 DEF S

\* What accepting a token counts, and when it is refused.
LEMMA AcceptCounts ==
  ASSUME NEW c \in LexerContexts, InLimits(c), NEW type, NEW loc \in Location
  PROVE  LET accepted == AcceptToken(c, type, loc)
             refused == \/ c.token_count >= TokenCountLimit
                        \/ type \in SizedTokens /\ loc.end - loc.start > TokenBytesLimit
                        \/ type = T_LEFT_PAREN /\ c.nesting_depth >= NestingDepthLimit
         IN  /\ InLimits(accepted) <=> ~ refused
             /\ InLimits(accepted) =>
                  /\ accepted.token_count = c.token_count + 1
                  /\ accepted.nesting_depth = DepthStep(type, c.nesting_depth)
<1> DEFINE depth == NextDepth(c, type)
           counted == [c EXCEPT !.token_count = @ + 1]
           bytes == loc.end - loc.start
           error == Exceeded("token_count", TokenCountLimit, counted.token_count, loc)
           error2 == Exceeded("token_bytes", TokenBytesLimit, bytes, loc)
           error3 == Exceeded("nesting_depth", NestingDepthLimit, depth, loc)
           nested == [counted EXCEPT !.nesting_depth = depth]
           accepted == AcceptToken(c, type, loc)
<1>1. /\ c.token_count \in Nat /\ c.nesting_depth \in Nat /\ c.error.category = "none"
      /\ loc.end \in Nat /\ loc.start \in Nat
      /\ TokenCountLimit \in Nat /\ TokenBytesLimit \in Nat /\ NestingDepthLimit \in Nat
  BY LimitsAssumption, SMT DEF LexerContexts, InLimits, Location
<1>2. depth = DepthStep(type, c.nesting_depth)
  BY DEF NextDepth, DepthStep
<1>3. depth \in Nat /\ (type = T_LEFT_PAREN => depth = c.nesting_depth + 1)
  BY <1>1, SMT DEF NextDepth
<1>4. /\ counted.token_count = c.token_count + 1 /\ counted.error = c.error
      /\ counted \in LexerContexts
  BY <1>1, SMT DEF LexerContexts
<1>5. /\ error.category # "none" /\ error2.category # "none" /\ error3.category # "none"
  BY DEF Exceeded
<1> HIDE DEF depth, counted, error, error2, error3
<1>6. /\ nested.token_count = counted.token_count /\ nested.error = c.error
      /\ nested.nesting_depth = depth /\ nested \in LexerContexts
  BY <1>3, <1>4, SMT DEF LexerContexts
<1> HIDE DEF nested
<1>7. /\ [counted EXCEPT !.error = error].error = error
      /\ [counted EXCEPT !.error = error2].error = error2
      /\ [nested EXCEPT !.error = error3].error = error3
  BY <1>4, <1>6, SMT DEF LexerContexts
<1>8. accepted = IF counted.token_count > TokenCountLimit
                 THEN [counted EXCEPT !.error = error]
                 ELSE IF bytes > TokenBytesLimit /\ type \in SizedTokens
                 THEN [counted EXCEPT !.error = error2]
                 ELSE IF type = T_LEFT_PAREN /\ depth > NestingDepthLimit
                 THEN [nested EXCEPT !.error = error3]
                 ELSE nested
  <2> DEFINE error4 == Exceeded("nesting_depth", NestingDepthLimit, nested.nesting_depth, loc)
  <2>1. nested.nesting_depth = depth /\ error4 = error3
    BY <1>6, Zenon DEF error3
  <2>2. accepted = IF counted.token_count > TokenCountLimit
                   THEN [counted EXCEPT !.error = error]
                   ELSE IF bytes > TokenBytesLimit /\ type \in SizedTokens
                   THEN [counted EXCEPT !.error = error2]
                   ELSE IF type = T_LEFT_PAREN /\ nested.nesting_depth > NestingDepthLimit
                   THEN [nested EXCEPT !.error = error4]
                   ELSE nested
    BY DEF AcceptToken, Counted, counted, nested, depth, error, error2
  <2> HIDE DEF accepted, bytes, error4
  <2> QED
    BY <2>1, <2>2, Zenon
<1> HIDE DEF accepted, bytes
<1>9. bytes \in Int /\ bytes = loc.end - loc.start
  BY <1>1, SMT DEF bytes
<1>10. CASE counted.token_count > TokenCountLimit
  <2>1. accepted.error = error /\ c.token_count >= TokenCountLimit
    <3>1. accepted.error = error
      BY <1>7, <1>8, <1>10, Zenon
    <3> QED
      BY <1>1, <1>4, <1>10, <3>1, SMT
  <2> QED
    BY <1>5, <2>1, Zenon DEF InLimits, accepted
<1>11. CASE /\ ~ (counted.token_count > TokenCountLimit)
            /\ bytes > TokenBytesLimit /\ type \in SizedTokens
  <2>1. accepted.error = error2
    BY <1>7, <1>8, <1>11, Zenon
  <2> QED
    BY <1>5, <1>9, <1>11, <2>1, Zenon DEF InLimits, accepted
<1>12. CASE /\ ~ (counted.token_count > TokenCountLimit)
            /\ ~ (bytes > TokenBytesLimit /\ type \in SizedTokens)
            /\ type = T_LEFT_PAREN /\ depth > NestingDepthLimit
  <2>1. accepted.error = error3
    BY <1>7, <1>8, <1>12, Zenon
  <2>2. c.nesting_depth >= NestingDepthLimit
    BY <1>1, <1>3, <1>12, SMT
  <2> QED
    BY <1>5, <1>12, <2>1, <2>2, Zenon DEF InLimits, accepted
<1>13. CASE /\ ~ (counted.token_count > TokenCountLimit)
            /\ ~ (bytes > TokenBytesLimit /\ type \in SizedTokens)
            /\ ~ (type = T_LEFT_PAREN /\ depth > NestingDepthLimit)
  <2>1. accepted = nested
    BY <1>8, <1>13, Zenon
  <2>2. /\ ~ (c.token_count >= TokenCountLimit)
        /\ type = T_LEFT_PAREN => ~ (c.nesting_depth >= NestingDepthLimit)
    BY <1>1, <1>3, <1>4, <1>13, SMT
  <2>3. /\ accepted.error.category = "none"
        /\ accepted.token_count = c.token_count + 1
        /\ accepted.nesting_depth = DepthStep(type, c.nesting_depth)
    BY <1>1, <1>2, <1>4, <1>6, <2>1, Zenon
  <2> QED
    BY <1>9, <1>13, <2>2, <2>3, Zenon DEF InLimits, accepted
<1> QED
  BY <1>10, <1>11, <1>12, <1>13, Zenon

\* The context and the stream agree while no limit was exceeded; the end of
\* the input, once reached, stays reached.
DepthCounted ==
  \E depth : IsDepth(depth, tokens) /\ depth[Len(tokens)] = ctx.nesting_depth

LimitsInv ==
  /\ outcome \in {"open", "eof", "limit"}
  /\ yy_init = FALSE => outcome = "open"
  /\ outcome = "limit" => pc = "caller"
  /\ outcome = "eof" => ctx.offset = Len(input)
  /\ outcome # "limit" =>
       InLimits(ctx) /\ ctx.token_count = Len(tokens) /\ DepthCounted

LEMMA LimitsInitially == ScannerInit => LimitsInv
<1> SUFFICES ASSUME ScannerInit PROVE LimitsInv
  OBVIOUS
<1>1. ~ IsOversize(Len(input))
  BY InputsAssumption, Zenon DEF ScannerInit
<1>2. outcome = "open" /\ tokens = << >> /\ ctx = EmptyContext
  BY <1>1, Zenon DEF ScannerInit, ContextInit
<1>3. InLimits(ctx) /\ ctx.token_count = 0 /\ ctx.nesting_depth = 0
  BY <1>2 DEF EmptyContext, NoLimit, Exceeded, InLimits
<1>4. DepthCounted
  <2> DEFINE depth == [n \in 0 .. Len(<< >>) |-> 0]
  <2>1. 0 .. Len(<< >>) = {0} /\ Len(<< >>) = 0
    OBVIOUS
  <2>2. depth = [n \in 0 .. Len(<< >>) |->
                   IF n = 0 THEN 0 ELSE DepthStep(<< >>[n].type, depth[n - 1])]
    BY <2>1
  <2>3. depth[Len(<< >>)] = 0
    BY <2>1
  <2> HIDE DEF depth
  <2> QED
    BY <1>2, <1>3, <2>2, <2>3, Zenon DEF IsDepth, DepthCounted
<1> QED
  BY <1>2, <1>3, <1>4 DEF LimitsInv

(***************************************************************************)
(* What a caller sees of the scanner: tokens are delivered one after the   *)
(* other as long as they keep the limits, the first that does not is       *)
(* refused, and nothing comes after that or after the end of the input.    *)
(***************************************************************************)
Offered(next) ==
  \E type \in TokenTypes, start, end \in 0 .. Len(input) :
    /\ Stream!DeliveredTo <= start /\ start < end
    /\ next = Stream!Token(input, type, start, end)

AsksForToken ==
  /\ outcome = "open"
  /\ \/ \E next : Offered(next) /\ (Stream!Deliver(next) \/ Stream!Refuse(next))
     \/ Stream!Finish(Stream!NoToken(input))

LimitsSettle == [][AsksForToken]_<< input, tokens, outcome >>

\* The last token delivered ends where the context is, or before.
LEMMA DeliveredSoFar ==
  ASSUME NEW offset \in Nat, Returned(tokens, input, offset)
  PROVE  Stream!DeliveredTo <= offset /\ tokens \in Seq(ScannerTokens)
<1>1. tokens \in Seq(ScannerTokens) /\ Len(tokens) \in Nat
  BY DEF Returned
<1>2. CASE tokens = << >>
  BY <1>1, <1>2 DEF Stream!DeliveredTo
<1>3. CASE tokens # << >>
  <2>1. Len(tokens) \in 1 .. Len(tokens)
    BY <1>1, <1>3
  <2>2. tokens[Len(tokens)].end <= offset
    BY <2>1, Zenon DEF Returned, IsCut
  <2>3. Stream!DeliveredTo = tokens[Len(tokens)].end
    BY <1>3, Zenon DEF Stream!DeliveredTo
  <2> QED
    BY <1>1, <2>2, <2>3, Zenon
<1> QED
  BY <1>1, <1>2, <1>3

\* A token that the scanner has cut out of the input.
LEMMA ReturnSettles ==
  ASSUME ScanInv, LimitsInv, pc = "act", NEW end \in Nat, bp < end, end <= Len(input),
         NEW type \in TokenTypes, ReturnToken(type, end),
         input' = input, yy_init' = yy_init, yy_start' = yy_start,
         text_ptr' = bp, leng' = end - bp, ch_buf' = Put(Buffer, end, 0)
  PROVE  LimitsInv' /\ AsksForToken
<1> DEFINE moved == [ctx EXCEPT !.offset = end]
           loc == [start |-> bp, end |-> end]
           accepted == AcceptToken(moved, type, loc)
           lexeme == SubSeq(ch_buf', text_ptr' + 1, text_ptr' + leng')
           token == [type |-> type, start |-> bp, end |-> end, text |-> lexeme]
<1>1. /\ bp \in Nat /\ ctx.offset = bp /\ input \in Seq(Byte) /\ Buffer \in Seq(Byte)
      /\ ctx \in LexerContexts /\ Len(Buffer) = Len(input) + 2 /\ Len(input) \in Nat
      /\ yy_init = TRUE
  BY Acting, ScanFacts, Zenon
<1>2. /\ pc' = "caller" /\ ctx' = accepted
      /\ tokens' = IF InLimits(accepted) THEN Append(tokens, token) ELSE tokens
      /\ outcome' = IF InLimits(accepted) THEN outcome ELSE "limit"
  BY <1>1, Zenon DEF ReturnToken
<1>3. outcome = "open"
  <2>1. outcome # "limit"
    BY Zenon DEF LimitsInv
  <2>2. outcome # "eof"
    <3>1. ctx.offset # Len(input)
      BY <1>1, SMT
    <3> QED
      BY <3>1, Zenon DEF LimitsInv
  <2> QED
    BY <2>1, <2>2, Zenon DEF LimitsInv
<1>4. InLimits(ctx) /\ ctx.token_count = Len(tokens) /\ DepthCounted
  BY <1>3, Zenon DEF LimitsInv
<1>5. lexeme = SubSeq(input, bp + 1, end)
  <2>1. text_ptr' + 1 = bp + 1 /\ text_ptr' + leng' = end
    BY <1>1, SMT
  <2>2. SubSeq(Put(Buffer, end, 0), bp + 1, end) = SubSeq(input, bp + 1, end)
    BY <1>1, LexemeText, Zenon
  <2> QED
    BY <2>1, <2>2, Zenon
<1> HIDE DEF lexeme
<1>6. /\ moved \in LexerContexts /\ moved.token_count = ctx.token_count
      /\ moved.nesting_depth = ctx.nesting_depth /\ InLimits(moved)
  BY <1>1, <1>4, SMTT(40) DEF LexerContexts, InLimits
<1>7. loc \in Location /\ loc.end = end /\ loc.start = bp
  BY <1>1, SMT DEF Location
<1> HIDE DEF moved, loc
<1> DEFINE refused == \/ Len(tokens) >= TokenCountLimit
                      \/ type \in SizedTokens /\ end - bp > TokenBytesLimit
                      \/ type = T_LEFT_PAREN /\ ctx.nesting_depth >= NestingDepthLimit
<1>8. /\ InLimits(accepted) <=> ~ refused
      /\ InLimits(accepted) =>
           /\ accepted.token_count = ctx.token_count + 1
           /\ accepted.nesting_depth = DepthStep(type, ctx.nesting_depth)
  <2>1. LET was == \/ moved.token_count >= TokenCountLimit
                   \/ type \in SizedTokens /\ loc.end - loc.start > TokenBytesLimit
                   \/ type = T_LEFT_PAREN /\ moved.nesting_depth >= NestingDepthLimit
        IN  /\ InLimits(accepted) <=> ~ was
            /\ InLimits(accepted) =>
                 /\ accepted.token_count = moved.token_count + 1
                 /\ accepted.nesting_depth = DepthStep(type, moved.nesting_depth)
    BY <1>6, <1>7, AcceptCounts, Zenon
  <2> HIDE DEF accepted
  <2> QED
    BY <1>4, <1>6, <1>7, <2>1, Zenon
<1> HIDE DEF accepted
<1>9. /\ Returned(tokens, input, bp) /\ Stream!DeliveredTo <= bp
      /\ tokens \in Seq(ScannerTokens) /\ Len(tokens) \in Nat
  <2>1. Returned(tokens, input, bp)
    BY <1>1, Zenon DEF ScanInv, ScanReturned
  <2>2. Stream!DeliveredTo <= bp /\ tokens \in Seq(ScannerTokens)
    BY <1>1, <2>1, DeliveredSoFar
  <2> QED
    BY <2>1, <2>2
<1>10. /\ token \in ScannerTokens /\ token.type = type /\ token.start = bp
       /\ token.end = end
  <2>1. lexeme \in Seq(Byte)
    BY <1>1, <1>5, TextFacts, Zenon
  <2>2. type \in Nat
    BY TypesApart, Zenon
  <2> QED
    BY <1>1, <2>1, <2>2, SMT DEF ScannerTokens
<1>11. token = Stream!Token(input, type, bp, end)
  BY <1>5, Zenon DEF Stream!Token
<1> HIDE DEF token
<1>12. PICK depth : IsDepth(depth, tokens) /\ depth[Len(tokens)] = ctx.nesting_depth
  BY <1>4, Zenon DEF DepthCounted
<1>13. Stream!DepthOf(tokens) = ctx.nesting_depth
  BY <1>9, <1>12, DepthKnown, Zenon
<1>14. Stream!WithinLimits(tokens, token) <=> ~ refused
  BY <1>10, <1>13, SameKinds, Zenon
     DEF Stream!WithinLimits, Stream!TooMany, Stream!TooLong, Stream!TooDeep
<1>15. token.type # Stream!YYEOF
  BY <1>10, SameKinds, Zenon
<1>16. Offered(token)
  <2>1. bp \in 0 .. Len(input) /\ end \in 0 .. Len(input)
    BY <1>1, SMT
  <2> QED
    BY <1>9, <1>11, <2>1, Zenon DEF Offered
<1> HIDE DEF refused
<1>17. CASE InLimits(accepted)
  <2>1. tokens' = Append(tokens, token) /\ outcome' = "open"
    BY <1>2, <1>3, <1>17, Zenon
  <2>2. Stream!Deliver(token)
    BY <1>3, <1>8, <1>14, <1>15, <1>17, <2>1, Zenon DEF Stream!Deliver
  <2>3. DepthCounted'
    <3>1. PICK more : /\ IsDepth(more, Append(tokens, token))
                      /\ more[Len(Append(tokens, token))] =
                           DepthStep(token.type, depth[Len(tokens)])
      BY <1>9, <1>10, <1>12, DepthAppend, Zenon
    <3>2. DepthStep(token.type, depth[Len(tokens)]) = accepted.nesting_depth
      BY <1>8, <1>10, <1>12, <1>17, Zenon
    <3> QED
      BY <1>2, <2>1, <3>1, <3>2, Zenon DEF DepthCounted
  <2>4. ctx'.token_count = Len(tokens')
    <3>1. Len(Append(tokens, token)) = Len(tokens) + 1
      BY <1>9
    <3> QED
      BY <1>2, <1>4, <1>8, <1>17, <2>1, <3>1, Zenon
  <2>5. InLimits(ctx)'
    <3>1. ctx'.error.category = "none"
      BY <1>2, <1>17, Zenon DEF InLimits
    <3> QED
      BY <3>1 DEF InLimits
  <2>6. LimitsInv'
    BY <1>1, <2>1, <2>3, <2>4, <2>5, Zenon DEF LimitsInv
  <2> QED
    BY <1>3, <1>16, <2>2, <2>6, Zenon DEF AsksForToken
<1>18. CASE ~ InLimits(accepted)
  <2>1. tokens' = tokens /\ outcome' = "limit"
    BY <1>2, <1>18, Zenon
  <2>2. Stream!Refuse(token)
    BY <1>8, <1>14, <1>15, <1>18, <2>1, Zenon DEF Stream!Refuse
  <2>3. LimitsInv'
    BY <1>1, <1>2, <2>1, Zenon DEF LimitsInv
  <2> QED
    BY <1>3, <1>16, <2>2, <2>3, Zenon DEF AsksForToken
<1> QED
  BY <1>17, <1>18

\* A step that returns nothing keeps what was counted; it moves the context
\* only while the input has not ended.
LEMMA QuietSettles ==
  ASSUME LimitsInv, outcome # "limit", outcome' = outcome, tokens' = tokens,
         input' = input, yy_init' \in {TRUE, yy_init},
         \/ ctx' = ctx
         \/ /\ outcome = "open" /\ ctx \in LexerContexts
            /\ \E end \in Nat : ctx' = [ctx EXCEPT !.offset = end]
  PROVE  LimitsInv' /\ UNCHANGED << input, tokens, outcome >>
<1>1. /\ outcome \in {"open", "eof", "limit"} /\ (yy_init = FALSE => outcome = "open")
      /\ outcome = "eof" => ctx.offset = Len(input)
      /\ InLimits(ctx) /\ ctx.token_count = Len(tokens)
  BY Zenon DEF LimitsInv
<1>2. PICK depth : IsDepth(depth, tokens) /\ depth[Len(tokens)] = ctx.nesting_depth
  BY Zenon DEF LimitsInv, DepthCounted
<1>3. /\ ctx'.error = ctx.error /\ ctx'.token_count = ctx.token_count
      /\ ctx'.nesting_depth = ctx.nesting_depth
      /\ outcome = "eof" => ctx'.offset = ctx.offset
  <2>1. CASE ctx' = ctx
    BY <2>1, Zenon
  <2>2. CASE /\ outcome = "open" /\ ctx \in LexerContexts
             /\ \E end \in Nat : ctx' = [ctx EXCEPT !.offset = end]
    <3>1. PICK end \in Nat : ctx' = [ctx EXCEPT !.offset = end]
      BY <2>2, Zenon
    <3>2. /\ ctx'.error = ctx.error /\ ctx'.token_count = ctx.token_count
          /\ ctx'.nesting_depth = ctx.nesting_depth
      BY <2>2, <3>1, SMT DEF LexerContexts
    <3> QED
      BY <2>2, <3>2, Zenon
  <2> QED
    BY <2>1, <2>2
<1>4. InLimits(ctx)'
  <2>1. ctx'.error.category = "none"
    BY <1>1, <1>3, Zenon DEF InLimits
  <2> QED
    BY <2>1 DEF InLimits
<1>5. DepthCounted'
  BY <1>2, <1>3, Zenon DEF DepthCounted
<1>6. yy_init' = FALSE => yy_init = FALSE
  BY Zenon
<1> QED
  BY <1>1, <1>3, <1>4, <1>5, <1>6, Zenon DEF LimitsInv

LEMMA InternalSettles ==
  ASSUME LimitsInv, ScanInv,
         \/ FirstCall \/ CallAgain \/ Begin \/ MatchNext \/ MatchEnd
         \/ FindAction \/ BackUp \/ MatchNul \/ EndBeforeNul \/ LastMatch
  PROVE  LimitsInv' /\ UNCHANGED << input, tokens, outcome >>
<1>1. CASE FirstCall
  <2>1. yy_init = FALSE
    BY <1>1, Zenon DEF FirstCall, ScanInv, ScanStarted
  <2>2. outcome = "open"
    BY <2>1, Zenon DEF LimitsInv
  <2>3. /\ outcome # "limit" /\ outcome' = outcome /\ tokens' = tokens /\ input' = input
        /\ yy_init' \in {TRUE, yy_init} /\ ctx' = ctx
    BY <1>1, <2>2, Zenon DEF FirstCall
  <2> QED
    BY <2>3, QuietSettles, Zenon
<1>2. CASE CallAgain
  <2>1. /\ outcome # "limit" /\ outcome' = outcome /\ tokens' = tokens /\ input' = input
        /\ yy_init' \in {TRUE, yy_init} /\ ctx' = ctx
    BY <1>2, Zenon DEF CallAgain, flexVars
  <2> QED
    BY <2>1, QuietSettles, Zenon
<1>3. CASE \/ Begin \/ MatchNext \/ MatchEnd
           \/ FindAction \/ BackUp \/ MatchNul \/ EndBeforeNul \/ LastMatch
  <2>1. /\ pc # "caller" /\ outcome' = outcome /\ tokens' = tokens /\ input' = input
        /\ yy_init' \in {TRUE, yy_init} /\ ctx' = ctx
    BY <1>3, Zenon DEF Begin, MatchNext, MatchEnd, FindAction, BackUp, MatchNul,
       EndBeforeNul, LastMatch, AtNul, flexVars
  <2>2. outcome # "limit"
    BY <2>1, Zenon DEF LimitsInv
  <2> QED
    BY <2>1, <2>2, QuietSettles, Zenon
<1> QED
  BY <1>1, <1>2, <1>3

\* The rules are about bytes, and at the end of the input there is none.
LEMMA RulesBeforeEnd ==
  ASSUME ScanInv, LimitsInv, pc = "act", yy_act \in 1 .. 15
  PROVE  outcome = "open"
<1>1. outcome # "limit"
  BY Zenon DEF LimitsInv
<1>2. ctx.offset = bp /\ bp \in Nat /\ bp < cp /\ cp <= Len(input) /\ cp \in Nat
      /\ Len(input) \in Nat
  BY Ruling, Acting, Zenon
<1>3. ctx.offset # Len(input)
  BY <1>2, SMT
<1> QED
  BY <1>1, <1>3, Zenon DEF LimitsInv

LEMMA SkipBlankSettles ==
  ASSUME ScanInv, LimitsInv, SkipBlank
  PROVE  LimitsInv' /\ UNCHANGED << input, tokens, outcome >>
<1>1. /\ pc = "act" /\ yy_act \in 1 .. 15 /\ input' = input /\ tokens' = tokens
      /\ outcome' = outcome /\ yy_init' = yy_init
      /\ ctx' = [ctx EXCEPT !.offset = ctx.offset + leng]
  BY SMT DEF SkipBlank, flexVars
<1>2. outcome = "open"
  BY <1>1, RulesBeforeEnd, Zenon
<1>3. ctx.offset = bp /\ bp + leng = cp /\ cp \in Nat /\ ctx \in LexerContexts
  BY <1>1, Ruling, Acting, ScanFacts, Zenon
<1>4. \E end \in Nat : ctx' = [ctx EXCEPT !.offset = end]
  BY <1>1, <1>3, Zenon
<1>5. outcome # "limit" /\ yy_init' \in {TRUE, yy_init}
  BY <1>1, <1>2, Zenon
<1> QED
  BY <1>1, <1>2, <1>3, <1>4, <1>5, QuietSettles, Zenon

LEMMA TakeMatchSettles ==
  ASSUME ScanInv, LimitsInv, TakeMatch
  PROVE  LimitsInv' /\ AsksForToken
<1> DEFINE type == IF yy_act = 4 THEN ClassifyNumber(yytext).type ELSE RuleTypes[yy_act]
<1>1. /\ pc = "act" /\ yy_act \in {1} \cup 4 .. 15
      /\ ReturnToken(type, ctx.offset + leng)
      /\ input' = input /\ yy_init' = yy_init /\ yy_start' = yy_start
      /\ text_ptr' = text_ptr /\ leng' = leng /\ ch_buf' = ch_buf
  BY Zenon DEF TakeMatch, flexVars
<1>2. yy_act \in 1 .. 15 /\ (yy_act # 4 => yy_act \in {1} \cup 5 .. 15)
  BY <1>1, SMT
<1>3. /\ bp \in Nat /\ cp \in Nat /\ bp < cp /\ cp <= Len(input)
      /\ bp + leng = cp /\ leng = cp - bp
      /\ input \in Seq(Byte) /\ yytext = SubSeq(input, bp + 1, cp)
  BY <1>1, <1>2, Ruling, Zenon
<1>4. ctx.offset = bp /\ text_ptr = bp /\ ch_buf = Put(Buffer, cp, 0)
  BY <1>1, Acting, Zenon
<1>5. type \in TokenTypes
  <2>1. CASE yy_act = 4
    <3>1. yytext \in Seq(Byte)
      BY <1>3, TextFacts, Zenon
    <3>2. ClassifyNumber(yytext).type \in {T_IDENTIFIER, T_INVALID_NUMBER, T_FLOAT, T_INTEGER}
      BY <3>1, NumberEnds, Zenon
    <3> QED
      BY <2>1, <3>2, Zenon DEF TokenTypes
  <2>2. CASE yy_act # 4
    <3>1. \/ yy_act = 1 \/ yy_act = 5 \/ yy_act = 6 \/ yy_act = 7 \/ yy_act = 8
          \/ yy_act = 9 \/ yy_act = 10 \/ yy_act = 11 \/ yy_act = 12 \/ yy_act = 13
          \/ yy_act = 14 \/ yy_act = 15
      BY <1>2, <2>2, SMT
    <3>2. RuleTypes[yy_act] \in OperatorTypes \cup {T_IDENTIFIER}
      BY <3>1 DEF RuleTypes, OperatorTypes
    <3> QED
      BY <2>2, <3>2, Zenon DEF TokenTypes
  <2> QED
    BY <2>1, <2>2
<1> HIDE DEF type
<1>6. ReturnToken(type, cp)
  BY <1>1, <1>3, <1>4, Zenon
<1> QED
  BY <1>1, <1>3, <1>4, <1>5, <1>6, ReturnSettles, Zenon

LEMMA CutChunkSettles ==
  ASSUME ScanInv, LimitsInv, CutChunk
  PROVE  /\ LimitsInv'
         /\ AsksForToken \/ UNCHANGED << input, tokens, outcome >>
<1>1. /\ pc = "act" /\ yy_act = ChunkRule
      /\ \E cut \in {ClassifyUnicodeChunk(yytext)} : SkipChunk(cut) \/ TakeChunk(cut)
  BY Zenon DEF CutChunk, ChunkRule
<1>2. yy_act \in 1 .. 15
  BY <1>1, SMT DEF ChunkRule
<1>3. /\ bp \in Nat /\ cp \in Nat /\ bp < cp /\ cp <= Len(input)
      /\ leng = cp - bp /\ Len(input) \in Nat
      /\ input \in Seq(Byte) /\ yytext = SubSeq(input, bp + 1, cp)
  BY <1>1, <1>2, Ruling, Zenon
<1>4. ctx.offset = bp /\ Restored = Buffer /\ ctx \in LexerContexts
  BY <1>1, Acting, ScanFacts, Zenon
<1>5. PICK cut : cut = ClassifyUnicodeChunk(yytext) /\ (SkipChunk(cut) \/ TakeChunk(cut))
  BY <1>1, Zenon
<1>6. yytext \in Seq(Byte) /\ yytext # << >> /\ Len(yytext) = cp - bp
  BY <1>3, TextFacts, Zenon
<1>7. cut.length \in 1 .. cp - bp /\ cut.type \in TokenTypes
  BY <1>5, <1>6, ChunkCut, Zenon
<1> DEFINE end == bp + cut.length
<1>8. /\ end \in Nat /\ bp < end /\ end <= Len(input) /\ cut.length = end - bp
      /\ TrimmedEnd(cut) = end
  BY <1>3, <1>4, <1>7, SMT DEF TrimmedEnd
<1>9. Trim(cut) => /\ text_ptr' = bp /\ leng' = end - bp
                   /\ ch_buf' = Put(Buffer, end, 0)
                   /\ input' = input /\ yy_init' = yy_init /\ yy_start' = yy_start
  BY <1>4, <1>8, Zenon DEF Trim
<1> HIDE DEF end
<1>10. CASE SkipChunk(cut)
  <2>1. /\ Trim(cut) /\ ctx' = [ctx EXCEPT !.offset = end]
        /\ tokens' = tokens /\ outcome' = outcome
    BY <1>8, <1>10, Zenon DEF SkipChunk
  <2>2. outcome = "open"
    BY <1>1, <1>2, RulesBeforeEnd, Zenon
  <2>3. outcome # "limit" /\ input' = input /\ yy_init' \in {TRUE, yy_init}
        /\ \E o \in Nat : ctx' = [ctx EXCEPT !.offset = o]
    BY <1>8, <1>9, <2>1, <2>2, Zenon
  <2> QED
    BY <1>4, <2>1, <2>2, <2>3, QuietSettles, Zenon
<1>11. CASE TakeChunk(cut)
  <2>1. Trim(cut) /\ ReturnToken(cut.type, end)
    BY <1>8, <1>11, Zenon DEF TakeChunk
  <2> QED
    BY <1>1, <1>7, <1>8, <1>9, <2>1, ReturnSettles, Zenon
<1> QED
  BY <1>5, <1>10, <1>11, Zenon

\* The end of the input is told again whenever the caller asks again.
LEMMA EndOfFileSettles ==
  ASSUME ScanInv, LimitsInv, EndOfFile
  PROVE  /\ LimitsInv'
         /\ AsksForToken \/ UNCHANGED << input, tokens, outcome >>
<1>1. /\ AtNul /\ ~ IsTextNul /\ NothingMatched /\ pc = "act"
      /\ outcome' = "eof" /\ pc' = "caller"
      /\ input' = input /\ ctx' = ctx /\ tokens' = tokens /\ yy_init' = yy_init
  BY Zenon DEF EndOfFile, AtNul
<1>2. /\ text_ptr \in Nat /\ text_ptr = bp /\ cp \in Nat /\ c_buf_p = cp
      /\ cp < Len(Buffer) /\ Len(Buffer) = Len(input) + 2 /\ Len(input) \in Nat
      /\ ctx.offset = bp /\ bp <= Len(input)
  BY <1>1, Ending, Zenon
<1>3. ctx.offset = Len(input)
  BY <1>1, <1>2, SMT DEF IsTextNul, n_chars, NothingMatched
<1>4. outcome # "limit" /\ yy_init = TRUE
  <2>1. outcome # "limit"
    BY <1>1, Zenon DEF LimitsInv
  <2> QED
    BY <1>1, <2>1, Acting, Zenon
<1>5. InLimits(ctx) /\ ctx.token_count = Len(tokens) /\ DepthCounted
  BY <1>4, Zenon DEF LimitsInv
<1>6. DepthCounted' /\ InLimits(ctx')
  BY <1>1, <1>5, Zenon DEF DepthCounted, InLimits
<1>7. LimitsInv'
  BY <1>1, <1>3, <1>4, <1>5, <1>6, Zenon DEF LimitsInv, InLimits
<1>8. CASE outcome = "open"
  <2>1. Stream!NoToken(input).type = Stream!YYEOF
    BY DEF Stream!NoToken
  <2>2. Stream!Finish(Stream!NoToken(input))
    BY <1>1, <2>1, Zenon DEF Stream!Finish
  <2> QED
    BY <1>7, <1>8, <2>2, Zenon DEF AsksForToken
<1>9. CASE outcome = "eof"
  BY <1>1, <1>7, <1>9, Zenon
<1> QED
  BY <1>4, <1>8, <1>9, Zenon DEF LimitsInv

LEMMA StepSettles ==
  ASSUME ScanInv, LimitsInv, [FirstCall \/ CallAgain \/ Scan \/ Stopped]_scannerVars
  PROVE  /\ LimitsInv'
         /\ [AsksForToken]_<< input, tokens, outcome >>
<1>1. CASE \/ FirstCall \/ CallAgain \/ Begin \/ MatchNext \/ MatchEnd
           \/ FindAction \/ BackUp \/ MatchNul \/ EndBeforeNul \/ LastMatch
  BY <1>1, InternalSettles, Zenon
<1>2. CASE SkipBlank
  BY <1>2, SkipBlankSettles, Zenon
<1>3. CASE TakeMatch
  BY <1>3, TakeMatchSettles, Zenon
<1>4. CASE CutChunk
  BY <1>4, CutChunkSettles, Zenon
<1>5. CASE EndOfFile
  BY <1>5, EndOfFileSettles, Zenon
<1>6. CASE UNCHANGED scannerVars
  <2>1. /\ input' = input /\ tokens' = tokens /\ outcome' = outcome /\ ctx' = ctx
        /\ yy_init' = yy_init /\ pc' = pc
    BY <1>6, Zenon DEF scannerVars, flexVars
  <2>2. LimitsInv'
    BY <2>1, Zenon DEF LimitsInv, DepthCounted, InLimits
  <2> QED
    BY <2>1, <2>2, Zenon
<1> QED
  BY <1>1, <1>2, <1>3, <1>4, <1>5, <1>6, Zenon DEF Scan, Stopped

\* Whatever the lexemes are: a token is returned iff it keeps the limits of
\* docs/NATIVE_PARSER_ABI.md, counted over all tokens before it, the first
\* other one ends the stream, and so does the end of the input.  This is the
\* refinement of TokenStream but for which lexeme comes next.
THEOREM LimitsKept == ScannerSpec => LimitsSettle
<1>1. ScannerInit => LimitsInv
  BY LimitsInitially
<1>2. ScanInv /\ LimitsInv /\ [FirstCall \/ CallAgain \/ Scan \/ Stopped]_scannerVars
        => LimitsInv' /\ [AsksForToken]_<< input, tokens, outcome >>
  BY StepSettles
<1> QED
  BY <1>1, <1>2, ScanInvariant, PTL DEF ScannerSpec, LimitsSettle
===============================================================================
