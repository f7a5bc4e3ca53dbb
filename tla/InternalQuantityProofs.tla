------------------------ MODULE InternalQuantityProofs ------------------------
(***************************************************************************)
(* Proofs about the operator handler of quantities, for any number of      *)
(* variables and objects: every reference is counted, and the method that  *)
(* runs is the one the documentation promises, and runs once.              *)
(***************************************************************************)
EXTENDS InternalQuantity, FiniteSetTheorems, TLAPS

(***************************************************************************)
(* What an evaluation carries, and which part of it each phase may use.    *)
(***************************************************************************)
Expressions ==
  [opcode : Opcodes, left : Operands, right : Operands \cup {"null"},
   result : Operands \cup {"tmp"}, lookup : Lookups,
   written : Operands \X Operands, source : Values \X Values,
   quantity : BOOLEAN \X BOOLEAN]

Phases == {"idle", "handler", "method", "returned", "destructor", "copying",
           "discarding", "failed", "succeeded"}

Types ==
  /\ slots \in [Variables -> Values]
  /\ refs \in [Objects -> Int]
  /\ is_quantity \in [Objects -> BOOLEAN]
  /\ phase \in Phases
  /\ return_value \in Values /\ tmp \in Values /\ dying \in Values
  /\ exception \in BOOLEAN /\ retried \in BOOLEAN /\ rebound \in BOOLEAN
  /\ clobbered \in BOOLEAN /\ runs \in 0 .. 1
  /\ phase # "idle" => expr \in Expressions

\* PHP turns nothing but a multiplication round.
OperandsAsWritten ==
  phase # "idle" =>
    /\ \/ /\ expr.left = expr.written[1]
          /\ expr.right = "null" \/ expr.right = expr.written[2]
       \/ /\ expr.opcode = "mul"
          /\ expr.left = expr.written[2] /\ expr.right = expr.written[1]
    /\ expr.opcode = "not" => expr.right = "null"
    /\ expr.result # "tmp" => expr.result = expr.left /\ expr.left \in Variables

\* Each place holds a reference only while its phase lasts.
PlacesInTurn ==
  /\ phase # "method" => frame = NoFrame
  /\ phase \notin {"returned", "destructor", "copying"} => return_value = Nothing
  /\ tmp # Nothing => phase = "succeeded" /\ expr.result = "tmp"
  /\ phase \notin {"destructor", "discarding"} => dying = Nothing
  /\ Releasing => expr.result # "tmp"

\* Until the result is stored only userland rebinds a variable, and unless
\* an exception is pending the handler is entered only before userland runs.
OperandsKept ==
  /\ phase = "idle" => ~ exception /\ ~ rebound /\ runs = 0
  /\ phase = "discarding" => exception
  /\ phase \in {"handler", "failed"} /\ ~ exception =>
       /\ runs = 0 /\ ~ rebound
       /\ expr.quantity[1] = IsQuantity(expr.source[1])
       /\ expr.quantity[2] = IsQuantity(expr.source[2])
  /\ phase \in {"handler", "method", "returned", "discarding", "failed"}
       /\ ~ rebound =>
       /\ Value(expr.written[1]) = expr.source[1]
       /\ Value(expr.written[2]) = expr.source[2]

ProtocolInvariant ==
  /\ Types
  /\ OperandsAsWritten
  /\ PlacesInTurn
  /\ OperandsKept
  /\ DelegatesAsDocumented

LEMMA ValueType ==
  ASSUME slots \in [Variables -> Values], NEW operand
  PROVE  Value(operand) \in Values
BY DEF Value, Values

LEMMA ReservedNames ==
  "literal" \notin Variables /\ "null" \notin Variables /\ "tmp" \notin Variables
  /\ "null" \notin Operands /\ "tmp" \notin Operands
BY QuantityAssumption DEF Operands

LEMMA HoldDropType ==
  ASSUME NEW counts \in [Objects -> Int], NEW value
  PROVE  /\ Hold(counts, value) \in [Objects -> Int]
         /\ Drop(counts, value) \in [Objects -> Int]
BY SMT DEF Hold, Drop

LEMMA InitProtocol == QuantityInit => ProtocolInvariant
<1> SUFFICES ASSUME QuantityInit PROVE ProtocolInvariant
  OBVIOUS
<1>1. Types
  <2>1. Nothing \in Values
    BY DEF Values
  <2>2. slots \in [Variables -> Values] /\ refs \in [Objects -> Int]
        /\ is_quantity \in [Objects -> BOOLEAN]
    BY <2>1, SMT DEF QuantityInit
  <2>3. runs \in 0 .. 1
    BY SMT DEF QuantityInit
  <2> QED
    BY <2>1, <2>2, <2>3 DEF QuantityInit, Types, Phases
<1>2. OperandsAsWritten /\ PlacesInTurn /\ OperandsKept
  BY DEF QuantityInit, OperandsAsWritten, PlacesInTurn, OperandsKept, Releasing
<1>3. DelegatesAsDocumented
  BY DEF QuantityInit, DelegatesAsDocumented
<1> QED
  BY <1>1, <1>2, <1>3 DEF ProtocolInvariant

(***************************************************************************)
(* The program and the start of an evaluation.                             *)
(***************************************************************************)
LEMMA ProgramTypes ==
  ASSUME Types, NEW v \in Variables, NEW value \in Values, NEW held, NEW dropped
  PROVE  /\ [slots EXCEPT ![v] = value] \in [Variables -> Values]
         /\ Drop(refs, dropped) \in [Objects -> Int]
         /\ Drop(Hold(refs, held), dropped) \in [Objects -> Int]
BY HoldDropType DEF Types

LEMMA BetweenEvaluations ==
  ASSUME ProtocolInvariant, Types', phase = "idle",
         UNCHANGED << phase, evaluationVars >>
  PROVE  ProtocolInvariant'
<1>1. OperandsAsWritten' /\ PlacesInTurn'
  BY DEF ProtocolInvariant, evaluationVars, OperandsAsWritten, PlacesInTurn, Releasing
<1>2. OperandsKept'
  BY DEF ProtocolInvariant, evaluationVars, OperandsKept
<1>3. DelegatesAsDocumented'
  BY DEF evaluationVars, DelegatesAsDocumented
<1> QED
  BY <1>1, <1>2, <1>3 DEF ProtocolInvariant

LEMMA ProgramProtocol ==
  ASSUME ProtocolInvariant, NEW v \in Variables, NEW w \in Variables,
         \/ \E quantity \in BOOLEAN : CreateObject(v, quantity)
         \/ CloneObject(v, w)
         \/ Assign(v, w)
  PROVE  ProtocolInvariant'
<1>1. phase = "idle" /\ UNCHANGED << phase, evaluationVars >>
  BY DEF CreateObject, CloneObject, Assign, Between
<1>2. Types
  BY DEF ProtocolInvariant
<1>3. Free \subseteq Objects /\ Objects \subseteq Values
  BY DEF Free, Values
<1>4. slots[v] \in Values /\ slots[w] \in Values
  BY <1>2 DEF Types
<1>5. slots' \in [Variables -> Values] /\ refs' \in [Objects -> Int]
      /\ is_quantity' \in [Objects -> BOOLEAN]
  <2>1. CASE \E quantity \in BOOLEAN : CreateObject(v, quantity)
    <3>1. PICK quantity \in BOOLEAN : CreateObject(v, quantity)
      BY <2>1
    <3>2. PICK object \in Free :
            /\ slots' = [slots EXCEPT ![v] = object]
            /\ refs' = Drop(Hold(refs, object), slots[v])
            /\ is_quantity' = [is_quantity EXCEPT ![object] = quantity]
      BY <3>1 DEF CreateObject
    <3> QED
      BY <1>2, <1>3, <3>2, ProgramTypes DEF Types
  <2>2. CASE CloneObject(v, w)
    <3>1. slots[w] \in Objects
      BY <2>2 DEF CloneObject
    <3>2. PICK object \in Free :
            /\ slots' = [slots EXCEPT ![v] = object]
            /\ refs' = Drop(Hold(refs, object), slots[v])
            /\ is_quantity' = [is_quantity EXCEPT ![object] = is_quantity[slots[w]]]
      BY <2>2 DEF CloneObject
    <3> QED
      BY <1>2, <1>3, <3>1, <3>2, ProgramTypes DEF Types
  <2>3. CASE Assign(v, w)
    BY <1>2, <1>4, <2>3, ProgramTypes DEF Types, Assign
  <2> QED
    BY <2>1, <2>2, <2>3
<1>6. Types'
  BY <1>1, <1>2, <1>5 DEF Types, evaluationVars
<1> QED
  BY <1>1, <1>6, BetweenEvaluations

LEMMA EvaluateProtocol ==
  ASSUME ProtocolInvariant, NEW opcode \in Opcodes, NEW l \in Operands,
         NEW r \in Operands, NEW compound \in BOOLEAN, NEW swapped \in BOOLEAN,
         NEW lookup \in Lookups, Evaluate(opcode, l, r, compound, swapped, lookup)
  PROVE  ProtocolInvariant'
<1>1. phase = "idle" /\ phase' = "handler"
      /\ UNCHANGED << slots, refs, is_quantity, frame, return_value, tmp,
                      exception, retried, dying, runs, rebound, clobbered >>
      /\ (compound => l \in Variables /\ opcode # "not")
      /\ (swapped => opcode = "mul" /\ ~ compound)
  BY DEF Evaluate, Between, heapVars
<1>2. Value(l) \in Values /\ Value(r) \in Values
  BY ValueType DEF ProtocolInvariant, Types
<1>3. expr' = [opcode |-> opcode,
               left   |-> IF swapped THEN r ELSE l,
               right  |-> IF opcode = "not" THEN "null"
                          ELSE IF swapped THEN l ELSE r,
               result |-> IF compound THEN l ELSE "tmp",
               lookup |-> lookup,
               written |-> << l, r >>,
               source |-> << Value(l), Value(r) >>,
               quantity |-> << IsQuantity(Value(l)), IsQuantity(Value(r)) >>]
  BY DEF Evaluate
<1>4. expr' \in Expressions
  <2>1. IsQuantity(Value(l)) \in BOOLEAN /\ IsQuantity(Value(r)) \in BOOLEAN
    BY DEF IsQuantity, ProtocolInvariant, Types
  <2> QED
    BY <1>2, <1>3, <2>1 DEF Expressions
<1>5. Types'
  BY <1>1, <1>4 DEF ProtocolInvariant, Types, Phases
<1>6. /\ expr'.opcode = opcode /\ expr'.written = << l, r >>
      /\ expr'.source = << Value(l), Value(r) >>
      /\ expr'.quantity = << IsQuantity(Value(l)), IsQuantity(Value(r)) >>
      /\ expr'.left = IF swapped THEN r ELSE l
      /\ expr'.right = IF opcode = "not" THEN "null" ELSE IF swapped THEN l ELSE r
      /\ expr'.result = IF compound THEN l ELSE "tmp"
  BY <1>3
<1>7. OperandsAsWritten'
  BY <1>1, <1>6 DEF OperandsAsWritten
<1>8. PlacesInTurn'
  BY <1>1 DEF ProtocolInvariant, PlacesInTurn, Releasing
<1>9. OperandsKept'
  <2>1. ~ exception' /\ ~ rebound' /\ runs' = 0
    BY <1>1 DEF ProtocolInvariant, OperandsKept
  <2>2. Value(l)' = Value(l) /\ Value(r)' = Value(r)
    BY <1>1 DEF Value
  <2>3. Value(expr.written[1])' = expr'.source[1]
        /\ Value(expr.written[2])' = expr'.source[2]
    BY <1>6, <2>2 DEF Value
  <2>4. expr'.quantity[1] = IsQuantity(expr.source[1])'
        /\ expr'.quantity[2] = IsQuantity(expr.source[2])'
    BY <1>1, <1>6 DEF IsQuantity
  <2> QED
    BY <1>1, <2>1, <2>3, <2>4 DEF OperandsKept
<1>10. DelegatesAsDocumented'
  BY <1>1 DEF DelegatesAsDocumented
<1> QED
  BY <1>5, <1>7, <1>8, <1>9, <1>10 DEF ProtocolInvariant

(***************************************************************************)
(* The handler.                                                            *)
(***************************************************************************)
LEMMA CallMethodDelegates ==
  ASSUME ProtocolInvariant, CallMethod
  PROVE  DelegatesAsDocumented'
<1> DEFINE first == expr.source[1]
           second == expr.source[2]
           documented == {"add", "sub", "mul", "div", "pow"}
<1>1. /\ phase = "handler" /\ HasReceiver /\ expr.opcode # "mod" /\ ~ exception
      /\ frame' = [method |-> MethodName, receiver |-> receiver,
                   argument |-> argument]
      /\ UNCHANGED << expr, is_quantity, slots >>
  BY DEF CallMethod, Delegates, EngineCalls
<1>2. /\ ~ rebound /\ Value(expr.written[1]) = first /\ Value(expr.written[2]) = second
      /\ expr.quantity[1] = IsQuantity(first) /\ expr.quantity[2] = IsQuantity(second)
  BY <1>1 DEF ProtocolInvariant, OperandsKept
<1>3. expr.right # "null"
  BY <1>1 DEF HasReceiver
<1>4. \/ left = first /\ right = second
      \/ expr.opcode = "mul" /\ left = second /\ right = first
  BY <1>1, <1>2, <1>3 DEF ProtocolInvariant, OperandsAsWritten, left, right
<1>5. expr.opcode \in documented
  <2>1. expr.opcode \in Opcodes
    BY <1>1 DEF ProtocolInvariant, Types, Expressions
  <2>2. expr.opcode # "not"
    BY <1>1, <1>3 DEF ProtocolInvariant, OperandsAsWritten
  <2> QED
    BY <1>1, <2>1, <2>2 DEF Opcodes
<1>6. \/ IsQuantity(left)
      \/ ~ IsQuantity(left) /\ expr.opcode \in {"mul", "div"} /\ IsQuantity(right)
  BY <1>1 DEF HasReceiver
<1>7. CASE IsQuantity(left)
  <2>1. frame' = [method |-> expr.opcode, receiver |-> left, argument |-> right]
    BY <1>1, <1>7 DEF MethodName, receiver, argument, receiver_is_right
  <2> QED
    BY <1>1, <1>2, <1>4, <1>5, <1>7, <2>1 DEF DelegatesAsDocumented
<1>8. CASE ~ IsQuantity(left) /\ expr.opcode = "mul" /\ IsQuantity(right)
  <2>1. frame' = [method |-> "mul", receiver |-> right, argument |-> left]
    BY <1>1, <1>8 DEF MethodName, receiver, argument, receiver_is_right
  <2> QED
    BY <1>1, <1>2, <1>4, <1>5, <1>8, <2>1 DEF DelegatesAsDocumented
<1>9. CASE ~ IsQuantity(left) /\ expr.opcode = "div" /\ IsQuantity(right)
  <2>1. frame' = [method |-> "rdiv", receiver |-> right, argument |-> left]
    BY <1>1, <1>9 DEF MethodName, receiver, argument, receiver_is_right
  <2>2. left = first /\ right = second
    BY <1>4, <1>9
  <2> QED
    BY <1>1, <1>2, <1>9, <2>1, <2>2 DEF DelegatesAsDocumented
<1> QED
  BY <1>6, <1>7, <1>8, <1>9

LEMMA CallMethodProtocol ==
  ASSUME ProtocolInvariant, CallMethod
  PROVE  ProtocolInvariant'
<1>1. /\ phase = "handler" /\ phase' = "method" /\ ~ exception
      /\ refs' = Hold(Hold(refs, receiver), argument)
      /\ runs' = runs + 1
      /\ UNCHANGED << slots, is_quantity, expr, return_value, tmp, exception,
                      retried, dying, rebound, clobbered >>
  BY DEF CallMethod, Delegates, EngineCalls
<1>2. Types'
  <2>1. refs' \in [Objects -> Int]
    BY <1>1, HoldDropType DEF ProtocolInvariant, Types
  <2>2. runs' \in 0 .. 1
    BY <1>1, SMT DEF ProtocolInvariant, OperandsKept
  <2> QED
    BY <1>1, <2>1, <2>2 DEF ProtocolInvariant, Types, Phases
<1>3. OperandsAsWritten' /\ PlacesInTurn'
  BY <1>1 DEF ProtocolInvariant, OperandsAsWritten, PlacesInTurn, Releasing
<1>4. OperandsKept'
  BY <1>1 DEF ProtocolInvariant, OperandsKept, Value
<1> QED
  BY <1>2, <1>3, <1>4, CallMethodDelegates DEF ProtocolInvariant

\* What Release does, but for the counts.
LEMMA ReleaseType ==
  ASSUME refs \in [Objects -> Int], NEW value \in Values, NEW inside, NEW after,
         dying \in Values, Release(value, inside, after)
  PROVE  /\ refs' \in [Objects -> Int]
         /\ dying' \in Values
         /\ \/ phase' = inside
            \/ phase' = after /\ dying' = dying
BY HoldDropType DEF Release

\* The steps of the handler that call nothing and release nothing.
LEMMA HandlerProtocol ==
  ASSUME ProtocolInvariant, Refuse \/ ThrowUndefined \/ SkipCall \/ CopyToTemporary
  PROVE  ProtocolInvariant'
<1>1. /\ phase \in {"handler", "returned"}
      /\ phase' \in {"failed", "returned", "succeeded"}
      /\ UNCHANGED << slots, refs, is_quantity, expr, frame, retried, dying, runs,
                      rebound, clobbered >>
  BY DEF Refuse, ThrowUndefined, SkipCall, CopyToTemporary, Delegates,
         evaluationVars, heapVars
<1>2. Types'
  <2>1. return_value' \in Values /\ tmp' \in Values /\ exception' \in BOOLEAN
    BY DEF ProtocolInvariant, Types, Refuse, ThrowUndefined, SkipCall,
           CopyToTemporary, evaluationVars, Values
  <2> QED
    BY <1>1, <2>1 DEF ProtocolInvariant, Types, Phases
<1>3. OperandsAsWritten'
  BY <1>1 DEF ProtocolInvariant, OperandsAsWritten
<1>4. OperandsKept'
  <2>1. /\ Value(expr.written[1])' = Value(expr.written[1])
        /\ Value(expr.written[2])' = Value(expr.written[2])
        /\ IsQuantity(expr.source[1])' = IsQuantity(expr.source[1])
        /\ IsQuantity(expr.source[2])' = IsQuantity(expr.source[2])
    BY <1>1 DEF Value, IsQuantity
  <2>2. phase' = "failed" => phase = "handler" /\ (exception' \/ exception' = exception)
    BY DEF Refuse, ThrowUndefined, SkipCall, CopyToTemporary, Delegates,
           evaluationVars
  <2> QED
    BY <1>1, <2>1, <2>2 DEF ProtocolInvariant, OperandsKept
<1>5. PlacesInTurn'
  <2>1. CASE Refuse \/ ThrowUndefined \/ SkipCall
    BY <2>1 DEF ProtocolInvariant, PlacesInTurn, Releasing, Refuse, ThrowUndefined,
       SkipCall, Delegates, evaluationVars
  <2>2. CASE CopyToTemporary
    <3>1. expr.result = "tmp"
      BY <2>2 DEF ProtocolInvariant, OperandsAsWritten, CopyToTemporary
    <3> QED
      BY <2>2, <3>1 DEF ProtocolInvariant, PlacesInTurn, Releasing, CopyToTemporary
  <2> QED
    BY <2>1, <2>2
<1>6. DelegatesAsDocumented'
  BY <1>1 DEF DelegatesAsDocumented
<1> QED
  BY <1>2, <1>3, <1>4, <1>5, <1>6 DEF ProtocolInvariant

LEMMA FailAfterThrowProtocol ==
  ASSUME ProtocolInvariant, FailAfterThrow
  PROVE  ProtocolInvariant'
<1>1. /\ phase = "returned" /\ exception
      /\ Release(return_value, "discarding", "failed")
      /\ return_value' = Nothing
      /\ UNCHANGED << slots, is_quantity, expr, frame, tmp, exception, retried,
                      runs, rebound, clobbered >>
  BY DEF FailAfterThrow
<1>2. /\ refs' \in [Objects -> Int] /\ dying' \in Values
      /\ phase' = "discarding" \/ (phase' = "failed" /\ dying' = dying)
  BY <1>1, ReleaseType DEF ProtocolInvariant, Types
<1>3. Types'
  BY <1>1, <1>2 DEF ProtocolInvariant, Types, Phases, Values
<1>4. OperandsAsWritten' /\ PlacesInTurn'
  BY <1>1, <1>2 DEF ProtocolInvariant, OperandsAsWritten, PlacesInTurn, Releasing
<1>5. OperandsKept'
  BY <1>1, <1>2 DEF ProtocolInvariant, OperandsKept, Value
<1>6. DelegatesAsDocumented'
  BY <1>2 DEF DelegatesAsDocumented
<1> QED
  BY <1>3, <1>4, <1>5, <1>6 DEF ProtocolInvariant

LEMMA ReleaseLeftProtocol ==
  ASSUME ProtocolInvariant, ReleaseLeft
  PROVE  ProtocolInvariant'
<1>1. /\ phase = "returned" /\ expr.result = expr.left
      /\ Release(left, "destructor", "copying")
      /\ UNCHANGED << slots, is_quantity, expr, frame, return_value, tmp, exception,
                      retried, runs, rebound, clobbered >>
  BY DEF ReleaseLeft
<1>2. left \in Values
  BY ValueType DEF ProtocolInvariant, Types, left
<1>3. /\ refs' \in [Objects -> Int] /\ dying' \in Values
      /\ phase' = "destructor" \/ (phase' = "copying" /\ dying' = dying)
  BY <1>1, <1>2, ReleaseType DEF ProtocolInvariant, Types
<1>4. Types'
  BY <1>1, <1>3 DEF ProtocolInvariant, Types, Phases
<1>5. expr.result # "tmp"
  <2>1. expr.left \in Operands
    BY <1>1 DEF ProtocolInvariant, Types, Expressions
  <2> QED
    BY <1>1, <2>1, ReservedNames
<1>6. OperandsAsWritten' /\ PlacesInTurn'
  BY <1>1, <1>3, <1>5 DEF ProtocolInvariant, OperandsAsWritten, PlacesInTurn,
     Releasing
<1>7. OperandsKept' /\ DelegatesAsDocumented'
  BY <1>1, <1>3 DEF OperandsKept, DelegatesAsDocumented
<1> QED
  BY <1>4, <1>6, <1>7 DEF ProtocolInvariant

\* The result replaces the left operand.
LEMMA CopyOverLeftProtocol ==
  ASSUME ProtocolInvariant, CopyOverLeft
  PROVE  ProtocolInvariant'
<1>1. /\ phase = "copying" /\ phase' = "succeeded" /\ return_value' = Nothing
      /\ slots' = [slots EXCEPT ![expr.left] = return_value]
      /\ UNCHANGED << refs, is_quantity, expr, frame, tmp, exception, retried, dying,
                      runs, rebound, clobbered >>
  BY DEF CopyOverLeft
<1>2. Types'
  <2>1. slots' \in [Variables -> Values] /\ return_value' \in Values
    BY <1>1 DEF ProtocolInvariant, Types, Values
  <2> QED
    BY <1>1, <2>1 DEF ProtocolInvariant, Types, Phases
<1>3. OperandsAsWritten' /\ PlacesInTurn'
  BY <1>1 DEF ProtocolInvariant, OperandsAsWritten, PlacesInTurn, Releasing
<1>4. OperandsKept' /\ DelegatesAsDocumented'
  BY <1>1 DEF OperandsKept, DelegatesAsDocumented
<1> QED
  BY <1>2, <1>3, <1>4 DEF ProtocolInvariant

(***************************************************************************)
(* Userland and the engine.                                                *)
(***************************************************************************)
LEMMA MadeType ==
  ASSUME is_quantity \in [Objects -> BOOLEAN], NEW value
  PROVE  Made(value) \in [Objects -> BOOLEAN]
BY DEF Made

LEMMA RebindProtocol ==
  ASSUME ProtocolInvariant, NEW v \in Variables, NEW value \in Values,
         Rebind(v, value)
  PROVE  ProtocolInvariant'
<1>1. /\ phase \in {"method", "destructor", "discarding"}
      /\ rebound' = TRUE /\ clobbered' \in BOOLEAN
      /\ slots' = [slots EXCEPT ![v] = value]
      /\ refs' = Drop(Hold(refs, value), slots[v])
      /\ is_quantity' = Made(value)
      /\ UNCHANGED << phase, expr, frame, return_value, tmp, exception, retried,
                      dying, runs >>
  BY DEF Rebind
<1>2. Types'
  <2>1. refs' \in [Objects -> Int] /\ slots' \in [Variables -> Values]
        /\ is_quantity' \in [Objects -> BOOLEAN]
    BY <1>1, HoldDropType, MadeType DEF ProtocolInvariant, Types
  <2> QED
    BY <1>1, <2>1 DEF ProtocolInvariant, Types
<1>3. OperandsAsWritten' /\ PlacesInTurn'
  BY <1>1 DEF ProtocolInvariant, OperandsAsWritten, PlacesInTurn, Releasing
<1>4. OperandsKept'
  BY <1>1 DEF ProtocolInvariant, OperandsKept
<1>5. DelegatesAsDocumented'
  BY <1>1 DEF ProtocolInvariant, DelegatesAsDocumented
<1> QED
  BY <1>2, <1>3, <1>4, <1>5 DEF ProtocolInvariant

LEMMA MethodEndsProtocol ==
  ASSUME ProtocolInvariant, NEW value \in Values, NEW throws \in BOOLEAN,
         MethodEnds(value, throws)
  PROVE  ProtocolInvariant'
<1>1. /\ phase = "method" /\ phase' = "returned" /\ frame' = NoFrame
      /\ refs' = Unwound(Hold(refs, value))
      /\ is_quantity' = Made(value)
      /\ return_value' = value
      /\ exception' = throws
      /\ UNCHANGED << slots, expr, tmp, retried, dying, runs, rebound, clobbered >>
  BY DEF MethodEnds
<1>2. Types'
  <2>1. refs' \in [Objects -> Int]
    BY <1>1, HoldDropType DEF ProtocolInvariant, Types, Unwound
  <2>2. is_quantity' \in [Objects -> BOOLEAN]
    BY <1>1, MadeType DEF ProtocolInvariant, Types
  <2> QED
    BY <1>1, <2>1, <2>2 DEF ProtocolInvariant, Types, Phases
<1>3. OperandsAsWritten' /\ PlacesInTurn'
  BY <1>1 DEF ProtocolInvariant, OperandsAsWritten, PlacesInTurn, Releasing
<1>4. OperandsKept'
  BY <1>1 DEF ProtocolInvariant, OperandsKept, Value
<1>5. DelegatesAsDocumented'
  BY <1>1 DEF DelegatesAsDocumented
<1> QED
  BY <1>2, <1>3, <1>4, <1>5 DEF ProtocolInvariant

\* A destructor is over.
LEMMA DestroyedProtocol ==
  ASSUME ProtocolInvariant,
         DiscardReturns \/ \E throws \in BOOLEAN : DestructorReturns(throws)
  PROVE  ProtocolInvariant'
<1>1. /\ refs' = Drop(refs, dying) /\ dying' = Nothing
      /\ exception' \in BOOLEAN
      /\ \/ phase = "destructor" /\ phase' = "copying"
         \/ phase = "discarding" /\ phase' = "failed" /\ exception' = exception
      /\ UNCHANGED << slots, is_quantity, expr, frame, return_value, tmp, retried,
                      runs, rebound, clobbered >>
  BY DEF DiscardReturns, DestructorReturns, ProtocolInvariant, Types
<1>2. Types'
  <2>1. refs' \in [Objects -> Int] /\ dying' \in Values
    BY <1>1, HoldDropType DEF ProtocolInvariant, Types, Values
  <2> QED
    BY <1>1, <2>1 DEF ProtocolInvariant, Types, Phases
<1>3. OperandsAsWritten' /\ PlacesInTurn'
  BY <1>1 DEF ProtocolInvariant, OperandsAsWritten, PlacesInTurn, Releasing
<1>4. OperandsKept'
  BY <1>1 DEF ProtocolInvariant, OperandsKept, Value
<1>5. DelegatesAsDocumented'
  BY <1>1 DEF DelegatesAsDocumented
<1> QED
  BY <1>2, <1>3, <1>4, <1>5 DEF ProtocolInvariant

LEMMA AskOtherOperandProtocol ==
  ASSUME ProtocolInvariant, AskOtherOperand
  PROVE  ProtocolInvariant'
<1>1. /\ phase = "failed" /\ phase' = "handler" /\ retried' \in BOOLEAN
      /\ UNCHANGED << slots, refs, is_quantity, expr, frame, return_value, tmp,
                      exception, dying, runs, rebound, clobbered >>
  BY DEF AskOtherOperand, heapVars
<1>2. Types'
  BY <1>1 DEF ProtocolInvariant, Types, Phases
<1>3. OperandsAsWritten' /\ PlacesInTurn'
  BY <1>1 DEF ProtocolInvariant, OperandsAsWritten, PlacesInTurn, Releasing
<1>4. OperandsKept'
  BY <1>1 DEF ProtocolInvariant, OperandsKept, Value, IsQuantity
<1>5. DelegatesAsDocumented'
  BY <1>1 DEF DelegatesAsDocumented
<1> QED
  BY <1>2, <1>3, <1>4, <1>5 DEF ProtocolInvariant

LEMMA LeaveProtocol ==
  ASSUME ProtocolInvariant,
         LeaveCompound \/ Catch \/ \E v \in Variables : StoreTemporary(v)
  PROVE  ProtocolInvariant'
<1>1. /\ phase \in {"succeeded", "failed"} /\ phase' = "idle" /\ exception' = FALSE
      /\ rebound' = FALSE /\ retried' = FALSE /\ runs' = 0
      /\ UNCHANGED << is_quantity, frame, return_value, dying, clobbered >>
  BY DEF LeaveCompound, Catch, StoreTemporary, Forget
<1>2. Types'
  <2>1. slots' \in [Variables -> Values] /\ refs' \in [Objects -> Int]
        /\ tmp' \in Values
    <3>1. CASE LeaveCompound \/ Catch
      BY <3>1 DEF ProtocolInvariant, Types, LeaveCompound, Catch
    <3>2. CASE \E v \in Variables : StoreTemporary(v)
      BY <3>2, HoldDropType DEF ProtocolInvariant, Types, StoreTemporary, Values
    <3> QED
      BY <3>1, <3>2
  <2>2. runs' \in 0 .. 1
    BY <1>1, SMT
  <2> QED
    BY <1>1, <2>1, <2>2 DEF ProtocolInvariant, Types, Phases
<1>3. tmp' = Nothing
  BY DEF ProtocolInvariant, PlacesInTurn, LeaveCompound, Catch, StoreTemporary
<1>4. OperandsAsWritten' /\ PlacesInTurn' /\ OperandsKept'
  BY <1>1, <1>3 DEF ProtocolInvariant, OperandsAsWritten, PlacesInTurn,
     OperandsKept, Releasing
<1>5. DelegatesAsDocumented'
  BY <1>1 DEF DelegatesAsDocumented
<1> QED
  BY <1>2, <1>4, <1>5 DEF ProtocolInvariant

(***************************************************************************)
(* Counting references.                                                    *)
(***************************************************************************)
HeldIn(variables, object) == {v \in Variables : variables[v] = object}

\* One of a place that may hold the object.
Refers(value, object) == IF value = object THEN 1 ELSE 0

LEMMA RefersType == ASSUME NEW value, NEW object
                    PROVE  Refers(value, object) \in Nat
BY DEF Refers

LEMMA HeldInFinite ==
  ASSUME NEW variables, NEW object
  PROVE  /\ IsFiniteSet(HeldIn(variables, object))
         /\ Cardinality(HeldIn(variables, object)) \in Nat
<1>1. HeldIn(variables, object) \in SUBSET Variables /\ IsFiniteSet(Variables)
  BY QuantityAssumption DEF HeldIn
<1> QED
  BY <1>1, FS_Subset, FS_CardinalityType

\* A variable counts for the object it holds and for no other.
LEMMA HeldElsewhere ==
  ASSUME NEW variables, NEW object, NEW v \in Variables
  PROVE  Cardinality(HeldIn(variables, object) \ {v}) =
           Cardinality(HeldIn(variables, object)) - Refers(variables[v], object)
<1>1. v \in HeldIn(variables, object) <=> variables[v] = object
  BY DEF HeldIn
<1>2. Cardinality(HeldIn(variables, object) \ {v}) =
        IF v \in HeldIn(variables, object)
        THEN Cardinality(HeldIn(variables, object)) - 1
        ELSE Cardinality(HeldIn(variables, object))
  BY HeldInFinite, FS_RemoveElement
<1> QED
  BY <1>1, <1>2, HeldInFinite, SMT DEF Refers

\* An assignment moves one reference.
LEMMA HeldAfterAssignment ==
  ASSUME NEW before \in [Variables -> Values], NEW after, NEW object,
         NEW v \in Variables, NEW value,
         after = [before EXCEPT ![v] = value]
  PROVE  Cardinality(HeldIn(after, object)) =
           Cardinality(HeldIn(before, object))
             - Refers(before[v], object) + Refers(value, object)
<1>1. after[v] = value
  OBVIOUS
<1>2. HeldIn(after, object) \ {v} = HeldIn(before, object) \ {v}
  BY DEF HeldIn
<1>3. Cardinality(HeldIn(after, object) \ {v}) =
        Cardinality(HeldIn(after, object)) - Refers(value, object)
  <2>1. Cardinality(HeldIn(after, object) \ {v}) =
          Cardinality(HeldIn(after, object)) - Refers(after[v], object)
    BY HeldElsewhere
  <2> QED
    BY <1>1, <2>1
<1>4. Cardinality(HeldIn(before, object) \ {v}) =
        Cardinality(HeldIn(before, object)) - Refers(before[v], object)
  BY HeldElsewhere
<1>5. /\ Cardinality(HeldIn(after, object)) \in Nat
      /\ Cardinality(HeldIn(before, object)) \in Nat
      /\ Refers(value, object) \in Nat /\ Refers(before[v], object) \in Nat
  BY HeldInFinite, RefersType
<1> DEFINE a == Cardinality(HeldIn(after, object))
           b == Cardinality(HeldIn(before, object))
           gained == Refers(value, object)
           lost == Refers(before[v], object)
<1>6. a - gained = b - lost /\ a \in Nat /\ b \in Nat /\ gained \in Nat /\ lost \in Nat
  BY <1>2, <1>3, <1>4, <1>5
<1> HIDE DEF a, b, gained, lost
<1>7. a = b - lost + gained
  BY <1>6, SMT
<1> QED
  BY <1>7 DEF a, b, gained, lost

LEMMA HoldDropCount ==
  ASSUME NEW counts \in [Objects -> Int], NEW value, NEW object \in Objects
  PROVE  /\ Hold(counts, value)[object] = counts[object] + Refers(value, object)
         /\ Drop(counts, value)[object] = counts[object] - Refers(value, object)
BY SMT DEF Hold, Drop, Refers

\* What RefsExact counts besides variables.
Elsewhere(object) ==
  Refers(return_value, object) + Refers(tmp, object)
    + Refers(frame.receiver, object) + Refers(frame.argument, object)
    + Refers(dying, object)

LEMMA CountType ==
  ASSUME NEW object
  PROVE  /\ Refers(return_value, object) \in Nat /\ Refers(tmp, object) \in Nat
         /\ Refers(frame.receiver, object) \in Nat
         /\ Refers(frame.argument, object) \in Nat
         /\ Refers(dying, object) \in Nat
BY RefersType

LEMMA ElsewhereType == ASSUME NEW object
                       PROVE  Elsewhere(object) \in Nat
<1> DEFINE a == Refers(return_value, object)
           b == Refers(tmp, object)
           c == Refers(frame.receiver, object)
           d == Refers(frame.argument, object)
           e == Refers(dying, object)
<1>1. a \in Nat /\ b \in Nat /\ c \in Nat /\ d \in Nat /\ e \in Nat
  BY CountType
<1>2. Elsewhere(object) = a + b + c + d + e
  BY DEF Elsewhere
<1> HIDE DEF a, b, c, d, e
<1> QED
  BY <1>1, <1>2, SMT

LEMMA NoObject ==
  ASSUME NEW object \in Objects
  PROVE  /\ Refers(Nothing, object) = 0 /\ Refers(Scalar, object) = 0
         /\ Refers(NoFrame.receiver, object) = 0 /\ Refers(NoFrame.argument, object) = 0
<1>1. object # Nothing /\ object # Scalar
  BY QuantityAssumption, SMT DEF Objects, Nothing, Scalar
<1> QED
  BY <1>1 DEF Refers, NoFrame

(***************************************************************************)
(* Exact counts, step by step, as long as nothing was clobbered.           *)
(***************************************************************************)
Counted(object) ==
  refs[object] = Cardinality(HoldingVariables(object)) + Elsewhere(object)

AllCounted == \A object \in Objects : Counted(object)

LEMMA RefsExactByObject == RefsExact <=> (~ clobbered => AllCounted)
<1>1. ASSUME NEW object \in Objects
      PROVE  Counted(object) <=>
               refs[object] = Cardinality(HoldingVariables(object))
                 + One(return_value = object) + One(tmp = object)
                 + One(frame.receiver = object) + One(frame.argument = object)
                 + One(dying = object)
  <2>1. IsFiniteSet(HoldingVariables(object))
    <3>1. HoldingVariables(object) \in SUBSET Variables
      BY DEF HoldingVariables
    <3> QED
      BY <3>1, QuantityAssumption, FS_Subset
  <2>2. Cardinality(HoldingVariables(object)) \in Nat
    BY <2>1, FS_CardinalityType
  <2> QED
    BY <2>2, SMT DEF Counted, Elsewhere, Refers, One
<1> QED
  BY <1>1 DEF RefsExact, AllCounted

LEMMA InitCounted == QuantityInit => AllCounted
<1> SUFFICES ASSUME QuantityInit, NEW object \in Objects
             PROVE  Counted(object)
  BY DEF AllCounted
<1>1. HoldingVariables(object) = {}
  <2>1. object # Nothing
    BY QuantityAssumption, SMT DEF Objects, Nothing
  <2> QED
    BY <2>1 DEF QuantityInit, HoldingVariables
<1>2. refs[object] = 0 /\ Elsewhere(object) = 0
  <2>1. /\ refs[object] = 0 /\ return_value = Nothing /\ tmp = Nothing
        /\ frame = NoFrame /\ dying = Nothing
    BY DEF QuantityInit
  <2> QED
    BY <2>1, NoObject, SMT DEF Elsewhere
<1> QED
  BY <1>1, <1>2, FS_EmptySet, SMT DEF Counted

\* A step that keeps the holding variables changes what is elsewhere.
LEMMA KeepCounted ==
  ASSUME ProtocolInvariant, AllCounted, NEW object \in Objects,
         HoldingVariables(object)' = HoldingVariables(object),
         refs'[object] - Elsewhere(object)' = refs[object] - Elsewhere(object),
         refs'[object] \in Int, Elsewhere(object)' \in Int
  PROVE  Counted(object)'
<1> DEFINE holders == Cardinality(HoldingVariables(object))
<1>1. holders \in Nat
  <2>1. HoldingVariables(object) \in SUBSET Variables
    BY DEF HoldingVariables
  <2> QED
    BY <2>1, QuantityAssumption, FS_Subset, FS_CardinalityType
<1>2. refs[object] = holders + Elsewhere(object) /\ refs[object] \in Int
  BY DEF AllCounted, Counted, ProtocolInvariant, Types
<1>3. Elsewhere(object) \in Int
  BY ElsewhereType
<1> HIDE DEF holders
<1>4. refs'[object] = holders + Elsewhere(object)'
  BY <1>1, <1>2, <1>3, SMT
<1> QED
  BY <1>4 DEF Counted, holders

\* A step that assigns a variable moves a reference from what it held to
\* what it gets; the variable being replaced is not assigned.
LEMMA AssignCounted ==
  ASSUME ProtocolInvariant, AllCounted, NEW v \in Variables, NEW value,
         \/ ~ Releasing /\ ~ Releasing'
         \/ Releasing /\ Releasing' /\ expr' = expr /\ v # expr.left
              /\ expr.left \in Variables,
         slots' = [slots EXCEPT ![v] = value],
         NEW object \in Objects,
         refs'[object] - Elsewhere(object)' =
           refs[object] - Elsewhere(object)
             - Refers(slots[v], object) + Refers(value, object),
         refs'[object] \in Int, Elsewhere(object)' \in Int
  PROVE  Counted(object)'
<1> DEFINE before == Cardinality(HeldIn(slots, object))
           after == Cardinality(HeldIn(slots', object))
           holders == Cardinality(HoldingVariables(object))
           holders_after == Cardinality(HoldingVariables(object)')
           lost == Refers(slots[v], object)
           gained == Refers(value, object)
<1>1. slots \in [Variables -> Values]
  BY DEF ProtocolInvariant, Types
<1>2. after = before - lost + gained
  BY <1>1, HeldAfterAssignment, ZenonT(60)
<1>3. before \in Nat /\ after \in Nat /\ lost \in Nat /\ gained \in Nat
  BY HeldInFinite, RefersType
<1>4. holders_after - holders = gained - lost /\ holders \in Int /\ holders_after \in Int
  <2>1. CASE ~ Releasing /\ ~ Releasing'
    <3>1. HoldingVariables(object) = HeldIn(slots, object)
          /\ HoldingVariables(object)' = HeldIn(slots', object)
      BY <2>1 DEF HoldingVariables, HeldIn
    <3>2. holders = before /\ holders_after = after
      BY <3>1
    <3> HIDE DEF before, after, holders, holders_after, lost, gained
    <3> QED
      BY <1>2, <1>3, <3>2, SMT
  <2>2. CASE Releasing /\ Releasing' /\ expr' = expr /\ v # expr.left
               /\ expr.left \in Variables
    <3> DEFINE kept == Refers(slots[expr.left], object)
    <3>1. HoldingVariables(object) = HeldIn(slots, object) \ {expr.left}
          /\ HoldingVariables(object)' = HeldIn(slots', object) \ {expr.left}
      BY <2>2 DEF HoldingVariables, HeldIn
    <3>2. slots'[expr.left] = slots[expr.left]
      BY <1>1, <2>2
    <3>3. holders = before - kept
      BY <2>2, <3>1, HeldElsewhere
    <3>4. Cardinality(HeldIn(slots', object) \ {expr.left}) =
            after - Refers(slots'[expr.left], object)
      BY <2>2, HeldElsewhere
    <3>5. holders_after = after - kept
      BY <3>1, <3>2, <3>4
    <3>6. kept \in Nat
      BY RefersType
    <3> HIDE DEF before, after, holders, holders_after, lost, gained, kept
    <3> QED
      BY <1>2, <1>3, <3>3, <3>5, <3>6, SMT
  <2> QED
    BY <2>1, <2>2
<1>5. refs[object] = holders + Elsewhere(object) /\ refs[object] \in Int
  BY DEF AllCounted, Counted, ProtocolInvariant, Types
<1>6. Elsewhere(object) \in Int
  BY ElsewhereType
<1>7. refs'[object] - Elsewhere(object)' =
        refs[object] - Elsewhere(object) - lost + gained
  OBVIOUS
<1> HIDE DEF before, after, holders, holders_after, lost, gained
<1>8. refs'[object] = holders_after + Elsewhere(object)'
  BY <1>3, <1>4, <1>5, <1>6, <1>7, SMT
<1> QED
  BY <1>8 DEF Counted, holders_after

\* $v = value: what is stored is held first, then the old value is let go.
LEMMA StoreCounted ==
  ASSUME ProtocolInvariant, AllCounted, NEW v \in Variables, NEW value,
         \/ ~ Releasing /\ ~ Releasing'
         \/ Releasing /\ Releasing' /\ expr' = expr /\ v # expr.left
              /\ expr.left \in Variables,
         slots' = [slots EXCEPT ![v] = value],
         refs' = Drop(Hold(refs, value), slots[v]),
         UNCHANGED << frame, return_value, tmp, dying >>
  PROVE  AllCounted'
<1>1. ASSUME NEW object \in Objects
      PROVE  Counted(object)'
  <2>1. Hold(refs, value) \in [Objects -> Int] /\ refs \in [Objects -> Int]
    BY HoldDropType DEF ProtocolInvariant, Types
  <2>2. refs'[object] = Hold(refs, value)[object] - Refers(slots[v], object)
        /\ Hold(refs, value)[object] = refs[object] + Refers(value, object)
    BY <2>1, HoldDropCount
  <2>3. Elsewhere(object)' = Elsewhere(object)
    BY DEF Elsewhere
  <2>4. /\ Refers(slots[v], object) \in Nat /\ Refers(value, object) \in Nat
        /\ Elsewhere(object) \in Nat /\ refs[object] \in Int
    BY <2>1, RefersType, ElsewhereType
  <2>5. /\ refs'[object] - Elsewhere(object)' =
             refs[object] - Elsewhere(object)
               - Refers(slots[v], object) + Refers(value, object)
        /\ refs'[object] \in Int /\ Elsewhere(object)' \in Int
    BY <2>2, <2>3, <2>4, SMT
  <2> QED
    BY <2>5, AssignCounted
<1> QED
  BY <1>1 DEF AllCounted

LEMMA ProgramCounted ==
  ASSUME ProtocolInvariant, AllCounted, NEW v \in Variables, NEW w \in Variables,
         \/ \E quantity \in BOOLEAN : CreateObject(v, quantity)
         \/ CloneObject(v, w)
         \/ Assign(v, w)
  PROVE  AllCounted'
<1>1. /\ phase = "idle" /\ UNCHANGED << phase, evaluationVars >>
      /\ \E value : /\ slots' = [slots EXCEPT ![v] = value]
                    /\ refs' = Drop(Hold(refs, value), slots[v])
  BY DEF CreateObject, CloneObject, Assign, Between
<1>2. PICK value : /\ slots' = [slots EXCEPT ![v] = value]
                   /\ refs' = Drop(Hold(refs, value), slots[v])
  BY <1>1
<1>3. ~ Releasing /\ ~ Releasing' /\ UNCHANGED << frame, return_value, tmp, dying >>
  BY <1>1 DEF Releasing, evaluationVars
<1> QED
  BY <1>2, <1>3, StoreCounted

\* Steps that move nothing.
LEMMA IdleStepCounted ==
  ASSUME AllCounted, UNCHANGED << slots, refs, frame, return_value, tmp, dying >>,
         \/ ~ Releasing /\ ~ Releasing'
         \/ Releasing /\ Releasing' /\ expr' = expr
  PROVE  AllCounted'
<1>1. ASSUME NEW object \in Objects
      PROVE  Counted(object)'
  <2>1. Counted(object)
    BY DEF AllCounted
  <2>2. HoldingVariables(object)' = HoldingVariables(object)
    BY DEF HoldingVariables
  <2>3. Elsewhere(object)' = Elsewhere(object)
    BY DEF Elsewhere
  <2> QED
    BY <2>1, <2>2, <2>3 DEF Counted
<1> QED
  BY <1>1 DEF AllCounted

LEMMA UnmovedCounted ==
  ASSUME AllCounted,
         \/ \E opcode \in Opcodes, l, r \in Operands, compound, swapped \in BOOLEAN,
               lookup \in Lookups : Evaluate(opcode, l, r, compound, swapped, lookup)
         \/ Refuse \/ ThrowUndefined \/ SkipCall
         \/ AskOtherOperand \/ LeaveCompound \/ Catch
  PROVE  AllCounted'
<1>1. UNCHANGED << slots, refs, frame, return_value, tmp, dying >>
  BY DEF Evaluate, Refuse, ThrowUndefined, SkipCall, AskOtherOperand, LeaveCompound,
         Catch, Forget, evaluationVars, heapVars
<1>2. ~ Releasing /\ ~ Releasing'
  BY DEF Evaluate, Refuse, ThrowUndefined, SkipCall, AskOtherOperand, LeaveCompound,
         Catch, Forget, Releasing, Delegates, Between
<1> QED
  BY <1>1, <1>2, IdleStepCounted

\* The call holds its receiver and its argument.
LEMMA CallMethodCounted ==
  ASSUME ProtocolInvariant, AllCounted, CallMethod
  PROVE  AllCounted'
<1>1. /\ ~ Releasing /\ ~ Releasing' /\ frame = NoFrame
      /\ frame'.receiver = receiver /\ frame'.argument = argument
      /\ refs' = Hold(Hold(refs, receiver), argument)
      /\ UNCHANGED << slots, return_value, tmp, dying >>
  BY DEF CallMethod, Delegates, Releasing, ProtocolInvariant, PlacesInTurn
<1>2. ASSUME NEW object \in Objects
      PROVE  Counted(object)'
  <2>1. refs \in [Objects -> Int] /\ Hold(refs, receiver) \in [Objects -> Int]
    BY HoldDropType DEF ProtocolInvariant, Types
  <2>2. refs'[object] = refs[object] + Refers(receiver, object)
                          + Refers(argument, object)
    BY <1>1, <2>1, HoldDropCount
  <2>3. Refers(frame.receiver, object) = 0 /\ Refers(frame.argument, object) = 0
    BY <1>1, NoObject
  <2>4. Elsewhere(object)' = Refers(return_value, object) + Refers(tmp, object)
                               + Refers(receiver, object) + Refers(argument, object)
                               + Refers(dying, object)
    BY <1>1 DEF Elsewhere
  <2>5. /\ Refers(return_value, object) \in Nat /\ Refers(tmp, object) \in Nat
        /\ Refers(receiver, object) \in Nat /\ Refers(argument, object) \in Nat
        /\ Refers(dying, object) \in Nat /\ refs[object] \in Int
    BY <2>1, RefersType
  <2>6. /\ refs'[object] - Elsewhere(object)' = refs[object] - Elsewhere(object)
        /\ refs'[object] \in Int /\ Elsewhere(object)' \in Int
    BY <2>2, <2>3, <2>4, <2>5, SMT DEF Elsewhere
  <2>7. HoldingVariables(object)' = HoldingVariables(object)
    BY <1>1 DEF HoldingVariables
  <2> QED
    BY <2>6, <2>7, KeepCounted
<1> QED
  BY <1>2 DEF AllCounted

\* The method's value is held before the receiver and the argument are let go.
LEMMA MethodEndsCounted ==
  ASSUME ProtocolInvariant, AllCounted, NEW value \in Values,
         NEW throws \in BOOLEAN, MethodEnds(value, throws)
  PROVE  AllCounted'
<1>1. /\ ~ Releasing /\ ~ Releasing' /\ return_value = Nothing
      /\ frame' = NoFrame /\ return_value' = value
      /\ refs' = Drop(Drop(Hold(refs, value), frame.receiver), frame.argument)
      /\ UNCHANGED << slots, tmp, dying >>
  BY DEF MethodEnds, Releasing, ProtocolInvariant, PlacesInTurn, Unwound
<1>2. ASSUME NEW object \in Objects
      PROVE  Counted(object)'
  <2>1. /\ refs \in [Objects -> Int] /\ Hold(refs, value) \in [Objects -> Int]
        /\ Drop(Hold(refs, value), frame.receiver) \in [Objects -> Int]
    BY HoldDropType DEF ProtocolInvariant, Types
  <2>2. refs'[object] = refs[object] + Refers(value, object)
                          - Refers(frame.receiver, object)
                          - Refers(frame.argument, object)
    <3> DEFINE held == Hold(refs, value)
               unbound == Drop(held, frame.receiver)
    <3>1. held[object] = refs[object] + Refers(value, object)
      BY <2>1, HoldDropCount
    <3>2. unbound[object] = held[object] - Refers(frame.receiver, object)
      BY <2>1, HoldDropCount
    <3>3. refs'[object] = unbound[object] - Refers(frame.argument, object)
      BY <1>1, <2>1, HoldDropCount
    <3>4. /\ Refers(value, object) \in Nat /\ Refers(frame.receiver, object) \in Nat
          /\ Refers(frame.argument, object) \in Nat /\ refs[object] \in Int
      BY <2>1, RefersType
    <3> HIDE DEF held, unbound
    <3> QED
      BY <3>1, <3>2, <3>3, <3>4, SMT
  <2>3. Refers(frame'.receiver, object) = 0 /\ Refers(frame'.argument, object) = 0
        /\ Refers(return_value, object) = 0
    BY <1>1, NoObject
  <2>4. Elsewhere(object)' = Refers(value, object) + Refers(tmp, object)
                               + Refers(frame'.receiver, object)
                               + Refers(frame'.argument, object)
                               + Refers(dying, object)
    BY <1>1 DEF Elsewhere
  <2>5. /\ Refers(value, object) \in Nat /\ Refers(tmp, object) \in Nat
        /\ Refers(frame.receiver, object) \in Nat
        /\ Refers(frame.argument, object) \in Nat
        /\ Refers(dying, object) \in Nat
        /\ refs[object] \in Int
    BY <2>1, RefersType
  <2>6. /\ refs'[object] - Elsewhere(object)' = refs[object] - Elsewhere(object)
        /\ refs'[object] \in Int /\ Elsewhere(object)' \in Int
    BY <2>2, <2>3, <2>4, <2>5, SMT DEF Elsewhere
  <2>7. HoldingVariables(object)' = HoldingVariables(object)
    BY <1>1 DEF HoldingVariables
  <2> QED
    BY <2>6, <2>7, KeepCounted
<1> QED
  BY <1>2 DEF AllCounted

\* What is released is held by PHP while its destructor runs.
LEMMA ReleaseCount ==
  ASSUME refs \in [Objects -> Int], dying = Nothing, NEW value, NEW inside,
         NEW after, Release(value, inside, after), NEW object \in Objects
  PROVE  /\ refs'[object] - Refers(dying', object) =
              refs[object] - Refers(value, object)
         /\ refs'[object] \in Int
<1>1. Refers(dying, object) = 0
  BY NoObject
<1>2. CASE value \in Objects /\ refs[value] = 1
  BY <1>2 DEF Release
<1>3. CASE ~ (value \in Objects /\ refs[value] = 1)
  <2>1. refs' = Drop(refs, value) /\ dying' = dying
    BY <1>3 DEF Release
  <2>2. refs'[object] = refs[object] - Refers(value, object)
        /\ refs'[object] \in Int /\ Refers(dying', object) = 0
    BY <1>1, <2>1, HoldDropCount, HoldDropType
  <2>3. Refers(value, object) \in Nat /\ refs[object] \in Int
    BY RefersType
  <2> QED
    BY <2>2, <2>3, SMT
<1> QED
  BY <1>2, <1>3

\* The result of a method that threw is released.
LEMMA FailAfterThrowCounted ==
  ASSUME ProtocolInvariant, AllCounted, FailAfterThrow
  PROVE  AllCounted'
<1>1. /\ ~ Releasing /\ ~ Releasing' /\ dying = Nothing /\ return_value' = Nothing
      /\ Release(return_value, "discarding", "failed")
      /\ UNCHANGED << slots, frame, tmp >>
  BY DEF FailAfterThrow, Release, Releasing, ProtocolInvariant, PlacesInTurn
<1>2. ASSUME NEW object \in Objects
      PROVE  Counted(object)'
  <2> DEFINE returned == Refers(return_value, object)
             held == Refers(dying', object)
             rest == Refers(tmp, object) + Refers(frame.receiver, object)
                       + Refers(frame.argument, object)
  <2>1. refs \in [Objects -> Int] /\ refs[object] \in Int
    BY DEF ProtocolInvariant, Types
  <2>2. refs'[object] - held = refs[object] - returned /\ refs'[object] \in Int
    BY <1>1, <2>1, ReleaseCount
  <2>3. Refers(dying, object) = 0 /\ Refers(return_value', object) = 0
    BY <1>1, NoObject
  <2>4. returned \in Nat /\ held \in Nat /\ rest \in Nat
    <3>1. /\ Refers(tmp, object) \in Nat /\ Refers(frame.receiver, object) \in Nat
          /\ Refers(frame.argument, object) \in Nat
      BY RefersType
    <3> QED
      BY <3>1, RefersType, SMT
  <2>5. Elsewhere(object) = returned + rest
    BY <2>3, RefersType, SMT DEF Elsewhere
  <2>6. Elsewhere(object)' = held + rest
    <3>1. Elsewhere(object)' = Refers(return_value', object) + Refers(tmp, object)
            + Refers(frame.receiver, object) + Refers(frame.argument, object) + held
      BY <1>1 DEF Elsewhere
    <3> QED
      BY <2>3, <2>4, <3>1, RefersType, SMT
  <2>7. HoldingVariables(object)' = HoldingVariables(object)
    BY <1>1 DEF HoldingVariables
  <2> HIDE DEF returned, held, rest
  <2>8. refs'[object] - Elsewhere(object)' = refs[object] - Elsewhere(object)
        /\ Elsewhere(object)' \in Int
    BY <2>1, <2>2, <2>4, <2>5, <2>6, SMT
  <2> QED
    BY <2>2, <2>7, <2>8, KeepCounted
<1> QED
  BY <1>2 DEF AllCounted

\* A destructor is over.
LEMMA DestroyedCounted ==
  ASSUME ProtocolInvariant, AllCounted,
         DiscardReturns \/ \E throws \in BOOLEAN : DestructorReturns(throws)
  PROVE  AllCounted'
<1>1. /\ refs' = Drop(refs, dying) /\ dying' = Nothing
      /\ \/ ~ Releasing /\ ~ Releasing'
         \/ Releasing /\ Releasing'
      /\ UNCHANGED << slots, expr, frame, tmp, return_value >>
  BY DEF DiscardReturns, DestructorReturns, Releasing
<1>2. ASSUME NEW object \in Objects
      PROVE  Counted(object)'
  <2> DEFINE held == Refers(dying, object)
             rest == Refers(return_value, object) + Refers(tmp, object)
                       + Refers(frame.receiver, object)
                       + Refers(frame.argument, object)
  <2>1. refs \in [Objects -> Int] /\ refs[object] \in Int
    BY DEF ProtocolInvariant, Types
  <2>2. refs'[object] = refs[object] - held /\ refs'[object] \in Int
    BY <1>1, <2>1, HoldDropCount, HoldDropType
  <2>3. Refers(dying', object) = 0
    BY <1>1, NoObject
  <2>4. held \in Nat /\ rest \in Nat
    <3>1. /\ Refers(tmp, object) \in Nat /\ Refers(frame.receiver, object) \in Nat
          /\ Refers(frame.argument, object) \in Nat
          /\ Refers(return_value, object) \in Nat
      BY RefersType
    <3> QED
      BY <3>1, RefersType, SMT
  <2>5. Elsewhere(object) = rest + held
    BY DEF Elsewhere
  <2>6. Elsewhere(object)' = rest + 0
    BY <1>1, <2>3 DEF Elsewhere
  <2>7. HoldingVariables(object)' = HoldingVariables(object)
    BY <1>1 DEF HoldingVariables
  <2> HIDE DEF held, rest
  <2>8. refs'[object] - Elsewhere(object)' = refs[object] - Elsewhere(object)
        /\ Elsewhere(object)' \in Int
    BY <2>1, <2>2, <2>4, <2>5, <2>6, SMT
  <2> QED
    BY <2>2, <2>7, <2>8, KeepCounted
<1> QED
  BY <1>2 DEF AllCounted

\* The result moves to the temporary.
LEMMA CopyToTemporaryCounted ==
  ASSUME ProtocolInvariant, AllCounted, CopyToTemporary
  PROVE  AllCounted'
<1>1. /\ ~ Releasing /\ ~ Releasing' /\ tmp = Nothing /\ return_value' = Nothing
      /\ tmp' = return_value
      /\ UNCHANGED << slots, refs, frame, dying >>
  BY DEF CopyToTemporary, Releasing, ProtocolInvariant, PlacesInTurn, heapVars
<1>2. ASSUME NEW object \in Objects
      PROVE  Counted(object)'
  <2>1. Counted(object)
    BY DEF AllCounted
  <2>2. Refers(tmp, object) = 0 /\ Refers(return_value', object) = 0
        /\ Refers(tmp', object) = Refers(return_value, object)
        /\ Refers(return_value, object) \in Nat
    BY <1>1, NoObject, RefersType
  <2>3. Elsewhere(object)' = Elsewhere(object)
    <3>1. Elsewhere(object)' = Refers(return_value', object) + Refers(tmp', object)
            + Refers(frame.receiver, object) + Refers(frame.argument, object)
            + Refers(dying, object)
      BY <1>1 DEF Elsewhere
    <3>2. Refers(return_value', object) + Refers(tmp', object) =
            Refers(return_value, object) + Refers(tmp, object)
      BY <2>2, SMT
    <3> QED
      BY <3>1, <3>2 DEF Elsewhere
  <2>4. HoldingVariables(object)' = HoldingVariables(object)
    BY <1>1 DEF HoldingVariables
  <2> QED
    BY <1>1, <2>1, <2>3, <2>4 DEF Counted
<1> QED
  BY <1>2 DEF AllCounted

\* The temporary is stored.
LEMMA StoreTemporaryCounted ==
  ASSUME ProtocolInvariant, AllCounted, NEW v \in Variables, StoreTemporary(v)
  PROVE  AllCounted'
<1>1. /\ ~ Releasing /\ ~ Releasing' /\ UNCHANGED << frame, return_value, dying >>
      /\ tmp' = Nothing
      /\ slots' = [slots EXCEPT ![v] = tmp]
      /\ refs' = Drop(refs, slots[v])
  BY DEF StoreTemporary, Forget, Releasing
<1>2. ASSUME NEW object \in Objects
      PROVE  Counted(object)'
  <2> DEFINE stored == Refers(tmp, object)
             lost == Refers(slots[v], object)
             rest == Refers(return_value, object) + Refers(frame.receiver, object)
                       + Refers(frame.argument, object) + Refers(dying, object)
  <2>1. refs \in [Objects -> Int] /\ refs[object] \in Int
    BY DEF ProtocolInvariant, Types
  <2>2. refs'[object] = refs[object] - lost /\ refs'[object] \in Int
    BY <1>1, <2>1, HoldDropCount, HoldDropType
  <2>3. stored \in Nat /\ lost \in Nat /\ rest \in Nat
    <3>1. /\ Refers(dying, object) \in Nat /\ Refers(frame.receiver, object) \in Nat
          /\ Refers(frame.argument, object) \in Nat
          /\ Refers(return_value, object) \in Nat
      BY RefersType
    <3> QED
      BY <3>1, RefersType, SMT
  <2>4. Elsewhere(object) = rest + stored
    BY RefersType, SMT DEF Elsewhere
  <2>5. Elsewhere(object)' = rest
    <3>1. Refers(tmp', object) = 0
      BY <1>1, NoObject
    <3>2. Elsewhere(object)' = Refers(return_value, object) + Refers(tmp', object)
            + Refers(frame.receiver, object) + Refers(frame.argument, object)
            + Refers(dying, object)
      BY <1>1 DEF Elsewhere
    <3> QED
      BY <3>1, <3>2, RefersType, SMT
  <2>6. refs'[object] - Elsewhere(object)' =
          refs[object] - Elsewhere(object) - lost + stored
        /\ Elsewhere(object)' \in Int
    <3> HIDE DEF stored, lost, rest
    <3> QED
      BY <2>1, <2>2, <2>3, <2>4, <2>5, SMT
  <2> QED
    BY <1>1, <2>2, <2>6, AssignCounted
<1> QED
  BY <1>2 DEF AllCounted

\* Userland writes a variable, but not the one being replaced.
LEMMA RebindCounted ==
  ASSUME ProtocolInvariant, AllCounted, NEW v \in Variables, NEW value \in Values,
         Rebind(v, value), ~ clobbered'
  PROVE  AllCounted'
<1>1. /\ phase \in {"method", "destructor", "discarding"} /\ phase' = phase
      /\ slots' = [slots EXCEPT ![v] = value]
      /\ refs' = Drop(Hold(refs, value), slots[v])
      /\ UNCHANGED << expr, frame, return_value, tmp, dying >>
      /\ ~ (phase = "destructor" /\ v = expr.left /\ value # slots[v])
  BY DEF Rebind
<1>2. CASE phase = "destructor" /\ v = expr.left
  <2>1. value = slots[v] /\ Releasing /\ Releasing'
    BY <1>1, <1>2 DEF Releasing
  <2>2. slots' = slots /\ refs' = refs
    <3>1. slots \in [Variables -> Values] /\ refs \in [Objects -> Int]
      BY DEF ProtocolInvariant, Types
    <3>2. refs' = Drop(Hold(refs, value), value)
      BY <1>1, <2>1
    <3>3. ASSUME NEW object \in Objects
          PROVE  refs'[object] = refs[object]
      <4>1. Hold(refs, value) \in [Objects -> Int]
        BY <3>1, HoldDropType
      <4>2. Hold(refs, value)[object] = refs[object] + Refers(value, object)
        BY <3>1, HoldDropCount
      <4>3. refs'[object] = Hold(refs, value)[object] - Refers(value, object)
        BY <3>2, <4>1, HoldDropCount
      <4>4. refs[object] \in Int /\ Refers(value, object) \in Int
        BY <3>1, RefersType, SMT
      <4> QED
        BY <4>2, <4>3, <4>4, SMT
    <3>4. refs' \in [Objects -> Int]
      BY <3>1, <3>2, HoldDropType
    <3>5. slots' = slots
      BY <1>1, <2>1, <3>1
    <3> QED
      BY <3>1, <3>3, <3>4, <3>5
  <2> QED
    BY <1>1, <2>1, <2>2, IdleStepCounted
<1>3. CASE phase = "destructor" /\ v # expr.left
  <2>1. Releasing /\ Releasing'
    BY <1>1, <1>3 DEF Releasing
  <2>2. expr.left \in Variables
    BY <1>3, <2>1 DEF ProtocolInvariant, PlacesInTurn, OperandsAsWritten
  <2> QED
    BY <1>1, <1>3, <2>1, <2>2, StoreCounted
<1>4. CASE phase # "destructor"
  <2>1. ~ Releasing /\ ~ Releasing'
    BY <1>1, <1>4 DEF Releasing
  <2> QED
    BY <1>1, <2>1, StoreCounted
<1> QED
  BY <1>2, <1>3, <1>4

\* A compound assignment: the operand is released first, then replaced.
LEMMA ReleaseLeftCounted ==
  ASSUME ProtocolInvariant, AllCounted, ReleaseLeft
  PROVE  AllCounted'
<1>1. /\ phase = "returned" /\ expr.result = expr.left
      /\ ~ Releasing /\ Releasing' /\ dying = Nothing
      /\ Release(left, "destructor", "copying")
      /\ UNCHANGED << slots, expr, frame, return_value, tmp >>
  BY DEF ReleaseLeft, Release, Releasing, ProtocolInvariant, PlacesInTurn
<1>2. expr.left \in Variables
  <2>1. expr.left \in Operands
    BY <1>1 DEF ProtocolInvariant, Types, Expressions
  <2> QED
    BY <1>1, <2>1, ReservedNames DEF ProtocolInvariant, OperandsAsWritten
<1>3. left = slots[expr.left]
  BY <1>2 DEF left, Value
<1>4. ASSUME NEW object \in Objects
      PROVE  Counted(object)'
  <2> DEFINE held == Cardinality(HeldIn(slots, object))
             lost == Refers(left, object)
             kept == Refers(dying', object)
             rest == Refers(return_value, object) + Refers(tmp, object)
                       + Refers(frame.receiver, object)
                       + Refers(frame.argument, object)
  <2>1. refs \in [Objects -> Int] /\ refs[object] \in Int /\ Counted(object)
    BY DEF ProtocolInvariant, Types, AllCounted
  <2>2. refs'[object] - kept = refs[object] - lost /\ refs'[object] \in Int
    BY <1>1, <2>1, ReleaseCount
  <2>3. HoldingVariables(object) = HeldIn(slots, object)
        /\ HoldingVariables(object)' = HeldIn(slots, object) \ {expr.left}
    BY <1>1 DEF HoldingVariables, HeldIn
  <2>4. Cardinality(HeldIn(slots, object) \ {expr.left}) = held - lost
    BY <1>2, <1>3, HeldElsewhere
  <2>5. held \in Nat /\ lost \in Nat /\ kept \in Nat /\ rest \in Nat
    <3>1. /\ Refers(tmp, object) \in Nat /\ Refers(frame.receiver, object) \in Nat
          /\ Refers(frame.argument, object) \in Nat
          /\ Refers(return_value, object) \in Nat
      BY RefersType
    <3> QED
      BY <3>1, HeldInFinite, RefersType, SMT
  <2>6. Elsewhere(object) = rest + 0
    <3>1. Refers(dying, object) = 0
      BY <1>1, NoObject
    <3> QED
      BY <3>1 DEF Elsewhere
  <2>7. Elsewhere(object)' = rest + kept
    BY <1>1 DEF Elsewhere
  <2>8. refs[object] = held + (rest + 0)
    BY <2>1, <2>3, <2>6 DEF Counted
  <2> HIDE DEF held, lost, kept, rest
  <2>9. refs'[object] = held - lost + (rest + kept)
    BY <2>1, <2>2, <2>5, <2>8, SMT
  <2> QED
    BY <2>3, <2>4, <2>7, <2>9 DEF Counted
<1> QED
  BY <1>4 DEF AllCounted

LEMMA CopyOverLeftCounted ==
  ASSUME ProtocolInvariant, AllCounted, CopyOverLeft
  PROVE  AllCounted'
<1>1. /\ Releasing /\ ~ Releasing' /\ return_value' = Nothing
      /\ slots' = [slots EXCEPT ![expr.left] = return_value]
      /\ UNCHANGED << refs, frame, tmp, dying >>
  BY DEF CopyOverLeft, Releasing
<1>2. expr.left \in Variables /\ slots \in [Variables -> Values]
  BY <1>1 DEF ProtocolInvariant, OperandsAsWritten, PlacesInTurn, Types, Releasing
<1>3. ASSUME NEW object \in Objects
      PROVE  Counted(object)'
  <2> DEFINE lost == Refers(slots[expr.left], object)
             result == Refers(return_value, object)
             before == Cardinality(HeldIn(slots, object))
             after == Cardinality(HeldIn(slots', object))
             rest == Refers(tmp, object) + Refers(frame.receiver, object)
                       + Refers(frame.argument, object) + Refers(dying, object)
  <2>1. Counted(object)
    BY DEF AllCounted
  <2>2. HoldingVariables(object) = HeldIn(slots, object) \ {expr.left}
        /\ HoldingVariables(object)' = HeldIn(slots', object)
    BY <1>1 DEF HoldingVariables, HeldIn
  <2>3. Cardinality(HoldingVariables(object)) = before - lost
    BY <1>2, <2>2, HeldElsewhere
  <2>4. after = before - lost + result
    BY <1>1, <1>2, HeldAfterAssignment, ZenonT(60)
  <2>5. /\ Refers(tmp, object) \in Nat /\ Refers(frame.receiver, object) \in Nat
        /\ Refers(frame.argument, object) \in Nat /\ Refers(dying, object) \in Nat
        /\ result \in Nat
    BY RefersType
  <2>6. Elsewhere(object) = result + rest /\ rest \in Nat
    BY <2>5, SMT DEF Elsewhere
  <2>7. Elsewhere(object)' = 0 + rest
    <3>1. Refers(return_value', object) = 0
      BY <1>1, NoObject
    <3>2. Elsewhere(object)' = Refers(return_value', object) + Refers(tmp, object)
                                 + Refers(frame.receiver, object)
                                 + Refers(frame.argument, object)
                                 + Refers(dying, object)
      BY <1>1 DEF Elsewhere
    <3> QED
      BY <2>5, <3>1, <3>2, SMT
  <2>8. before \in Nat /\ after \in Nat /\ lost \in Nat
    BY HeldInFinite, RefersType
  <2>9. refs[object] = before - lost + (result + rest)
    BY <2>1, <2>3, <2>6 DEF Counted
  <2> HIDE DEF lost, result, before, after, rest
  <2>10. refs[object] = after + (0 + rest)
    BY <2>4, <2>5, <2>6, <2>8, <2>9, SMT
  <2>11. refs'[object] = Cardinality(HoldingVariables(object)') + Elsewhere(object)'
    BY <1>1, <2>2, <2>7, <2>10 DEF after
  <2> QED
    BY <2>11 DEF Counted
<1> QED
  BY <1>3 DEF AllCounted

(***************************************************************************)
(* The theorems.                                                           *)
(***************************************************************************)
QuantityInvariant == ProtocolInvariant /\ RefsExact

LEMMA StutterKeepsInvariant ==
  ASSUME ProtocolInvariant, UNCHANGED quantityVars
  PROVE  ProtocolInvariant' /\ (AllCounted => AllCounted')
<1>1. UNCHANGED << slots, refs, is_quantity, phase, expr, frame, return_value, tmp,
                   exception, retried, dying, runs, rebound, clobbered >>
  BY DEF quantityVars, heapVars, evaluationVars
<1>2. Types' /\ OperandsAsWritten' /\ PlacesInTurn'
  BY <1>1 DEF ProtocolInvariant, Types, OperandsAsWritten, PlacesInTurn, Releasing
<1>3. OperandsKept' /\ DelegatesAsDocumented'
  BY <1>1 DEF ProtocolInvariant, OperandsKept, DelegatesAsDocumented, Value, IsQuantity
<1>4. \/ ~ Releasing /\ ~ Releasing'
      \/ Releasing /\ Releasing' /\ expr' = expr
  BY <1>1 DEF Releasing
<1>5. AllCounted => AllCounted'
  BY <1>1, <1>4, IdleStepCounted
<1> QED
  BY <1>2, <1>3, <1>5 DEF ProtocolInvariant

LEMMA StepKeepsProtocol ==
  ASSUME ProtocolInvariant, [QuantityNext]_quantityVars
  PROVE  ProtocolInvariant'
<1>1. CASE Program
  BY <1>1, ProgramProtocol, EvaluateProtocol DEF Program
<1>2. CASE Handler
  BY <1>2, HandlerProtocol, CallMethodProtocol, FailAfterThrowProtocol,
     ReleaseLeftProtocol, CopyOverLeftProtocol DEF Handler
<1>3. CASE Userland
  BY <1>3, RebindProtocol, MethodEndsProtocol, DestroyedProtocol DEF Userland
<1>4. CASE Engine
  BY <1>4, LeaveProtocol, AskOtherOperandProtocol DEF Engine
<1>5. CASE Undefined \/ UNCHANGED quantityVars
  BY <1>5, StutterKeepsInvariant DEF Undefined
<1> QED
  BY <1>1, <1>2, <1>3, <1>4, <1>5 DEF QuantityNext

LEMMA StepKeepsCounts ==
  ASSUME ProtocolInvariant, AllCounted, [QuantityNext]_quantityVars, ~ clobbered'
  PROVE  AllCounted'
<1>1. CASE Program
  BY <1>1, ProgramCounted, UnmovedCounted DEF Program
<1>2. CASE Handler
  BY <1>2, UnmovedCounted, CallMethodCounted, FailAfterThrowCounted,
     ReleaseLeftCounted, CopyOverLeftCounted, CopyToTemporaryCounted DEF Handler
<1>3. CASE Userland
  BY <1>3, RebindCounted, MethodEndsCounted, DestroyedCounted DEF Userland
<1>4. CASE Engine
  BY <1>4, StoreTemporaryCounted, UnmovedCounted DEF Engine
<1>5. CASE Undefined \/ UNCHANGED quantityVars
  BY <1>5, StutterKeepsInvariant DEF Undefined
<1> QED
  BY <1>1, <1>2, <1>3, <1>4, <1>5 DEF QuantityNext

\* What is clobbered stays so.
LEMMA StaysClobbered ==
  ASSUME clobbered, [QuantityNext]_quantityVars, clobbered \in BOOLEAN
  PROVE  clobbered'
<1>1. CASE \E v \in Variables, value \in Values : Rebind(v, value)
  BY <1>1 DEF Rebind
<1>2. CASE Program
  <2>1. ASSUME NEW v \in Variables, NEW quantity \in BOOLEAN, CreateObject(v, quantity)
        PROVE  UNCHANGED clobbered
    BY <2>1 DEF CreateObject, evaluationVars
  <2>2. ASSUME NEW v \in Variables, NEW w \in Variables,
               CloneObject(v, w) \/ Assign(v, w)
        PROVE  UNCHANGED clobbered
    BY <2>2 DEF CloneObject, Assign, evaluationVars
  <2>3. ASSUME NEW opcode \in Opcodes, NEW l \in Operands, NEW r \in Operands,
               NEW compound \in BOOLEAN, NEW swapped \in BOOLEAN,
               NEW lookup \in Lookups,
               Evaluate(opcode, l, r, compound, swapped, lookup)
        PROVE  UNCHANGED clobbered
    BY <2>3 DEF Evaluate
  <2> QED
    BY <1>2, <2>1, <2>2, <2>3 DEF Program
<1>3. CASE Handler
  <2>1. UNCHANGED clobbered
    BY <1>3 DEF Handler, Refuse, ThrowUndefined, CallMethod, SkipCall, FailAfterThrow,
       ReleaseLeft, CopyOverLeft, CopyToTemporary, evaluationVars
  <2> QED
    BY <2>1
<1>4. CASE \/ \E value \in Values, throws \in BOOLEAN : MethodEnds(value, throws)
           \/ \E throws \in BOOLEAN : DestructorReturns(throws)
           \/ DiscardReturns
  BY <1>4 DEF MethodEnds, DestructorReturns, DiscardReturns
<1>5. CASE Engine
  BY <1>5 DEF Engine, StoreTemporary, LeaveCompound, AskOtherOperand, Catch, Forget
<1>6. CASE Undefined \/ UNCHANGED quantityVars
  BY <1>6 DEF Undefined, quantityVars, evaluationVars
<1> QED
  BY <1>1, <1>2, <1>3, <1>4, <1>5, <1>6 DEF QuantityNext, Userland

LEMMA StepKeepsInvariant ==
  ASSUME QuantityInvariant, [QuantityNext]_quantityVars
  PROVE  QuantityInvariant'
<1>1. ProtocolInvariant /\ clobbered \in BOOLEAN
  BY DEF QuantityInvariant, ProtocolInvariant, Types
<1>2. ASSUME ~ clobbered'
      PROVE  AllCounted'
  <2>1. ~ clobbered
    BY <1>1, <1>2, StaysClobbered
  <2>2. AllCounted
    BY <2>1, RefsExactByObject DEF QuantityInvariant
  <2> QED
    BY <1>1, <1>2, <2>2, StepKeepsCounts
<1>3. (RefsExact <=> (~ clobbered => AllCounted))'
  BY RefsExactByObject, PTL
<1> QED
  BY <1>1, <1>2, <1>3, StepKeepsProtocol DEF QuantityInvariant

LEMMA QuantityIsSafe == QuantitySpec => []QuantityInvariant
<1>1. QuantityInit => QuantityInvariant
  BY InitProtocol, InitCounted, RefsExactByObject DEF QuantityInvariant
<1>2. QuantityInvariant /\ [QuantityNext]_quantityVars => QuantityInvariant'
  BY StepKeepsInvariant
<1> QED
  BY <1>1, <1>2, PTL DEF QuantitySpec

\* However many variables share however many objects, whatever methods and
\* destructors do: an object's count is the number of places that hold it,
\* until a destructor run by the release of the left operand writes the
\* variable that operand was in.
THEOREM RefsCorrect == QuantitySpec => []RefsExact
<1>1. QuantityInvariant => RefsExact
  BY DEF QuantityInvariant
<1> QED
  BY <1>1, QuantityIsSafe, PTL

\* Every variable keeps its type, and until then no count is below zero.
THEOREM QuantityTypeCorrect == QuantitySpec => []QuantityTypeOK
<1>1. QuantityInvariant => QuantityTypeOK
  <2> SUFFICES ASSUME QuantityInvariant PROVE QuantityTypeOK
    OBVIOUS
  <2>1. ASSUME ~ clobbered, NEW object \in Objects
        PROVE  refs[object] \in Nat
    <3>1. refs[object] = Cardinality(HoldingVariables(object)) + Elsewhere(object)
      BY <2>1, RefsExactByObject DEF QuantityInvariant, AllCounted, Counted
    <3>2. HoldingVariables(object) \in SUBSET Variables
      BY DEF HoldingVariables
    <3>3. Cardinality(HoldingVariables(object)) \in Nat
      BY <3>2, QuantityAssumption, FS_Subset, FS_CardinalityType
    <3> QED
      BY <3>1, <3>3, ElsewhereType, SMT
  <2>2. clobbered \/ refs \in [Objects -> Nat]
    BY <2>1 DEF QuantityInvariant, ProtocolInvariant, Types
  <2> QED
    BY <2>2 DEF QuantityInvariant, ProtocolInvariant, Types, Phases, QuantityTypeOK
<1> QED
  BY <1>1, QuantityIsSafe, PTL

\* The method that runs is the documented one for the operands as written.
THEOREM DelegationCorrect == QuantitySpec => []DelegatesAsDocumented
<1>1. QuantityInvariant => DelegatesAsDocumented
  BY DEF QuantityInvariant, ProtocolInvariant
<1> QED
  BY <1>1, QuantityIsSafe, PTL

\* An operator runs at most one method, although PHP may ask twice.
THEOREM RunsOnceCorrect == QuantitySpec => []RunsOnce
<1>1. QuantityInvariant => RunsOnce
  BY SMT DEF QuantityInvariant, ProtocolInvariant, Types, RunsOnce
<1> QED
  BY <1>1, QuantityIsSafe, PTL

\* A failed operation leaves its operands and leaks no value.
THEOREM FailureCorrect == QuantitySpec => []FailureKeepsOperands
<1>1. QuantityInvariant => FailureKeepsOperands
  <2> SUFFICES ASSUME QuantityInvariant, phase = "failed"
               PROVE  /\ return_value = Nothing /\ tmp = Nothing
                      /\ rebound \/ \A i \in 1 .. 2 :
                           Value(expr.written[i]) = expr.source[i]
    BY DEF FailureKeepsOperands
  <2>1. return_value = Nothing /\ tmp = Nothing
    BY DEF QuantityInvariant, ProtocolInvariant, PlacesInTurn
  <2>2. rebound \/ /\ Value(expr.written[1]) = expr.source[1]
                   /\ Value(expr.written[2]) = expr.source[2]
    BY DEF QuantityInvariant, ProtocolInvariant, OperandsKept
  <2>3. \A i \in 1 .. 2 : i = 1 \/ i = 2
    BY SMT
  <2> QED
    BY <2>1, <2>2, <2>3
<1> QED
  BY <1>1, QuantityIsSafe, PTL

===============================================================================
