--------------------------- MODULE InternalQuantity ---------------------------
(***************************************************************************)
(* The operator handler of quantities (src/src/internal_quantity.c) and    *)
(* what surrounds a call of it: PHP evaluates $l op $r or $l op= $r on     *)
(* variables that share counted objects, the handler picks a receiver and  *)
(* a method, and the result goes to a temporary or, in a compound          *)
(* assignment, over the left operand.  Userland code runs in the method    *)
(* and in the destructor of whatever the handler releases.                 *)
(*                                                                         *)
(* PHP itself and userland are external: they are modelled as far as the   *)
(* handler meets them.                                                     *)
(***************************************************************************)
EXTENDS Integers, FiniteSets

CONSTANTS
  Variables,   \* the variables of a PHP program
  MaxObjects   \* how many objects are alive at a time

ASSUME QuantityAssumption ==
  /\ MaxObjects \in Nat
  /\ IsFiniteSet(Variables)
  /\ Variables \cap {"literal", "null", "tmp"} = {}

Objects == 1 .. MaxObjects
Nothing == 0         \* null, or undefined
Scalar  == -1
Values  == Objects \cup {Nothing, Scalar}

Opcodes == {"add", "sub", "mul", "div", "pow", "mod", "not"}

\* Operands are variables or literals; "null" is the missing right operand
\* of a unary opcode.
Operands == Variables \cup {"literal"}

\* What function_table has for a method: one that can be called, or one that
\* is missing, not public or static.
Lookups == {"public", "unusable"}

VARIABLES
  slots,         \* what each variable holds
  refs,          \* the reference count of each object, 0 when it is freed
  is_quantity,   \* instanceof InternalQuantity, for each object
  phase,         \* where the evaluation is; "idle" between two
  expr,          \* opcode, operands, result and what is found of the method
  frame,         \* the method that runs, its receiver and its argument
  return_value,  \* return_value, a local of the handler
  tmp,           \* the temporary of an evaluation that is not compound
  exception,     \* EG(exception)
  retried,       \* PHP asked the handler of the right operand too
  dying,         \* the object whose destructor runs; PHP holds it meanwhile
  runs,          \* history: how many methods this evaluation has run
  rebound,       \* history: userland has assigned a variable during it
  clobbered      \* history: a destructor wrote the variable whose old value
                 \* the handler had released and not replaced yet

heapVars == << slots, refs, is_quantity >>
evaluationVars == << expr, frame, return_value, tmp, exception, retried, dying,
                     runs, rebound, clobbered >>
quantityVars == << heapVars, phase, evaluationVars >>

NoFrame == [method |-> "none", receiver |-> Nothing, argument |-> Nothing]
NoExpr  == [opcode |-> "none"]

Hold(counts, value) ==
  IF value \in Objects THEN [counts EXCEPT ![value] = @ + 1] ELSE counts
Drop(counts, value) ==
  IF value \in Objects THEN [counts EXCEPT ![value] = @ - 1] ELSE counts

Free == {object \in Objects : refs[object] = 0} \ {dying}

Value(operand) == IF operand \in Variables THEN slots[operand]
                  ELSE IF operand = "literal" THEN Scalar ELSE Nothing

IsQuantity(value) == value \in Objects /\ is_quantity[value]

QuantityInit ==
  /\ slots = [v \in Variables |-> Nothing]
  /\ refs = [object \in Objects |-> 0]
  /\ is_quantity = [object \in Objects |-> FALSE]
  /\ phase = "idle"
  /\ expr = NoExpr /\ frame = NoFrame
  /\ return_value = Nothing /\ tmp = Nothing
  /\ exception = FALSE /\ retried = FALSE /\ dying = Nothing
  /\ runs = 0 /\ rebound = FALSE /\ clobbered = FALSE

(***************************************************************************)
(* The program between two evaluations.  Once a count is wrong what an     *)
(* assignment does is undefined, and the program is followed no further.   *)
(***************************************************************************)
Between == phase = "idle" /\ ~ clobbered

\* $v = new ..., a quantity (yumemi_internal_quantity_create_object) or not.
CreateObject(v, quantity) ==
  /\ Between
  /\ \E object \in Free :
       /\ slots' = [slots EXCEPT ![v] = object]
       /\ refs' = Drop(Hold(refs, object), slots[v])
       /\ is_quantity' = [is_quantity EXCEPT ![object] = quantity]
  /\ UNCHANGED << phase, evaluationVars >>

\* $v = clone $w: the clone has the handlers of what it was cloned from.
CloneObject(v, w) ==
  /\ Between
  /\ slots[w] \in Objects
  /\ \E object \in Free :
       /\ slots' = [slots EXCEPT ![v] = object]
       /\ refs' = Drop(Hold(refs, object), slots[v])
       /\ is_quantity' = [is_quantity EXCEPT ![object] = is_quantity[slots[w]]]
  /\ UNCHANGED << phase, evaluationVars >>

\* $v = $w.
Assign(v, w) ==
  /\ Between
  /\ slots' = [slots EXCEPT ![v] = slots[w]]
  /\ refs' = Drop(Hold(refs, slots[w]), slots[v])
  /\ UNCHANGED << is_quantity, phase, evaluationVars >>

(***************************************************************************)
(* An evaluation.  PHP may swap the operands of a multiplication that is   *)
(* not compound; `written', `source' and `quantity' keep the operands as   *)
(* they were written, their values, and which of them are quantities.      *)
(***************************************************************************)
Evaluate(opcode, l, r, compound, swapped, lookup) ==
  /\ Between
  /\ IsQuantity(Value(l)) \/ IsQuantity(Value(r))
  /\ compound => l \in Variables /\ opcode # "not"
  /\ swapped => opcode = "mul" /\ ~ compound
  /\ expr' = [opcode |-> opcode,
              left   |-> IF swapped THEN r ELSE l,
              right  |-> IF opcode = "not" THEN "null"
                         ELSE IF swapped THEN l ELSE r,
              result |-> IF compound THEN l ELSE "tmp",
              lookup |-> lookup,
              written |-> << l, r >>,
              source |-> << Value(l), Value(r) >>,
              quantity |-> << IsQuantity(Value(l)), IsQuantity(Value(r)) >>]
  /\ phase' = "handler"
  /\ UNCHANGED << heapVars, frame, return_value, tmp, exception, retried, dying,
                  runs, rebound, clobbered >>

left == Value(expr.left)
right == Value(expr.right)

(***************************************************************************)
(* yumemi_internal_quantity_do_operation.                                  *)
(***************************************************************************)
receiver_is_right == ~ IsQuantity(left)

HasReceiver ==
  /\ expr.right # "null"
  /\ \/ IsQuantity(left)
     \/ expr.opcode \in {"mul", "div"} /\ IsQuantity(right)

receiver == IF receiver_is_right THEN right ELSE left
argument == IF receiver_is_right THEN left ELSE right

FaultyMethodName == expr.opcode
MethodName ==
  IF expr.opcode = "div" /\ receiver_is_right THEN "rdiv" ELSE expr.opcode

\* No receiver, or an opcode without a method: FAILURE.
Refuse ==
  /\ phase = "handler"
  /\ ~ HasReceiver \/ expr.opcode = "mod"
  /\ phase' = "failed"
  /\ UNCHANGED << heapVars, evaluationVars >>

Delegates == phase = "handler" /\ HasReceiver /\ expr.opcode # "mod"

\* "Call to undefined method".
ThrowUndefined ==
  /\ Delegates
  /\ expr.lookup # "public"
  /\ exception' = TRUE
  /\ phase' = "failed"
  /\ UNCHANGED << heapVars, expr, frame, return_value, tmp, retried, dying,
                  runs, rebound, clobbered >>

\* zend_call_function calls nothing while an exception is pending.
EngineCalls == ~ exception

\* The call holds its receiver and its argument until it is over.
CallMethod ==
  /\ Delegates
  /\ expr.lookup = "public"
  /\ EngineCalls
  /\ frame' = [method |-> MethodName, receiver |-> receiver, argument |-> argument]
  /\ refs' = Hold(Hold(refs, receiver), argument)
  /\ runs' = runs + 1
  /\ phase' = "method"
  /\ UNCHANGED << slots, is_quantity, expr, return_value, tmp, exception,
                  retried, dying, rebound, clobbered >>

SkipCall ==
  /\ Delegates
  /\ expr.lookup = "public"
  /\ ~ EngineCalls
  /\ phase' = "returned"
  /\ UNCHANGED << heapVars, evaluationVars >>

\* zval_ptr_dtor.  PHP holds an object again while its destructor runs; the
\* place the handler released it from still points to it.
Release(value, inside, after) ==
  IF value \in Objects /\ refs[value] = 1
  THEN dying' = value /\ phase' = inside /\ UNCHANGED refs
  ELSE refs' = Drop(refs, value) /\ phase' = after /\ UNCHANGED dying

FaultyLeakResult ==
  /\ phase = "returned"
  /\ exception
  /\ phase' = "failed"
  /\ UNCHANGED << heapVars, evaluationVars >>

FaultyClearException ==
  /\ phase = "returned"
  /\ exception
  /\ exception' = FALSE
  /\ Release(return_value, "discarding", "failed")
  /\ return_value' = Nothing
  /\ UNCHANGED << slots, is_quantity, expr, frame, tmp, retried, runs, rebound,
                  clobbered >>

FailAfterThrow ==
  /\ phase = "returned"
  /\ exception
  /\ Release(return_value, "discarding", "failed")
  /\ return_value' = Nothing
  /\ UNCHANGED << slots, is_quantity, expr, frame, tmp, exception, retried, runs,
                  rebound, clobbered >>

\* result == left: the operand is released where it stands.
ReleaseLeft ==
  /\ phase = "returned"
  /\ ~ exception
  /\ expr.result = expr.left
  /\ Release(left, "destructor", "copying")
  /\ UNCHANGED << slots, is_quantity, expr, frame, return_value, tmp, exception,
                  retried, runs, rebound, clobbered >>

\* ZVAL_COPY_VALUE: whatever the variable holds by now is overwritten.
CopyOverLeft ==
  /\ phase = "copying"
  /\ slots' = [slots EXCEPT ![expr.left] = return_value]
  /\ return_value' = Nothing
  /\ phase' = "succeeded"
  /\ UNCHANGED << refs, is_quantity, expr, frame, tmp, exception, retried, dying,
                  runs, rebound, clobbered >>

FaultyCopyToTemporary ==
  /\ phase = "returned"
  /\ ~ exception
  /\ expr.result # expr.left
  /\ refs' = Drop(refs, left)
  /\ tmp' = return_value
  /\ return_value' = Nothing
  /\ phase' = "succeeded"
  /\ UNCHANGED << slots, is_quantity, expr, frame, exception, retried, dying,
                  runs, rebound, clobbered >>

CopyToTemporary ==
  /\ phase = "returned"
  /\ ~ exception
  /\ expr.result # expr.left
  /\ tmp' = return_value
  /\ return_value' = Nothing
  /\ phase' = "succeeded"
  /\ UNCHANGED << heapVars, expr, frame, exception, retried, dying, runs, rebound,
                  clobbered >>

(***************************************************************************)
(* Userland, in a method or in a destructor.                               *)
(***************************************************************************)
\* What it can name: a variable's value, $this, its argument, something new.
Reachable ==
  {Nothing, Scalar, frame.receiver, frame.argument, dying}
    \cup {slots[v] : v \in Variables} \cup Free

\* A new object is a quantity.
Made(value) ==
  IF value \in Free THEN [is_quantity EXCEPT ![value] = TRUE] ELSE is_quantity

\* It may unset or assign any variable, an operand included.
Rebind(v, value) ==
  /\ phase \in {"method", "destructor", "discarding"}
  /\ value \in Reachable
  /\ slots' = [slots EXCEPT ![v] = value]
  /\ refs' = Drop(Hold(refs, value), slots[v])
  /\ is_quantity' = Made(value)
  /\ rebound' = TRUE
  /\ clobbered' = (clobbered \/ (/\ phase = "destructor" /\ v = expr.left
                                 /\ value # slots[v]))
  /\ UNCHANGED << phase, expr, frame, return_value, tmp, exception, retried,
                  dying, runs >>

\* What a method returns, or that it throws; both when something that is
\* destroyed on the way out throws.  The call releases what it held.
Unwound(counts) == Drop(Drop(counts, frame.receiver), frame.argument)

MethodEnds(value, throws) ==
  /\ phase = "method"
  /\ value \in Reachable
  /\ refs' = Unwound(Hold(refs, value))
  /\ is_quantity' = Made(value)
  /\ return_value' = value
  /\ exception' = throws
  /\ frame' = NoFrame
  /\ phase' = "returned"
  /\ UNCHANGED << slots, expr, tmp, retried, dying, runs, rebound, clobbered >>

\* The destructor of the left operand; what it throws is thrown later.
DestructorReturns(throws) ==
  /\ phase = "destructor"
  /\ refs' = Drop(refs, dying)
  /\ dying' = Nothing
  /\ exception' = throws
  /\ phase' = "copying"
  /\ UNCHANGED << slots, is_quantity, expr, frame, return_value, tmp, retried,
                  runs, rebound, clobbered >>

\* The destructor of a result that is given up.
DiscardReturns ==
  /\ phase = "discarding"
  /\ refs' = Drop(refs, dying)
  /\ dying' = Nothing
  /\ phase' = "failed"
  /\ UNCHANGED << slots, is_quantity, expr, frame, return_value, tmp, exception,
                  retried, runs, rebound, clobbered >>

(***************************************************************************)
(* PHP, after the handler.                                                 *)
(***************************************************************************)
Forget ==
  /\ phase' = "idle"
  /\ expr' = NoExpr
  /\ exception' = FALSE
  /\ retried' = FALSE
  /\ runs' = 0
  /\ rebound' = FALSE
  /\ UNCHANGED << is_quantity, frame, return_value, dying, clobbered >>

\* The temporary is assigned to a variable, or the assignment was compound.
StoreTemporary(v) ==
  /\ phase = "succeeded"
  /\ expr.result = "tmp"
  /\ slots' = [slots EXCEPT ![v] = tmp]
  /\ refs' = Drop(refs, slots[v])
  /\ tmp' = Nothing
  /\ Forget

LeaveCompound ==
  /\ phase = "succeeded"
  /\ expr.result # "tmp"
  /\ UNCHANGED << slots, refs, tmp >>
  /\ Forget

\* PHP asks the handler of the left operand, if it has one when it is
\* evaluated, and after FAILURE that of whatever the right operand is by then.
AskedLeft == expr.quantity[IF expr.left = expr.written[1] THEN 1 ELSE 2]

AsksAgain == ~ retried /\ AskedLeft /\ IsQuantity(right)

AskOtherOperand ==
  /\ phase = "failed"
  /\ AsksAgain
  /\ retried' = TRUE
  /\ phase' = "handler"
  /\ UNCHANGED << heapVars, expr, frame, return_value, tmp, exception, dying,
                  runs, rebound, clobbered >>

\* The exception is caught; without one, PHP has thrown a TypeError.
Catch ==
  /\ phase = "failed"
  /\ ~ AsksAgain
  /\ UNCHANGED << slots, refs, tmp >>
  /\ Forget

Handler ==
  \/ Refuse \/ ThrowUndefined \/ CallMethod \/ SkipCall \/ FailAfterThrow
  \/ ReleaseLeft \/ CopyOverLeft \/ CopyToTemporary

Userland ==
  \/ \E v \in Variables, value \in Values : Rebind(v, value)
  \/ \E value \in Values, throws \in BOOLEAN : MethodEnds(value, throws)
  \/ \E throws \in BOOLEAN : DestructorReturns(throws)
  \/ DiscardReturns

Engine ==
  \/ \E v \in Variables : StoreTemporary(v)
  \/ LeaveCompound
  \/ AskOtherOperand
  \/ Catch

Program ==
  \/ \E v \in Variables, quantity \in BOOLEAN : CreateObject(v, quantity)
  \/ \E v, w \in Variables : CloneObject(v, w) \/ Assign(v, w)
  \/ \E opcode \in Opcodes, l, r \in Operands, compound, swapped \in BOOLEAN,
        lookup \in Lookups : Evaluate(opcode, l, r, compound, swapped, lookup)

Undefined == phase = "idle" /\ clobbered /\ UNCHANGED quantityVars

QuantityNext == Program \/ Handler \/ Userland \/ Engine \/ Undefined

QuantitySpec == QuantityInit /\ [][QuantityNext]_quantityVars

\* The program treats its variables alike: the symmetry of the runs, as a
\* set TLC enumerates.
Renamings ==
  {renaming \in [Variables -> Variables] :
     {renaming[v] : v \in Variables} = Variables}
Interchangeable == {renaming : renaming \in Renamings}

-------------------------------------------------------------------------------
\* The type of every variable.
QuantityTypeOK ==
  /\ slots \in [Variables -> Values]
  /\ refs \in [Objects -> Int]
  /\ clobbered \/ refs \in [Objects -> Nat]
  /\ is_quantity \in [Objects -> BOOLEAN]
  /\ phase \in {"idle", "handler", "method", "returned", "destructor",
                "copying", "discarding", "failed", "succeeded"}
  /\ return_value \in Values /\ tmp \in Values /\ dying \in Values
  /\ exception \in BOOLEAN /\ retried \in BOOLEAN /\ rebound \in BOOLEAN
  /\ clobbered \in BOOLEAN /\ runs \in 0 .. 1

\* While the left operand is replaced, its variable still points to what the
\* handler has released and is not a holder.
Releasing == phase \in {"destructor", "copying"}

HoldingVariables(object) ==
  {v \in Variables : slots[v] = object /\ ~ (Releasing /\ v = expr.left)}

One(holds) == IF holds THEN 1 ELSE 0

\* An object is counted once for every place that holds it, so that it lives
\* as long as one does and no longer, through every release, copy and
\* failure of the handler and whatever userland does meanwhile: but for a
\* destructor that writes the variable being assigned (clobbered).
RefsExact ==
  ~ clobbered =>
    \A object \in Objects :
      refs[object] = Cardinality(HoldingVariables(object))
                       + One(return_value = object) + One(tmp = object)
                       + One(frame.receiver = object)
                       + One(frame.argument = object) + One(dying = object)

\* docs/ARCHITECTURE.md, "Optional quantity base": the handlers do not change
\* normal object behaviour.  Between two operators an object of PHP is
\* counted once for every variable that holds it.
NormalObjectBehavior ==
  phase = "idle" =>
    \A object \in Objects :
      refs[object] = Cardinality({v \in Variables : slots[v] = object})

\* docs/ARCHITECTURE.md, "Operator delegation": the method that runs is the
\* operator's, on the operands as they were written, in this order; a
\* quantity that divides gets rdiv; only multiplication may be turned round.
\* Nothing else runs.
DelegatesAsDocumented ==
  phase = "method" =>
    LET first == expr.source[1]
        second == expr.source[2]
        runs_on(method, on, with) ==
          frame = [method |-> method, receiver |-> on, argument |-> with]
    IN  \/ /\ expr.opcode \in {"add", "sub", "mul", "div", "pow"}
           /\ expr.quantity[1]
           /\ runs_on(expr.opcode, first, second)
        \/ /\ expr.opcode = "mul" /\ expr.quantity[2]
           /\ runs_on("mul", second, first)
        \/ /\ expr.opcode = "div" /\ ~ expr.quantity[1] /\ expr.quantity[2]
           /\ runs_on("rdiv", second, first)

\* PHP asks the handlers of both operands, but an operator runs one method
\* at most: the handler refuses only before it has called anything, or with
\* an exception pending that keeps the second call from running.
RunsOnce == runs <= 1

\* A failed operation leaves the variables as userland left them, both
\* operands and the target of a compound assignment, and no value behind.
FailureKeepsOperands ==
  phase = "failed" =>
    /\ return_value = Nothing /\ tmp = Nothing
    /\ rebound \/ \A i \in 1 .. 2 : Value(expr.written[i]) = expr.source[i]
===============================================================================
