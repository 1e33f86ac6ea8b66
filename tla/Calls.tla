------------------------------- MODULE Calls -------------------------------
(***************************************************************************)
(* A call of a function that keeps no state.  Its loop is run one turn a   *)
(* step, so that a call that does not end is seen as well as a wrong       *)
(* result.                                                                 *)
(***************************************************************************)
EXTENDS Integers

CONSTANT IntMax     \* the largest Int: 2^31 - 1, and less in small instances

ASSUME CallsAssumption == IntMax \in Nat \ {0}

VARIABLE call   \* the function, its arguments, the outcome, its local variables and its result

\* How many Ints there are.
IntSize == 2 * (IntMax + 1)

\* What a sum or product of Ints is.
ToInt(x) == ((x + IntMax + 1) % IntSize) - IntMax - 1

CallOf(function, args, locals) ==
    [function |-> function, args |-> args, outcome |-> "running", locals |-> locals]

Running(function) == call.function = function /\ call.outcome = "running"

Continue(locals) == call' = [call EXCEPT !.locals = locals]

End(outcome, result) ==
    call' = [function |-> call.function, args |-> call.args, outcome |-> outcome, result |-> result]

Return(result) == End("returned", result)

Throw(exception) == End("thrown", exception)

Returned(function) == call.function = function /\ call.outcome = "returned"

============================================================================
