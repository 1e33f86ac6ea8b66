-------------------------- MODULE TimestampOracle --------------------------
(***************************************************************************)
(* What UUIDs.getCurrentTimestamp promises its callers: every answer is    *)
(* greater than all answers decided before it, whoever they went to.       *)
(***************************************************************************)
EXTENDS Integers

CONSTANTS Threads

VARIABLES
    highest,    \* the greatest answer decided so far
    phase,      \* where each caller is
    answer      \* what each caller has been or will be told

vars == <<highest, phase, answer>>

Init ==
    /\ highest = 0
    /\ phase = [t \in Threads |-> "idle"]
    /\ answer = [t \in Threads |-> 0]

Ask(t) ==
    /\ phase[t] = "idle"
    /\ phase' = [phase EXCEPT ![t] = "waiting"]
    /\ UNCHANGED <<highest, answer>>

Decide(t) ==
    /\ phase[t] = "waiting"
    /\ highest' \in Nat /\ highest' > highest
    /\ answer' = [answer EXCEPT ![t] = highest']
    /\ phase' = [phase EXCEPT ![t] = "told"]

Hear(t) ==
    /\ phase[t] = "told"
    /\ phase' = [phase EXCEPT ![t] = "idle"]
    /\ UNCHANGED <<highest, answer>>

Next == \E t \in Threads : Ask(t) \/ Decide(t) \/ Hear(t)

Spec == Init /\ [][Next]_vars

============================================================================
