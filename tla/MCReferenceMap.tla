---------------------------- MODULE MCReferenceMap ----------------------------
(* Instances of ReferenceMap for TLC: two keys that are always in one chain. *)
EXTENDS ReferenceMap, TLC

CONSTANTS p1, p2

MCHash == [k \in Keys |-> 1]

\* One thread writes, the other reads most of the time.
MCCalls == [p \in Threads |-> IF p = p1 THEN {"put", "remove", "clear"}
                              ELSE {"get", "putIfAbsent", "replace", "purge", "iterate"}]

Symmetry == Permutations(Keys)

================================================================================
