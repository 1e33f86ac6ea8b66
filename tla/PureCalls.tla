----------------------------- MODULE PureCalls -----------------------------
(***************************************************************************)
(* One call of a function of Algorithms, Paging or SqlText; the instances  *)
(* give the calls to start with.                                           *)
(***************************************************************************)
EXTENDS Algorithms, Paging, SqlText

Next == AlgorithmsNext \/ PageNext \/ CharacterNext

\* What the functions are called with: costs are not negative, a list that is
\* searched is sorted, and its length is an Int.
Init ==
    \/ \E keys \in SUBSET Nodes :
          \/ \E graph \in [keys -> Seq(Nodes)], start \in Nodes, wanted \in SUBSET Nodes :
                call = BreadthFirst(graph, start, wanted)
          \/ \E graph \in [keys -> UNION {[to -> 0 .. IntMax] : to \in SUBSET Nodes}],
                start \in keys, end \in Nodes :
                call = Dijkstra(graph, start, end)
    \/ \E stations, states : IsFiniteSet(states) /\ call = Greedy(stations, states)
    \/ \E list \in Seq(Int) :
          \/ \E item \in Int :
                Len(list) <= IntMax /\ Ascending(list) /\ call = BinarySearch(list, item)
          \/ call = Quicksort(list)
    \/ \E list \in Seq(- IntMax - 1 .. IntMax) : call = RecursiveSum(list)
    \/ \E total \in Nat, size \in Nat, params \in BOOLEAN : call = ListPages(total, size, params)
    \/ \E sql \in Seq(STRING) : call = NamedParameters(sql)

\* The thread of the call is scheduled.
Fairness == WF_call(Next)

Spec == Init /\ [][Next]_call /\ Fairness

\* Graphs whose costs overflow an Int are left open.
Overflows == call.function = "dijkstraSearch" /\ ~NoOverflow(call.args.graph)

\* A call of one of the three kinds whose loop has no end runs for ever, but that a
\* binary search in a list that is too long may throw.
EndlessGoOn == Endless /\ ~Overflows => call.outcome = "running" \/ SearchOverflowed

\* Every call ends, with a result or an exception, but for the three kinds whose
\* loop has no end, and these never end, unless the sum of two indices of a binary
\* search is no Int, which makes it throw.  (the while loops of Graphs and Greedys,
\* the recursion of genericBinarySearch)
CallsEnd == <>(call.outcome # "running" \/ Endless \/ Overflows) /\ []EndlessGoOn

TypeOK ==
    /\ call.outcome \in {"running", "returned", "thrown"}
    /\ call.outcome = "running" <=> "locals" \in DOMAIN call
    /\ call.outcome # "running" <=> "result" \in DOMAIN call

=============================================================================
