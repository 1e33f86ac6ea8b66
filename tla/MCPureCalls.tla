---------------------------- MODULE MCPureCalls ----------------------------
(***************************************************************************)
(* The calls TLC runs: one of each function with all arguments of the      *)
(* sizes below.                                                            *)
(***************************************************************************)
EXTENDS PureCalls, TLC

CONSTANTS s, a, b, e    \* the nodes

\* Up to two neighbours in any order, also the same twice; e may have none and
\* be no key.
Neighbours == SeqOf({s, a, e}, 2) \cup {<<b>>, <<a, b>>}

BreadthFirstCall ==
    \E graph \in [{s, a, b} -> Neighbours], wanted \in {{e}, {e, b}, {s}} :
       call = BreadthFirst(graph, s, wanted)

\* The edges of the weighted graphs and the costs each may have, zero for none.
Costs ==
    [{<<s, a>>, <<s, b>>, <<a, b>>, <<b, a>>, <<a, e>>, <<b, e>>} -> {0, 1, 3}]

Edges(back) == {<<s, a>>, <<s, b>>, <<a, b>>, <<b, a>>, <<a, e>>, <<b, e>>} \cup back

\* A graph may lead back to start, from it or from another node.
Weighted(costs, back, keys) ==
    LET Cost(edge) == IF edge \in back THEN 2 ELSE costs[edge]
    IN [n \in keys |->
          [m \in {x \in Nodes : <<n, x>> \in Edges(back) /\ Cost(<<n, x>>) > 0} |-> Cost(<<n, m>>)]]

DijkstraCall ==
    \E costs \in Costs, back \in {{}, {<<s, s>>}, {<<a, s>>}} :
       \/ \E end \in {e, s} : call = Dijkstra(Weighted(costs, back, Nodes), s, end)
       \/ call = Dijkstra(Weighted(costs, back, Nodes \ {e}), s, e)

GreedyCall ==
    \E stations \in [{a, b, e} -> SUBSET {1, 2, 3}], states \in {{1, 2}, {1, 2, 3}} :
       call = Greedy(stations, states)

SortedLists == {list \in SeqOf(1 .. 4, 4) : Ascending(list)}

\* Lists up to the largest length, the longer half with sums of indices that are no Int.
LongLists == {[i \in 1 .. n |-> 2 * i] : n \in 5 .. IntMax}

ListCall ==
    \/ \E list \in SortedLists, item \in 0 .. 5 : call = BinarySearch(list, item)
    \/ \E list \in LongLists, item \in 0 .. 2 * IntMax + 1 : call = BinarySearch(list, item)
    \/ \E list \in SeqOf(1 .. 3, 4) : call = Quicksort(list)
    \/ \E list \in SeqOf({-9, -1, 6, 15}, 3) : call = RecursiveSum(list)

PageCall ==
    \E total \in 0 .. 9, size \in 0 .. 5, params \in BOOLEAN : call = ListPages(total, size, params)

NamedCall == \E sql \in SeqOf({"?", ":", ",", "x", " "}, 6) : call = NamedParameters(sql)

MCInit == BreadthFirstCall \/ DijkstraCall \/ GreedyCall \/ ListCall \/ PageCall \/ NamedCall

MCSpec == MCInit /\ [][Next]_call /\ Fairness

=============================================================================
