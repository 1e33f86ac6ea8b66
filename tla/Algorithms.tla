----------------------------- MODULE Algorithms -----------------------------
(***************************************************************************)
(* Graphs, Greedys, Searchs, Sorts and Sums: the loops of the functions,   *)
(* one turn a step, and what their results should be.  A Scala map has no  *)
(* order: where the code takes the first of its best entries, any of them  *)
(* may be taken.                                                           *)
(***************************************************************************)
EXTENDS Calls, Sequences, FiniteSets, SequencesExt, FiniteSetsExt

CONSTANTS
    Nodes,      \* the nodes of the graphs
    Nothing     \* None where an element is expected

ASSUME AlgorithmsAssumption == IsFiniteSet(Nodes) /\ Nothing \notin Nodes

------------------------------------------------------------------------------
(* breadthFirstSearch.  graph gives the nodes that are its keys a sequence *)
(* of neighbours.                                                          *)

GetOrElse(graph, node) == IF node \in DOMAIN graph THEN graph[node] ELSE <<>>

BreadthFirst(graph, start, wanted) ==
    CallOf("breadthFirstSearch", [graph |-> graph, start |-> start, wanted |-> wanted],
           [queue |-> GetOrElse(graph, start), searched |-> ToSet(GetOrElse(graph, start))])

\* The neighbours that were not searched, each once.
Pending(neighbours, searched) ==
    FoldLeft(LAMBDA found, n : IF n \in searched \cup ToSet(found) THEN found
                               ELSE Append(found, n), <<>>, neighbours)

\* Mutant: the neighbours are looked at first.
EnqueueFirst(queue, pendings) == pendings \o queue

Enqueue(queue, pendings) == queue \o pendings

SearchNext ==
    /\ Running("breadthFirstSearch")
    /\ LET queue == call.locals.queue
           searched == call.locals.searched
           person == Head(queue)
           pendings == Pending(GetOrElse(call.args.graph, person), searched)
       IN \/ queue = <<>> /\ Return(Nothing)
          \/ queue # <<>> /\ person \in call.args.wanted /\ Return(person)
          \/ /\ queue # <<>> /\ person \notin call.args.wanted
             /\ Continue([queue |-> Enqueue(Tail(queue), pendings),
                          searched |-> searched \cup ToSet(pendings)])

------------------------------------------------------------------------------
(* dijkstraSearch.  graph gives the nodes that are its keys a function     *)
(* from neighbours to costs.                                               *)

\* costs has an entry for the neighbours of start and for the other keys.
Dijkstra(graph, start, end) ==
    CallOf("dijkstraSearch", [graph |-> graph, start |-> start, end |-> end],
           [costs |-> [n \in DOMAIN graph[start] \cup (DOMAIN graph \ {start}) |->
                         IF n \in DOMAIN graph[start] THEN graph[start][n] ELSE IntMax],
            parents |-> [n \in Nodes |-> IF n \in DOMAIN graph[start] THEN start ELSE Nothing],
            processed |-> {}])

\* Mutant: nodes are taken in any order.
AnyCostNode(costs, processed) ==
    {n \in DOMAIN costs \ processed : costs[n] < IntMax}

\* The nodes findLowestCostNode may find.
LowestCostNode(costs, processed) ==
    {n \in DOMAIN costs \ processed :
       costs[n] < IntMax /\ \A m \in DOMAIN costs \ processed : costs[n] <= costs[m]}

\* The turn of the loop for a node; graph(node) and costs(n) throw when there is
\* no such entry, and start has none in costs unless it is its own neighbour.
Process(node) ==
    LET graph == call.args.graph
        costs == call.locals.costs
        newCost == [n \in DOMAIN graph[node] |-> ToInt(costs[node] + graph[node][n])]
        Lowered(n) == n \in DOMAIN newCost /\ costs[n] > newCost[n]
    IN IF node \notin DOMAIN graph \/ ~ DOMAIN graph[node] \subseteq DOMAIN costs
       THEN Throw("NoSuchElement")
       ELSE Continue(
              [costs |-> [n \in DOMAIN costs |-> IF Lowered(n) THEN newCost[n] ELSE costs[n]],
               parents |-> [n \in Nodes |-> IF n \in DOMAIN costs /\ Lowered(n) THEN node
                                            ELSE call.locals.parents[n]],
               processed |-> call.locals.processed \cup {node}])

\* No node is left: the path is followed back from the end.
ProcessNext ==
    /\ Running("dijkstraSearch") /\ "costs" \in DOMAIN call.locals /\ ~ "path" \in DOMAIN call.locals
    /\ LET lowest == LowestCostNode(call.locals.costs, call.locals.processed)
           end == call.args.end
       IN \/ \E node \in lowest : Process(node)
          \/ /\ lowest = {}
             /\ Continue([costs |-> call.locals.costs, parents |-> call.locals.parents,
                          paths |-> <<end>>, path |-> call.locals.parents[end]])

\* A path that goes round in circles grows until the memory is full: the list
\* stops at one more than the nodes there are, and the loop goes on.
PathNext ==
    /\ Running("dijkstraSearch") /\ "path" \in DOMAIN call.locals
    /\ LET locals == call.locals
       IN \/ /\ locals.path # Nothing
             /\ Continue([locals EXCEPT
                    !.paths = IF Len(@) <= Cardinality(Nodes) THEN <<locals.path>> \o @ ELSE @,
                    !.path = locals.parents[@]])
          \/ /\ locals.path = Nothing
             /\ IF call.args.end \in DOMAIN locals.costs
                THEN Return([cost |-> locals.costs[call.args.end], path |-> locals.paths])
                ELSE Throw("NoSuchElement")

------------------------------------------------------------------------------
(* greedys.  stations gives every station its set of states.               *)

Greedy(stations, states) ==
    CallOf("greedys", [stations |-> stations, states |-> states],
           [finalStations |-> {}, statesNeeded |-> states])

\* What a station covers of the states needed.
Covered(station, needed) == needed \cap call.args.stations[station]

\* A turn chooses a station that covers most, or none.
GreedyNext ==
    /\ Running("greedys")
    /\ LET needed == call.locals.statesNeeded
           stations == DOMAIN call.args.stations
           best == {s \in stations : /\ Covered(s, needed) # {}
                                     /\ \A t \in stations : Cardinality(Covered(t, needed))
                                                              <= Cardinality(Covered(s, needed))}
       IN \/ needed = {} /\ Return(call.locals.finalStations)
          \/ /\ needed # {}
             /\ \E s \in best :
                   Continue([finalStations |-> call.locals.finalStations \cup {s},
                             statesNeeded |-> needed \ Covered(s, needed)])
          \/ needed # {} /\ best = {} /\ Continue(call.locals)

------------------------------------------------------------------------------
(* genericBinarySearch, whose indices start with zero.                     *)

BinarySearch(list, item) ==
    CallOf("genericBinarySearch", [list |-> list, item |-> item],
           [low |-> 0, high |-> Len(list) - 1])

\* Division of Ints, which rounds towards zero.
Half(x) == IF x < 0 THEN -((-x) \div 2) ELSE x \div 2

\* Mutant: the middle itself is looked at again.
BelowOrAt(mid) == mid

Below(mid) == mid - 1

\* The guard is mid > high, and never low > high.  The sum of the indices may be no
\* Int: the middle is negative then, and the list has nothing there.
BinarySearchNext ==
    /\ Running("genericBinarySearch")
    /\ LET list == call.args.list
           item == call.args.item
           mid == Half(ToInt(call.locals.low + call.locals.high))
           guess == list[mid + 1]
       IN IF list = <<>> \/ mid > call.locals.high THEN Return(-1)
          ELSE \/ mid < 0 /\ Throw("IndexOutOfBounds")
               \/ mid >= 0 /\ guess = item /\ Return(mid)
               \/ mid >= 0 /\ guess > item /\ Continue([call.locals EXCEPT !.high = Below(mid)])
               \/ mid >= 0 /\ guess < item /\ Continue([call.locals EXCEPT !.low = mid + 1])

------------------------------------------------------------------------------
(* genericQuicksort and recursiveSum, their recursion as a stack of what   *)
(* is left to do.                                                          *)

Quicksort(list) ==
    CallOf("genericQuicksort", [list |-> list], [stack |-> <<list>>, sorted |-> <<>>])

\* The elements of a list that are in a set, in their order.
Part(list, elements) ==
    FoldLeft(LAMBDA part, x : IF x \in elements THEN Append(part, x) ELSE part, <<>>, list)

\* Mutant: what equals the pivot is kept once.
PivotsOnce(list, pivot) == <<pivot>>

Pivots(list, pivot) == Part(list, {pivot})

\* The first list on the stack is appended if it has one element, or only equal
\* ones; otherwise its three parts take its place.
QuicksortNext ==
    /\ Running("genericQuicksort")
    /\ LET stack == call.locals.stack
           list == Head(stack)
           pivot == list[Len(list) \div 2 + 1]
           less == Part(list, {x \in ToSet(list) : x < pivot})
           greater == Part(list, {x \in ToSet(list) : x > pivot})
       IN \/ stack = <<>> /\ Return(call.locals.sorted)
          \/ /\ stack # <<>> /\ (Len(list) < 2 \/ less \o greater = <<>>)
             /\ Continue([stack |-> Tail(stack), sorted |-> call.locals.sorted \o list])
          \/ /\ stack # <<>> /\ Len(list) >= 2 /\ less \o greater # <<>>
             /\ Continue([call.locals EXCEPT
                    !.stack = <<less, Pivots(list, pivot), greater>> \o Tail(stack)])

RecursiveSum(list) == CallOf("recursiveSum", [list |-> list], [rest |-> Reverse(list), sum |-> 0])

RecursiveSumNext ==
    /\ Running("recursiveSum")
    /\ LET rest == call.locals.rest
       IN \/ rest = <<>> /\ Return(call.locals.sum)
          \/ /\ rest # <<>>
             /\ Continue([rest |-> Tail(rest), sum |-> ToInt(Head(rest) + call.locals.sum)])

AlgorithmsNext ==
    \/ SearchNext \/ ProcessNext \/ PathNext \/ GreedyNext
    \/ BinarySearchNext \/ QuicksortNext \/ RecursiveSumNext

------------------------------------------------------------------------------
(* What the results should be.                                             *)

\* The nodes that a walk of n edges from start ends at.
WalkEnds(graph, start) ==
    LET ends[n \in Nat] == IF n = 0 THEN {start}
                           ELSE UNION {ToSet(GetOrElse(graph, x)) : x \in ends[n - 1]}
    IN ends

\* The search finds a wanted node exactly if one can be reached by an edge or
\* more, and no wanted node is nearer.  (breadthFirstSearch)
NearestFound ==
    Returned("breadthFirstSearch") =>
       LET ends == WalkEnds(call.args.graph, call.args.start)
           found == {n \in 1 .. Cardinality(Nodes) : ends[n] \cap call.args.wanted # {}}
       IN IF found = {} THEN call.result = Nothing
          ELSE call.result \in ends[Min(found)] \cap call.args.wanted

\* The sequences that visit no node twice.
Walks == {p \in SeqOf(Nodes, Cardinality(Nodes)) : p # <<>> /\ IsInjective(p)}

\* The paths of a weighted graph from start.
PathsFrom(graph, start) ==
    {p \in Walks :
       /\ p[1] = start
       /\ \A i \in 1 .. Len(p) - 1 : p[i] \in DOMAIN graph /\ p[i + 1] \in DOMAIN graph[p[i]]}

CostOf(graph, path) ==
    FoldLeftDomain(LAMBDA sum, i : IF i = Len(path) THEN sum ELSE sum + graph[path[i]][path[i + 1]],
                   0, path)

Reached(graph, start) == {Last(p) : p \in PathsFrom(graph, start)}

\* The graphs the function can do nothing with: a node that is reached is no
\* key, or leads back to start.
Unfit(args) ==
    LET graph == args.graph
        entries == DOMAIN graph[args.start] \cup (DOMAIN graph \ {args.start})
    IN \/ \E n \in Reached(graph, args.start) :
             n \notin DOMAIN graph \/ ~ DOMAIN graph[n] \subseteq entries
       \/ args.end \notin entries

\* No path that visits a node once, nor one with an edge more, costs too much
\* for an Int.
NoOverflow(graph) ==
    \A n \in DOMAIN graph : \A m \in DOMAIN graph[n] :
       Cardinality(Nodes) * graph[n][m] < IntMax

\* When costs do not overflow: the search throws exactly when a node that is
\* reached is no key of the graph or leads back to start; otherwise it returns
\* the least cost of the paths to the end, with a path of that cost, or the
\* largest Int when there is none.  (dijkstraSearch)
PathIsShortest ==
    call.function = "dijkstraSearch" /\ call.outcome # "running" /\ NoOverflow(call.args.graph) =>
       LET args == call.args
           paths == {p \in PathsFrom(args.graph, args.start) : Last(p) = args.end}
           costs == {CostOf(args.graph, p) : p \in paths}
       IN IF Unfit(args) THEN call.outcome = "thrown"
          ELSE /\ call.outcome = "returned"
               /\ IF paths = {} THEN call.result = [cost |-> IntMax, path |-> <<args.end>>]
                  ELSE /\ call.result.cost = Min(costs)
                       /\ call.result.path \in paths
                       /\ CostOf(args.graph, call.result.path) = Min(costs)

Ascending(list) == \A i \in 1 .. Len(list) - 1 : list[i] <= list[i + 1]

Count(list, x) == Cardinality({i \in DOMAIN list : list[i] = x})

\* The item is above an element so far back that the index after it and that of the
\* last element add up to more than an Int.
SumTooLarge(list, item) ==
    \E i \in 1 .. Len(list) : list[i] < item /\ i + (Len(list) - 1) > IntMax

\* The search has thrown, and a sum of indices may be no Int.
SearchOverflowed ==
    /\ call.function = "genericBinarySearch" /\ call.outcome = "thrown"
    /\ SumTooLarge(call.args.list, call.args.item)

\* The stations chosen cover the states, and there are no more of them than
\* states.  The index of a sorted list holds the item, -1 means that it holds it
\* nowhere; the search throws only in lists of more than half as many elements as
\* there are indices, for an item far back.  A sorted list has every element as often as the list had it.  A sum
\* is that of the elements modulo the width of an Int.
\* (greedys, genericBinarySearch, genericQuicksort, recursiveSum)
ResultsRight ==
    /\ Returned("greedys") =>
          /\ call.args.states \subseteq UNION {call.args.stations[s] : s \in call.result}
          /\ Cardinality(call.result) <= Cardinality(call.args.states)
    /\ Returned("genericBinarySearch") =>
          IF call.result = -1 THEN ~ Contains(call.args.list, call.args.item)
          ELSE call.args.list[call.result + 1] = call.args.item
    /\ call.function = "genericBinarySearch" /\ call.outcome = "thrown" => SearchOverflowed
    /\ Returned("genericQuicksort") =>
          /\ Ascending(call.result)
          /\ \A x \in ToSet(call.args.list \o call.result) :
                Count(call.args.list, x) = Count(call.result, x)
    /\ Returned("recursiveSum") =>
          LET sum == FoldLeft(+, 0, call.args.list)
          IN call.result \in - IntMax - 1 .. IntMax /\ (call.result - sum) % IntSize = 0

\* The calls whose loop has no end: states that are in no station's set, an item
\* that is not in the list and greater than its first element, and a start that
\* is its own neighbour and from which the end is reached.
Endless ==
    \/ /\ call.function = "greedys"
       /\ ~ call.args.states \subseteq UNION {call.args.stations[s] : s \in DOMAIN call.args.stations}
    \/ /\ call.function = "genericBinarySearch"
       /\ call.args.list # <<>> /\ ~ Contains(call.args.list, call.args.item)
       /\ call.args.item > Head(call.args.list)
    \/ /\ call.function = "dijkstraSearch"
       /\ call.args.start \in DOMAIN call.args.graph[call.args.start]
       /\ call.args.end \in Reached(call.args.graph, call.args.start)
       /\ ~ Unfit(call.args)

==============================================================================
