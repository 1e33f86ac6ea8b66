--------------------------- MODULE PureCallsProofs --------------------------
(***************************************************************************)
(* Proofs about PureCalls: what the functions return, for arguments of any *)
(* size and for Ints of any width.  Each function has an invariant that    *)
(* relates its local variables to its arguments, and a lemma that it       *)
(* starts with it, one that a turn keeps it, and one that the result       *)
(* follows from it.                                                        *)
(***************************************************************************)
EXTENDS PureCalls, SequenceTheorems, FiniteSetTheorems, WellFoundedInduction, TLAPS

(***************************************************************************)
(* Numbers and sets of numbers.                                            *)
(***************************************************************************)

LEMMA MinIs ==
    ASSUME NEW S, S \subseteq Nat, S # {}
    PROVE  Min(S) \in S /\ \A n \in S : Min(S) <= n
<1>1. PICK less : less = {x \in Nat \X Nat : x[1] < x[2]}
  OBVIOUS
<1>2. IsWellFoundedOn(less, Nat)
  BY <1>1, NatLessThanWellFounded DEF OpToRel
<1>3. PICK m \in S : \A n \in S : ~(<<n, m>> \in less)
  BY <1>2, WFMin, Zenon
<1>4. ASSUME NEW n \in S PROVE m <= n
  <2>1. m \in Nat /\ n \in Nat
    OBVIOUS
  <2>2. n < m => <<n, m>> \in less
    BY <1>1, <2>1
  <2> QED
    BY <1>3, <2>1, <2>2
<1>5. \E x \in S : \A y \in S : x <= y
  BY <1>4
<1>6. Min(S) = CHOOSE x \in S : \A y \in S : x <= y
  BY DEF Min
<1> QED
  BY <1>5, <1>6, Zenon

\* Induction over the numbers, for a set of them.
LEMMA AllNumbers ==
    ASSUME NEW S, 0 \in S, \A n \in Nat : n \in S => n + 1 \in S
    PROVE  Nat \subseteq S
<1> SUFFICES ASSUME Nat \ S # {} PROVE FALSE
  OBVIOUS
<1>1. Min(Nat \ S) \in Nat \ S /\ \A n \in Nat \ S : Min(Nat \ S) <= n
  BY MinIs
<1>2. PICK m \in Nat \ S : \A n \in Nat \ S : m <= n
  BY <1>1
<1>3. m # 0 /\ m \in Nat
  OBVIOUS
<1>4. m - 1 \in Nat /\ m - 1 \in S
  BY <1>2, <1>3
<1> QED
  BY <1>3, <1>4

\* The same up to a bound.
LEMMA NumbersUpTo ==
    ASSUME NEW S, NEW b \in Nat, 0 \in S, \A n \in 0 .. b - 1 : n \in S => n + 1 \in S
    PROVE  0 .. b \subseteq S
<1> DEFINE T == {n \in Nat : n <= b => n \in S}
<1>1. 0 \in T
  OBVIOUS
<1>2. \A n \in Nat : n \in T => n + 1 \in T
  OBVIOUS
<1>3. Nat \subseteq T
  <2> HIDE DEF T
  <2> QED
    BY <1>1, <1>2, AllNumbers
<1> QED
  BY <1>3

LEMMA MaxOfInterval ==
    ASSUME NEW n \in Nat \ {0}
    PROVE  Max(1 .. n) = n
<1>1. n \in 1 .. n /\ \A y \in 1 .. n : n >= y
  OBVIOUS
<1>2. PICK m : m = Max(1 .. n)
  OBVIOUS
<1>3. m \in 1 .. n /\ \A y \in 1 .. n : m >= y
  BY <1>1, <1>2 DEF Max
<1>4. m = n
  BY <1>1, <1>3
<1> QED
  BY <1>2, <1>4

------------------------------------------------------------------------------
(* Recursion.                                                              *)

FoldTable(g, Y, base, op, n) ==
    /\ g \in [SUBSET (1 .. n) -> Y]
    /\ \A s \in SUBSET (1 .. n) :
          g[s] = IF s = {} THEN base ELSE op[<<Max(s), g[s \ {Max(s)}]>>]

\* A fold over the numbers up to n, the greatest first, is defined.
LEMMA FoldExists ==
    ASSUME NEW Y, NEW base \in Y, NEW op \in [Nat \X Y -> Y], NEW n \in Nat
    PROVE  \E g : FoldTable(g, Y, base, op, n)
<1> DEFINE Fold(m, g) ==
              /\ g \in [SUBSET (1 .. m) -> Y]
              /\ \A s \in SUBSET (1 .. m) :
                    g[s] = IF s = {} THEN base ELSE op[<<Max(s), g[s \ {Max(s)}]>>]
           S == {m \in Nat : \E g : Fold(m, g)}
<1>1. 0 \in S
  <2>1. SUBSET (1 .. 0) = {{}}
    OBVIOUS
  <2>2. Fold(0, [s \in SUBSET (1 .. 0) |-> base])
    BY <2>1
  <2> QED
    BY <2>2
<1>2. ASSUME NEW m \in Nat, m \in S PROVE m + 1 \in S
  <2>1. PICK g : Fold(m, g)
    BY <1>2
  <2> DEFINE h == [s \in SUBSET (1 .. m + 1) |->
                     IF m + 1 \in s THEN op[<<m + 1, g[s \ {m + 1}]>>] ELSE g[s]]
  <2>2. ASSUME NEW s \in SUBSET (1 .. m + 1)
        PROVE  /\ h[s] \in Y
               /\ h[s] = IF s = {} THEN base ELSE op[<<Max(s), h[s \ {Max(s)}]>>]
    <3>1. CASE m + 1 \in s
      <4>1. \A y \in s : m + 1 >= y
        OBVIOUS
      <4>2. PICK x : x = Max(s)
        OBVIOUS
      <4>3. x \in s /\ \A y \in s : x >= y
        BY <3>1, <4>1, <4>2 DEF Max
      <4>4. x = m + 1
        BY <3>1, <4>1, <4>3
      <4>5. s \ {m + 1} \in SUBSET (1 .. m)
        OBVIOUS
      <4>6. g[s \ {m + 1}] \in Y
        BY <2>1, <4>5
      <4>7. h[s \ {m + 1}] = g[s \ {m + 1}]
        BY <4>5
      <4>8. h[s] = op[<<m + 1, g[s \ {m + 1}]>>]
        BY <3>1
      <4> QED
        BY <3>1, <4>2, <4>4, <4>6, <4>7, <4>8
    <3>2. CASE m + 1 \notin s
      <4>1. s \in SUBSET (1 .. m)
        BY <3>2
      <4>2. h[s] = g[s]
        BY <3>2
      <4>3. s \ {Max(s)} \in SUBSET (1 .. m)
        BY <4>1
      <4>4. s \ {Max(s)} \in SUBSET (1 .. m + 1) /\ m + 1 \notin s \ {Max(s)}
        BY <3>2
      <4>5. h[s \ {Max(s)}] = g[s \ {Max(s)}]
        BY <4>4
      <4> QED
        BY <2>1, <4>1, <4>2, <4>5
    <3> QED
      BY <3>1, <3>2
  <2>3. Fold(m + 1, h)
    BY <2>2
  <2>4. \E g2 : Fold(m + 1, g2)
    <3> HIDE DEF Fold, h
    <3> QED
      BY <2>3
  <2> QED
    <3> HIDE DEF Fold, h
    <3> QED
      BY <2>4
<1>3. n \in S
  <2> HIDE DEF S
  <2> QED
    BY <1>1, <1>2, AllNumbers
<1> QED
  BY <1>3 DEF FoldTable

LEMMA MaxIn ==
    ASSUME NEW n \in Nat, NEW t \in SUBSET (1 .. n), t # {}
    PROVE  Max(t) \in t /\ \A y \in t : Max(t) >= y
<1> DEFINE S == {y \in Nat : n - y \in t}
<1>1. S # {}
  <2>1. PICK y : y \in t
    OBVIOUS
  <2>2. y \in 1 .. n
    BY <2>1
  <2>3. n - y \in Nat /\ n - (n - y) = y
    BY <2>2
  <2>4. n - y \in S
    BY <2>1, <2>3
  <2> QED
    BY <2>4
<1>2. PICK m : m = Min(S)
  OBVIOUS
<1>3. m \in S /\ \A y \in S : m <= y
  BY <1>1, <1>2, MinIs
<1>4. n - m \in t /\ \A y \in t : n - m >= y
  <2>1. m \in Nat /\ n - m \in t
    BY <1>3
  <2>2. ASSUME NEW y \in t PROVE n - m >= y
    <3>1. y \in 1 .. n
      OBVIOUS
    <3>2. n - y \in Nat /\ n - (n - y) = y
      BY <3>1
    <3>3. n - y \in S
      BY <3>2
    <3> QED
      BY <1>3, <2>1, <3>1, <3>3
  <2> QED
    BY <2>1, <2>2
<1>5. \E x \in t : \A y \in t : x >= y
  BY <1>4
<1>6. Max(t) = CHOOSE x \in t : \A y \in t : x >= y
  BY DEF Max
<1> QED
  BY <1>5, <1>6, Zenon

LEMMA UpTo == ASSUME NEW k \in Nat \ {0} PROVE (1 .. k) \ {k} = 1 .. (k - 1)
OBVIOUS

\* A fold over a sequence of length n is defined.
LEMMA ListFold ==
    ASSUME NEW n \in Nat, NEW Y, NEW base \in Y, NEW op \in [(1 .. n) \X Y -> Y]
    PROVE  \E g : FoldTable(g, Y, base, op, n)
<1> DEFINE all == [p \in Nat \X Y |-> IF p[1] \in 1 .. n THEN op[p] ELSE base]
<1>1. all \in [Nat \X Y -> Y]
  OBVIOUS
<1>2. PICK g : FoldTable(g, Y, base, all, n)
  <2> HIDE DEF all
  <2> QED
    BY <1>1, FoldExists
<1>3. ASSUME NEW t \in SUBSET (1 .. n), t # {}
      PROVE  all[<<Max(t), g[t \ {Max(t)}]>>] = op[<<Max(t), g[t \ {Max(t)}]>>]
  <2>1. PICK m : m = Max(t)
    OBVIOUS
  <2>2. m \in 1 .. n
    BY <1>3, <2>1, MaxIn
  <2>3. g[t \ {m}] \in Y
    BY <1>2 DEF FoldTable
  <2>4. \A y \in Y : all[<<m, y>>] = op[<<m, y>>]
    BY <2>2
  <2> QED
    BY <2>1, <2>3, <2>4
<1>4. FoldTable(g, Y, base, op, n)
  <2> HIDE DEF all
  <2> QED
    BY <1>2, <1>3 DEF FoldTable
<1> QED
  BY <1>4

Recursion(f, Y, base, op) ==
    f \in [Nat -> Y] /\ \A n \in Nat : f[n] = IF n = 0 THEN base ELSE op[f[n - 1]]

\* A function on the numbers that is defined from its value before is defined.
LEMMA RecursionExists ==
    ASSUME NEW Y, NEW base \in Y, NEW op \in [Y -> Y]
    PROVE  \E f : Recursion(f, Y, base, op)
<1> DEFINE Upto(m, g) ==
              /\ g \in [0 .. m -> Y]
              /\ \A n \in 0 .. m : g[n] = IF n = 0 THEN base ELSE op[g[n - 1]]
           S == {m \in Nat : \E g : Upto(m, g)}
<1>1. 0 \in S
  <2>1. Upto(0, [n \in 0 .. 0 |-> base])
    OBVIOUS
  <2> QED
    BY <2>1
<1>2. ASSUME NEW m \in Nat, m \in S PROVE m + 1 \in S
  <2>1. PICK g : Upto(m, g)
    BY <1>2
  <2> DEFINE h == [n \in 0 .. m + 1 |-> IF n = m + 1 THEN op[g[m]] ELSE g[n]]
  <2>2. ASSUME NEW n \in 0 .. m + 1
        PROVE  h[n] \in Y /\ h[n] = IF n = 0 THEN base ELSE op[h[n - 1]]
    <3>1. CASE n = m + 1
      <4>1. n # 0 /\ n - 1 = m /\ m \in 0 .. m /\ m \in 0 .. m + 1 /\ m # m + 1
        BY <3>1
      <4>2. h[n] = op[g[m]] /\ h[n - 1] = g[m]
        BY <3>1, <4>1
      <4> QED
        BY <2>1, <4>1, <4>2
    <3>2. CASE n # m + 1
      <4>1. n \in 0 .. m /\ (n # 0 => n - 1 \in 0 .. m /\ n - 1 # m + 1)
        BY <3>2
      <4>2. h[n] = g[n] /\ (n # 0 => h[n - 1] = g[n - 1])
        BY <4>1
      <4> QED
        BY <2>1, <4>1, <4>2
    <3> QED
      BY <3>1, <3>2
  <2>3. Upto(m + 1, h)
    BY <2>2
  <2>4. \E g2 : Upto(m + 1, g2)
    <3> HIDE DEF Upto, h
    <3> QED
      BY <2>3
  <2> QED
    BY <2>4
<1>3. Nat \subseteq S
  <2> HIDE DEF S
  <2> QED
    BY <1>1, <1>2, AllNumbers
<1> DEFINE Some(m) == CHOOSE g : Upto(m, g)
           f == [m \in Nat |-> Some(m)[m]]
<1>4. \A m \in Nat : Upto(m, Some(m))
  BY <1>3
<1>5. ASSUME NEW m \in Nat, NEW k \in Nat, m <= k PROVE Some(k)[m] = Some(m)[m]
  <2> DEFINE T == {n \in Nat : n <= m => Some(k)[n] = Some(m)[n]}
  <2>1. 0 \in T
    <3>1. 0 \in 0 .. m /\ 0 \in 0 .. k
      OBVIOUS
    <3>2. Some(k)[0] = base /\ Some(m)[0] = base
      <4> HIDE DEF Some
      <4> QED
        BY <1>4, <3>1
    <3> QED
      BY <3>2
  <2>2. ASSUME NEW n \in Nat, n \in T PROVE n + 1 \in T
    <3> SUFFICES ASSUME n + 1 <= m PROVE Some(k)[n + 1] = Some(m)[n + 1]
      OBVIOUS
    <3>1. n + 1 \in 0 .. m /\ n + 1 \in 0 .. k /\ n + 1 # 0 /\ (n + 1) - 1 = n
      BY <1>5
    <3>2. Some(k)[n] = Some(m)[n]
      BY <2>2
    <3>3. Some(k)[n + 1] = op[Some(k)[n]] /\ Some(m)[n + 1] = op[Some(m)[n]]
      <4> HIDE DEF Some
      <4> QED
        BY <1>4, <3>1
    <3> QED
      BY <3>2, <3>3
  <2>3. m \in T
    <3> HIDE DEF T
    <3> QED
      BY <2>1, <2>2, AllNumbers
  <2> QED
    BY <2>3
<1>6. ASSUME NEW n \in Nat
      PROVE  f[n] \in Y /\ f[n] = IF n = 0 THEN base ELSE op[f[n - 1]]
  <2> HIDE DEF Some
  <2>1. n \in 0 .. n
    OBVIOUS
  <2>2. f[n] \in Y /\ f[n] = IF n = 0 THEN base ELSE op[Some(n)[n - 1]]
    BY <1>4, <2>1
  <2>3. n # 0 => n - 1 \in Nat /\ Some(n)[n - 1] = Some(n - 1)[n - 1]
    BY <1>5
  <2> QED
    BY <2>2, <2>3
<1> QED
  <2> HIDE DEF f
  <2>1. f \in [Nat -> Y]
    BY <1>6 DEF f
  <2> QED
    BY <1>6, <2>1 DEF Recursion

------------------------------------------------------------------------------
(* Calls.                                                                  *)

RunningWith(locals) ==
    [function |-> call.function, args |-> call.args, outcome |-> "running", locals |-> locals]

\* A call that runs has its local variables.
CallOK == call.outcome = "running" => call = RunningWith(call.locals)


LEMMA CallStartsOK == Init => CallOK
BY DEF Init, CallOK, RunningWith, CallOf, BreadthFirst, Dijkstra, Greedy, BinarySearch,
       Quicksort, RecursiveSum, ListPages, NamedParameters

LEMMA CallStepOK == CallOK /\ [Next]_call => CallOK'
<1>1. ASSUME CallOK, NEW locals, call.outcome = "running", Continue(locals) PROVE CallOK'
  <2>1. call = RunningWith(call.locals)
    BY <1>1 DEF CallOK
  <2>2. call' = RunningWith(locals)
    BY <1>1, <2>1 DEF Continue, RunningWith
  <2> QED
    BY <2>2 DEF CallOK, RunningWith
<1>2. ASSUME NEW outcome \in {"returned", "thrown"}, NEW result, End(outcome, result) PROVE CallOK'
  BY <1>2 DEF CallOK, End
<1>3. CallOK /\ SearchNext => CallOK'
  BY <1>1, <1>2 DEF SearchNext, Running, Return
<1>4. CallOK /\ ProcessNext => CallOK'
  BY <1>1, <1>2 DEF ProcessNext, Process, Running, Throw
<1>5. CallOK /\ PathNext => CallOK'
  BY <1>1, <1>2 DEF PathNext, Running, Return, Throw
<1>6. CallOK /\ GreedyNext => CallOK'
  BY <1>1, <1>2 DEF GreedyNext, Running, Return
<1>7. CallOK /\ BinarySearchNext => CallOK'
  BY <1>1, <1>2 DEF BinarySearchNext, Running, Return, Throw
<1>8. CallOK /\ QuicksortNext => CallOK'
  BY <1>1, <1>2 DEF QuicksortNext, Running, Return
<1>9. CallOK /\ RecursiveSumNext => CallOK'
  BY <1>1, <1>2 DEF RecursiveSumNext, Running, Return
<1>10. CallOK /\ PageNext => CallOK'
  BY <1>1, <1>2 DEF PageNext, Running, Return, Throw
<1>11. CallOK /\ CharacterNext => CallOK'
  BY <1>1, <1>2 DEF CharacterNext, Running, Return
<1>12. CallOK /\ UNCHANGED call => CallOK'
  BY DEF CallOK, RunningWith
<1> QED
  BY <1>3, <1>4, <1>5, <1>6, <1>7, <1>8, <1>9, <1>10, <1>11, <1>12 DEF Next, AlgorithmsNext

\* What a step makes of a call.
LEMMA Continues ==
    ASSUME CallOK, call.outcome = "running", NEW locals, Continue(locals)
    PROVE  /\ call'.function = call.function /\ call'.args = call.args
           /\ call'.outcome = "running" /\ call'.locals = locals
<1>1. call = RunningWith(call.locals)
  BY DEF CallOK
<1> QED
  BY <1>1 DEF Continue, RunningWith

LEMMA CallEnds ==
    ASSUME NEW outcome, NEW result, End(outcome, result)
    PROVE  /\ call'.function = call.function /\ call'.args = call.args
           /\ call'.outcome = outcome /\ call'.result = result
BY DEF End

\* A step keeps the function and its arguments; a call that has ended stays as it is.
LEMMA CallKept ==
    ASSUME CallOK, [Next]_call
    PROVE  /\ call'.function = call.function /\ call'.args = call.args
           /\ call.outcome # "running" => call' = call
<1>1. ASSUME NEW locals, call.outcome = "running", Continue(locals)
      PROVE  call'.function = call.function /\ call'.args = call.args
  BY <1>1, Continues
<1>2. ASSUME NEW outcome, NEW result, End(outcome, result)
      PROVE  call'.function = call.function /\ call'.args = call.args
  BY <1>2, CallEnds
<1>3. CASE SearchNext
  BY <1>1, <1>2, <1>3 DEF SearchNext, Running, Return
<1>4. CASE ProcessNext
  BY <1>1, <1>2, <1>4 DEF ProcessNext, Process, Running, Throw
<1>5. CASE PathNext
  BY <1>1, <1>2, <1>5 DEF PathNext, Running, Return, Throw
<1>6. CASE GreedyNext
  BY <1>1, <1>2, <1>6 DEF GreedyNext, Running, Return
<1>7. CASE BinarySearchNext
  BY <1>1, <1>2, <1>7 DEF BinarySearchNext, Running, Return, Throw
<1>8. CASE QuicksortNext
  BY <1>1, <1>2, <1>8 DEF QuicksortNext, Running, Return
<1>9. CASE RecursiveSumNext
  BY <1>1, <1>2, <1>9 DEF RecursiveSumNext, Running, Return
<1>10. CASE PageNext
  BY <1>1, <1>2, <1>10 DEF PageNext, Running, Return, Throw
<1>11. CASE CharacterNext
  BY <1>1, <1>2, <1>11 DEF CharacterNext, Running, Return
<1> QED
  BY <1>3, <1>4, <1>5, <1>6, <1>7, <1>8, <1>9, <1>10, <1>11 DEF Next, AlgorithmsNext

\* A call of a function takes the steps of that function.
LEMMA ItsSteps ==
    ASSUME [Next]_call
    PROVE  /\ call.function = "breadthFirstSearch" => SearchNext \/ call' = call
           /\ call.function = "dijkstraSearch" => ProcessNext \/ PathNext \/ call' = call
           /\ call.function = "greedys" => GreedyNext \/ call' = call
           /\ call.function = "genericBinarySearch" => BinarySearchNext \/ call' = call
           /\ call.function = "genericQuicksort" => QuicksortNext \/ call' = call
           /\ call.function = "recursiveSum" => RecursiveSumNext \/ call' = call
           /\ call.function = "pages" => PageNext \/ call' = call
           /\ call.function = "namedParameterToQuestionMarked" => CharacterNext \/ call' = call
BY DEF Next, AlgorithmsNext, SearchNext, ProcessNext, PathNext, GreedyNext, BinarySearchNext,
       QuicksortNext, RecursiveSumNext, PageNext, CharacterNext, Running

\* What a call starts with.
LEMMA CallStarts ==
    ASSUME Init
    PROVE  /\ call.function = "breadthFirstSearch" =>
                 \E keys \in SUBSET Nodes : \E graph \in [keys -> Seq(Nodes)] :
                    \E start \in Nodes : \E wanted \in SUBSET Nodes :
                       call = BreadthFirst(graph, start, wanted)
           /\ call.function = "dijkstraSearch" =>
                 \E keys \in SUBSET Nodes :
                 \E graph \in [keys -> UNION {[to -> 0 .. IntMax] : to \in SUBSET Nodes}] :
                 \E start \in keys : \E end \in Nodes : call = Dijkstra(graph, start, end)
           /\ call.function = "greedys" =>
                 \E stations : \E states : IsFiniteSet(states) /\ call = Greedy(stations, states)
           /\ call.function = "genericBinarySearch" =>
                 \E list \in Seq(Int) : \E item \in Int :
                    Len(list) <= IntMax /\ Ascending(list) /\ call = BinarySearch(list, item)
           /\ call.function = "genericQuicksort" => \E list \in Seq(Int) : call = Quicksort(list)
           /\ call.function = "recursiveSum" =>
                 \E list \in Seq(- IntMax - 1 .. IntMax) : call = RecursiveSum(list)
           /\ call.function = "pages" =>
                 \E total \in Nat : \E size \in Nat : \E params \in BOOLEAN :
                    call = ListPages(total, size, params)
           /\ call.function = "namedParameterToQuestionMarked" =>
                 \E sql \in Seq(STRING) : call = NamedParameters(sql)
<1>1. ASSUME NEW keys \in SUBSET Nodes, NEW graph \in [keys -> Seq(Nodes)], NEW start \in Nodes,
             NEW wanted \in SUBSET Nodes, call = BreadthFirst(graph, start, wanted)
      PROVE  call.function = "breadthFirstSearch"
  BY <1>1 DEF BreadthFirst, CallOf
<1>2. ASSUME NEW graph, NEW start, NEW end, call = Dijkstra(graph, start, end)
      PROVE  call.function = "dijkstraSearch"
  BY <1>2 DEF Dijkstra, CallOf
<1>3. ASSUME NEW stations, NEW states, call = Greedy(stations, states)
      PROVE  call.function = "greedys"
  BY <1>3 DEF Greedy, CallOf
<1>4. ASSUME NEW list, NEW item, call = BinarySearch(list, item)
      PROVE  call.function = "genericBinarySearch"
  BY <1>4 DEF BinarySearch, CallOf
<1>5. ASSUME NEW list, call = Quicksort(list) PROVE call.function = "genericQuicksort"
  BY <1>5 DEF Quicksort, CallOf
<1>6. ASSUME NEW list, call = RecursiveSum(list) PROVE call.function = "recursiveSum"
  BY <1>6 DEF RecursiveSum, CallOf
<1>7. ASSUME NEW total, NEW size, NEW params, call = ListPages(total, size, params)
      PROVE  call.function = "pages"
  BY <1>7 DEF ListPages, CallOf
<1>8. ASSUME NEW sql, call = NamedParameters(sql)
      PROVE  call.function = "namedParameterToQuestionMarked"
  BY <1>8 DEF NamedParameters, CallOf
<1>9. call.function = "breadthFirstSearch" =>
         \E keys \in SUBSET Nodes : \E graph \in [keys -> Seq(Nodes)] :
            \E start \in Nodes : \E wanted \in SUBSET Nodes :
               call = BreadthFirst(graph, start, wanted)
  BY <1>2, <1>3, <1>4, <1>5, <1>6, <1>7, <1>8 DEF Init
<1>10. call.function = "dijkstraSearch" =>
          \E keys \in SUBSET Nodes :
          \E graph \in [keys -> UNION {[to -> 0 .. IntMax] : to \in SUBSET Nodes}] :
          \E start \in keys : \E end \in Nodes : call = Dijkstra(graph, start, end)
  BY <1>1, <1>3, <1>4, <1>5, <1>6, <1>7, <1>8 DEF Init
<1>11. call.function = "greedys" =>
          \E stations : \E states : IsFiniteSet(states) /\ call = Greedy(stations, states)
  BY <1>1, <1>2, <1>4, <1>5, <1>6, <1>7, <1>8 DEF Init
<1>12. call.function = "genericBinarySearch" =>
          \E list \in Seq(Int) : \E item \in Int :
             Len(list) <= IntMax /\ Ascending(list) /\ call = BinarySearch(list, item)
  BY <1>1, <1>2, <1>3, <1>5, <1>6, <1>7, <1>8 DEF Init
<1>13. call.function = "genericQuicksort" => \E list \in Seq(Int) : call = Quicksort(list)
  BY <1>1, <1>2, <1>3, <1>4, <1>6, <1>7, <1>8 DEF Init
<1>14. call.function = "recursiveSum" =>
          \E list \in Seq(- IntMax - 1 .. IntMax) : call = RecursiveSum(list)
  BY <1>1, <1>2, <1>3, <1>4, <1>5, <1>7, <1>8 DEF Init
<1>15. call.function = "pages" =>
          \E total \in Nat : \E size \in Nat : \E params \in BOOLEAN :
             call = ListPages(total, size, params)
  BY <1>1, <1>2, <1>3, <1>4, <1>5, <1>6, <1>8 DEF Init
<1>16. call.function = "namedParameterToQuestionMarked" =>
          \E sql \in Seq(STRING) : call = NamedParameters(sql)
  BY <1>1, <1>2, <1>3, <1>4, <1>5, <1>6, <1>7 DEF Init
<1> QED
  BY <1>9, <1>10, <1>11, <1>12, <1>13, <1>14, <1>15, <1>16

------------------------------------------------------------------------------
(* greedys.                                                                *)

CoverOK(args, final, needed) ==
    /\ needed \subseteq args.states /\ IsFiniteSet(final)
    /\ args.states \subseteq needed \cup UNION {args.stations[x] : x \in final}
    /\ Cardinality(final) + Cardinality(needed) <= Cardinality(args.states)

GreedyOK ==
    call.function = "greedys" =>
       /\ IsFiniteSet(call.args.states)
       /\ call.outcome = "running" =>
             CoverOK(call.args, call.locals.finalStations, call.locals.statesNeeded)
       /\ call.outcome = "returned" => CoverOK(call.args, call.result, {})

LEMMA GreedyStarts == Init => GreedyOK
<1> SUFFICES ASSUME Init, call.function = "greedys" PROVE GreedyOK
  BY DEF GreedyOK
<1>1. PICK stations, states : IsFiniteSet(states) /\ call = Greedy(stations, states)
  BY CallStarts
<1>2. call.args.states = states /\ call.outcome = "running"
      /\ call.locals = [finalStations |-> {}, statesNeeded |-> states]
  BY <1>1 DEF Greedy, CallOf
<1>3. CoverOK(call.args, {}, states)
  <2>1. Cardinality(states) \in Nat
    BY <1>1, FS_CardinalityType
  <2> QED
    BY <1>2, <2>1, FS_EmptySet DEF CoverOK
<1> QED
  BY <1>1, <1>2, <1>3 DEF GreedyOK

LEMMA GreedyStep == CallOK /\ GreedyOK /\ [Next]_call => GreedyOK'
<1> SUFFICES ASSUME CallOK, GreedyOK, [Next]_call, call.function = "greedys" PROVE GreedyOK'
  BY CallKept DEF GreedyOK
<1>1. call'.function = call.function /\ call'.args = call.args
  BY CallKept
<1>2. CASE call' = call
  BY <1>2 DEF GreedyOK
<1>3. CASE GreedyNext
  <2> DEFINE final == call.locals.finalStations
             needed == call.locals.statesNeeded
             args == call.args
  <2>1. IsFiniteSet(args.states) /\ CoverOK(args, final, needed) /\ call.outcome = "running"
    BY <1>3 DEF GreedyOK, GreedyNext, Running
  <2>2. CASE needed = {} /\ Return(final)
    BY <1>1, <2>1, <2>2, CallEnds DEF Return, GreedyOK
  <2>3. ASSUME NEW x, Covered(x, needed) # {},
               Continue([finalStations |-> final \cup {x},
                         statesNeeded |-> needed \ Covered(x, needed)])
        PROVE  GreedyOK'
    <3> DEFINE rest == needed \ Covered(x, needed)
    <3>1. rest = needed \ args.stations[x] /\ rest # needed /\ rest \subseteq needed
      BY <2>3 DEF Covered
    <3>2. IsFiniteSet(needed) /\ IsFiniteSet(final)
      BY <2>1, FS_Subset DEF CoverOK
    <3>3. Cardinality(rest) + 1 <= Cardinality(needed) /\ Cardinality(rest) \in Nat
          /\ Cardinality(needed) \in Nat
      BY <3>1, <3>2, FS_Subset, FS_CardinalityType
    <3>4. IsFiniteSet(final \cup {x}) /\ Cardinality(final \cup {x}) <= Cardinality(final) + 1
          /\ Cardinality(final) \in Nat /\ Cardinality(final \cup {x}) \in Nat
      <4>1. /\ IsFiniteSet(final \cup {x}) /\ Cardinality(final) \in Nat
            /\ Cardinality(final \cup {x}) = IF x \in final THEN Cardinality(final)
                                              ELSE Cardinality(final) + 1
        <5> HIDE DEF final
        <5> QED
          BY <3>2, FS_AddElement, FS_CardinalityType
      <4> QED
        BY <4>1
    <3>5. args.states \subseteq rest \cup UNION {args.stations[y] : y \in final \cup {x}}
      BY <2>1, <3>1 DEF CoverOK
    <3>6. Cardinality(args.states) \in Nat
      BY <2>1, FS_CardinalityType
    <3>7. CoverOK(args, final \cup {x}, rest)
      BY <2>1, <3>1, <3>3, <3>4, <3>5, <3>6 DEF CoverOK
    <3> HIDE DEF rest
    <3> QED
      BY <1>1, <2>1, <2>3, <3>7, Continues DEF GreedyOK, rest
  <2>4. CASE Continue(call.locals)
    BY <1>1, <2>1, <2>4, Continues DEF GreedyOK
  <2> QED
    BY <1>3, <2>2, <2>3, <2>4 DEF GreedyNext
<1> QED
  BY <1>2, <1>3, ItsSteps

------------------------------------------------------------------------------
(* genericBinarySearch.                                                    *)

LEMMA AscendingAll ==
    ASSUME NEW list \in Seq(Int), Ascending(list), NEW i \in 1 .. Len(list), NEW j \in i .. Len(list)
    PROVE  list[i] <= list[j]
<1> DEFINE S == {k \in Nat : i + k <= Len(list) => list[i] <= list[i + k]}
<1>1. 0 \in S
  OBVIOUS
<1>2. ASSUME NEW k \in Nat, k \in S PROVE k + 1 \in S
  <2> SUFFICES ASSUME i + (k + 1) <= Len(list) PROVE list[i] <= list[i + (k + 1)]
    OBVIOUS
  <2>1. i + k \in 1 .. Len(list) - 1 /\ (i + k) + 1 = i + (k + 1) /\ i + (k + 1) \in 1 .. Len(list)
    OBVIOUS
  <2>2. list[i + k] <= list[i + (k + 1)]
    BY <2>1 DEF Ascending
  <2>3. list[i] \in Int /\ list[i + k] \in Int /\ list[i + (k + 1)] \in Int
    BY <2>1
  <2> QED
    BY <1>2, <2>2, <2>3
<1>3. j - i \in S
  <2>1. j - i \in Nat
    OBVIOUS
  <2> HIDE DEF S
  <2> QED
    BY <1>1, <1>2, <2>1, AllNumbers
<1>4. i + (j - i) = j /\ i + (j - i) <= Len(list)
  OBVIOUS
<1> QED
  BY <1>3, <1>4

LEMMA IntSizeIs == IntSize \in Nat \ {0}
BY CallsAssumption DEF IntSize

LEMMA HalfIs ==
    ASSUME NEW x \in Int, x >= -1
    PROVE  Half(x) \in Nat /\ 2 * Half(x) <= x + 1 /\ x <= 2 * Half(x) + 1
<1>1. \A y \in Nat : y \div 2 \in Nat /\ 2 * (y \div 2) <= y /\ y <= 2 * (y \div 2) + 1
  OBVIOUS
<1>2. CASE x >= 0
  BY <1>1, <1>2 DEF Half
<1>3. CASE x = -1
  <2>1. PICK y \in Nat : y = -x
    BY <1>3
  <2>2. y \div 2 = 0
    BY <1>1, <1>3, <2>1
  <2>3. Half(x) = -(y \div 2)
    BY <1>3, <2>1 DEF Half
  <2> QED
    BY <1>3, <2>2, <2>3
<1> QED
  BY <1>2, <1>3

LEMMA HalfNat ==
    ASSUME NEW x \in Int, x >= -1, x # -1
    PROVE  2 * Half(x) <= x
<1>1. \A y \in Nat : 2 * (y \div 2) <= y
  OBVIOUS
<1> QED
  BY <1>1 DEF Half

\* The middle of two indices; it is negative when their sum is no Int.
LEMMA MiddleIs ==
    ASSUME NEW x \in Int, x >= -1, x <= 2 * IntMax
    PROVE  /\ x <= IntMax => Half(ToInt(x)) = Half(x)
           /\ x > IntMax => Half(ToInt(x)) \in Int /\ Half(ToInt(x)) < 0
<1>1. PICK max \in Nat \ {0} : max = IntMax
  BY CallsAssumption
<1>2. PICK size \in Nat : size = IntSize /\ size = 2 * max + 2
  BY <1>1 DEF IntSize
<1>3. PICK y \in Nat : y = x + max + 1
  BY <1>1
<1>4. ToInt(x) = (y % size) - max - 1
  BY <1>1, <1>2, <1>3 DEF ToInt
<1>5. CASE x <= max
  <2>1. y \in 0 .. size - 1
    BY <1>2, <1>3, <1>5
  <2>2. y % size = y
    BY <1>2, <2>1
  <2>3. ToInt(x) = x
    BY <1>1, <1>3, <1>4, <2>2
  <2> QED
    BY <1>1, <1>5, <2>3
<1>6. CASE x > max
  <2>1. PICK z \in Nat : z = y - size /\ z < size
    BY <1>1, <1>2, <1>3, <1>6
  <2>2. y % size = z
    <3>1. \A m \in Nat \ {0} : \A k \in 0 .. m - 1 : (k + m) % m = k
      OBVIOUS
    <3>2. size \in Nat \ {0} /\ z \in 0 .. size - 1 /\ y = z + size
      BY <1>2, <2>1
    <3> QED
      BY <3>1, <3>2
  <2>3. PICK n \in Nat : ToInt(x) = - n /\ n >= 2
    <3>1. ToInt(x) = x - size
      BY <1>1, <1>2, <1>3, <1>4, <2>1, <2>2
    <3>2. PICK n \in Nat : n = size - x /\ n >= 2
      BY <1>1, <1>2
    <3> QED
      BY <1>2, <3>1, <3>2
  <2>4. n \div 2 \in Nat /\ n <= 2 * (n \div 2) + 1
    OBVIOUS
  <2>5. Half(ToInt(x)) = - (n \div 2)
    BY <2>3 DEF Half
  <2>6. n \div 2 >= 1
    BY <2>3, <2>4
  <2> QED
    BY <1>1, <1>6, <2>4, <2>5, <2>6
<1> QED
  BY <1>1, <1>5, <1>6

\* Where the item may be.
Between(list, item, low, high) ==
    /\ low \in 0 .. Len(list) /\ high \in -1 .. Len(list) - 1
    /\ \A i \in 1 .. Len(list) : (i <= low => list[i] < item) /\ (i > high + 1 => list[i] > item)

Located(list, item, result) ==
    IF result = -1 THEN \A i \in 1 .. Len(list) : list[i] # item
    ELSE list[result + 1] = item

BinarySearchOK ==
    call.function = "genericBinarySearch" =>
       /\ call.args.list \in Seq(Int) /\ call.args.item \in Int /\ Ascending(call.args.list)
       /\ Len(call.args.list) <= IntMax
       /\ call.outcome = "running" =>
             Between(call.args.list, call.args.item, call.locals.low, call.locals.high)
             /\ call.locals = [low |-> call.locals.low, high |-> call.locals.high]
       /\ call.outcome = "returned" => Located(call.args.list, call.args.item, call.result)
       /\ call.outcome = "thrown" => SumTooLarge(call.args.list, call.args.item)

LEMMA BinarySearchStarts == Init => BinarySearchOK
<1> SUFFICES ASSUME Init, call.function = "genericBinarySearch" PROVE BinarySearchOK
  BY DEF BinarySearchOK
<1>1. PICK list \in Seq(Int) :
         \E item \in Int : Len(list) <= IntMax /\ Ascending(list) /\ call = BinarySearch(list, item)
  BY CallStarts
<1>2. PICK item \in Int : Len(list) <= IntMax /\ Ascending(list) /\ call = BinarySearch(list, item)
  BY <1>1
<1>3. call.args = [list |-> list, item |-> item] /\ call.outcome = "running"
      /\ call.locals = [low |-> 0, high |-> Len(list) - 1]
  BY <1>2 DEF BinarySearch, CallOf
<1>4. Between(list, item, 0, Len(list) - 1)
  BY DEF Between
<1> QED
  BY <1>2, <1>3, <1>4 DEF BinarySearchOK

LEMMA BinarySearchStep == CallOK /\ BinarySearchOK /\ [Next]_call => BinarySearchOK'
<1> SUFFICES ASSUME CallOK, BinarySearchOK, [Next]_call, call.function = "genericBinarySearch"
             PROVE  BinarySearchOK'
  BY CallKept DEF BinarySearchOK
<1>1. call'.function = call.function /\ call'.args = call.args
  BY CallKept
<1>2. CASE call' = call
  BY <1>2 DEF BinarySearchOK
<1>3. CASE BinarySearchNext
  <2>1. PICK list, item, low, high, mid :
           /\ list = call.args.list /\ item = call.args.item
           /\ low = call.locals.low /\ high = call.locals.high /\ mid = Half(ToInt(low + high))
    OBVIOUS
  <2>2. /\ list \in Seq(Int) /\ item \in Int /\ Ascending(list)
        /\ Between(list, item, low, high) /\ call.outcome = "running"
        /\ call.locals = [low |-> low, high |-> high] /\ Len(list) <= IntMax
    BY <1>3, <2>1 DEF BinarySearchOK, BinarySearchNext, Running
  <2>3. low \in 0 .. Len(list) /\ high \in -1 .. Len(list) - 1 /\ Len(list) \in Nat
    BY <2>2 DEF Between
  <2>4. IntMax \in Nat /\ low + high \in Int /\ low + high >= -1 /\ low + high <= 2 * IntMax
    BY <2>2, <2>3, CallsAssumption
  <2>5. CASE low + high > IntMax
    <3>1. mid \in Int /\ mid < 0
      BY <2>1, <2>4, <2>5, MiddleIs
    <3>2. low \in 1 .. Len(list) /\ high >= 0 /\ high <= Len(list) - 1
      BY <2>2, <2>3, <2>4, <2>5
    <3>3. list[low] < item
      BY <2>2, <2>3, <3>2 DEF Between
    <3>4. SumTooLarge(list, item)
      BY <2>3, <2>4, <2>5, <3>2, <3>3 DEF SumTooLarge
    <3>5. list # <<>> /\ ~(mid > high) /\ ~(mid >= 0)
      BY <2>3, <3>1, <3>2
    <3>6. Throw("IndexOutOfBounds")
      BY <1>3, <2>1, <3>5 DEF BinarySearchNext
    <3> QED
      BY <1>1, <2>1, <2>2, <3>4, <3>6, CallEnds DEF Throw, BinarySearchOK
  <2>6. CASE low + high <= IntMax
    <3>3. mid = Half(low + high)
      BY <2>1, <2>4, <2>6, MiddleIs
    <3>4. /\ mid \in Nat
          /\ mid > high => low > high
          /\ mid <= high => mid \in 0 .. Len(list) - 1 /\ mid + 1 \in 1 .. Len(list)
      <4>1. low + high \in Int /\ low + high >= -1
        BY <2>3
      <4>2. mid \in Nat /\ 2 * mid <= low + high + 1 /\ low + high <= 2 * mid + 1
        BY <3>3, <4>1, HalfIs
      <4>3. low + high = -1 => low = 0 /\ high = -1
        BY <2>3
      <4>4. low + high # -1 => 2 * mid <= low + high
        BY <3>3, <4>1, HalfNat
      <4> QED
        BY <2>3, <4>1, <4>2, <4>3, <4>4
    <3>5. ASSUME NEW i \in 1 .. Len(list), NEW j \in i .. Len(list)
          PROVE  list[i] <= list[j] /\ list[i] \in Int /\ list[j] \in Int
      BY <2>2, AscendingAll
    <3>6. CASE (list = <<>> \/ mid > high) /\ Return(-1)
      <4>1. \A i \in 1 .. Len(list) : list[i] # item
        <5>1. CASE list = <<>>
          BY <5>1
        <5>2. CASE low > high
          <6> TAKE i \in 1 .. Len(list)
          <6>1. i <= low \/ i > high + 1
            BY <2>3, <5>2
          <6>2. list[i] < item \/ list[i] > item
            BY <2>2, <6>1 DEF Between
          <6> QED
            BY <2>2, <6>2
        <5> QED
          BY <3>4, <3>6, <5>1, <5>2
      <4> QED
        BY <1>1, <2>1, <2>2, <3>6, <4>1, CallEnds DEF Return, BinarySearchOK, Located
    <3>7. CASE mid <= high /\ list[mid + 1] = item /\ Return(mid)
      <4>1. Located(list, item, mid)
        BY <3>4, <3>7 DEF Located
      <4> QED
        BY <1>1, <2>1, <2>2, <3>7, <4>1, CallEnds DEF Return, BinarySearchOK
    <3>8. ASSUME NEW locals, Continue(locals), locals = [low |-> locals.low, high |-> locals.high],
                 Between(list, item, locals.low, locals.high)
          PROVE  BinarySearchOK'
      BY <1>1, <2>1, <2>2, <3>8, Continues DEF BinarySearchOK
    <3>9. CASE mid <= high /\ list[mid + 1] > item /\ Continue([call.locals EXCEPT !.high = Below(mid)])
      <4>1. [call.locals EXCEPT !.high = Below(mid)] = [low |-> low, high |-> mid - 1]
        BY <2>2 DEF Below
      <4>2. \A i \in 1 .. Len(list) : i > mid => list[i] > item
        BY <2>2, <3>4, <3>5, <3>9
      <4>3. Between(list, item, low, mid - 1)
        BY <2>2, <2>3, <3>4, <3>9, <4>2 DEF Between
      <4> QED
        BY <3>8, <3>9, <4>1, <4>3
    <3>10. CASE mid <= high /\ list[mid + 1] < item /\ Continue([call.locals EXCEPT !.low = mid + 1])
      <4>1. [call.locals EXCEPT !.low = mid + 1] = [low |-> mid + 1, high |-> high]
        BY <2>2
      <4>2. \A i \in 1 .. Len(list) : i <= mid + 1 => list[i] < item
        BY <2>2, <3>4, <3>5, <3>10
      <4>3. Between(list, item, mid + 1, high)
        BY <2>2, <2>3, <3>4, <3>10, <4>2 DEF Between
      <4> QED
        BY <3>8, <3>10, <4>1, <4>3
    <3>11. mid = Half(ToInt(call.locals.low + call.locals.high))
      BY <2>1
    <3>12. (~(mid > high) => mid <= high) /\ ~(mid < 0)
      BY <2>3, <3>4
    <3> QED
      BY <1>3, <2>1, <3>6, <3>7, <3>9, <3>10, <3>11, <3>12 DEF BinarySearchNext
  <2> QED
    BY <2>4, <2>5, <2>6
<1> QED
  BY <1>2, <1>3, ItsSteps

------------------------------------------------------------------------------
(* recursiveSum.                                                           *)

\* ToInt gives an Int, that differs by a multiple of how many there are.
LEMMA ToIntIs ==
    ASSUME NEW x \in Int
    PROVE  ToInt(x) \in - IntMax - 1 .. IntMax /\ \E q \in Int : ToInt(x) = x + q * IntSize
<1>1. PICK y : y = x + IntMax + 1
  OBVIOUS
<1>2. y \in Int /\ IntSize \in Nat \ {0} /\ IntMax \in Nat
  BY <1>1, IntSizeIs, CallsAssumption
<1>3. y % IntSize \in 0 .. IntSize - 1
  BY <1>2
<1>4. y \div IntSize \in Int /\ y = IntSize * (y \div IntSize) + (y % IntSize)
  BY <1>2
<1>5. ToInt(x) = (y % IntSize) - IntMax - 1
  BY <1>1 DEF ToInt
<1>6. IntSize = 2 * (IntMax + 1)
  BY DEF IntSize
<1>7. ToInt(x) \in - IntMax - 1 .. IntMax
  BY <1>2, <1>3, <1>5, <1>6
<1>8. PICK q \in Int : q = - (y \div IntSize)
  BY <1>4
<1>9. IntSize * (y \div IntSize) = - (q * IntSize)
  BY <1>2, <1>4, <1>8
<1>10. PICK z \in Int : z = q * IntSize
  BY <1>2
<1>11. ToInt(x) = x + z
  BY <1>1, <1>2, <1>3, <1>4, <1>5, <1>9, <1>10
<1> QED
  BY <1>7, <1>8, <1>10, <1>11

Total(list) == FoldLeft(+, 0, list)

\* The sums of the beginnings of a list.
Sums(list, f) ==
    /\ f \in [0 .. Len(list) -> Int]
    /\ f[0] = 0 /\ f[Len(list)] = Total(list)
    /\ \A k \in 1 .. Len(list) : f[k] = f[k - 1] + list[k]

LEMMA SumsExist == ASSUME NEW list \in Seq(Int) PROVE \E f : Sums(list, f)
<1> DEFINE n == Len(list)
           op == [p \in (1 .. n) \X Int |-> p[2] + list[p[1]]]
           It(g) == g = [t \in SUBSET (1 .. n) |->
                           IF t = {} THEN 0 ELSE g[t \ {Max(t)}] + list[Max(t)]]
           I == CHOOSE g : It(g)
           f == [k \in 0 .. n |-> I[1 .. k]]
<1>1. n \in Nat /\ op \in [(1 .. n) \X Int -> Int] /\ DOMAIN list = 1 .. n /\ 0 \in Int
  OBVIOUS
<1>2. PICK g : FoldTable(g, Int, 0, op, n)
  <2> HIDE DEF op, n
  <2> QED
    BY <1>1, ListFold
<1>3. ASSUME NEW t \in SUBSET (1 .. n), t # {}
      PROVE  g[t] = g[t \ {Max(t)}] + list[Max(t)]
  <2>1. PICK m : m = Max(t)
    OBVIOUS
  <2>2. m \in 1 .. n
    BY <1>1, <1>3, <2>1, MaxIn
  <2>3. g[t \ {m}] \in Int
    BY <1>2 DEF FoldTable
  <2> QED
    BY <1>2, <1>3, <2>1, <2>2, <2>3 DEF FoldTable
<1>4. It(g)
  <2> HIDE DEF op
  <2> QED
    BY <1>2, <1>3 DEF FoldTable
<1>5. It(I)
  <2> HIDE DEF It
  <2> QED
    BY <1>4
<1>6. I[{}] = 0 /\ 1 .. 0 = {}
  <2> HIDE DEF I
  <2> QED
    BY <1>5
<1>7. ASSUME NEW k \in 1 .. n PROVE I[1 .. k] = I[1 .. (k - 1)] + list[k]
  <2>1. Max(1 .. k) = k /\ (1 .. k) \ {k} = 1 .. (k - 1) /\ 1 .. k # {} /\ 1 .. k \in SUBSET (1 .. n)
    BY MaxOfInterval, UpTo
  <2> HIDE DEF I
  <2> QED
    BY <1>5, <2>1
<1>8. Total(list) = I[1 .. n]
  BY <1>1 DEF Total, FoldLeft, MapThenFoldSet
<1> HIDE DEF I
<1>9. 0 .. n \subseteq {k \in Nat : I[1 .. k] \in Int}
  <2> DEFINE S == {k \in Nat : I[1 .. k] \in Int}
  <2>1. 0 \in S
    BY <1>6
  <2>2. ASSUME NEW k \in 0 .. n - 1, k \in S PROVE k + 1 \in S
    <3>1. k + 1 \in 1 .. n /\ (k + 1) - 1 = k /\ list[k + 1] \in Int
      OBVIOUS
    <3>2. I[1 .. (k + 1)] = I[1 .. k] + list[k + 1]
      BY <1>7, <3>1
    <3> QED
      BY <2>2, <3>1, <3>2
  <2> HIDE DEF S
  <2>3. 0 .. n \subseteq S
    BY <1>1, <2>1, <2>2, NumbersUpTo
  <2> QED
    BY <2>3 DEF S
<1>10. \A k \in 0 .. n : f[k] = I[1 .. k] /\ f[k] \in Int
  BY <1>9
<1>11. f[0] = 0 /\ f[n] = I[1 .. n]
  BY <1>1, <1>6, <1>10
<1>12. ASSUME NEW k \in 1 .. n PROVE f[k] = f[k - 1] + list[k]
  BY <1>7, <1>10
<1>13. f \in [0 .. n -> Int]
  BY <1>10
<1> HIDE DEF f
<1> QED
  BY <1>8, <1>11, <1>12, <1>13 DEF Sums

LEMMA SumsAt ==
    ASSUME NEW list \in Seq(Int), NEW f, Sums(list, f), NEW k \in 1 .. Len(list)
    PROVE  f[k] = f[k - 1] + list[k] /\ f[k] \in Int /\ f[k - 1] \in Int /\ f[Len(list)] \in Int
<1>1. PICK n \in Nat : n = Len(list)
  OBVIOUS
<1>2. k \in 0 .. n /\ k - 1 \in 0 .. n /\ n \in 0 .. n
  BY <1>1
<1>3. f \in [0 .. n -> Int] /\ \A i \in 1 .. n : f[i] = f[i - 1] + list[i]
  BY <1>1 DEF Sums
<1>4. f[k] \in Int /\ f[k - 1] \in Int /\ f[n] \in Int
  BY <1>2, <1>3
<1> QED
  BY <1>1, <1>3, <1>4

LEMMA Multiples ==
    ASSUME NEW q \in Int, NEW r \in Int
    PROVE  /\ q * IntSize + r * IntSize = (q + r) * IntSize
           /\ q * IntSize \in Int /\ r * IntSize \in Int
<1>1. PICK m \in Int : m = IntSize
  BY IntSizeIs
<1>2. q * m + r * m = (q + r) * m /\ q * m \in Int /\ r * m \in Int
  OBVIOUS
<1> QED
  BY <1>1, <1>2

\* What is left of the list, from its end, and the sum of what follows it.
SumSoFar(list, f, rest, sum) ==
    /\ rest \in Seq(Int) /\ Len(rest) <= Len(list)
    /\ \A i \in 1 .. Len(rest) : rest[i] = list[Len(rest) + 1 - i]
    /\ sum \in - IntMax - 1 .. IntMax
    /\ \E q \in Int : sum + f[Len(rest)] = f[Len(list)] + q * IntSize

SumOK ==
    call.function = "recursiveSum" =>
       \E list \in Seq(Int) : \E f :
          /\ call.args.list = list /\ Sums(list, f)
          /\ call.outcome = "running" => SumSoFar(list, f, call.locals.rest, call.locals.sum)
          /\ call.outcome = "returned" => SumSoFar(list, f, <<>>, call.result)

LEMMA SumStarts == Init => SumOK
<1> SUFFICES ASSUME Init, call.function = "recursiveSum" PROVE SumOK
  BY DEF SumOK
<1>1. PICK list \in Seq(- IntMax - 1 .. IntMax) : call = RecursiveSum(list)
  BY CallStarts
<1>2. call.args.list = list /\ call.outcome = "running"
      /\ call.locals = [rest |-> Reverse(list), sum |-> 0]
  BY <1>1 DEF RecursiveSum, CallOf
<1>3. IntMax \in Nat \ {0} /\ list \in Seq(Int)
  BY CallsAssumption
<1>4. PICK f : Sums(list, f)
  BY <1>3, SumsExist
<1>5. SumSoFar(list, f, Reverse(list), 0)
  <2>1. Reverse(list) \in Seq(Int) /\ Len(Reverse(list)) = Len(list)
        /\ \A i \in 1 .. Len(list) : Reverse(list)[i] = list[Len(list) + 1 - i]
    BY <1>3 DEF Reverse
  <2>2. f[Len(list)] \in Int
    BY <1>3, <1>4 DEF Sums
  <2>3. 0 + f[Len(list)] = f[Len(list)] + 0 * IntSize
    BY <2>2, IntSizeIs
  <2> QED
    BY <1>3, <2>1, <2>3 DEF SumSoFar
<1> QED
  BY <1>2, <1>3, <1>4, <1>5 DEF SumOK

LEMMA SumStep == CallOK /\ SumOK /\ [Next]_call => SumOK'
<1> SUFFICES ASSUME CallOK, SumOK, [Next]_call, call.function = "recursiveSum" PROVE SumOK'
  BY CallKept DEF SumOK
<1>1. call'.function = call.function /\ call'.args = call.args
  BY CallKept
<1>2. CASE call' = call
  BY <1>2 DEF SumOK
<1>3. CASE RecursiveSumNext
  <2>1. PICK list \in Seq(Int) : \E f :
           /\ call.args.list = list /\ Sums(list, f)
           /\ call.outcome = "running" => SumSoFar(list, f, call.locals.rest, call.locals.sum)
    BY DEF SumOK
  <2>2. PICK f :
           /\ call.args.list = list /\ Sums(list, f)
           /\ call.outcome = "running" => SumSoFar(list, f, call.locals.rest, call.locals.sum)
    BY <2>1
  <2>3. PICK rest, sum : rest = call.locals.rest /\ sum = call.locals.sum
    OBVIOUS
  <2>4. call.outcome = "running" /\ SumSoFar(list, f, rest, sum)
    BY <1>3, <2>2, <2>3 DEF RecursiveSumNext, Running
  <2>5. CASE rest = <<>> /\ Return(sum)
    BY <1>1, <2>2, <2>4, <2>5, CallEnds DEF SumOK, Return
  <2>6. CASE rest # <<>> /\ Continue([rest |-> Tail(rest), sum |-> ToInt(Head(rest) + sum)])
    <3>1. PICK k : k = Len(rest)
      OBVIOUS
    <3>2. /\ k \in Nat \ {0} /\ k \in 1 .. Len(list) /\ k - 1 \in 0 .. Len(list)
          /\ Head(rest) = list[k] /\ Head(rest) \in Int
          /\ Tail(rest) \in Seq(Int) /\ Len(Tail(rest)) = k - 1
          /\ \A i \in 1 .. k - 1 : Tail(rest)[i] = rest[i + 1]
      BY <2>4, <2>6, <3>1 DEF SumSoFar
    <3>3. ASSUME NEW i \in 1 .. k - 1 PROVE Tail(rest)[i] = list[(k - 1) + 1 - i]
      <4>1. i + 1 \in 1 .. k /\ k + 1 - (i + 1) = (k - 1) + 1 - i
        BY <3>2
      <4>2. rest[i + 1] = list[k + 1 - (i + 1)]
        BY <2>4, <3>1, <4>1 DEF SumSoFar
      <4> QED
        BY <3>2, <4>1, <4>2
    <3>4. sum \in Int
      BY <2>4, CallsAssumption DEF SumSoFar
    <3>5. PICK q \in Int : sum + f[k] = f[Len(list)] + q * IntSize
      BY <2>4, <3>1 DEF SumSoFar
    <3>6. PICK x \in Int : x = Head(rest) + sum
      BY <3>2, <3>4
    <3>7. ToInt(x) \in - IntMax - 1 .. IntMax
      BY ToIntIs
    <3>8. PICK r \in Int : ToInt(x) = x + r * IntSize
      BY ToIntIs
    <3>9. f[k] = f[k - 1] + list[k] /\ f[k] \in Int /\ f[k - 1] \in Int /\ f[Len(list)] \in Int
      BY <2>2, <3>2, SumsAt
    <3>10. q * IntSize + r * IntSize = (q + r) * IntSize /\ q * IntSize \in Int /\ r * IntSize \in Int
      BY Multiples
    <3>11. ToInt(x) + f[k - 1] = f[Len(list)] + (q + r) * IntSize
      <4>1. PICK y \in Int, qs \in Int, rs \in Int, h \in Int, all \in Int, t \in Int :
               /\ y = f[k - 1] /\ qs = q * IntSize /\ rs = r * IntSize /\ h = Head(rest)
               /\ all = f[Len(list)] /\ t = ToInt(x)
        <5>1. ToInt(x) \in Int
          BY <3>7, CallsAssumption
        <5> QED
          BY <3>2, <3>9, <3>10, <5>1
      <4>2. sum + (y + h) = all + qs
        BY <3>2, <3>5, <3>9, <4>1
      <4>3. t = h + sum + rs
        BY <3>6, <3>8, <4>1
      <4>4. t + y = all + (qs + rs)
        BY <3>4, <4>2, <4>3
      <4>5. qs + rs = (q + r) * IntSize
        BY <3>10, <4>1
      <4> QED
        BY <4>1, <4>4, <4>5
    <3>12. SumSoFar(list, f, Tail(rest), ToInt(x))
      <4>1. q + r \in Int /\ k - 1 <= Len(list)
        BY <3>2
      <4>2. \E u \in Int : ToInt(x) + f[Len(Tail(rest))] = f[Len(list)] + u * IntSize
        BY <3>2, <3>11, <4>1
      <4> QED
        BY <3>2, <3>3, <3>7, <4>1, <4>2 DEF SumSoFar
    <3>13. call'.outcome = "running" /\ call'.locals = [rest |-> Tail(rest), sum |-> ToInt(x)]
      BY <2>4, <2>6, <3>6, Continues
    <3> QED
      BY <1>1, <2>2, <3>12, <3>13 DEF SumOK
  <2> QED
    BY <1>3, <2>3, <2>5, <2>6 DEF RecursiveSumNext
<1> QED
  BY <1>2, <1>3, ItsSteps

------------------------------------------------------------------------------
(* genericQuicksort.                                                       *)

LEMMA CountIs ==
    ASSUME NEW T, NEW list \in Seq(T), NEW x
    PROVE  /\ Count(list, x) = Cardinality({i \in 1 .. Len(list) : list[i] = x})
           /\ Count(list, x) \in Nat
           /\ Count(list, x) = 0 <=> \A i \in 1 .. Len(list) : list[i] # x
<1> DEFINE S == {i \in 1 .. Len(list) : list[i] = x}
<1>1. DOMAIN list = 1 .. Len(list) /\ Len(list) \in Nat
  OBVIOUS
<1>2. Count(list, x) = Cardinality(S)
  BY <1>1 DEF Count
<1>3. IsFiniteSet(S)
  <2>1. S \in SUBSET (1 .. Len(list)) /\ IsFiniteSet(1 .. Len(list))
    BY <1>1, FS_Interval
  <2> QED
    BY <2>1, FS_Subset
<1>4. Cardinality(S) \in Nat /\ (Cardinality(S) = 0 <=> S = {})
  <2> HIDE DEF S
  <2> QED
    BY <1>3, FS_CardinalityType, FS_EmptySet
<1> QED
  BY <1>2, <1>4

LEMMA CountConcat ==
    ASSUME NEW T, NEW a1 \in Seq(T), NEW b1 \in Seq(T), NEW x
    PROVE  Count(a1 \o b1, x) = Count(a1, x) + Count(b1, x)
<1> DEFINE A == {i \in 1 .. Len(a1) : a1[i] = x}
           B == {i \in 1 .. Len(b1) : b1[i] = x}
           C == {i \in 1 .. Len(a1 \o b1) : (a1 \o b1)[i] = x}
           D == {i \in Len(a1) + 1 .. Len(a1) + Len(b1) : b1[i - Len(a1)] = x}
           f == [i \in B |-> Len(a1) + i]
<1>1. a1 \o b1 \in Seq(T) /\ Len(a1) \in Nat /\ Len(b1) \in Nat
      /\ Len(a1 \o b1) = Len(a1) + Len(b1)
  OBVIOUS
<1>2. \A i \in 1 .. Len(a1) + Len(b1) :
         (a1 \o b1)[i] = IF i <= Len(a1) THEN a1[i] ELSE b1[i - Len(a1)]
  OBVIOUS
<1>3. C = A \cup D /\ A \cap D = {}
  BY <1>1, <1>2
<1>4. IsFiniteSet(A) /\ IsFiniteSet(B)
  <2>1. IsFiniteSet(1 .. Len(a1)) /\ IsFiniteSet(1 .. Len(b1))
    BY <1>1, FS_Interval
  <2>2. A \in SUBSET (1 .. Len(a1)) /\ B \in SUBSET (1 .. Len(b1))
    OBVIOUS
  <2> QED
    BY <2>1, <2>2, FS_Subset
<1>5. f \in Bijection(B, D)
  <2>1. \A i \in B : Len(a1) + i \in D
    BY <1>1
  <2>2. f \in [B -> D]
    BY <2>1
  <2>3. \A i, j \in B : f[i] = f[j] => i = j
    BY <1>1
  <2>4. ASSUME NEW j \in D PROVE \E i \in B : f[i] = j
    <3>1. j - Len(a1) \in B /\ Len(a1) + (j - Len(a1)) = j
      BY <1>1
    <3> QED
      BY <3>1
  <2> QED
    <3> HIDE DEF f, B, D
    <3>1. f \in Injection(B, D)
      BY <2>2, <2>3 DEF Injection, IsInjective
    <3>2. f \in Surjection(B, D)
      BY <2>2, <2>4 DEF Surjection
    <3> QED
      BY <3>1, <3>2 DEF Bijection
<1>6. IsFiniteSet(D) /\ Cardinality(D) = Cardinality(B)
  <2>1. ExistsBijection(B, D)
    BY <1>5 DEF ExistsBijection
  <2> HIDE DEF B, D
  <2> QED
    BY <1>4, <2>1, FS_Bijection
<1>7. Cardinality(C) = Cardinality(A) + Cardinality(B)
  <2> HIDE DEF A, B, C, D
  <2>1. Cardinality(A \cup D) = Cardinality(A) + Cardinality(D) - Cardinality(A \cap D)
    BY <1>4, <1>6, FS_Union
  <2>2. Cardinality(A \cap D) = 0 /\ Cardinality(A) \in Nat /\ Cardinality(B) \in Nat
    BY <1>3, <1>4, FS_EmptySet, FS_CardinalityType
  <2> QED
    BY <1>3, <1>6, <2>1, <2>2
<1>8. Count(a1, x) = Cardinality(A) /\ Count(b1, x) = Cardinality(B)
      /\ Count(a1 \o b1, x) = Cardinality(C)
  BY <1>1, CountIs
<1> QED
  BY <1>7, <1>8

LEMMA CountAppend ==
    ASSUME NEW T, NEW list \in Seq(T), NEW y \in T, NEW x
    PROVE  Count(Append(list, y), x) = Count(list, x) + (IF y = x THEN 1 ELSE 0)
<1>1. <<y>> \in Seq(T) /\ Append(list, y) = list \o <<y>>
  OBVIOUS
<1>2. Cardinality({1}) = 1 /\ Cardinality({}) = 0
  BY FS_Singleton, FS_EmptySet
<1>3. Count(list \o <<y>>, x) = Count(list, x) + Count(<<y>>, x)
  BY <1>1, CountConcat
<1>4. Count(list, x) \in Nat
  BY CountIs
<1>5. Count(<<y>>, x) = Cardinality({i \in 1 .. Len(<<y>>) : <<y>>[i] = x})
  BY <1>1, CountIs
<1>6. CASE y = x
  <2>1. {i \in 1 .. Len(<<y>>) : <<y>>[i] = x} = {1}
    BY <1>6
  <2>2. Count(<<y>>, x) = 1
    BY <1>2, <1>5, <2>1
  <2> QED
    BY <1>1, <1>6, <1>3, <2>2
<1>7. CASE y # x
  <2>1. {i \in 1 .. Len(<<y>>) : <<y>>[i] = x} = {}
    BY <1>7
  <2>2. Count(<<y>>, x) = 0
    BY <1>2, <1>5, <2>1
  <2> QED
    BY <1>1, <1>7, <1>3, <1>4, <2>2
<1> QED
  BY <1>6, <1>7

\* The elements that a part is of, as often as they are in the list.
LEMMA PartIs ==
    ASSUME NEW T, NEW list \in Seq(T), NEW S
    PROVE  /\ Part(list, S) \in Seq(T)
           /\ \A x : Count(Part(list, S), x) = IF x \in S THEN Count(list, x) ELSE 0
<1> DEFINE n == Len(list)
           op == [p \in (1 .. n) \X Seq(T) |->
                    IF list[p[1]] \in S THEN Append(p[2], list[p[1]]) ELSE p[2]]
           It(g) == g = [t \in SUBSET (1 .. n) |->
                           IF t = {} THEN <<>>
                           ELSE IF list[Max(t)] \in S THEN Append(g[t \ {Max(t)}], list[Max(t)])
                                ELSE g[t \ {Max(t)}]]
           I == CHOOSE g : It(g)
<1>1. n \in Nat /\ op \in [(1 .. n) \X Seq(T) -> Seq(T)] /\ DOMAIN list = 1 .. n
      /\ <<>> \in Seq(T)
  OBVIOUS
<1>2. PICK g : FoldTable(g, Seq(T), <<>>, op, n)
  <2> HIDE DEF op, n
  <2> QED
    BY <1>1, ListFold
<1>3. ASSUME NEW t \in SUBSET (1 .. n), t # {}
      PROVE  g[t] = IF list[Max(t)] \in S THEN Append(g[t \ {Max(t)}], list[Max(t)])
                    ELSE g[t \ {Max(t)}]
  <2>1. PICK m : m = Max(t)
    OBVIOUS
  <2>2. m \in 1 .. n
    BY <1>1, <1>3, <2>1, MaxIn
  <2>3. g[t \ {m}] \in Seq(T)
    BY <1>2 DEF FoldTable
  <2>4. \A y \in Seq(T) : op[<<m, y>>] = IF list[m] \in S THEN Append(y, list[m]) ELSE y
    BY <2>2
  <2>5. g[t] = op[<<m, g[t \ {m}]>>]
    <3> HIDE DEF op
    <3> QED
      BY <1>2, <1>3, <2>1 DEF FoldTable
  <2> QED
    BY <2>1, <2>3, <2>4, <2>5
<1>4. It(g)
  <2> HIDE DEF op
  <2> QED
    BY <1>2, <1>3 DEF FoldTable
<1>5. It(I)
  <2> HIDE DEF It
  <2> QED
    BY <1>4
<1>6. I[{}] = <<>> /\ 1 .. 0 = {}
  <2> HIDE DEF I
  <2> QED
    BY <1>5
<1>7. ASSUME NEW k \in 1 .. n
      PROVE  I[1 .. k] = IF list[k] \in S THEN Append(I[1 .. (k - 1)], list[k])
                         ELSE I[1 .. (k - 1)]
  <2>1. Max(1 .. k) = k /\ (1 .. k) \ {k} = 1 .. (k - 1) /\ 1 .. k # {} /\ 1 .. k \in SUBSET (1 .. n)
    BY MaxOfInterval, UpTo
  <2> HIDE DEF I
  <2> QED
    BY <1>5, <2>1
<1>8. Part(list, S) = I[1 .. n]
  BY <1>1 DEF Part, FoldLeft, MapThenFoldSet
<1> HIDE DEF I
<1> DEFINE At(k, x) == {i \in 1 .. k : list[i] = x}
           Right(k) == /\ I[1 .. k] \in Seq(T)
                       /\ \A x : Count(I[1 .. k], x) = IF x \in S THEN Cardinality(At(k, x)) ELSE 0
           R == {k \in Nat : Right(k)}
<1>9. 0 \in R
  <2>1. ASSUME NEW x PROVE Cardinality(At(0, x)) = 0 /\ Count(<<>>, x) = 0
    <3>1. At(0, x) = {}
      OBVIOUS
    <3>2. \A i \in 1 .. Len(<<>>) : <<>>[i] # x
      OBVIOUS
    <3>3. Count(<<>>, x) = 0
      BY <1>1, <3>2, CountIs
    <3> QED
      BY <3>1, <3>3, FS_EmptySet
  <2>2. I[1 .. 0] = <<>> /\ <<>> \in Seq(T)
    BY <1>6
  <2>3. Right(0)
    <3> HIDE DEF At
    <3> QED
      BY <2>1, <2>2
  <2> HIDE DEF Right
  <2> QED
    BY <2>3
<1>10. ASSUME NEW k \in 0 .. n - 1, k \in R PROVE k + 1 \in R
  <2>1. k + 1 \in 1 .. n /\ (k + 1) - 1 = k /\ k \in Nat /\ k + 1 \in Nat /\ list[k + 1] \in T
    OBVIOUS
  <2>2. PICK p : p = I[1 .. k]
    OBVIOUS
  <2>3. p \in Seq(T) /\ \A x : Count(p, x) = IF x \in S THEN Cardinality(At(k, x)) ELSE 0
    BY <1>10, <2>2
  <2>4. I[1 .. (k + 1)] = IF list[k + 1] \in S THEN Append(p, list[k + 1]) ELSE p
    BY <1>7, <2>1, <2>2
  <2>5. I[1 .. (k + 1)] \in Seq(T)
    BY <2>1, <2>3, <2>4
  <2>6. ASSUME NEW x
        PROVE  Count(I[1 .. (k + 1)], x) = IF x \in S THEN Cardinality(At(k + 1, x)) ELSE 0
    <3>1. IsFiniteSet(At(k, x))
      <4>1. At(k, x) \in SUBSET (1 .. k)
        OBVIOUS
      <4>2. IsFiniteSet(1 .. k)
        BY <2>1, FS_Interval
      <4> HIDE DEF At
      <4> QED
        BY <4>1, <4>2, FS_Subset
    <3>2. At(k + 1, x) = IF list[k + 1] = x THEN At(k, x) \cup {k + 1} ELSE At(k, x)
      BY <2>1
    <3>3. k + 1 \notin At(k, x) /\ Cardinality(At(k, x)) \in Nat
      BY <2>1, <3>1, FS_CardinalityType
    <3>4. Cardinality(At(k, x) \cup {k + 1}) = Cardinality(At(k, x)) + 1
      <4> HIDE DEF At
      <4> QED
        BY <3>1, <3>3, FS_AddElement
    <3>5. Count(Append(p, list[k + 1]), x) = Count(p, x) + (IF list[k + 1] = x THEN 1 ELSE 0)
      BY <2>1, <2>3, CountAppend
    <3> HIDE DEF At
    <3> QED
      BY <2>3, <2>4, <3>2, <3>3, <3>4, <3>5
  <2> QED
    BY <2>1, <2>5, <2>6
<1>11. 0 .. n \subseteq R
  <2> HIDE DEF R
  <2> QED
    BY <1>1, <1>9, <1>10, NumbersUpTo
<1>12. Right(n)
  <2>1. n \in 0 .. n
    BY <1>1
  <2> HIDE DEF Right
  <2> QED
    BY <1>11, <2>1
<1>13. \A x : Count(list, x) = Cardinality(At(n, x))
  BY CountIs
<1> QED
  BY <1>8, <1>12, <1>13

\* No element of one list is greater than one of the other.
LeqAll(s1, s2) == \A i \in 1 .. Len(s1) : \A j \in 1 .. Len(s2) : s1[i] <= s2[j]

Among(s1, s2) == \A i \in 1 .. Len(s1) : \E j \in 1 .. Len(s2) : s1[i] = s2[j]

InOrder(list) == \A i \in 1 .. Len(list) : \A j \in i .. Len(list) : list[i] <= list[j]

StackInOrder(sorted, stack) ==
    /\ \A i \in 1 .. Len(stack) : LeqAll(sorted, stack[i])
    /\ \A i \in 1 .. Len(stack) : \A j \in i + 1 .. Len(stack) : LeqAll(stack[i], stack[j])

\* An element is n times in the sorted list and those on the stack.
Counted(x, n, sorted, stack) ==
    \E c \in [0 .. Len(stack) -> Nat] :
       /\ c[0] = Count(sorted, x) /\ c[Len(stack)] = n
       /\ \A i \in 1 .. Len(stack) : c[i] = c[i - 1] + Count(stack[i], x)

SortedSoFar(list, sorted, stack) ==
    /\ sorted \in Seq(Int) /\ stack \in Seq(Seq(Int))
    /\ InOrder(sorted) /\ StackInOrder(sorted, stack)
    /\ \A x : Counted(x, Count(list, x), sorted, stack)

LEMMA SortedAppends ==
    ASSUME NEW list, NEW sorted, NEW stack, SortedSoFar(list, sorted, stack), stack # <<>>,
           InOrder(Head(stack))
    PROVE  SortedSoFar(list, sorted \o Head(stack), Tail(stack))
<1>1. PICK first, rest : first = Head(stack) /\ rest = Tail(stack)
  OBVIOUS
<1>2. /\ sorted \in Seq(Int) /\ stack \in Seq(Seq(Int)) /\ first \in Seq(Int) /\ rest \in Seq(Seq(Int))
      /\ Len(rest) = Len(stack) - 1 /\ Len(stack) \in Nat \ {0} /\ first = stack[1]
      /\ \A i \in 1 .. Len(rest) : rest[i] = stack[i + 1]
  BY <1>1 DEF SortedSoFar
<1>3. InOrder(sorted) /\ InOrder(first) /\ StackInOrder(sorted, stack)
  BY <1>1 DEF SortedSoFar
<1>4. /\ sorted \o first \in Seq(Int) /\ Len(sorted \o first) = Len(sorted) + Len(first)
      /\ \A i \in 1 .. Len(sorted) + Len(first) :
            (sorted \o first)[i] = IF i <= Len(sorted) THEN sorted[i] ELSE first[i - Len(sorted)]
  BY <1>2
<1>5. LeqAll(sorted, first)
  BY <1>2, <1>3 DEF StackInOrder
<1>6. InOrder(sorted \o first)
  <2> SUFFICES ASSUME NEW i \in 1 .. Len(sorted) + Len(first),
                      NEW j \in i .. Len(sorted) + Len(first)
               PROVE  (sorted \o first)[i] <= (sorted \o first)[j]
    BY <1>4 DEF InOrder
  <2>1. Len(sorted) \in Nat /\ Len(first) \in Nat /\ j \in 1 .. Len(sorted) + Len(first)
    BY <1>2
  <2>2. CASE j <= Len(sorted)
    BY <1>3, <1>4, <2>1, <2>2 DEF InOrder
  <2>3. CASE i <= Len(sorted) /\ j > Len(sorted)
    <3>1. i \in 1 .. Len(sorted) /\ j - Len(sorted) \in 1 .. Len(first)
      BY <2>1, <2>3
    <3>2. sorted[i] <= first[j - Len(sorted)]
      BY <1>5, <3>1 DEF LeqAll
    <3> QED
      BY <1>4, <2>1, <2>3, <3>2
  <2>4. CASE i > Len(sorted)
    <3>1. i - Len(sorted) \in 1 .. Len(first) /\ j - Len(sorted) \in i - Len(sorted) .. Len(first)
      BY <2>1, <2>4
    <3>2. first[i - Len(sorted)] <= first[j - Len(sorted)]
      BY <1>3, <3>1 DEF InOrder
    <3> QED
      BY <1>4, <2>1, <2>4, <3>2
  <2> QED
    BY <2>1, <2>2, <2>3, <2>4
<1>7. StackInOrder(sorted \o first, rest)
  <2>1. ASSUME NEW i \in 1 .. Len(rest) PROVE LeqAll(sorted \o first, rest[i])
    <3>1. i + 1 \in 1 .. Len(stack) /\ i + 1 \in 1 + 1 .. Len(stack) /\ rest[i] = stack[i + 1]
          /\ 1 \in 1 .. Len(stack)
      BY <1>2
    <3>2. LeqAll(sorted, rest[i]) /\ LeqAll(first, rest[i])
      BY <1>2, <1>3, <3>1 DEF StackInOrder
    <3> SUFFICES ASSUME NEW k \in 1 .. Len(sorted) + Len(first), NEW j \in 1 .. Len(rest[i])
                 PROVE  (sorted \o first)[k] <= rest[i][j]
      BY <1>4 DEF LeqAll
    <3>3. CASE k <= Len(sorted)
      <4>1. k \in 1 .. Len(sorted)
        BY <3>3
      <4>2. sorted[k] <= rest[i][j]
        BY <3>2, <4>1 DEF LeqAll
      <4>3. (sorted \o first)[k] = sorted[k]
        BY <1>4, <3>3
      <4> QED
        BY <4>2, <4>3
    <3>4. CASE k > Len(sorted)
      <4>1. k - Len(sorted) \in 1 .. Len(first)
        BY <1>2, <3>4
      <4>2. first[k - Len(sorted)] <= rest[i][j]
        BY <3>2, <4>1 DEF LeqAll
      <4>3. (sorted \o first)[k] = first[k - Len(sorted)]
        BY <1>2, <1>4, <3>4
      <4> QED
        BY <4>2, <4>3
    <3>5. k \in Int /\ Len(sorted) \in Int
      BY <1>2
    <3>6. k <= Len(sorted) \/ k > Len(sorted)
      BY <3>5
    <3> QED
      BY <3>3, <3>4, <3>6
  <2>2. ASSUME NEW i \in 1 .. Len(rest), NEW j \in i + 1 .. Len(rest) PROVE LeqAll(rest[i], rest[j])
    <3>1. i + 1 \in 1 .. Len(stack) /\ j + 1 \in (i + 1) + 1 .. Len(stack) /\ j \in 1 .. Len(rest)
      BY <1>2
    <3>2. LeqAll(stack[i + 1], stack[j + 1])
      BY <1>3, <3>1 DEF StackInOrder
    <3> QED
      BY <1>2, <3>1, <3>2
  <2> QED
    BY <2>1, <2>2 DEF StackInOrder
<1>8. ASSUME NEW x PROVE Counted(x, Count(list, x), sorted \o first, rest)
  <2>1. PICK c \in [0 .. Len(stack) -> Nat] :
           /\ c[0] = Count(sorted, x) /\ c[Len(stack)] = Count(list, x)
           /\ \A i \in 1 .. Len(stack) : c[i] = c[i - 1] + Count(stack[i], x)
    BY DEF SortedSoFar, Counted
  <2> DEFINE d == [i \in 0 .. Len(rest) |-> c[i + 1]]
  <2>2. d \in [0 .. Len(rest) -> Nat]
    <3>1. \A i \in 0 .. Len(rest) : i + 1 \in 0 .. Len(stack)
      BY <1>2
    <3> QED
      BY <3>1
  <2>3. d[0] = Count(sorted \o first, x)
    <3>1. 1 \in 1 .. Len(stack) /\ 0 \in 0 .. Len(rest) /\ 1 - 1 = 0
      BY <1>2
    <3>2. c[1] = Count(sorted, x) + Count(first, x)
      BY <1>2, <2>1, <3>1
    <3>3. Count(sorted \o first, x) = Count(sorted, x) + Count(first, x)
      BY <1>2, CountConcat
    <3> QED
      BY <3>1, <3>2, <3>3
  <2>4. d[Len(rest)] = Count(list, x)
    <3>1. Len(rest) \in 0 .. Len(rest) /\ Len(rest) + 1 = Len(stack)
      BY <1>2
    <3> QED
      BY <2>1, <3>1
  <2>5. ASSUME NEW i \in 1 .. Len(rest) PROVE d[i] = d[i - 1] + Count(rest[i], x)
    <3>1. i + 1 \in 1 .. Len(stack) /\ (i + 1) - 1 = i /\ (i - 1) + 1 = i
          /\ i \in 0 .. Len(rest) /\ i - 1 \in 0 .. Len(rest) /\ rest[i] = stack[i + 1]
      BY <1>2
    <3>2. c[i + 1] = c[i] + Count(rest[i], x)
      BY <2>1, <3>1
    <3> QED
      BY <3>1, <3>2
  <2> HIDE DEF d
  <2> QED
    BY <2>2, <2>3, <2>4, <2>5 DEF Counted
<1> QED
  BY <1>1, <1>2, <1>4, <1>6, <1>7, <1>8 DEF SortedSoFar

LEMMA LeqAmong ==
    ASSUME NEW s1, NEW s2, NEW t1, NEW t2, LeqAll(s1, s2), Among(t1, s1), Among(t2, s2)
    PROVE  LeqAll(t1, t2)
BY DEF LeqAll, Among

LEMMA SortedSplits ==
    ASSUME NEW list, NEW sorted, NEW stack, SortedSoFar(list, sorted, stack), stack # <<>>,
           NEW s1 \in Seq(Int), NEW s2 \in Seq(Int), NEW s3 \in Seq(Int),
           LeqAll(s1, s2), LeqAll(s1, s3), LeqAll(s2, s3),
           Among(s1, Head(stack)), Among(s2, Head(stack)), Among(s3, Head(stack)),
           \A x : Count(Head(stack), x) = Count(s1, x) + Count(s2, x) + Count(s3, x)
    PROVE  SortedSoFar(list, sorted, <<s1, s2, s3>> \o Tail(stack))
<1>1. PICK first, next : first = Head(stack) /\ next = <<s1, s2, s3>> \o Tail(stack)
  OBVIOUS
<1>2. /\ sorted \in Seq(Int) /\ stack \in Seq(Seq(Int)) /\ first \in Seq(Int) /\ next \in Seq(Seq(Int))
      /\ Len(next) = Len(stack) + 2 /\ Len(stack) \in Nat \ {0} /\ first = stack[1]
  BY <1>1 DEF SortedSoFar
<1>3. /\ next[1] = s1 /\ next[2] = s2 /\ next[3] = s3
      /\ \A i \in 4 .. Len(next) : next[i] = stack[i - 2]
  BY <1>1, <1>2
<1>4. StackInOrder(sorted, stack) /\ Among(s1, first) /\ Among(s2, first) /\ Among(s3, first)
  BY <1>1 DEF SortedSoFar
<1>5. StackInOrder(sorted, next)
  <2> DEFINE From(i) == IF i < 4 THEN 1 ELSE i - 2
  <2>1. ASSUME NEW i \in 1 .. Len(next)
        PROVE  From(i) \in 1 .. Len(stack) /\ Among(next[i], stack[From(i)])
    <3>1. CASE i \in 4 .. Len(next)
      <4>1. PICK m \in Nat : m = Len(stack) /\ Len(next) = m + 2
        BY <1>2
      <4>2. i \in 4 .. m + 2
        BY <3>1, <4>1
      <4>3. i - 2 \in 1 .. m /\ ~(i < 4)
        BY <4>2
      <4>4. From(i) = i - 2
        BY <4>3
      <4>5. i - 2 \in 1 .. Len(stack)
        BY <4>1, <4>3
      <4>6. next[i] = stack[i - 2]
        BY <1>3, <3>1
      <4> QED
        BY <4>4, <4>5, <4>6 DEF Among
    <3>2. CASE i \in {1, 2, 3}
      BY <1>2, <1>3, <1>4, <3>2
    <3> QED
      BY <1>2, <3>1, <3>2
  <2>2. Among(sorted, sorted)
    BY DEF Among
  <2>3. ASSUME NEW i \in 1 .. Len(next) PROVE LeqAll(sorted, next[i])
    BY <1>4, <2>1, <2>2, LeqAmong DEF StackInOrder
  <2>4. ASSUME NEW i \in 1 .. Len(next), NEW j \in i + 1 .. Len(next) PROVE LeqAll(next[i], next[j])
    <3>1. CASE j \in 4 .. Len(next)
      <4>1. j \in 1 .. Len(next) /\ From(j) = j - 2 /\ From(j) \in From(i) + 1 .. Len(stack)
        BY <1>2, <3>1
      <4>2. LeqAll(stack[From(i)], stack[From(j)])
        BY <1>4, <2>1, <4>1 DEF StackInOrder
      <4> HIDE DEF From
      <4> QED
        BY <2>1, <4>1, <4>2, LeqAmong
    <3>2. CASE j < 4
      <4>1. <<i, j>> \in {<<1, 2>>, <<1, 3>>, <<2, 3>>}
        BY <1>2, <3>2
      <4> QED
        BY <1>3, <4>1
    <3> QED
      BY <1>2, <3>1, <3>2
  <2> QED
    BY <2>3, <2>4 DEF StackInOrder
<1>6. ASSUME NEW x PROVE Counted(x, Count(list, x), sorted, next)
  <2>1. PICK c \in [0 .. Len(stack) -> Nat] :
           /\ c[0] = Count(sorted, x) /\ c[Len(stack)] = Count(list, x)
           /\ \A i \in 1 .. Len(stack) : c[i] = c[i - 1] + Count(stack[i], x)
    BY DEF SortedSoFar, Counted
  <2>2. PICK n1 \in Nat, n2 \in Nat, n3 \in Nat :
           n1 = Count(s1, x) /\ n2 = Count(s2, x) /\ n3 = Count(s3, x)
    BY CountIs
  <2>3. c[0] \in Nat /\ c[1] = c[0] + n1 + n2 + n3
    <3>1. 0 \in 0 .. Len(stack) /\ 1 \in 1 .. Len(stack) /\ 1 - 1 = 0
      BY <1>2
    <3>2. c[1] = c[0] + Count(first, x) /\ Count(first, x) = n1 + n2 + n3
      BY <1>1, <1>2, <2>1, <2>2, <3>1
    <3>3. c[0] \in Nat
      BY <3>1
    <3> QED
      BY <3>2, <3>3
  <2> DEFINE d == [i \in 0 .. Len(next) |-> IF i = 0 THEN c[0] ELSE IF i = 1 THEN c[0] + n1
                                             ELSE IF i = 2 THEN c[0] + n1 + n2 ELSE c[i - 2]]
  <2>4. d \in [0 .. Len(next) -> Nat]
    <3>1. \A i \in 3 .. Len(next) : i - 2 \in 0 .. Len(stack)
      BY <1>2
    <3>2. ASSUME NEW i \in 0 .. Len(next) PROVE d[i] \in Nat
      <4>1. i \in 3 .. Len(next) => c[i - 2] \in Nat
        BY <3>1
      <4>2. i \in {0, 1, 2} \/ i \in 3 .. Len(next)
        BY <1>2
      <4> QED
        BY <2>3, <4>1, <4>2
    <3> QED
      BY <3>2
  <2>5. d[0] = Count(sorted, x) /\ d[Len(next)] = Count(list, x)
    <3>1. 0 \in 0 .. Len(next) /\ Len(next) \in 0 .. Len(next) /\ Len(next) - 2 = Len(stack)
          /\ Len(next) \notin {0, 1, 2}
      BY <1>2
    <3> QED
      BY <2>1, <3>1
  <2>6. ASSUME NEW i \in 1 .. Len(next) PROVE d[i] = d[i - 1] + Count(next[i], x)
    <3>1. CASE i \in 4 .. Len(next)
      <4>1. i - 2 \in 1 .. Len(stack) /\ (i - 1) - 2 = (i - 2) - 1 /\ i \notin {0, 1, 2}
            /\ i - 1 \notin {0, 1, 2} /\ i \in 0 .. Len(next) /\ i - 1 \in 0 .. Len(next)
        BY <1>2, <3>1
      <4>2. c[i - 2] = c[(i - 1) - 2] + Count(next[i], x)
        BY <1>3, <2>1, <3>1, <4>1
      <4> QED
        BY <4>1, <4>2
    <3>2. CASE i = 1
      BY <1>2, <1>3, <2>2, <2>3, <3>2
    <3>3. CASE i = 2
      BY <1>2, <1>3, <2>2, <2>3, <3>3
    <3>4. CASE i = 3
      BY <1>2, <1>3, <2>2, <2>3, <3>4
    <3> QED
      BY <1>2, <3>1, <3>2, <3>3, <3>4
  <2> HIDE DEF d
  <2> QED
    BY <2>4, <2>5, <2>6 DEF Counted
<1> QED
  BY <1>1, <1>2, <1>5, <1>6 DEF SortedSoFar

\* An element of a part is in the set and the list.
LEMMA PartElements ==
    ASSUME NEW list \in Seq(Int), NEW S, NEW i \in 1 .. Len(Part(list, S))
    PROVE  Part(list, S)[i] \in S /\ \E j \in 1 .. Len(list) : Part(list, S)[i] = list[j]
<1>1. PICK part : part = Part(list, S)
  OBVIOUS
<1>2. part \in Seq(Int) /\ \A x : Count(part, x) = IF x \in S THEN Count(list, x) ELSE 0
  BY <1>1, PartIs
<1>3. Count(part, part[i]) # 0
  BY <1>1, <1>2, CountIs
<1>4. part[i] \in S /\ Count(list, part[i]) # 0
  BY <1>2, <1>3
<1>5. \E j \in 1 .. Len(list) : part[i] = list[j]
  BY <1>4, CountIs
<1> QED
  BY <1>1, <1>4, <1>5

\* What an empty part has left out.
LEMMA PartEmpty ==
    ASSUME NEW list \in Seq(Int), NEW S, Part(list, S) = <<>>
    PROVE  \A j \in 1 .. Len(list) : list[j] \notin S
<1> SUFFICES ASSUME NEW j \in 1 .. Len(list), list[j] \in S PROVE FALSE
  OBVIOUS
<1>1. Count(<<>>, list[j]) = Count(list, list[j])
  BY PartIs
<1>2. Count(list, list[j]) # 0
  BY CountIs
<1>3. <<>> \in Seq(Int) /\ \A i \in 1 .. Len(<<>>) : <<>>[i] # list[j]
  OBVIOUS
<1>4. Count(<<>>, list[j]) = 0
  BY <1>3, CountIs
<1> QED
  BY <1>1, <1>2, <1>4

\* The parts of the list that is next.
Smaller(list, pivot) == Part(list, {x \in ToSet(list) : x < pivot})
Greater(list, pivot) == Part(list, {x \in ToSet(list) : x > pivot})

LEMMA ToSetIs ==
    ASSUME NEW T, NEW list \in Seq(T)
    PROVE  ToSet(list) = {list[i] : i \in 1 .. Len(list)} /\ ToSet(list) \subseteq T
BY DEF ToSet

LEMMA ThreeParts ==
    ASSUME NEW list \in Seq(Int), NEW pivot \in Int
    PROVE  /\ Smaller(list, pivot) \in Seq(Int) /\ Pivots(list, pivot) \in Seq(Int)
           /\ Greater(list, pivot) \in Seq(Int)
           /\ Among(Smaller(list, pivot), list) /\ Among(Pivots(list, pivot), list)
           /\ Among(Greater(list, pivot), list)
           /\ LeqAll(Smaller(list, pivot), Pivots(list, pivot))
           /\ LeqAll(Smaller(list, pivot), Greater(list, pivot))
           /\ LeqAll(Pivots(list, pivot), Greater(list, pivot))
           /\ \A x : Count(list, x) = Count(Smaller(list, pivot), x) + Count(Pivots(list, pivot), x)
                                        + Count(Greater(list, pivot), x)
<1>1. PICK s1, s2, s3 : s1 = Smaller(list, pivot) /\ s2 = Pivots(list, pivot)
                        /\ s3 = Greater(list, pivot)
  OBVIOUS
<1>2. s1 \in Seq(Int) /\ s2 \in Seq(Int) /\ s3 \in Seq(Int)
  BY <1>1, PartIs DEF Smaller, Greater, Pivots
<1>3. ASSUME NEW S, NEW part, part = Part(list, S), NEW i \in 1 .. Len(part)
      PROVE  part[i] \in S
  BY <1>3, PartElements
<1>4. PICK S1, S2, S3 :
         /\ S1 = {x \in ToSet(list) : x < pivot} /\ S2 = {pivot} /\ S3 = {x \in ToSet(list) : x > pivot}
         /\ s1 = Part(list, S1) /\ s2 = Part(list, S2) /\ s3 = Part(list, S3)
  BY <1>1 DEF Smaller, Greater, Pivots
<1>5. /\ \A i \in 1 .. Len(s1) : s1[i] < pivot
      /\ \A i \in 1 .. Len(s2) : s2[i] = pivot
      /\ \A i \in 1 .. Len(s3) : s3[i] > pivot
  BY <1>3, <1>4
<1>6. Among(s1, list) /\ Among(s2, list) /\ Among(s3, list)
  <2>1. ASSUME NEW S, NEW part, part = Part(list, S) PROVE Among(part, list)
    <3> SUFFICES ASSUME NEW i \in 1 .. Len(part) PROVE \E j \in 1 .. Len(list) : part[i] = list[j]
      BY DEF Among
    <3> QED
      BY <2>1, PartElements
  <2> QED
    BY <1>4, <2>1
<1>7. LeqAll(s1, s2) /\ LeqAll(s1, s3) /\ LeqAll(s2, s3)
  <2>1. ASSUME NEW i \in 1 .. Len(s1) PROVE s1[i] \in Int /\ s1[i] < pivot
    BY <1>2, <1>5
  <2>2. ASSUME NEW i \in 1 .. Len(s2) PROVE s2[i] \in Int /\ s2[i] = pivot
    BY <1>2, <1>5
  <2>3. ASSUME NEW i \in 1 .. Len(s3) PROVE s3[i] \in Int /\ s3[i] > pivot
    BY <1>2, <1>5
  <2>4. ASSUME NEW i \in 1 .. Len(s1), NEW j \in 1 .. Len(s2) PROVE s1[i] <= s2[j]
    BY <2>1, <2>2
  <2>5. ASSUME NEW i \in 1 .. Len(s1), NEW j \in 1 .. Len(s3) PROVE s1[i] <= s3[j]
    BY <2>1, <2>3
  <2>6. ASSUME NEW i \in 1 .. Len(s2), NEW j \in 1 .. Len(s3) PROVE s2[i] <= s3[j]
    BY <2>2, <2>3
  <2> QED
    BY <2>4, <2>5, <2>6 DEF LeqAll
<1>8. ASSUME NEW x PROVE Count(list, x) = Count(s1, x) + Count(s2, x) + Count(s3, x)
  <2>1. Count(list, x) \in Nat
    BY CountIs
  <2>2. Count(s2, x) = IF x = pivot THEN Count(list, x) ELSE 0
    BY <1>1, PartIs DEF Pivots
  <2>3. /\ Count(s1, x) = IF x \in ToSet(list) /\ x < pivot THEN Count(list, x) ELSE 0
        /\ Count(s3, x) = IF x \in ToSet(list) /\ x > pivot THEN Count(list, x) ELSE 0
    BY <1>1, PartIs DEF Smaller, Greater
  <2>4. CASE x \in ToSet(list)
    <3>1. x \in Int
      BY <2>4, ToSetIs
    <3>2. x < pivot \/ x = pivot \/ x > pivot
      BY <3>1
    <3> QED
      BY <2>1, <2>2, <2>3, <2>4, <3>1, <3>2
  <2>5. CASE x \notin ToSet(list)
    <3>1. \A i \in 1 .. Len(list) : list[i] # x
      BY <2>5, ToSetIs
    <3>2. Count(list, x) = 0
      BY <3>1, CountIs
    <3> QED
      BY <2>2, <2>3, <2>5, <3>2
  <2> QED
    BY <2>4, <2>5
<1> QED
  BY <1>1, <1>2, <1>6, <1>7, <1>8

\* Nothing to sort is left in a list whose smaller and greater elements are none.
LEMMA OnlyEqual ==
    ASSUME NEW list \in Seq(Int), NEW pivot \in Int,
           Smaller(list, pivot) \o Greater(list, pivot) = <<>>
    PROVE  InOrder(list)
<1>1. PICK s1, s3 : s1 = Smaller(list, pivot) /\ s3 = Greater(list, pivot)
  OBVIOUS
<1>2. s1 \in Seq(Int) /\ s3 \in Seq(Int) /\ s1 \o s3 = <<>>
  BY <1>1, ThreeParts
<1>3. s1 = <<>> /\ s3 = <<>>
  BY <1>2
<1>4. ASSUME NEW j \in 1 .. Len(list) PROVE list[j] = pivot
  <2>1. list[j] \in ToSet(list) /\ list[j] \in Int
    BY ToSetIs
  <2>2. ~(list[j] < pivot) /\ ~(list[j] > pivot)
    BY <1>1, <1>3, <2>1, PartEmpty DEF Smaller, Greater
  <2> QED
    BY <2>1, <2>2
<1> QED
  BY <1>4 DEF InOrder

QuicksortOK ==
    call.function = "genericQuicksort" =>
       /\ call.args.list \in Seq(Int)
       /\ call.outcome = "running" =>
             /\ SortedSoFar(call.args.list, call.locals.sorted, call.locals.stack)
             /\ call.locals = [stack |-> call.locals.stack, sorted |-> call.locals.sorted]
       /\ call.outcome = "returned" => SortedSoFar(call.args.list, call.result, <<>>)

LEMMA QuicksortStarts == Init => QuicksortOK
<1> SUFFICES ASSUME Init, call.function = "genericQuicksort" PROVE QuicksortOK
  BY DEF QuicksortOK
<1>1. PICK list \in Seq(Int) : call = Quicksort(list)
  BY CallStarts
<1>2. call.args = [list |-> list] /\ call.outcome = "running"
      /\ call.locals = [stack |-> <<list>>, sorted |-> <<>>]
  BY <1>1 DEF Quicksort, CallOf
<1>3. SortedSoFar(list, <<>>, <<list>>)
  <2>1. <<>> \in Seq(Int) /\ <<list>> \in Seq(Seq(Int)) /\ Len(<<list>>) = 1 /\ <<list>>[1] = list
        /\ Len(<<>>) = 0
    OBVIOUS
  <2>2. InOrder(<<>>) /\ StackInOrder(<<>>, <<list>>)
    BY <2>1 DEF InOrder, StackInOrder, LeqAll
  <2>3. ASSUME NEW x PROVE Counted(x, Count(list, x), <<>>, <<list>>)
    <3>1. Count(<<>>, x) = 0
      <4>1. \A i \in 1 .. Len(<<>>) : <<>>[i] # x
        BY <2>1
      <4> QED
        BY <2>1, <4>1, CountIs
    <3>2. PICK n \in Nat : n = Count(list, x)
      BY CountIs
    <3> DEFINE c == [i \in 0 .. 1 |-> IF i = 0 THEN 0 ELSE n]
    <3>3. c \in [0 .. Len(<<list>>) -> Nat] /\ c[0] = 0 /\ c[1] = n
      BY <2>1
    <3>4. \A i \in 1 .. Len(<<list>>) : c[i] = c[i - 1] + Count(<<list>>[i], x)
      BY <2>1, <3>2, <3>3
    <3> HIDE DEF c
    <3> QED
      BY <2>1, <3>1, <3>2, <3>3, <3>4 DEF Counted
  <2> QED
    BY <2>1, <2>2, <2>3 DEF SortedSoFar
<1> QED
  BY <1>2, <1>3 DEF QuicksortOK

LEMMA QuicksortStep == CallOK /\ QuicksortOK /\ [Next]_call => QuicksortOK'
<1> SUFFICES ASSUME CallOK, QuicksortOK, [Next]_call, call.function = "genericQuicksort"
             PROVE  QuicksortOK'
  BY CallKept DEF QuicksortOK
<1>1. call'.function = call.function /\ call'.args = call.args
  BY CallKept
<1>2. CASE call' = call
  BY <1>2 DEF QuicksortOK
<1>3. CASE QuicksortNext
  <2>1. PICK all, stack, sorted, list, pivot :
           /\ all = call.args.list /\ stack = call.locals.stack /\ sorted = call.locals.sorted
           /\ list = Head(stack) /\ pivot = list[Len(list) \div 2 + 1]
    OBVIOUS
  <2>2. /\ all \in Seq(Int) /\ call.outcome = "running" /\ SortedSoFar(all, sorted, stack)
        /\ call.locals = [stack |-> stack, sorted |-> sorted]
    BY <1>3, <2>1 DEF QuicksortOK, QuicksortNext, Running
  <2>3. stack # <<>> => list \in Seq(Int) /\ Len(list) \in Nat
    BY <2>1, <2>2 DEF SortedSoFar
  <2>4. ASSUME stack # <<>>, Len(list) >= 2 PROVE pivot \in Int
    <3>1. \A n \in Nat : n >= 2 => n \div 2 + 1 \in 1 .. n
      OBVIOUS
    <3>2. Len(list) \div 2 + 1 \in 1 .. Len(list)
      BY <2>3, <2>4, <3>1
    <3> QED
      BY <2>1, <2>3, <2>4, <3>2
  <2>5. CASE stack = <<>> /\ Return(sorted)
    BY <1>1, <2>1, <2>2, <2>5, CallEnds DEF QuicksortOK, Return
  <2>6. ASSUME NEW sorted2, NEW stack2, SortedSoFar(all, sorted2, stack2),
               Continue([stack |-> stack2, sorted |-> sorted2])
        PROVE  QuicksortOK'
    <3>1. call'.outcome = "running" /\ call'.locals = [stack |-> stack2, sorted |-> sorted2]
      BY <2>2, <2>6, Continues
    <3> QED
      BY <1>1, <2>1, <2>2, <2>6, <3>1 DEF QuicksortOK
  <2>7. CASE /\ stack # <<>> /\ (Len(list) < 2 \/ Smaller(list, pivot) \o Greater(list, pivot) = <<>>)
             /\ Continue([stack |-> Tail(stack), sorted |-> sorted \o list])
    <3>1. CASE Len(list) < 2
      <4>1. InOrder(list)
        BY <2>3, <2>7, <3>1 DEF InOrder
      <4>2. SortedSoFar(all, sorted \o list, Tail(stack))
        BY <2>1, <2>2, <2>7, <4>1, SortedAppends
      <4> QED
        BY <2>6, <2>7, <4>2
    <3>2. CASE Len(list) >= 2
      <4>1. InOrder(list)
        BY <2>3, <2>4, <2>7, <3>2, OnlyEqual
      <4>2. SortedSoFar(all, sorted \o list, Tail(stack))
        BY <2>1, <2>2, <2>7, <4>1, SortedAppends
      <4> QED
        BY <2>6, <2>7, <4>2
    <3> QED
      BY <2>3, <2>7, <3>1, <3>2
  <2>8. CASE /\ stack # <<>> /\ Len(list) >= 2
             /\ Continue([call.locals EXCEPT
                   !.stack = <<Smaller(list, pivot), Pivots(list, pivot), Greater(list, pivot)>>
                                \o Tail(stack)])
    <3>1. PICK stack2 :
             stack2 = <<Smaller(list, pivot), Pivots(list, pivot), Greater(list, pivot)>> \o Tail(stack)
      OBVIOUS
    <3>2. [call.locals EXCEPT !.stack = stack2] = [stack |-> stack2, sorted |-> sorted]
      BY <2>2
    <3>3. SortedSoFar(all, sorted, stack2)
      <4>1. PICK s1, s2, s3 : s1 = Smaller(list, pivot) /\ s2 = Pivots(list, pivot)
                              /\ s3 = Greater(list, pivot)
        OBVIOUS
      <4>2. list \in Seq(Int) /\ pivot \in Int /\ stack # <<>>
        BY <2>3, <2>4, <2>8
      <4>3. /\ s1 \in Seq(Int) /\ s2 \in Seq(Int) /\ s3 \in Seq(Int)
            /\ Among(s1, list) /\ Among(s2, list) /\ Among(s3, list)
            /\ LeqAll(s1, s2) /\ LeqAll(s1, s3) /\ LeqAll(s2, s3)
            /\ \A x : Count(list, x) = Count(s1, x) + Count(s2, x) + Count(s3, x)
        BY <4>1, <4>2, ThreeParts
      <4>4. list = Head(stack)
        BY <2>1
      <4>5. SortedSoFar(all, sorted, <<s1, s2, s3>> \o Tail(stack))
        BY <2>2, <4>2, <4>3, <4>4, SortedSplits
      <4> QED
        BY <3>1, <4>1, <4>5
    <3> QED
      BY <2>6, <2>8, <3>1, <3>2, <3>3
  <2> QED
    BY <1>3, <2>1, <2>5, <2>7, <2>8 DEF QuicksortNext, Smaller, Greater
<1> QED
  BY <1>2, <1>3, ItsSteps

------------------------------------------------------------------------------
\* greedys, genericBinarySearch, genericQuicksort and recursiveSum.
ResultsOK == CallOK /\ GreedyOK /\ BinarySearchOK /\ QuicksortOK /\ SumOK

LEMMA ResultsFollow == ResultsOK => ResultsRight
<1> SUFFICES ASSUME ResultsOK PROVE ResultsRight
  OBVIOUS
<1>1. Returned("greedys") =>
         /\ call.args.states \subseteq UNION {call.args.stations[x] : x \in call.result}
         /\ Cardinality(call.result) <= Cardinality(call.args.states)
  <2> SUFFICES ASSUME Returned("greedys")
               PROVE  /\ call.args.states \subseteq UNION {call.args.stations[x] : x \in call.result}
                      /\ Cardinality(call.result) <= Cardinality(call.args.states)
    OBVIOUS
  <2>1. CoverOK(call.args, call.result, {})
    BY DEF ResultsOK, GreedyOK, Returned
  <2>2. Cardinality(call.result) + 0 <= Cardinality(call.args.states) /\ IsFiniteSet(call.result)
    BY <2>1, FS_EmptySet DEF CoverOK
  <2>3. Cardinality(call.result) \in Nat
    BY <2>2, FS_CardinalityType
  <2> QED
    BY <2>1, <2>2, <2>3 DEF CoverOK
<1>2. Returned("genericBinarySearch") =>
         IF call.result = -1 THEN ~ Contains(call.args.list, call.args.item)
         ELSE call.args.list[call.result + 1] = call.args.item
  BY DEF ResultsOK, BinarySearchOK, Returned, Located, Contains
<1>5. call.function = "genericBinarySearch" /\ call.outcome = "thrown" => SearchOverflowed
  BY DEF ResultsOK, BinarySearchOK, SearchOverflowed
<1>3. Returned("genericQuicksort") =>
         /\ Ascending(call.result)
         /\ \A x \in ToSet(call.args.list \o call.result) :
               Count(call.args.list, x) = Count(call.result, x)
  <2> SUFFICES ASSUME Returned("genericQuicksort")
               PROVE  Ascending(call.result) /\ \A x : Count(call.args.list, x) = Count(call.result, x)
    OBVIOUS
  <2>1. SortedSoFar(call.args.list, call.result, <<>>)
    BY DEF ResultsOK, QuicksortOK, Returned
  <2>2. Ascending(call.result)
    BY <2>1 DEF SortedSoFar, InOrder, Ascending
  <2>3. ASSUME NEW x PROVE Count(call.args.list, x) = Count(call.result, x)
    <3>1. Counted(x, Count(call.args.list, x), call.result, <<>>)
      BY <2>1 DEF SortedSoFar
    <3>2. Len(<<>>) = 0
      OBVIOUS
    <3> QED
      BY <3>1, <3>2 DEF Counted
  <2> QED
    BY <2>2, <2>3
<1>4. Returned("recursiveSum") =>
         /\ call.result \in - IntMax - 1 .. IntMax
         /\ (call.result - Total(call.args.list)) % IntSize = 0
  <2> SUFFICES ASSUME Returned("recursiveSum")
               PROVE  /\ call.result \in - IntMax - 1 .. IntMax
                      /\ (call.result - Total(call.args.list)) % IntSize = 0
    OBVIOUS
  <2>1. PICK list \in Seq(Int) : \E f : /\ call.args.list = list /\ Sums(list, f)
                                        /\ SumSoFar(list, f, <<>>, call.result)
    BY DEF ResultsOK, SumOK, Returned
  <2>2. PICK f : /\ call.args.list = list /\ Sums(list, f)
                 /\ SumSoFar(list, f, <<>>, call.result)
    BY <2>1
  <2>3. f[0] = 0 /\ f[Len(list)] = Total(list) /\ f[Len(list)] \in Int /\ Len(<<>>) = 0
    BY <2>2 DEF Sums
  <2>4. call.result \in - IntMax - 1 .. IntMax /\ call.result \in Int
    BY <2>2, CallsAssumption DEF SumSoFar
  <2>5. PICK q \in Int : call.result + f[0] = f[Len(list)] + q * IntSize
    BY <2>2, <2>3 DEF SumSoFar
  <2>6. PICK m \in Nat \ {0} : m = IntSize
    BY IntSizeIs
  <2>7. q * m \in Int /\ (q * m) % m = 0
    OBVIOUS
  <2>8. call.result - Total(list) = q * m
    BY <2>3, <2>4, <2>5, <2>6, <2>7
  <2> QED
    BY <2>2, <2>4, <2>6, <2>7, <2>8
<1> QED
  BY <1>1, <1>2, <1>3, <1>4, <1>5 DEF ResultsRight, Total

\* A result is that of the list, the stations or the sum, and the binary search throws
\* only for an item so far back that a sum of two indices is no Int.  (greedys,
\* genericBinarySearch, genericQuicksort, recursiveSum)
THEOREM ResultsAreRight == Spec => []ResultsRight
<1>1. Init => ResultsOK
  BY GreedyStarts, BinarySearchStarts, QuicksortStarts, SumStarts, CallStartsOK DEF ResultsOK
<1>2. ResultsOK /\ [Next]_call => ResultsOK'
  BY GreedyStep, BinarySearchStep, QuicksortStep, SumStep, CallStepOK DEF ResultsOK
<1> QED
  BY <1>1, <1>2, ResultsFollow, PTL DEF Spec

------------------------------------------------------------------------------
(* The pages.                                                              *)

LEMMA ToIntOfInt ==
    ASSUME NEW x \in 0 .. IntMax
    PROVE  ToInt(x) = x
<1>1. IntMax \in Nat /\ IntSize = 2 * (IntMax + 1) /\ IntSize \in Nat \ {0}
  BY CallsAssumption, IntSizeIs DEF IntSize
<1>2. PICK y \in Nat : y = x + IntMax + 1
  BY <1>1
<1>3. y \in 0 .. IntSize - 1
  BY <1>1, <1>2
<1>4. y % IntSize = y
  BY <1>1, <1>3
<1> QED
  BY <1>1, <1>2, <1>4 DEF ToInt

\* The rows after the first lo, up to hi of them.
Listed(total, lo, hi) ==
    LET last == IF hi < total THEN hi ELSE total
    IN [i \in 1 .. (IF last < lo THEN 0 ELSE last - lo) |-> lo + i]

WithPage(total, lo, hi, size) == Listed(total, lo, hi) \o Rows(total, hi, size)

LEMMA ListedNext ==
    ASSUME NEW total \in Nat, NEW lo \in Nat, NEW hi \in Nat, NEW size \in Nat, lo <= hi
    PROVE  WithPage(total, lo, hi, size) = Listed(total, lo, hi + size)
<1>1. PICK last1 \in Nat, last2 \in Nat :
         /\ last1 = IF hi < total THEN hi ELSE total
         /\ last2 = IF hi + size < total THEN hi + size ELSE total
  OBVIOUS
<1>2. PICK n1 \in Nat, n2 \in Nat :
         /\ n1 = IF last1 < lo THEN 0 ELSE last1 - lo
         /\ n2 = IF last2 < hi THEN 0 ELSE last2 - hi
  OBVIOUS
<1>3. PICK n3 \in Nat : n3 = IF last2 < lo THEN 0 ELSE last2 - lo
  OBVIOUS
<1>4. n3 = n1 + n2 /\ (n2 # 0 => n1 = hi - lo)
  BY <1>1, <1>2, <1>3
<1>5. PICK s1, s2, s3 : /\ s1 = [i \in 1 .. n1 |-> lo + i] /\ s2 = [i \in 1 .. n2 |-> hi + i]
                        /\ s3 = [i \in 1 .. n3 |-> lo + i]
  OBVIOUS
<1>6. s1 \in Seq(Nat) /\ s2 \in Seq(Nat) /\ s3 \in Seq(Nat)
      /\ Len(s1) = n1 /\ Len(s2) = n2 /\ Len(s3) = n3
  BY <1>5
<1>7. s1 \o s2 = s3
  <2>1. s1 \o s2 \in Seq(Nat) /\ Len(s1 \o s2) = n1 + n2
    BY <1>6, ConcatProperties
  <2>2. ASSUME NEW i \in 1 .. n3 PROVE (s1 \o s2)[i] = s3[i]
    <3>1. CASE i <= n1
      <4>1. i \in 1 .. n1
        BY <3>1
      <4>2. (s1 \o s2)[i] = s1[i]
        BY <1>4, <1>6, <4>1
      <4> QED
        BY <1>5, <4>1, <4>2
    <3>2. CASE i > n1
      <4>1. i \in n1 + 1 .. n1 + n2 /\ i - n1 \in 1 .. n2 /\ n2 # 0
        BY <1>4, <3>2
      <4>2. (s1 \o s2)[i] = s2[i - n1]
        <5>1. \A j \in 1 .. Len(s1) + Len(s2) :
                 (s1 \o s2)[j] = IF j <= Len(s1) THEN s1[j] ELSE s2[j - Len(s1)]
          BY <1>6, ConcatProperties
        <5> QED
          BY <1>6, <4>1, <5>1
      <4>3. s2[i - n1] = hi + (i - n1) /\ s3[i] = lo + i
        BY <1>5, <4>1
      <4> QED
        BY <1>4, <4>1, <4>2, <4>3
    <3>3. i <= n1 \/ i > n1
      OBVIOUS
    <3> QED
      BY <3>1, <3>2, <3>3
  <2> QED
    BY <1>4, <1>6, <2>1, <2>2, SeqEqual
<1>8. Listed(total, lo, hi) = s1
  BY <1>1, <1>2, <1>5 DEF Listed
<1>9. Rows(total, hi, size) = s2
  BY <1>1, <1>2, <1>5 DEF Rows
<1>10. Listed(total, lo, hi + size) = s3
  BY <1>1, <1>3, <1>5 DEF Listed
<1> QED
  BY <1>7, <1>8, <1>9, <1>10 DEF WithPage

LEMMA SafeSizeIs ==
    ASSUME NEW size \in Nat
    PROVE  /\ SafeSize(size) \in Nat /\ SafeSize(size) <= size
           /\ size <= MaxSize => SafeSize(size) = size
           /\ size > MaxSize => SafeSize(size) = MaxSize
           /\ size # 0 => SafeSize(size) # 0
<1>1. MaxSize \in Nat \ {0}
  BY PagingAssumption
<1> QED
  BY <1>1 DEF SafeSize

\* What nothing overflows means for a client.
LEMMA PagesAre ==
    ASSUME NEW total \in Nat, NEW size \in Nat \ {0}, NEW params \in BOOLEAN,
           PagesFit(total, size, params)
    PROVE  /\ TotalPages(total, size) \in Nat \ {0}
           /\ total < TotalPages(total, size) * size
           /\ (TotalPages(total, size) - 1) * size <= total
<1>1. PICK n, p : n = total + size /\ p = n \div size
  OBVIOUS
<1>2. n \in Nat /\ n <= IntMax /\ n >= size /\ IntMax \in Nat
  BY <1>1, CallsAssumption DEF PagesFit
<1>3. p \in Nat /\ p * size <= n /\ n < (p + 1) * size /\ p <= n /\ p # 0
  <2>1. p \in Int /\ n = size * p + (n % size) /\ n % size \in 0 .. size - 1
    BY <1>1, <1>2
  <2>2. PICK q \in Int : q = size * p
    BY <2>1
  <2>3. q <= n /\ n < q + size
    BY <2>1, <2>2
  <2>4. p * size = q /\ (p + 1) * size = q + size
    BY <2>1, <2>2
  <2>5. p >= 1
    <3> SUFFICES ASSUME p <= 0 PROVE FALSE
      BY <2>1
    <3>1. size * p <= 0
      BY <2>1
    <3> QED
      BY <1>2, <2>2, <2>3, <3>1
  <2>6. p <= size * p
    BY <2>1, <2>5
  <2> QED
    BY <1>2, <2>1, <2>2, <2>3, <2>4, <2>5, <2>6
<1>4. TotalPages(total, size) = p
  <2>1. p \in 0 .. IntMax
    BY <1>2, <1>3
  <2> QED
    BY <1>1, <2>1, ToIntOfInt DEF TotalPages
<1>5. (p + 1) * size = p * size + size /\ (p - 1) * size = p * size - size
  BY <1>3
<1>6. PICK q \in Int : q = p * size
  BY <1>3
<1> QED
  BY <1>1, <1>3, <1>4, <1>5, <1>6

LEMMA OffsetIs ==
    ASSUME NEW size \in Nat, NEW page \in Nat \ {0}, (page - 1) * SafeSize(size) <= IntMax
    PROVE  Offset(page, size) = (page - 1) * SafeSize(size) /\ Offset(page, size) \in Nat
<1>1. PICK n \in Nat : n = SafeSize(size)
  BY SafeSizeIs
<1>2. PICK q \in Nat : q = (page - 1) * n
  OBVIOUS
<1>3. CASE page < 2
  <2>1. page = 1
    BY <1>3
  <2>2. q = 0
    BY <1>2, <2>1
  <2> QED
    BY <1>1, <1>2, <1>3, <2>2 DEF Offset
<1>4. CASE page >= 2
  <2>1. q \in 0 .. IntMax
    BY <1>1, <1>2, CallsAssumption
  <2>2. ToInt(q) = q
    BY <2>1, ToIntOfInt
  <2> QED
    BY <1>1, <1>2, <1>4, <2>2 DEF Offset
<1> QED
  BY <1>3, <1>4

LEMMA FirstPageIs == ASSUME NEW params \in BOOLEAN PROVE FirstPage(params) \in Nat \ {0}
BY PagingAssumption DEF FirstPage

\* The rows of the pages before the next.
Paged(total, size, params, page, rows) ==
    /\ page \in Nat /\ page >= FirstPage(params)
    /\ page = FirstPage(params) \/ (size > 0 /\ page <= TotalPages(total, size) + 1)
    /\ rows = Listed(total, (FirstPage(params) - 1) * SafeSize(size), (page - 1) * SafeSize(size))

AllPaged(total, size, params, rows) ==
    /\ size > 0
    /\ \E page \in Nat : page > TotalPages(total, size) /\ Paged(total, size, params, page, rows)

PagesOK ==
    call.function = "pages" =>
       \E total \in Nat : \E size \in Nat : \E params \in BOOLEAN :
          /\ call.args = [total |-> total, size |-> size, params |-> params]
          /\ PagesFit(total, size, params) =>
                /\ call.outcome = "running" =>
                      Paged(total, size, params, call.locals.page, call.locals.rows)
                /\ call.outcome = "returned" => AllPaged(total, size, params, call.result)

LEMMA PagesStart == Init => PagesOK
<1> SUFFICES ASSUME Init, call.function = "pages" PROVE PagesOK
  BY DEF PagesOK
<1>1. PICK total \in Nat : \E size \in Nat : \E params \in BOOLEAN :
         call = ListPages(total, size, params)
  BY CallStarts
<1>2. PICK size \in Nat : \E params \in BOOLEAN : call = ListPages(total, size, params)
  BY <1>1
<1>3. PICK params \in BOOLEAN : call = ListPages(total, size, params)
  BY <1>2
<1>4. /\ call.args = [total |-> total, size |-> size, params |-> params]
      /\ call.outcome = "running" /\ call.locals = [page |-> FirstPage(params), rows |-> <<>>]
  BY <1>3 DEF ListPages, CallOf
<1>5. Paged(total, size, params, FirstPage(params), <<>>)
  <2>1. PICK first \in Nat \ {0}, n \in Nat : first = FirstPage(params) /\ n = SafeSize(size)
    BY FirstPageIs, SafeSizeIs
  <2>2. PICK lo \in Nat : lo = (first - 1) * n
    OBVIOUS
  <2>3. Listed(total, lo, lo) = <<>>
    <3>1. PICK last \in Nat : last = IF lo < total THEN lo ELSE total
      OBVIOUS
    <3>2. (IF last < lo THEN 0 ELSE last - lo) = 0
      BY <3>1
    <3>3. Listed(total, lo, lo) = [i \in 1 .. (IF last < lo THEN 0 ELSE last - lo) |-> lo + i]
      BY <3>1 DEF Listed
    <3> QED
      BY <3>2, <3>3
  <2> QED
    BY <2>1, <2>2, <2>3 DEF Paged
<1>6. PICK page, rows : page = call.locals.page /\ rows = call.locals.rows
  OBVIOUS
<1>7. page = FirstPage(params) /\ rows = <<>>
  BY <1>4, <1>6
<1>8. Paged(total, size, params, page, rows)
  BY <1>5, <1>7
<1>9. Paged(total, size, params, call.locals.page, call.locals.rows)
  BY <1>6, <1>8
<1>10. call.outcome # "returned"
  BY <1>4
<1> QED
  BY <1>4, <1>9, <1>10 DEF PagesOK

\* The rows of one page more.
LEMMA PagedNext ==
    ASSUME NEW total \in Nat, NEW size \in Nat \ {0}, NEW params \in BOOLEAN,
           PagesFit(total, size, params), NEW page, NEW rows,
           Paged(total, size, params, page, rows), page <= TotalPages(total, size)
    PROVE  Paged(total, size, params, page + 1,
                 rows \o Rows(total, Offset(page, size), SafeSize(size)))
<1>1. PICK first \in Nat \ {0}, n \in Nat, pages \in Nat :
         first = FirstPage(params) /\ n = SafeSize(size) /\ pages = TotalPages(total, size)
  BY FirstPageIs, SafeSizeIs, PagesAre
<1>2. page \in Nat /\ page >= first /\ page <= pages
      /\ rows = Listed(total, (first - 1) * n, (page - 1) * n)
  BY <1>1 DEF Paged
<1>3. PICK lo \in Nat, hi \in Nat : lo = (first - 1) * n /\ hi = (page - 1) * n
  BY <1>2
<1>4. lo <= hi
  BY <1>2, <1>3
<1>5. hi <= total
  <2>1. (pages - 1) * size <= total /\ n <= size
    BY <1>1, PagesAre, SafeSizeIs
  <2>2. (page - 1) * n <= (pages - 1) * n
    BY <1>2
  <2>3. (pages - 1) * n <= (pages - 1) * size
    BY <1>2, <2>1
  <2>4. PICK u \in Int, v \in Int : u = (pages - 1) * n /\ v = (pages - 1) * size
    OBVIOUS
  <2> QED
    BY <1>3, <2>1, <2>2, <2>3, <2>4
<1>6. hi <= IntMax
  <2>1. total + size <= IntMax
    BY DEF PagesFit
  <2> QED
    BY <1>5, <2>1, CallsAssumption
<1>7. Offset(page, size) = hi
  BY <1>1, <1>2, <1>3, <1>6, OffsetIs
<1>8. PICK next : next = Rows(total, Offset(page, size), SafeSize(size))
  OBVIOUS
<1>9. rows \o next = Listed(total, lo, hi + n)
  <2>1. rows = Listed(total, lo, hi) /\ next = Rows(total, hi, n)
    BY <1>1, <1>2, <1>3, <1>7, <1>8
  <2>2. lo <= hi /\ n \in Nat
    BY <1>1, <1>4
  <2>3. WithPage(total, lo, hi, n) = Listed(total, lo, hi + n)
    BY <2>2, ListedNext
  <2> QED
    BY <2>1, <2>3 DEF WithPage
<1>10. hi + n = ((page + 1) - 1) * n
  BY <1>2, <1>3
<1>11. rows \o next = Listed(total, (first - 1) * n, ((page + 1) - 1) * n)
  BY <1>3, <1>9, <1>10
<1>12. page + 1 \in Nat /\ page + 1 >= first /\ page + 1 <= pages + 1 /\ size > 0
  BY <1>2
<1>13. Paged(total, size, params, page + 1, rows \o next)
  BY <1>1, <1>11, <1>12 DEF Paged
<1> QED
  BY <1>8, <1>13

LEMMA PagesStep == CallOK /\ PagesOK /\ [Next]_call => PagesOK'
<1> SUFFICES ASSUME CallOK, PagesOK, [Next]_call, call.function = "pages" PROVE PagesOK'
  BY CallKept DEF PagesOK
<1>1. call'.function = call.function /\ call'.args = call.args
  BY CallKept
<1>2. CASE call' = call
  BY <1>2 DEF PagesOK
<1>3. CASE PageNext
  <2>1. PICK total \in Nat : \E size \in Nat : \E params \in BOOLEAN :
           /\ call.args = [total |-> total, size |-> size, params |-> params]
           /\ PagesFit(total, size, params) /\ call.outcome = "running" =>
                 Paged(total, size, params, call.locals.page, call.locals.rows)
    BY DEF PagesOK
  <2>2. PICK size \in Nat : \E params \in BOOLEAN :
           /\ call.args = [total |-> total, size |-> size, params |-> params]
           /\ PagesFit(total, size, params) /\ call.outcome = "running" =>
                 Paged(total, size, params, call.locals.page, call.locals.rows)
    BY <2>1
  <2>3. PICK params \in BOOLEAN :
           /\ call.args = [total |-> total, size |-> size, params |-> params]
           /\ PagesFit(total, size, params) /\ call.outcome = "running" =>
                 Paged(total, size, params, call.locals.page, call.locals.rows)
    BY <2>2
  <2>4. PICK page, rows : page = call.locals.page /\ rows = call.locals.rows
    OBVIOUS
  <2>5. call.outcome = "running" /\ call.args.total = total /\ call.args.size = size
    BY <1>3, <2>3 DEF PageNext, Running
  <2>6. CASE size = 0 /\ Throw("Arithmetic")
    <3>1. call'.outcome = "thrown"
      BY <2>6, CallEnds DEF Throw
    <3> QED
      BY <1>1, <2>3, <3>1 DEF PagesOK
  <2>7. CASE size > 0 /\ page > TotalPages(total, size) /\ Return(rows)
    <3>1. call'.outcome = "returned" /\ call'.result = rows
      BY <2>7, CallEnds DEF Return
    <3>2. PagesFit(total, size, params) => AllPaged(total, size, params, rows)
      BY <2>3, <2>4, <2>5, <2>7 DEF AllPaged, Paged
    <3> QED
      BY <1>1, <2>3, <3>1, <3>2 DEF PagesOK
  <2>8. CASE /\ size > 0 /\ page <= TotalPages(total, size)
             /\ Continue([page |-> page + 1,
                          rows |-> rows \o Rows(total, Offset(page, size), SafeSize(size))])
    <3>1. PICK rows2 : rows2 = rows \o Rows(total, Offset(page, size), SafeSize(size))
      OBVIOUS
    <3>2. call'.outcome = "running" /\ call'.locals = [page |-> page + 1, rows |-> rows2]
      BY <2>5, <2>8, <3>1, Continues
    <3>3. PagesFit(total, size, params) => Paged(total, size, params, page + 1, rows2)
      BY <2>3, <2>4, <2>5, <2>8, <3>1, PagedNext
    <3> QED
      BY <1>1, <2>3, <3>2, <3>3 DEF PagesOK
  <2> QED
    BY <1>3, <2>4, <2>5, <2>6, <2>7, <2>8 DEF PageNext
<1> QED
  BY <1>2, <1>3, ItsSteps

LEMMA PagesFollow == PagesOK => PagesListAll
<1> SUFFICES ASSUME PagesOK, Returned("pages"),
                    PagesFit(call.args.total, call.args.size, call.args.params)
             PROVE  LET total == call.args.total
                        size == call.args.size
                        skipped == Offset(FirstPage(call.args.params), size)
                        seen == IF size <= MaxSize THEN total ELSE TotalPages(total, size) * MaxSize
                        last == IF seen < total THEN seen ELSE total
                    IN call.result = [i \in 1 .. (IF last < skipped THEN 0 ELSE last - skipped) |->
                                        skipped + i]
  BY DEF PagesListAll
<1>1. PICK total \in Nat : \E size \in Nat : \E params \in BOOLEAN :
         /\ call.args = [total |-> total, size |-> size, params |-> params]
         /\ PagesFit(total, size, params) => AllPaged(total, size, params, call.result)
  BY DEF PagesOK, Returned
<1>2. PICK size \in Nat : \E params \in BOOLEAN :
         /\ call.args = [total |-> total, size |-> size, params |-> params]
         /\ PagesFit(total, size, params) => AllPaged(total, size, params, call.result)
  BY <1>1
<1>3. PICK params \in BOOLEAN :
         /\ call.args = [total |-> total, size |-> size, params |-> params]
         /\ PagesFit(total, size, params) => AllPaged(total, size, params, call.result)
  BY <1>2
<1>4. PagesFit(total, size, params) /\ AllPaged(total, size, params, call.result)
  BY <1>3
<1>5. size \in Nat \ {0}
  BY <1>4 DEF AllPaged
<1>6. PICK page \in Nat : page > TotalPages(total, size) /\ Paged(total, size, params, page, call.result)
  BY <1>4 DEF AllPaged
<1>7. PICK first \in Nat \ {0}, n \in Nat \ {0}, pages \in Nat :
         first = FirstPage(params) /\ n = SafeSize(size) /\ pages = TotalPages(total, size)
  BY <1>4, <1>5, FirstPageIs, SafeSizeIs, PagesAre
<1>8. page >= first /\ page > pages /\ (page = first \/ page <= pages + 1)
      /\ call.result = Listed(total, (first - 1) * n, (page - 1) * n)
  BY <1>6, <1>7 DEF Paged
<1>9. PICK lo \in Nat, hi \in Nat : lo = (first - 1) * n /\ hi = (page - 1) * n
  BY <1>8
<1>10. Offset(first, size) = lo
  <2>1. (first - 1) * n <= IntMax
    BY <1>4, <1>7 DEF PagesFit
  <2> QED
    BY <1>5, <1>7, <1>9, <2>1, OffsetIs
<1>11. PICK seen \in Nat : seen = IF size <= MaxSize THEN total ELSE pages * MaxSize
  BY PagingAssumption
<1>12. PICK last \in Nat, last2 \in Nat :
          /\ last = IF seen < total THEN seen ELSE total
          /\ last2 = IF hi < total THEN hi ELSE total
  OBVIOUS
<1>13. pages * n <= hi
  BY <1>8, <1>9
<1>14. last <= pages * n
  <2>1. CASE size <= MaxSize
    <3>1. n = size /\ total < pages * size
      BY <1>4, <1>5, <1>7, <2>1, PagesAre, SafeSizeIs
    <3>2. PICK q \in Int : q = pages * n
      OBVIOUS
    <3> QED
      BY <1>11, <1>12, <2>1, <3>1, <3>2
  <2>2. CASE size > MaxSize
    <3>1. n = MaxSize
      BY <1>7, <2>2, SafeSizeIs
    <3>2. seen = pages * n
      BY <1>11, <2>2, <3>1, PagingAssumption
    <3> QED
      BY <1>12, <3>2
  <2> QED
    BY <2>1, <2>2, PagingAssumption
<1>15. ASSUME page = first
       PROVE  call.result = [i \in 1 .. (IF last < lo THEN 0 ELSE last - lo) |-> lo + i]
  <2>1. lo = hi
    BY <1>9, <1>15
  <2>2. PICK q \in Int : q = pages * n
    OBVIOUS
  <2>3. last <= lo /\ last2 <= lo
    BY <1>12, <1>13, <1>14, <2>1, <2>2
  <2>4. (IF last < lo THEN 0 ELSE last - lo) = (IF last2 < lo THEN 0 ELSE last2 - lo)
    BY <2>3
  <2>5. Listed(total, lo, hi) = [i \in 1 .. (IF last2 < lo THEN 0 ELSE last2 - lo) |-> lo + i]
    BY <1>12 DEF Listed
  <2> QED
    BY <1>8, <1>9, <2>4, <2>5
<1>16. ASSUME page # first
       PROVE  call.result = [i \in 1 .. (IF last < lo THEN 0 ELSE last - lo) |-> lo + i]
  <2>1. page = pages + 1
    BY <1>8, <1>16
  <2>2. hi = pages * n
    BY <1>9, <2>1
  <2>3. last2 = last
    <3>1. CASE size <= MaxSize
      <4>1. n = size /\ total < pages * size
        BY <1>4, <1>5, <1>7, <3>1, PagesAre, SafeSizeIs
      <4>2. total < hi
        BY <2>2, <4>1
      <4> QED
        BY <1>11, <1>12, <3>1, <4>2
    <3>2. CASE size > MaxSize
      <4>1. n = MaxSize
        BY <1>7, <3>2, SafeSizeIs
      <4>2. seen = hi
        BY <1>11, <2>2, <3>2, <4>1, PagingAssumption
      <4> QED
        BY <1>12, <4>2
    <3> QED
      BY <3>1, <3>2, PagingAssumption
  <2>4. Listed(total, lo, hi) = [i \in 1 .. (IF last2 < lo THEN 0 ELSE last2 - lo) |-> lo + i]
    BY <1>12 DEF Listed
  <2> QED
    BY <1>8, <1>9, <2>3, <2>4
<1>17. call.args.total = total /\ call.args.size = size /\ call.args.params = params
  BY <1>3
<1>18. /\ Offset(FirstPage(call.args.params), call.args.size) = lo
       /\ TotalPages(call.args.total, call.args.size) = pages
  BY <1>7, <1>10, <1>17
<1> QED
  BY <1>11, <1>12, <1>15, <1>16, <1>17, <1>18

\* A client of the pages sees every row once, in order.  (Page.offset,
\* PageResult.totalPages, PageInput.apply)
THEOREM PagesAreListed == Spec => []PagesListAll
<1>1. Init => CallOK /\ PagesOK
  BY CallStartsOK, PagesStart
<1>2. CallOK /\ PagesOK /\ [Next]_call => CallOK' /\ PagesOK'
  BY CallStepOK, PagesStep
<1> QED
  BY <1>1, <1>2, PagesFollow, PTL DEF Spec

------------------------------------------------------------------------------
(* breadthFirstSearch.                                                     *)

LEMMA ToSetAppend ==
    ASSUME NEW T, NEW list \in Seq(T), NEW y \in T
    PROVE  ToSet(Append(list, y)) = ToSet(list) \cup {y}
<1>1. Append(list, y) \in Seq(T) /\ Len(Append(list, y)) = Len(list) + 1 /\ Len(list) \in Nat
      /\ \A i \in 1 .. Len(list) : Append(list, y)[i] = list[i]
      /\ Append(list, y)[Len(list) + 1] = y
  BY AppendProperties
<1>2. ToSet(list) = {list[i] : i \in 1 .. Len(list)}
  BY ToSetIs
<1>3. ToSet(Append(list, y)) = {Append(list, y)[i] : i \in 1 .. Len(list) + 1}
  BY <1>1, ToSetIs
<1>4. ASSUME NEW x PROVE x \in ToSet(Append(list, y)) <=> x \in ToSet(list) \cup {y}
  <2>1. ASSUME x \in ToSet(Append(list, y)) PROVE x \in ToSet(list) \cup {y}
    <3>1. PICK i \in 1 .. Len(list) + 1 : x = Append(list, y)[i]
      BY <1>3, <2>1
    <3>2. i \in 1 .. Len(list) \/ i = Len(list) + 1
      BY <1>1
    <3> QED
      BY <1>1, <1>2, <3>1, <3>2
  <2>2. ASSUME x \in ToSet(list) PROVE x \in ToSet(Append(list, y))
    <3>1. PICK i \in 1 .. Len(list) : x = list[i]
      BY <1>2, <2>2
    <3>2. i \in 1 .. Len(list) + 1 /\ x = Append(list, y)[i]
      BY <1>1, <3>1
    <3> QED
      BY <1>3, <3>2
  <2>3. y \in ToSet(Append(list, y))
    <3>1. Len(list) + 1 \in 1 .. Len(list) + 1
      BY <1>1
    <3> QED
      BY <1>1, <1>3, <3>1
  <2> QED
    BY <2>1, <2>2, <2>3
<1> QED
  BY <1>4

LEMMA ToSetConcat ==
    ASSUME NEW T, NEW s1 \in Seq(T), NEW s2 \in Seq(T)
    PROVE  ToSet(s1 \o s2) = ToSet(s1) \cup ToSet(s2)
<1>1. s1 \o s2 \in Seq(T) /\ Len(s1 \o s2) = Len(s1) + Len(s2) /\ Len(s1) \in Nat /\ Len(s2) \in Nat
      /\ \A i \in 1 .. Len(s1) + Len(s2) :
            (s1 \o s2)[i] = IF i <= Len(s1) THEN s1[i] ELSE s2[i - Len(s1)]
  BY ConcatProperties
<1>2. ToSet(s1) = {s1[i] : i \in 1 .. Len(s1)} /\ ToSet(s2) = {s2[i] : i \in 1 .. Len(s2)}
  BY ToSetIs
<1>3. ToSet(s1 \o s2) = {(s1 \o s2)[i] : i \in 1 .. Len(s1) + Len(s2)}
  BY <1>1, ToSetIs
<1>4. ASSUME NEW x \in ToSet(s1 \o s2) PROVE x \in ToSet(s1) \cup ToSet(s2)
  <2>1. PICK i \in 1 .. Len(s1) + Len(s2) : x = (s1 \o s2)[i]
    BY <1>3
  <2>2. i \in 1 .. Len(s1) \/ i - Len(s1) \in 1 .. Len(s2)
    BY <1>1
  <2>3. i <= Len(s1) <=> i \in 1 .. Len(s1)
    BY <1>1
  <2> QED
    BY <1>1, <1>2, <2>1, <2>2, <2>3
<1>5. ASSUME NEW x \in ToSet(s1) PROVE x \in ToSet(s1 \o s2)
  <2>1. PICK i \in 1 .. Len(s1) : x = s1[i]
    BY <1>2
  <2>2. i \in 1 .. Len(s1) + Len(s2) /\ i <= Len(s1)
    BY <1>1
  <2> QED
    BY <1>1, <1>3, <2>1, <2>2
<1>6. ASSUME NEW x \in ToSet(s2) PROVE x \in ToSet(s1 \o s2)
  <2>1. PICK i \in 1 .. Len(s2) : x = s2[i]
    BY <1>2
  <2>2. Len(s1) + i \in 1 .. Len(s1) + Len(s2) /\ ~(Len(s1) + i <= Len(s1)) /\ (Len(s1) + i) - Len(s1) = i
    BY <1>1
  <2>3. (s1 \o s2)[Len(s1) + i] = x
    BY <1>1, <2>1, <2>2
  <2> QED
    BY <1>3, <2>2, <2>3
<1> QED
  BY <1>4, <1>5, <1>6

\* The neighbours that were not searched.
LEMMA PendingIs ==
    ASSUME NEW T, NEW list \in Seq(T), NEW searched
    PROVE  Pending(list, searched) \in Seq(T) /\ ToSet(Pending(list, searched)) = ToSet(list) \ searched
<1> DEFINE n == Len(list)
           op == [p \in (1 .. n) \X Seq(T) |->
                    IF list[p[1]] \in searched \cup ToSet(p[2]) THEN p[2] ELSE Append(p[2], list[p[1]])]
           It(g) == g = [t \in SUBSET (1 .. n) |->
                           IF t = {} THEN <<>>
                           ELSE IF list[Max(t)] \in searched \cup ToSet(g[t \ {Max(t)}])
                                THEN g[t \ {Max(t)}] ELSE Append(g[t \ {Max(t)}], list[Max(t)])]
           I == CHOOSE g : It(g)
<1>1. n \in Nat /\ op \in [(1 .. n) \X Seq(T) -> Seq(T)] /\ DOMAIN list = 1 .. n
      /\ <<>> \in Seq(T)
  OBVIOUS
<1>2. PICK g : FoldTable(g, Seq(T), <<>>, op, n)
  <2> HIDE DEF op, n
  <2> QED
    BY <1>1, ListFold
<1>3. ASSUME NEW t \in SUBSET (1 .. n), t # {}
      PROVE  g[t] = IF list[Max(t)] \in searched \cup ToSet(g[t \ {Max(t)}])
                    THEN g[t \ {Max(t)}] ELSE Append(g[t \ {Max(t)}], list[Max(t)])
  <2>1. PICK m : m = Max(t)
    OBVIOUS
  <2>2. m \in 1 .. n
    BY <1>1, <1>3, <2>1, MaxIn
  <2>3. g[t \ {m}] \in Seq(T)
    BY <1>2 DEF FoldTable
  <2>4. \A y \in Seq(T) :
           op[<<m, y>>] = IF list[m] \in searched \cup ToSet(y) THEN y ELSE Append(y, list[m])
    BY <2>2
  <2>5. g[t] = op[<<m, g[t \ {m}]>>]
    <3> HIDE DEF op
    <3> QED
      BY <1>2, <1>3, <2>1 DEF FoldTable
  <2> QED
    BY <2>1, <2>3, <2>4, <2>5
<1>4. It(g)
  <2> HIDE DEF op
  <2> QED
    BY <1>2, <1>3 DEF FoldTable
<1>5. It(I)
  <2> HIDE DEF It
  <2> QED
    BY <1>4
<1>6. I[{}] = <<>> /\ 1 .. 0 = {}
  <2> HIDE DEF I
  <2> QED
    BY <1>5
<1>7. ASSUME NEW k \in 1 .. n
      PROVE  I[1 .. k] = IF list[k] \in searched \cup ToSet(I[1 .. (k - 1)])
                         THEN I[1 .. (k - 1)] ELSE Append(I[1 .. (k - 1)], list[k])
  <2>1. Max(1 .. k) = k /\ (1 .. k) \ {k} = 1 .. (k - 1) /\ 1 .. k # {} /\ 1 .. k \in SUBSET (1 .. n)
    BY MaxOfInterval, UpTo
  <2> HIDE DEF I
  <2> QED
    BY <1>5, <2>1
<1>8. Pending(list, searched) = I[1 .. n]
  BY <1>1 DEF Pending, FoldLeft, MapThenFoldSet
<1> HIDE DEF I
<1> DEFINE Right(k) == /\ I[1 .. k] \in Seq(T)
                       /\ ToSet(I[1 .. k]) = {list[i] : i \in 1 .. k} \ searched
           R == {k \in Nat : Right(k)}
<1>9. 0 \in R
  <2>1. ToSet(<<>>) = {}
    BY DEF ToSet
  <2>2. {list[i] : i \in 1 .. 0} = {}
    OBVIOUS
  <2>3. Right(0)
    BY <1>1, <1>6, <2>1, <2>2
  <2> HIDE DEF Right
  <2> QED
    BY <2>3
<1>10. ASSUME NEW k \in 0 .. n - 1, k \in R PROVE k + 1 \in R
  <2>1. k + 1 \in 1 .. n /\ (k + 1) - 1 = k /\ k \in Nat /\ k + 1 \in Nat /\ list[k + 1] \in T
    OBVIOUS
  <2>2. PICK p, y : p = I[1 .. k] /\ y = list[k + 1]
    OBVIOUS
  <2>3. p \in Seq(T) /\ ToSet(p) = {list[i] : i \in 1 .. k} \ searched
    BY <1>10, <2>2
  <2>4. I[1 .. (k + 1)] = IF y \in searched \cup ToSet(p) THEN p ELSE Append(p, y)
    BY <1>7, <2>1, <2>2
  <2>5. {list[i] : i \in 1 .. k + 1} = {list[i] : i \in 1 .. k} \cup {y}
    <3>1. 1 .. k + 1 = (1 .. k) \cup {k + 1}
      BY <2>1
    <3> QED
      BY <2>2, <3>1
  <2>6. ToSet(Append(p, y)) = ToSet(p) \cup {y}
    BY <2>1, <2>2, <2>3, ToSetAppend
  <2>7. Append(p, y) \in Seq(T)
    BY <2>1, <2>2, <2>3
  <2>8. Right(k + 1)
    <3>1. CASE y \in searched \cup ToSet(p)
      BY <2>3, <2>4, <2>5, <3>1
    <3>2. CASE y \notin searched \cup ToSet(p)
      BY <2>3, <2>4, <2>5, <2>6, <2>7, <3>2
    <3> QED
      BY <3>1, <3>2
  <2> HIDE DEF Right
  <2> QED
    BY <2>1, <2>8
<1>11. 0 .. n \subseteq R
  <2> HIDE DEF R
  <2> QED
    BY <1>1, <1>9, <1>10, NumbersUpTo
<1>12. Right(n)
  <2>1. n \in 0 .. n
    BY <1>1
  <2> HIDE DEF Right
  <2> QED
    BY <1>11, <2>1
<1>13. ToSet(list) = {list[i] : i \in 1 .. n}
  BY ToSetIs
<1> QED
  BY <1>8, <1>12, <1>13

Neighbours(graph, x) == ToSet(GetOrElse(graph, x))

GraphOK(graph, start) ==
    start \in Nodes /\ \E keys \in SUBSET Nodes : graph \in [keys -> Seq(Nodes)]

LEMMA NeighboursAre ==
    ASSUME NEW graph, NEW start, GraphOK(graph, start), NEW x
    PROVE  GetOrElse(graph, x) \in Seq(Nodes) /\ Neighbours(graph, x) \subseteq Nodes
<1>1. PICK keys \in SUBSET Nodes : graph \in [keys -> Seq(Nodes)]
  BY DEF GraphOK
<1>2. GetOrElse(graph, x) \in Seq(Nodes)
  <2>1. <<>> \in Seq(Nodes)
    OBVIOUS
  <2> QED
    BY <1>1, <2>1 DEF GetOrElse
<1> QED
  BY <1>2, ToSetIs DEF Neighbours

\* Where the walks of n edges end.
WalksEnd(graph, start, ends) ==
    /\ ends \in [Nat -> SUBSET Nodes] /\ ends[0] = {start}
    /\ \A n \in Nat : ends[n + 1] = UNION {Neighbours(graph, x) : x \in ends[n]}

LEMMA WalkEndsIs ==
    ASSUME NEW graph, NEW start, GraphOK(graph, start)
    PROVE  WalksEnd(graph, start, WalkEnds(graph, start))
<1> DEFINE op == [Y \in SUBSET Nodes |-> UNION {Neighbours(graph, x) : x \in Y}]
           It(f) == f = [n \in Nat |-> IF n = 0 THEN {start}
                                       ELSE UNION {Neighbours(graph, x) : x \in f[n - 1]}]
           I == CHOOSE f : It(f)
<1>1. op \in [SUBSET Nodes -> SUBSET Nodes] /\ {start} \in SUBSET Nodes
  <2>1. \A Y \in SUBSET Nodes : UNION {Neighbours(graph, x) : x \in Y} \in SUBSET Nodes
    BY NeighboursAre
  <2>2. start \in Nodes
    BY DEF GraphOK
  <2> QED
    BY <2>1, <2>2
<1>2. PICK f : Recursion(f, SUBSET Nodes, {start}, op)
  <2> HIDE DEF op
  <2> QED
    BY <1>1, RecursionExists
<1>3. f \in [Nat -> SUBSET Nodes]
  BY <1>2 DEF Recursion
<1>4. ASSUME NEW n \in Nat
      PROVE  f[n] = IF n = 0 THEN {start} ELSE UNION {Neighbours(graph, x) : x \in f[n - 1]}
  <2>1. f[n] = IF n = 0 THEN {start} ELSE op[f[n - 1]]
    <3> HIDE DEF op
    <3> QED
      BY <1>2 DEF Recursion
  <2>2. n # 0 => f[n - 1] \in SUBSET Nodes
    BY <1>3
  <2> QED
    BY <2>1, <2>2
<1>5. It(f)
  <2>1. \A n \in Nat : f[n] = IF n = 0 THEN {start}
                              ELSE UNION {Neighbours(graph, x) : x \in f[n - 1]}
    BY <1>4
  <2> QED
    BY <1>3, <2>1
<1>6. It(I)
  <2> HIDE DEF It
  <2> QED
    BY <1>5
<1>7. WalkEnds(graph, start) = I
  BY DEF WalkEnds, Neighbours
<1> HIDE DEF I
<1>8. I[0] = {start}
  BY <1>6
<1>9. ASSUME NEW n \in Nat PROVE I[n + 1] = UNION {Neighbours(graph, x) : x \in I[n]}
  <2>1. n + 1 \in Nat /\ n + 1 # 0 /\ (n + 1) - 1 = n
    OBVIOUS
  <2> QED
    BY <1>6, <2>1
<1>10. ASSUME NEW n \in Nat PROVE I[n] \in SUBSET Nodes
  <2>1. CASE n = 0
    BY <1>1, <1>8, <2>1
  <2>2. CASE n # 0
    <3>1. n - 1 \in Nat /\ (n - 1) + 1 = n
      BY <2>2
    <3>2. I[n] = UNION {Neighbours(graph, x) : x \in I[n - 1]}
      BY <1>9, <3>1
    <3> QED
      BY <3>2, NeighboursAre
  <2> QED
    BY <2>1, <2>2
<1>11. I \in [Nat -> SUBSET Nodes]
  BY <1>6, <1>10
<1> QED
  BY <1>7, <1>8, <1>9, <1>11 DEF WalksEnd

\* The nodes that can be reached by an edge or more, and by how many at least.
Levels(graph, start, ends, level) ==
    /\ level \in [Nodes -> Nat]
    /\ \A v \in Nodes : level[v] # 0 => v \in ends[level[v]]
    /\ \A n \in Nat \ {0} : \A v \in ends[n] : level[v] # 0 /\ level[v] <= n

LEMMA LevelsExist ==
    ASSUME NEW graph, NEW start, NEW ends, WalksEnd(graph, start, ends)
    PROVE  \E level : Levels(graph, start, ends, level)
<1> DEFINE Lengths(v) == {n \in Nat \ {0} : v \in ends[n]}
           level == [v \in Nodes |-> IF Lengths(v) = {} THEN 0 ELSE Min(Lengths(v))]
<1>1. ASSUME NEW v \in Nodes, Lengths(v) # {}
      PROVE  level[v] \in Lengths(v) /\ \A n \in Lengths(v) : level[v] <= n
  <2>1. Lengths(v) \subseteq Nat
    OBVIOUS
  <2>2. Min(Lengths(v)) \in Lengths(v) /\ \A n \in Lengths(v) : Min(Lengths(v)) <= n
    <3> HIDE DEF Lengths
    <3> QED
      BY <1>1, <2>1, MinIs
  <2>3. level[v] = Min(Lengths(v))
    <3> HIDE DEF Lengths
    <3> QED
      BY <1>1
  <2> HIDE DEF level, Lengths
  <2> QED
    BY <2>2, <2>3
<1>2. ASSUME NEW v \in Nodes, Lengths(v) = {} PROVE level[v] = 0
  <2> HIDE DEF Lengths
  <2> QED
    BY <1>2
<1>3. ASSUME NEW v \in Nodes PROVE level[v] \in Nat /\ (level[v] # 0 => v \in ends[level[v]])
  <2> HIDE DEF level
  <2>1. level[v] = 0 \/ level[v] \in Lengths(v)
    <3> HIDE DEF Lengths
    <3> QED
      BY <1>1, <1>2
  <2> QED
    BY <2>1
<1>4. ASSUME NEW n \in Nat \ {0}, NEW v \in ends[n] PROVE level[v] # 0 /\ level[v] <= n
  <2>1. v \in Nodes
    BY DEF WalksEnd
  <2>2. n \in Lengths(v)
    OBVIOUS
  <2>3. level[v] \in Lengths(v) /\ level[v] <= n
    <3> HIDE DEF Lengths, level
    <3> QED
      BY <1>1, <2>1, <2>2
  <2> HIDE DEF level
  <2> QED
    BY <2>3
<1>5. level \in [Nodes -> Nat]
  <2>1. \A v \in Nodes : level[v] \in Nat
    BY <1>3
  <2> QED
    BY <2>1
<1> HIDE DEF level
<1> QED
  BY <1>3, <1>4, <1>5 DEF Levels

\* How the levels of neighbours differ.
LEMMA LevelStep ==
    ASSUME NEW graph, NEW start, GraphOK(graph, start), NEW ends, WalksEnd(graph, start, ends),
           NEW level, Levels(graph, start, ends, level)
    PROVE  /\ \A v \in Neighbours(graph, start) : level[v] = 1
           /\ \A u \in Nodes : \A v \in Neighbours(graph, u) :
                 level[u] # 0 => level[v] # 0 /\ level[v] <= level[u] + 1
           /\ \A v \in Nodes : level[v] = 1 => v \in Neighbours(graph, start)
           /\ \A v \in Nodes : level[v] > 1 =>
                 \E u \in Nodes : level[u] # 0 /\ level[u] + 1 = level[v] /\ v \in Neighbours(graph, u)
<1>1. \A v \in Nodes : level[v] \in Nat
  BY DEF Levels
<1>2. ends[1] = Neighbours(graph, start)
  <2>1. ends[0 + 1] = UNION {Neighbours(graph, x) : x \in ends[0]} /\ ends[0] = {start}
    BY DEF WalksEnd
  <2>2. UNION {Neighbours(graph, x) : x \in {start}} = Neighbours(graph, start)
    OBVIOUS
  <2>3. 0 + 1 = 1
    OBVIOUS
  <2> QED
    BY <2>1, <2>2, <2>3
<1>3. ASSUME NEW v \in Neighbours(graph, start) PROVE level[v] = 1
  <2>1. v \in Nodes
    BY NeighboursAre
  <2>2. 1 \in Nat \ {0} /\ v \in ends[1]
    BY <1>2
  <2>3. level[v] # 0 /\ level[v] <= 1
    BY <2>2 DEF Levels
  <2> QED
    BY <1>1, <2>1, <2>3
<1>4. ASSUME NEW u \in Nodes, NEW v \in Neighbours(graph, u), level[u] # 0
      PROVE  level[v] # 0 /\ level[v] <= level[u] + 1
  <2>1. u \in ends[level[u]] /\ level[u] \in Nat
    BY <1>1, <1>4 DEF Levels
  <2>2. ends[level[u] + 1] = UNION {Neighbours(graph, x) : x \in ends[level[u]]}
    BY <2>1 DEF WalksEnd
  <2>3. v \in ends[level[u] + 1] /\ level[u] + 1 \in Nat \ {0}
    BY <2>1, <2>2
  <2> QED
    BY <2>3 DEF Levels
<1>5. ASSUME NEW v \in Nodes, level[v] = 1 PROVE v \in Neighbours(graph, start)
  BY <1>2, <1>5 DEF Levels
<1>6. ASSUME NEW v \in Nodes, level[v] > 1
      PROVE  \E u \in Nodes : level[u] # 0 /\ level[u] + 1 = level[v] /\ v \in Neighbours(graph, u)
  <2>1. PICK n \in Nat \ {0} : n + 1 = level[v]
    <3>1. level[v] - 1 \in Nat \ {0} /\ (level[v] - 1) + 1 = level[v]
      BY <1>1, <1>6
    <3> QED
      BY <3>1
  <2>2. v \in ends[n + 1]
    BY <1>6, <2>1 DEF Levels
  <2>3. ends[n + 1] = UNION {Neighbours(graph, x) : x \in ends[n]} /\ ends[n] \subseteq Nodes
    BY <2>1 DEF WalksEnd
  <2>4. PICK u \in ends[n] : v \in Neighbours(graph, u)
    BY <2>2, <2>3
  <2>5. u \in Nodes /\ level[u] # 0 /\ level[u] <= n
    BY <2>1, <2>3, <2>4 DEF Levels
  <2>6. level[v] <= level[u] + 1
    BY <1>4, <2>4, <2>5
  <2>7. level[u] + 1 = level[v]
    BY <1>1, <2>1, <2>5, <2>6
  <2> QED
    BY <2>4, <2>5, <2>7
<1> QED
  BY <1>3, <1>4, <1>5, <1>6

\* No node is farther than there are nodes.
LEMMA LevelBound ==
    ASSUME NEW graph, NEW start, GraphOK(graph, start), NEW ends, WalksEnd(graph, start, ends),
           NEW level, Levels(graph, start, ends, level), NEW v \in Nodes
    PROVE  level[v] <= Cardinality(Nodes)
<1> DEFINE Lower(n) == \A u \in Nodes : level[u] = n => \A k \in 1 .. n : \E w \in Nodes : level[w] = k
           S == {n \in Nat : Lower(n)}
<1>1. \A u \in Nodes : level[u] \in Nat
  BY DEF Levels
<1>2. 0 \in S
  OBVIOUS
<1>3. ASSUME NEW n \in Nat, n \in S PROVE n + 1 \in S
  <2> SUFFICES ASSUME NEW u \in Nodes, level[u] = n + 1, NEW k \in 1 .. n + 1
               PROVE  \E w \in Nodes : level[w] = k
    OBVIOUS
  <2>1. CASE k = n + 1
    BY <2>1
  <2>2. CASE k # n + 1
    <3>1. k \in 1 .. n /\ level[u] > 1
      BY <2>2
    <3>2. PICK w \in Nodes : level[w] + 1 = level[u]
      BY <3>1, LevelStep
    <3>3. level[w] = n
      BY <1>1, <3>2
    <3> QED
      BY <1>3, <3>1, <3>3
  <2> QED
    BY <2>1, <2>2
<1>4. Nat \subseteq S
  <2> HIDE DEF S
  <2> QED
    BY <1>2, <1>3, AllNumbers
<1>5. PICK n \in Nat : n = level[v]
  BY <1>1
<1>6. \A k \in 1 .. n : \E w \in Nodes : level[w] = k
  BY <1>4, <1>5
<1> DEFINE f == [k \in 1 .. n |-> CHOOSE w \in Nodes : level[w] = k]
<1>7. \A k \in 1 .. n : f[k] \in Nodes /\ level[f[k]] = k
  BY <1>6
<1>8. f \in [1 .. n -> Nodes]
  BY <1>7
<1>9. f \in Injection(1 .. n, Nodes)
  <2> HIDE DEF f
  <2> QED
    BY <1>7, <1>8 DEF Injection, IsInjective
<1>10. IsFiniteSet(Nodes)
  BY AlgorithmsAssumption
<1>11. Cardinality(1 .. n) <= Cardinality(Nodes)
  <2> HIDE DEF f
  <2> QED
    BY <1>9, <1>10, FS_Injection
<1>12. Cardinality(1 .. n) = n
  BY FS_Interval
<1> QED
  BY <1>5, <1>11, <1>12

\* What has been searched: the queue holds what is searched and has not been looked
\* at, by its level, and what has been looked at is not wanted and is no farther.
SearchSoFar(graph, start, wanted, level, queue, searched) ==
    /\ queue \in Seq(Nodes) /\ ToSet(queue) \subseteq searched
    /\ searched \subseteq {v \in Nodes : level[v] # 0} /\ Neighbours(graph, start) \subseteq searched
    /\ \A u \in searched \ ToSet(queue) :
          u \notin wanted /\ Neighbours(graph, u) \subseteq searched
    /\ \A i \in 1 .. Len(queue) : \A j \in i .. Len(queue) :
          level[queue[i]] <= level[queue[j]] /\ level[queue[j]] <= level[queue[i]] + 1
    /\ \A u \in searched \ ToSet(queue) : \A v \in ToSet(queue) : level[u] <= level[v]

\* No wanted node is nearer than the result.
Nearest(wanted, level, result) ==
    IF result = Nothing THEN \A v \in wanted : level[v] = 0
    ELSE /\ result \in wanted /\ level[result] # 0
         /\ \A v \in wanted : level[v] # 0 => level[result] <= level[v]

\* What is nearer than the whole queue has been searched.
LEMMA NearIsSearched ==
    ASSUME NEW graph, NEW start, GraphOK(graph, start), NEW ends, WalksEnd(graph, start, ends),
           NEW level, Levels(graph, start, ends, level), NEW wanted, NEW queue, NEW searched,
           SearchSoFar(graph, start, wanted, level, queue, searched),
           NEW b \in Nat, \A u \in ToSet(queue) : b <= level[u]
    PROVE  \A v \in Nodes : level[v] \in 1 .. b => v \in searched
<1> DEFINE S == {n \in Nat : n <= b => \A v \in Nodes : level[v] \in 1 .. n => v \in searched}
<1>1. \A u \in Nodes : level[u] \in Nat
  BY DEF Levels
<1>2. 0 \in S
  OBVIOUS
<1>3. ASSUME NEW n \in Nat, n \in S PROVE n + 1 \in S
  <2> SUFFICES ASSUME n + 1 <= b, NEW v \in Nodes, level[v] \in 1 .. n + 1
               PROVE  v \in searched
    OBVIOUS
  <2>1. CASE level[v] \in 1 .. n
    BY <1>3, <2>1
  <2>2. CASE level[v] = 1
    BY <2>2, LevelStep DEF SearchSoFar
  <2>3. CASE level[v] > 1 /\ level[v] = n + 1
    <3>1. PICK u \in Nodes : level[u] # 0 /\ level[u] + 1 = level[v] /\ v \in Neighbours(graph, u)
      BY <2>3, LevelStep
    <3>2. level[u] = n /\ n # 0
      BY <1>1, <2>3, <3>1
    <3>3. u \in searched /\ u \notin ToSet(queue)
      BY <1>1, <1>3, <3>2
    <3> QED
      BY <3>1, <3>3 DEF SearchSoFar
  <2> QED
    BY <1>1, <2>1, <2>2, <2>3
<1>4. b \in S
  <2> HIDE DEF S
  <2> QED
    BY <1>2, <1>3, AllNumbers
<1> QED
  BY <1>4

LEMMA SearchStartsWith ==
    ASSUME NEW graph, NEW start, GraphOK(graph, start), NEW ends, WalksEnd(graph, start, ends),
           NEW level, Levels(graph, start, ends, level), NEW wanted
    PROVE  SearchSoFar(graph, start, wanted, level, GetOrElse(graph, start),
                       ToSet(GetOrElse(graph, start)))
<1>1. PICK queue : queue = GetOrElse(graph, start)
  OBVIOUS
<1>2. queue \in Seq(Nodes) /\ ToSet(queue) \subseteq Nodes /\ ToSet(queue) = Neighbours(graph, start)
  BY <1>1, NeighboursAre DEF Neighbours
<1>3. \A v \in ToSet(queue) : level[v] = 1
  BY <1>2, LevelStep
<1>4. \A i \in 1 .. Len(queue) : queue[i] \in ToSet(queue)
  BY <1>2, ToSetIs
<1>5. ASSUME NEW i \in 1 .. Len(queue), NEW j \in i .. Len(queue)
      PROVE  level[queue[i]] = 1 /\ level[queue[j]] = 1
  <2>1. j \in 1 .. Len(queue)
    OBVIOUS
  <2> QED
    BY <1>3, <1>4, <2>1
<1>6. SearchSoFar(graph, start, wanted, level, queue, ToSet(queue))
  BY <1>2, <1>3, <1>5 DEF SearchSoFar
<1> QED
  BY <1>1, <1>6

LEMMA HeadIsNearest ==
    ASSUME NEW graph, NEW start, NEW ends, NEW level, Levels(graph, start, ends, level),
           NEW wanted, NEW queue, NEW searched,
           SearchSoFar(graph, start, wanted, level, queue, searched), queue # <<>>
    PROVE  /\ Head(queue) = queue[1] /\ Head(queue) \in ToSet(queue) /\ Head(queue) \in Nodes
           /\ level[Head(queue)] \in Nat \ {0}
           /\ \A u \in ToSet(queue) :
                 level[Head(queue)] <= level[u] /\ level[u] <= level[Head(queue)] + 1
<1>1. queue \in Seq(Nodes) /\ Len(queue) \in Nat \ {0}
  BY DEF SearchSoFar
<1>2. Head(queue) = queue[1] /\ 1 \in 1 .. Len(queue)
  BY <1>1
<1>3. ToSet(queue) = {queue[i] : i \in 1 .. Len(queue)}
  BY <1>1, ToSetIs
<1>4. Head(queue) \in ToSet(queue)
  BY <1>2, <1>3
<1>5. Head(queue) \in Nodes /\ level[Head(queue)] # 0 /\ level[Head(queue)] \in Nat
  BY <1>4 DEF SearchSoFar, Levels
<1>6. ASSUME NEW u \in ToSet(queue)
      PROVE  level[queue[1]] <= level[u] /\ level[u] <= level[queue[1]] + 1
  <2>1. PICK j \in 1 .. Len(queue) : u = queue[j]
    BY <1>3
  <2> QED
    BY <1>2, <2>1 DEF SearchSoFar
<1> QED
  BY <1>2, <1>4, <1>5, <1>6

LEMMA SearchEndsWith ==
    ASSUME NEW graph, NEW start, GraphOK(graph, start), NEW ends, WalksEnd(graph, start, ends),
           NEW level, Levels(graph, start, ends, level), NEW wanted \in SUBSET Nodes,
           NEW queue, NEW searched,
           SearchSoFar(graph, start, wanted, level, queue, searched)
    PROVE  /\ queue = <<>> => Nearest(wanted, level, Nothing)
           /\ queue # <<>> /\ Head(queue) \in wanted => Nearest(wanted, level, Head(queue))
<1>1. \A u \in Nodes : level[u] \in Nat
  BY DEF Levels
<1>2. ASSUME queue = <<>>, NEW v \in wanted, level[v] # 0 PROVE FALSE
  <2>1. ToSet(queue) = {}
    BY <1>2 DEF ToSet
  <2>2. PICK b \in Nat : b = level[v]
    BY <1>1
  <2>3. b \in 1 .. b
    BY <1>2, <2>2
  <2>4. v \in searched
    BY <2>1, <2>2, <2>3, NearIsSearched
  <2> QED
    BY <2>1, <2>4 DEF SearchSoFar
<1>3. ASSUME queue # <<>>, Head(queue) \in wanted PROVE Nearest(wanted, level, Head(queue))
  <2>1. PICK person : person = Head(queue)
    OBVIOUS
  <2>2. /\ person \in ToSet(queue) /\ person \in Nodes /\ level[person] \in Nat \ {0}
        /\ \A u \in ToSet(queue) : level[person] <= level[u]
    BY <1>3, <2>1, HeadIsNearest
  <2>3. ASSUME NEW v \in wanted, level[v] # 0, level[v] < level[person] PROVE FALSE
    <3>1. level[v] \in 1 .. level[person]
      BY <1>1, <2>2, <2>3
    <3>2. v \in searched
      BY <2>2, <3>1, NearIsSearched
    <3>3. v \notin ToSet(queue)
      BY <1>1, <2>2, <2>3
    <3> QED
      BY <3>2, <3>3 DEF SearchSoFar
  <2>4. person # Nothing
    BY <2>2, AlgorithmsAssumption
  <2>5. \A v \in wanted : level[v] # 0 => level[person] <= level[v]
    BY <1>1, <2>2, <2>3
  <2> QED
    BY <1>3, <2>1, <2>2, <2>4, <2>5 DEF Nearest
<1> QED
  BY <1>2, <1>3 DEF Nearest

LEMMA SearchGoesOn ==
    ASSUME NEW graph, NEW start, GraphOK(graph, start), NEW ends, WalksEnd(graph, start, ends),
           NEW level, Levels(graph, start, ends, level), NEW wanted, NEW queue, NEW searched,
           SearchSoFar(graph, start, wanted, level, queue, searched), queue # <<>>,
           NEW person, person = Head(queue), person \notin wanted,
           NEW pendings, pendings = Pending(GetOrElse(graph, person), searched)
    PROVE  SearchSoFar(graph, start, wanted, level, Tail(queue) \o pendings,
                       searched \cup ToSet(pendings))
<1>1. \A u \in Nodes : level[u] \in Nat
  BY DEF Levels
<1>2. /\ person = queue[1] /\ person \in ToSet(queue) /\ person \in Nodes /\ level[person] \in Nat \ {0}
      /\ \A u \in ToSet(queue) : level[person] <= level[u] /\ level[u] <= level[person] + 1
  BY HeadIsNearest
<1>3. GetOrElse(graph, person) \in Seq(Nodes) /\ Neighbours(graph, person) \subseteq Nodes
  BY NeighboursAre
<1>4. pendings \in Seq(Nodes) /\ ToSet(pendings) = Neighbours(graph, person) \ searched
  BY <1>3, PendingIs DEF Neighbours
<1>5. queue \in Seq(Nodes) /\ ToSet(queue) \subseteq searched /\ searched \subseteq Nodes
  BY DEF SearchSoFar
<1>6. PICK rest : rest = Tail(queue)
  OBVIOUS
<1>7. /\ rest \in Seq(Nodes) /\ Len(queue) \in Nat \ {0} /\ Len(rest) = Len(queue) - 1
      /\ \A i \in 1 .. Len(rest) : rest[i] = queue[i + 1]
  BY <1>5, <1>6
<1>8. ToSet(queue) = ToSet(rest) \cup {person}
  <2>1. ToSet(queue) = {queue[i] : i \in 1 .. Len(queue)}
    BY <1>5, ToSetIs
  <2>2. ToSet(rest) = {rest[i] : i \in 1 .. Len(rest)}
    BY <1>7, ToSetIs
  <2>3. ASSUME NEW x \in ToSet(queue) PROVE x \in ToSet(rest) \cup {person}
    <3>1. PICK i \in 1 .. Len(queue) : x = queue[i]
      BY <2>1
    <3>2. i = 1 \/ (i - 1 \in 1 .. Len(rest) /\ (i - 1) + 1 = i)
      BY <1>7
    <3> QED
      BY <1>2, <1>7, <2>2, <3>1, <3>2
  <2>4. ASSUME NEW x \in ToSet(rest) PROVE x \in ToSet(queue)
    <3>1. PICK i \in 1 .. Len(rest) : x = rest[i]
      BY <2>2
    <3>2. i + 1 \in 1 .. Len(queue)
      BY <1>7
    <3> QED
      BY <1>7, <2>1, <3>1, <3>2
  <2> QED
    BY <1>2, <2>3, <2>4
<1>9. ASSUME NEW v \in ToSet(pendings) PROVE v \in Nodes /\ level[v] = level[person] + 1
  <2>1. v \in Nodes /\ v \in Neighbours(graph, person) /\ v \notin searched
    BY <1>3, <1>4
  <2>2. level[v] # 0 /\ level[v] <= level[person] + 1
    BY <1>2, <2>1, LevelStep
  <2>3. ~(level[v] \in 1 .. level[person])
    BY <1>2, <2>1, NearIsSearched
  <2> QED
    BY <1>1, <1>2, <2>1, <2>2, <2>3
<1>10. PICK next : next = rest \o pendings
  OBVIOUS
<1>11. /\ next \in Seq(Nodes) /\ Len(next) = Len(rest) + Len(pendings)
       /\ Len(rest) \in Nat /\ Len(pendings) \in Nat
       /\ \A i \in 1 .. Len(rest) + Len(pendings) :
             next[i] = IF i <= Len(rest) THEN rest[i] ELSE pendings[i - Len(rest)]
  BY <1>4, <1>7, <1>10, ConcatProperties
<1>12. ToSet(next) = ToSet(rest) \cup ToSet(pendings)
  BY <1>4, <1>7, <1>10, ToSetConcat
<1>13. PICK all : all = searched \cup ToSet(pendings)
  OBVIOUS
<1>14. all \subseteq {v \in Nodes : level[v] # 0} /\ Neighbours(graph, start) \subseteq all
       /\ ToSet(next) \subseteq all
  BY <1>2, <1>5, <1>8, <1>9, <1>12, <1>13 DEF SearchSoFar
<1>15. ASSUME NEW u \in all \ ToSet(next)
       PROVE  u \notin wanted /\ Neighbours(graph, u) \subseteq all /\ u \in Nodes
              /\ level[u] <= level[person]
  <2>1. u \in searched /\ (u = person \/ u \notin ToSet(queue))
    BY <1>8, <1>12, <1>13
  <2>2. CASE u = person
    BY <1>2, <1>4, <1>13, <2>2
  <2>3. CASE u \notin ToSet(queue)
    BY <1>2, <1>5, <1>13, <2>1, <2>3 DEF SearchSoFar
  <2> QED
    BY <2>1, <2>2, <2>3
<1>16. ASSUME NEW v \in ToSet(next)
       PROVE  v \in Nodes /\ level[person] <= level[v] /\ level[v] <= level[person] + 1
  BY <1>1, <1>2, <1>5, <1>8, <1>9, <1>12
<1>17. ASSUME NEW i \in 1 .. Len(next), NEW j \in i .. Len(next)
       PROVE  level[next[i]] <= level[next[j]] /\ level[next[j]] <= level[next[i]] + 1
  <2>1. j \in 1 .. Len(next) /\ next[i] \in ToSet(next) /\ next[j] \in ToSet(next)
    <3>1. i \in 1 .. Len(next) /\ j \in 1 .. Len(next)
      BY <1>11
    <3>2. ToSet(next) = {next[x] : x \in 1 .. Len(next)}
      BY <1>11, ToSetIs
    <3> QED
      BY <3>1, <3>2
  <2>2. CASE j <= Len(rest)
    <3>1. i \in 1 .. Len(rest) /\ j \in 1 .. Len(rest)
      BY <1>11, <2>2
    <3>2. /\ i <= Len(rest) /\ j <= Len(rest)
          /\ i \in 1 .. Len(rest) + Len(pendings) /\ j \in 1 .. Len(rest) + Len(pendings)
      BY <1>11, <3>1
    <3>3. next[i] = rest[i] /\ next[j] = rest[j]
      BY <1>11, <3>2
    <3>4. next[i] = queue[i + 1] /\ next[j] = queue[j + 1]
      BY <1>7, <3>1, <3>3
    <3>5. i + 1 \in 1 .. Len(queue) /\ j + 1 \in i + 1 .. Len(queue)
      BY <1>7, <3>1
    <3> QED
      BY <3>4, <3>5 DEF SearchSoFar
  <2>3. CASE ~(j <= Len(rest))
    <3>1. j - Len(rest) \in 1 .. Len(pendings) /\ next[j] = pendings[j - Len(rest)]
      BY <1>11, <2>1, <2>3
    <3>2. next[j] \in ToSet(pendings)
      BY <1>4, <3>1, ToSetIs
    <3>3. level[next[j]] = level[person] + 1
      BY <1>9, <3>2
    <3>4. level[next[i]] \in Nat /\ level[person] <= level[next[i]]
          /\ level[next[i]] <= level[person] + 1
      BY <1>1, <1>16, <2>1
    <3> QED
      BY <1>2, <3>3, <3>4
  <2> QED
    BY <2>2, <2>3
<1>18. ASSUME NEW u \in all \ ToSet(next), NEW v \in ToSet(next) PROVE level[u] <= level[v]
  BY <1>1, <1>2, <1>15, <1>16
<1>19. SearchSoFar(graph, start, wanted, level, next, all)
  BY <1>11, <1>14, <1>15, <1>17, <1>18 DEF SearchSoFar
<1> QED
  BY <1>6, <1>10, <1>13, <1>19

------------------------------------------------------------------------------

SearchOK ==
    call.function = "breadthFirstSearch" =>
       /\ GraphOK(call.args.graph, call.args.start) /\ call.args.wanted \in SUBSET Nodes
       /\ \E level :
             /\ Levels(call.args.graph, call.args.start, WalkEnds(call.args.graph, call.args.start),
                       level)
             /\ call.outcome = "running" =>
                   SearchSoFar(call.args.graph, call.args.start, call.args.wanted, level,
                               call.locals.queue, call.locals.searched)
             /\ call.outcome = "returned" => Nearest(call.args.wanted, level, call.result)

LEMMA SearchStarts == Init => SearchOK
<1> SUFFICES ASSUME Init, call.function = "breadthFirstSearch" PROVE SearchOK
  BY DEF SearchOK
<1>0. PICK keys \in SUBSET Nodes :
         \E graph \in [keys -> Seq(Nodes)] : \E start \in Nodes : \E wanted \in SUBSET Nodes :
            call = BreadthFirst(graph, start, wanted)
  BY CallStarts
<1>1. PICK graph \in [keys -> Seq(Nodes)], start \in Nodes, wanted \in SUBSET Nodes :
         call = BreadthFirst(graph, start, wanted)
  BY <1>0
<1>2. /\ call.args.graph = graph /\ call.args.start = start /\ call.args.wanted = wanted
      /\ call.outcome = "running" /\ call.locals.queue = GetOrElse(graph, start)
      /\ call.locals.searched = ToSet(GetOrElse(graph, start))
  BY <1>1 DEF BreadthFirst, CallOf
<1>3. GraphOK(graph, start)
  BY DEF GraphOK
<1>4. WalksEnd(graph, start, WalkEnds(graph, start))
  BY <1>3, WalkEndsIs
<1>5. PICK level : Levels(graph, start, WalkEnds(graph, start), level)
  BY <1>4, LevelsExist
<1>6. SearchSoFar(graph, start, wanted, level, GetOrElse(graph, start),
                  ToSet(GetOrElse(graph, start)))
  BY <1>3, <1>4, <1>5, SearchStartsWith
<1> QED
  BY <1>2, <1>3, <1>5, <1>6 DEF SearchOK

LEMMA SearchStep == CallOK /\ SearchOK /\ [Next]_call => SearchOK'
<1> SUFFICES ASSUME CallOK, SearchOK, [Next]_call, call.function = "breadthFirstSearch" PROVE SearchOK'
  BY CallKept DEF SearchOK
<1>1. call'.function = call.function /\ call'.args = call.args
  BY CallKept
<1>2. CASE call' = call
  BY <1>2 DEF SearchOK
<1>3. CASE SearchNext
  <2>1. PICK graph, start, wanted, queue, searched, person, pendings :
           /\ graph = call.args.graph /\ start = call.args.start /\ wanted = call.args.wanted
           /\ queue = call.locals.queue /\ searched = call.locals.searched /\ person = Head(queue)
           /\ pendings = Pending(GetOrElse(graph, person), searched)
    OBVIOUS
  <2>2. call.outcome = "running"
    BY <1>3 DEF SearchNext, Running
  <2>3. GraphOK(graph, start) /\ wanted \in SUBSET Nodes
    BY <2>1 DEF SearchOK
  <2>4. PICK ends : ends = WalkEnds(graph, start)
    OBVIOUS
  <2>5. WalksEnd(graph, start, ends)
    BY <2>3, <2>4, WalkEndsIs
  <2>6. PICK level : /\ Levels(graph, start, ends, level)
                     /\ SearchSoFar(graph, start, wanted, level, queue, searched)
    BY <2>1, <2>2, <2>4 DEF SearchOK
  <2>7. ASSUME NEW result, Return(result), Nearest(wanted, level, result) PROVE SearchOK'
    <3>1. call'.outcome = "returned" /\ call'.result = result
      BY <2>7, CallEnds DEF Return
    <3> QED
      BY <1>1, <2>1, <2>3, <2>4, <2>6, <2>7, <3>1 DEF SearchOK
  <2>8. ASSUME queue # <<>>, person \notin wanted,
               Continue([queue |-> Tail(queue) \o pendings, searched |-> searched \cup ToSet(pendings)])
        PROVE  SearchOK'
    <3>1. SearchSoFar(graph, start, wanted, level, Tail(queue) \o pendings,
                      searched \cup ToSet(pendings))
      BY <2>1, <2>3, <2>5, <2>6, <2>8, SearchGoesOn
    <3>2. PICK rest, found, next : /\ rest = Tail(queue) \o pendings
                                   /\ found = searched \cup ToSet(pendings)
                                   /\ next = [queue |-> rest, searched |-> found]
      OBVIOUS
    <3>3. Continue(next)
      BY <2>8, <3>2
    <3>4. call'.outcome = "running" /\ call'.locals = next
      BY <2>2, <3>3, Continues
    <3>5. call'.locals.queue = rest /\ call'.locals.searched = found
      BY <3>2, <3>4
    <3>6. SearchSoFar(graph, start, wanted, level, rest, found)
      BY <3>1, <3>2
    <3> QED
      BY <1>1, <2>1, <2>3, <2>4, <2>6, <3>4, <3>5, <3>6 DEF SearchOK
  <2>9. \/ queue = <<>> /\ Return(Nothing)
        \/ queue # <<>> /\ person \in wanted /\ Return(person)
        \/ /\ queue # <<>> /\ person \notin wanted
           /\ Continue([queue |-> Tail(queue) \o pendings, searched |-> searched \cup ToSet(pendings)])
    BY <1>3, <2>1 DEF SearchNext, Enqueue
  <2>10. /\ queue = <<>> => Nearest(wanted, level, Nothing)
         /\ queue # <<>> /\ person \in wanted => Nearest(wanted, level, person)
    BY <2>1, <2>3, <2>5, <2>6, SearchEndsWith
  <2> QED
    BY <2>7, <2>8, <2>9, <2>10
<1> QED
  BY <1>2, <1>3, ItsSteps

LEMMA SearchFollows == SearchOK => NearestFound
<1> SUFFICES ASSUME SearchOK, call.function = "breadthFirstSearch", call.outcome = "returned"
             PROVE  NearestFound
  BY DEF NearestFound, Returned
<1>1. PICK graph, start, wanted, result, ends :
         /\ graph = call.args.graph /\ start = call.args.start /\ wanted = call.args.wanted
         /\ result = call.result /\ ends = WalkEnds(graph, start)
  OBVIOUS
<1>2. GraphOK(graph, start) /\ wanted \in SUBSET Nodes
  BY <1>1 DEF SearchOK
<1>3. WalksEnd(graph, start, ends)
  BY <1>1, <1>2, WalkEndsIs
<1>4. PICK level : Levels(graph, start, ends, level) /\ Nearest(wanted, level, result)
  BY <1>1 DEF SearchOK
<1>5. PICK found : found = {n \in 1 .. Cardinality(Nodes) : ends[n] \cap wanted # {}}
  OBVIOUS
<1>6. \A v \in Nodes : level[v] \in Nat /\ level[v] <= Cardinality(Nodes)
  BY <1>2, <1>3, <1>4, LevelBound DEF Levels
<1>7. Cardinality(Nodes) \in Nat
  BY AlgorithmsAssumption, FS_CardinalityType
<1>8. ASSUME NEW n \in found PROVE \E v \in wanted : level[v] # 0 /\ level[v] <= n
  <2>1. n \in Nat \ {0} /\ ends[n] \cap wanted # {}
    BY <1>5, <1>7
  <2> QED
    BY <1>4, <2>1 DEF Levels
<1>9. ASSUME NEW v \in wanted, level[v] # 0 PROVE level[v] \in found /\ v \in ends[level[v]]
  <2>1. v \in ends[level[v]]
    BY <1>2, <1>4, <1>9 DEF Levels
  <2>2. level[v] \in 1 .. Cardinality(Nodes)
    BY <1>2, <1>6, <1>7, <1>9
  <2> QED
    BY <1>5, <2>1, <2>2
<1>10. CASE result = Nothing
  <2>1. found = {}
    BY <1>4, <1>8, <1>10 DEF Nearest
  <2> QED
    BY <1>1, <1>5, <1>10, <2>1 DEF NearestFound
<1>11. CASE result # Nothing
  <2>1. result \in wanted /\ level[result] # 0
        /\ \A v \in wanted : level[v] # 0 => level[result] <= level[v]
    BY <1>4, <1>11 DEF Nearest
  <2>2. level[result] \in found /\ result \in ends[level[result]]
    BY <1>9, <2>1
  <2>3. found \subseteq Nat /\ found # {}
    BY <1>5, <1>7, <2>2
  <2>4. PICK m : m = Min(found)
    OBVIOUS
  <2>5. m \in found /\ \A n \in found : m <= n
    BY <2>3, <2>4, MinIs
  <2>6. PICK v \in wanted : level[v] # 0 /\ level[v] <= m
    BY <1>8, <2>5
  <2>7. m = level[result]
    <3>1. m \in Nat /\ level[result] \in Nat /\ level[v] \in Nat
      BY <1>2, <1>6, <2>1, <2>3, <2>5
    <3>2. m <= level[result] /\ level[result] <= level[v]
      BY <2>1, <2>2, <2>5, <2>6
    <3> QED
      BY <2>6, <3>1, <3>2
  <2>8. result \in ends[Min(found)] \cap wanted
    BY <2>1, <2>2, <2>4, <2>7
  <2> QED
    BY <1>1, <1>5, <2>3, <2>8 DEF NearestFound
<1> QED
  BY <1>10, <1>11

\* breadthFirstSearch finds a wanted node exactly if one can be reached by an edge
\* or more, and none is nearer.
THEOREM WantedIsFound == Spec => []NearestFound
<1>1. Init => CallOK /\ SearchOK
  BY CallStartsOK, SearchStarts
<1>2. CallOK /\ SearchOK /\ [Next]_call => (CallOK /\ SearchOK)'
  BY CallStepOK, SearchStep
<1>3. SearchOK => NearestFound
  BY SearchFollows
<1> QED
  BY <1>1, <1>2, <1>3, PTL DEF Spec

------------------------------------------------------------------------------
(* dijkstraSearch: paths and what they cost.                               *)

\* A graph whose costs are w at most, and which holds start.
CostsUpTo(graph, start, w) ==
    /\ start \in DOMAIN graph /\ DOMAIN graph \subseteq Nodes
    /\ \A n \in DOMAIN graph :
          DOMAIN graph[n] \subseteq Nodes /\ \A m \in DOMAIN graph[n] : graph[n][m] \in 0 .. w

Edges(graph, path) ==
    \A i \in 1 .. Len(path) - 1 :
       path[i] \in DOMAIN graph /\ path[i + 1] \in DOMAIN graph[path[i]]

\* What the path costs up to each of its nodes.
CostsAlong(graph, path, costs) ==
    /\ costs \in [1 .. Len(path) -> Int] /\ costs[1] = 0
    /\ \A i \in 1 .. Len(path) - 1 : costs[i + 1] = costs[i] + graph[path[i]][path[i + 1]]

LEMMA CostsAlongExist ==
    ASSUME NEW graph, NEW start, NEW w \in Nat, CostsUpTo(graph, start, w),
           NEW path \in Seq(Nodes), path # <<>>, Edges(graph, path)
    PROVE  \E costs : CostsAlong(graph, path, costs) /\ costs[Len(path)] = CostOf(graph, path)
<1>1. PICK n \in Nat \ {0} : n = Len(path) /\ DOMAIN path = 1 .. n
  OBVIOUS
<1> DEFINE ids == [i \in DOMAIN path |-> i]
           op == [p \in (1 .. n) \X Int |->
                    IF p[1] = n THEN p[2] ELSE p[2] + graph[path[p[1]]][path[p[1] + 1]]]
           It(g) == g = [t \in SUBSET (DOMAIN ids) |->
                           IF t = {} THEN 0
                           ELSE IF ids[Max(t)] = Len(path) THEN g[t \ {Max(t)}]
                                ELSE g[t \ {Max(t)}]
                                       + graph[path[ids[Max(t)]]][path[ids[Max(t)] + 1]]]
           I == CHOOSE g : It(g)
           f == [k \in 1 .. n |-> I[1 .. (k - 1)]]
<1>2. \A i \in 1 .. n : i # n => graph[path[i]][path[i + 1]] \in Int
  <2> SUFFICES ASSUME NEW i \in 1 .. n, i # n PROVE graph[path[i]][path[i + 1]] \in Int
    OBVIOUS
  <2>1. i \in 1 .. Len(path) - 1
    BY <1>1
  <2>2. path[i] \in DOMAIN graph /\ path[i + 1] \in DOMAIN graph[path[i]]
    BY <2>1 DEF Edges
  <2> QED
    BY <2>2 DEF CostsUpTo
<1>3. op \in [(1 .. n) \X Int -> Int]
  <2>1. ASSUME NEW p \in (1 .. n) \X Int
        PROVE  (IF p[1] = n THEN p[2] ELSE p[2] + graph[path[p[1]]][path[p[1] + 1]]) \in Int
    <3>1. PICK i \in 1 .. n, x \in Int : p[1] = i /\ p[2] = x
      OBVIOUS
    <3> QED
      BY <1>2, <3>1
  <2> QED
    BY <2>1
<1>4. PICK g : FoldTable(g, Int, 0, op, n)
  <2>1. 0 \in Int /\ n \in Nat
    OBVIOUS
  <2> HIDE DEF op
  <2> QED
    BY <1>3, <2>1, ListFold
<1>5. DOMAIN ids = 1 .. n /\ \A i \in 1 .. n : ids[i] = i
  BY <1>1
<1>6. ASSUME NEW t \in SUBSET (1 .. n), t # {}
      PROVE  g[t] = IF ids[Max(t)] = n THEN g[t \ {Max(t)}]
                    ELSE g[t \ {Max(t)}] + graph[path[ids[Max(t)]]][path[ids[Max(t)] + 1]]
  <2>1. PICK m : m = Max(t)
    OBVIOUS
  <2>2. m \in 1 .. n
    BY <1>1, <1>6, <2>1, MaxIn
  <2>3. g[t \ {m}] \in Int
    BY <1>4 DEF FoldTable
  <2>4. \A y \in Int : op[<<m, y>>] = IF m = n THEN y ELSE y + graph[path[m]][path[m + 1]]
    BY <2>2
  <2>5. g[t] = op[<<m, g[t \ {m}]>>]
    <3> HIDE DEF op
    <3> QED
      BY <1>4, <1>6, <2>1 DEF FoldTable
  <2> HIDE DEF op, ids
  <2> QED
    BY <1>5, <2>1, <2>2, <2>3, <2>4, <2>5
<1>7. It(g)
  <2> HIDE DEF op, ids
  <2> QED
    BY <1>1, <1>4, <1>5, <1>6 DEF FoldTable
<1>8. It(I)
  <2> HIDE DEF It
  <2> QED
    BY <1>7
<1>9. I[{}] = 0 /\ 1 .. 0 = {}
  <2> HIDE DEF I, ids
  <2> QED
    BY <1>5, <1>8
<1>10. ASSUME NEW k \in 1 .. n
       PROVE  I[1 .. k] = IF k = n THEN I[1 .. (k - 1)]
                          ELSE I[1 .. (k - 1)] + graph[path[k]][path[k + 1]]
  <2>1. Max(1 .. k) = k /\ (1 .. k) \ {k} = 1 .. (k - 1) /\ 1 .. k # {} /\ 1 .. k \in SUBSET (1 .. n)
    <3>1. k \in Nat \ {0} /\ k <= n
      OBVIOUS
    <3>2. 1 .. k # {} /\ 1 .. k \in SUBSET (1 .. n)
      <4>1. k \in 1 .. k /\ \A x \in 1 .. k : x \in 1 .. n
        BY <3>1
      <4> QED
        BY <4>1
    <3> QED
      BY <3>1, <3>2, MaxOfInterval, UpTo
  <2>2. PICK t \in SUBSET (1 .. n) : t = 1 .. k
    BY <2>1
  <2>3. t # {} /\ Max(t) = k /\ ids[Max(t)] = k /\ t \ {Max(t)} = 1 .. (k - 1)
    BY <1>5, <2>1, <2>2
  <2> HIDE DEF I, ids
  <2>4. I[t] = IF ids[Max(t)] = n THEN I[t \ {Max(t)}]
               ELSE I[t \ {Max(t)}] + graph[path[ids[Max(t)]]][path[ids[Max(t)] + 1]]
    BY <1>1, <1>5, <1>8, <2>3
  <2> QED
    BY <2>2, <2>3, <2>4
<1>11. CostOf(graph, path) = I[DOMAIN ids]
  BY DEF CostOf, FoldLeftDomain, FoldLeft, MapThenFoldSet
<1> HIDE DEF I, ids, op
<1>12. CostOf(graph, path) = I[1 .. (n - 1)]
  <2>1. n \in 1 .. n
    BY <1>1
  <2> QED
    BY <1>5, <1>10, <1>11, <2>1
<1>13. 0 .. n - 1 \subseteq {k \in Nat : I[1 .. k] \in Int}
  <2> DEFINE S == {k \in Nat : I[1 .. k] \in Int}
  <2>1. 0 \in S
    BY <1>9
  <2>2. ASSUME NEW k \in 0 .. (n - 1) - 1, k \in S PROVE k + 1 \in S
    <3>1. k + 1 \in 1 .. n /\ (k + 1) - 1 = k /\ k + 1 # n /\ k + 1 \in Nat
      BY <1>1
    <3>2. I[1 .. (k + 1)] = I[1 .. k] + graph[path[k + 1]][path[(k + 1) + 1]]
      BY <1>10, <3>1
    <3>3. graph[path[k + 1]][path[(k + 1) + 1]] \in Int
      BY <1>2, <3>1
    <3> QED
      BY <2>2, <3>1, <3>2, <3>3
  <2>3. n - 1 \in Nat
    BY <1>1
  <2> HIDE DEF S
  <2>4. 0 .. n - 1 \subseteq S
    BY <2>1, <2>2, <2>3, NumbersUpTo
  <2> QED
    BY <2>4 DEF S
<1>14. \A k \in 1 .. n : k - 1 \in 0 .. n - 1
  BY <1>1
<1>15. f \in [1 .. n -> Int]
  BY <1>13, <1>14
<1>16. f[1] = 0
  <2>1. 1 \in 1 .. n /\ 1 - 1 = 0
    BY <1>1
  <2> QED
    BY <1>9, <2>1
<1>17. f[n] = CostOf(graph, path)
  <2>1. n \in 1 .. n
    BY <1>1
  <2> QED
    BY <1>12, <2>1
<1>18. ASSUME NEW i \in 1 .. n - 1 PROVE f[i + 1] = f[i] + graph[path[i]][path[i + 1]]
  <2>1. i \in 1 .. n /\ i + 1 \in 1 .. n /\ (i + 1) - 1 = i /\ i # n
    BY <1>1
  <2>2. f[i + 1] = I[1 .. i] /\ f[i] = I[1 .. (i - 1)]
    BY <2>1
  <2> QED
    BY <1>10, <2>1, <2>2
<1>19. CostsAlong(graph, path, f)
  <2> HIDE DEF f
  <2> QED
    BY <1>1, <1>15, <1>16, <1>18 DEF CostsAlong
<1> HIDE DEF f
<1> QED
  BY <1>1, <1>17, <1>19

\* There is one such function.
LEMMA CostsAlongSame ==
    ASSUME NEW graph, NEW path \in Seq(Nodes), path # <<>>,
           NEW f, CostsAlong(graph, path, f), NEW g, CostsAlong(graph, path, g)
    PROVE  f[Len(path)] = g[Len(path)]
<1> DEFINE S == {k \in Nat : f[k + 1] = g[k + 1]}
<1>1. PICK n \in Nat \ {0} : n = Len(path)
  OBVIOUS
<1>2. 0 \in S
  BY DEF CostsAlong
<1>3. ASSUME NEW k \in 0 .. (n - 1) - 1, k \in S PROVE k + 1 \in S
  <2>1. k + 1 \in 1 .. Len(path) - 1 /\ k + 1 \in Nat
    BY <1>1
  <2> QED
    BY <1>3, <2>1 DEF CostsAlong
<1>4. 0 .. n - 1 \subseteq S
  <2>1. n - 1 \in Nat
    BY <1>1
  <2> HIDE DEF S
  <2> QED
    BY <1>2, <1>3, <2>1, NumbersUpTo
<1>5. n - 1 \in 0 .. n - 1 /\ (n - 1) + 1 = n
  BY <1>1
<1> QED
  BY <1>1, <1>4, <1>5

\* A path is no longer than there are nodes.
LEMMA PathLength ==
    ASSUME NEW path \in Seq(Nodes), IsInjective(path)
    PROVE  Len(path) <= Cardinality(Nodes)
<1>1. PICK n \in Nat : n = Len(path)
  OBVIOUS
<1>2. path \in Injection(1 .. n, Nodes)
  BY <1>1 DEF Injection
<1>3. IsFiniteSet(Nodes)
  BY AlgorithmsAssumption
<1>4. Cardinality(1 .. n) <= Cardinality(Nodes)
  BY <1>2, <1>3, FS_Injection
<1>5. Cardinality(1 .. n) = n
  BY FS_Interval
<1> QED
  BY <1>1, <1>4, <1>5

LEMMA PathsAre ==
    ASSUME NEW graph, NEW start, NEW path
    PROVE  path \in PathsFrom(graph, start) <=>
              /\ path \in Seq(Nodes) /\ path # <<>> /\ IsInjective(path)
              /\ path[1] = start /\ Edges(graph, path)
<1>1. Cardinality(Nodes) \in Nat
  BY AlgorithmsAssumption, FS_CardinalityType
<1>2. ASSUME path \in SeqOf(Nodes, Cardinality(Nodes)) PROVE path \in Seq(Nodes)
  <2>1. PICK m \in 0 .. Cardinality(Nodes) : path \in [1 .. m -> Nodes]
    BY <1>2 DEF SeqOf
  <2>2. m \in Nat
    BY <1>1
  <2> QED
    BY <2>1, <2>2
<1>3. ASSUME path \in Seq(Nodes), IsInjective(path)
      PROVE  path \in SeqOf(Nodes, Cardinality(Nodes))
  <2>1. Len(path) \in Nat /\ path \in [1 .. Len(path) -> Nodes]
    BY <1>3
  <2>2. Len(path) \in 0 .. Cardinality(Nodes)
    BY <1>1, <1>3, <2>1, PathLength
  <2> QED
    BY <2>1, <2>2 DEF SeqOf
<1>4. path \in Walks <=> path \in Seq(Nodes) /\ path # <<>> /\ IsInjective(path)
  BY <1>2, <1>3 DEF Walks
<1> QED
  BY <1>4 DEF PathsFrom, Edges

------------------------------------------------------------------------------
(* dijkstraSearch: the costs of the nodes.                                 *)

Entries(graph, start) == DOMAIN graph[start] \cup (DOMAIN graph \ {start})

Distance(costs, start, n) == IF n = start THEN 0 ELSE costs[n]

\* What a path of k nodes costs at most.
CostBound(w, k) == (k - 1) * w

\* No cost but that of start is negative; start can only be lowered below zero, by
\* an overflow, when it is the only node.
CostsOK(graph, start, w, costs, processed) ==
    /\ costs \in [Entries(graph, start) -> Int]
    /\ \A n \in Entries(graph, start) : costs[n] <= IntMax /\ (n # start => costs[n] >= 0)
    /\ start \in Entries(graph, start) =>
          costs[start] < IntMax /\ (Nodes # {start} => costs[start] \in 0 .. w)
    /\ processed \subseteq DOMAIN graph \cap Entries(graph, start)
    /\ \A u \in processed : costs[u] < IntMax

ParentsOK(graph, start, costs, parents, processed) ==
    /\ parents \in [Nodes -> processed \cup {start, Nothing}]
    /\ \A n \in Nodes : parents[n] = Nothing <=> (n \in Entries(graph, start) => costs[n] = IntMax)

\* The edges of start and of the processed nodes were looked at.
EdgesSeen(graph, start, costs, processed) ==
    \A u \in processed \cup {start} : \A v \in DOMAIN graph[u] :
       /\ v \in Entries(graph, start) /\ costs[v] < IntMax
       /\ v # start => costs[v] <= Distance(costs, start, u) + graph[u][v]

NearestFirst(graph, start, costs, processed) ==
    \A u \in processed \ {start} : \A v \in Entries(graph, start) \ (processed \cup {start}) :
       costs[u] <= costs[v]

\* The path to a node that the parents give.
Branch(graph, start, w, costs, parents, processed, path, n) ==
    /\ path \in Seq(Nodes) /\ Len(path) > 1 /\ path[1] = start /\ path[Len(path)] = n
    /\ IsInjective(path) /\ Edges(graph, path)
    /\ \A i \in 1 .. Len(path) - 1 :
          /\ path[i] \in processed \cup {start} /\ parents[path[i + 1]] = path[i]
          /\ costs[path[i + 1]] = Distance(costs, start, path[i]) + graph[path[i]][path[i + 1]]
    /\ costs[n] <= CostBound(w, Len(path))

Branches(graph, start, w, costs, parents, processed) ==
    \A n \in Entries(graph, start) \ {start} :
       costs[n] < IntMax => \E path : Branch(graph, start, w, costs, parents, processed, path, n)

TreeOK(graph, start, w, costs, parents, processed) ==
    /\ CostsOK(graph, start, w, costs, processed)
    /\ ParentsOK(graph, start, costs, parents, processed)
    /\ EdgesSeen(graph, start, costs, processed)
    /\ NearestFirst(graph, start, costs, processed)
    /\ Branches(graph, start, w, costs, parents, processed)


\* The greatest cost is so small that no path costs too much for an Int.
Cheap(w) == w \in Nat /\ Cardinality(Nodes) * w < IntMax

LEMMA CostBounds ==
    ASSUME NEW w, Cheap(w), NEW k \in Nat \ {0}
    PROVE  /\ CostBound(w, k) \in Nat /\ CostBound(w, k + 1) = CostBound(w, k) + w
           /\ CostBound(w, 1) = 0 /\ CostBound(w, 2) = w
           /\ k <= Cardinality(Nodes) => CostBound(w, k) + w < IntMax
<1>1. w \in Nat /\ Cardinality(Nodes) \in Nat
  BY AlgorithmsAssumption, FS_CardinalityType DEF Cheap
<1>2. PICK j \in Nat : j = k - 1 /\ j + 1 = k
  OBVIOUS
<1>3. CostBound(w, k) = j * w /\ CostBound(w, k + 1) = (j + 1) * w
  BY <1>2 DEF CostBound
<1>4. j * w \in Nat /\ (j + 1) * w = j * w + w
  BY <1>1, <1>2
<1>5. CostBound(w, 1) = 0 /\ CostBound(w, 2) = w
  BY <1>1 DEF CostBound
<1>6. ASSUME k <= Cardinality(Nodes) PROVE CostBound(w, k) + w < IntMax
  <2>1. PICK d \in Nat : Cardinality(Nodes) = (j + 1) + d
    <3>1. Cardinality(Nodes) - k \in Nat /\ Cardinality(Nodes) = (j + 1) + (Cardinality(Nodes) - k)
      BY <1>1, <1>2, <1>6
    <3> QED
      BY <3>1
  <2>2. ((j + 1) + d) * w = (j + 1) * w + d * w /\ (j + 1) * w \in Nat /\ d * w \in Nat
    BY <1>1, <1>2, <2>1
  <2>3. PICK x \in Nat, y \in Nat : x = (j + 1) * w /\ y = d * w
    BY <2>2
  <2>4. x + y < IntMax
    BY <2>1, <2>2, <2>3 DEF Cheap
  <2>5. x < IntMax
    BY <2>3, <2>4, CallsAssumption
  <2> QED
    BY <1>3, <1>4, <2>3, <2>5
<1> QED
  BY <1>3, <1>4, <1>5, <1>6

\* The nodes of a branch.
LEMMA BranchNodes ==
    ASSUME NEW graph, NEW start, NEW w, NEW costs, NEW parents, NEW processed, NEW path, NEW n,
           Branch(graph, start, w, costs, parents, processed, path, n)
    PROVE  /\ \A i \in 1 .. Len(path) : path[i] \in processed \cup {start, n}
           /\ \A i \in 2 .. Len(path) : path[i] # start
           /\ \A i \in 1 .. Len(path) - 1 : path[i + 1] \in (processed \cup {n}) \ {start}
<1>1. PICK m \in Nat : m = Len(path) /\ m > 1
  BY DEF Branch
<1>2. DOMAIN path = 1 .. m
  BY <1>1 DEF Branch
<1>3. ASSUME NEW i \in 1 .. m PROVE path[i] \in processed \cup {start, n}
  <2>1. CASE i = m
    BY <1>1, <2>1 DEF Branch
  <2>2. CASE i # m
    <3>1. i \in 1 .. Len(path) - 1
      BY <1>1, <2>2
    <3> QED
      BY <3>1 DEF Branch
  <2> QED
    BY <2>1, <2>2
<1>4. ASSUME NEW i \in 2 .. m PROVE path[i] # start
  <2>1. i \in DOMAIN path /\ 1 \in DOMAIN path /\ i # 1
    BY <1>1, <1>2
  <2> QED
    BY <2>1 DEF Branch, IsInjective
<1>5. ASSUME NEW i \in 1 .. m - 1 PROVE path[i + 1] \in (processed \cup {n}) \ {start}
  <2>1. i + 1 \in 1 .. m /\ i + 1 \in 2 .. m
    BY <1>1
  <2> QED
    BY <1>3, <1>4, <2>1
<1> QED
  BY <1>1, <1>3, <1>4, <1>5

\* A branch stays when its nodes keep their parents and costs.
LEMMA BranchKept ==
    ASSUME NEW graph, NEW start, NEW w, NEW costs, NEW parents, NEW processed, NEW path, NEW n,
           Branch(graph, start, w, costs, parents, processed, path, n),
           NEW costs2, NEW parents2, NEW processed2, processed \subseteq processed2,
           \A x \in (processed \cup {n}) \ {start} : costs2[x] = costs[x] /\ parents2[x] = parents[x]
    PROVE  Branch(graph, start, w, costs2, parents2, processed2, path, n)
<1>1. PICK m \in Nat : m = Len(path) /\ m > 1
  BY DEF Branch
<1>2. ASSUME NEW i \in 1 .. m - 1
      PROVE  /\ path[i] \in processed2 \cup {start} /\ parents2[path[i + 1]] = path[i]
             /\ costs2[path[i + 1]] = Distance(costs2, start, path[i]) + graph[path[i]][path[i + 1]]
  <2>1. /\ path[i] \in processed \cup {start} /\ parents[path[i + 1]] = path[i]
        /\ costs[path[i + 1]] = Distance(costs, start, path[i]) + graph[path[i]][path[i + 1]]
    BY <1>1 DEF Branch
  <2>2. path[i + 1] \in (processed \cup {n}) \ {start}
    BY <1>1, BranchNodes
  <2>3. Distance(costs2, start, path[i]) = Distance(costs, start, path[i])
    BY <2>1 DEF Distance
  <2> QED
    BY <2>1, <2>2, <2>3
<1>3. n # start
  <2>1. m \in 2 .. Len(path)
    BY <1>1
  <2>2. path[m] # start
    BY <2>1, BranchNodes
  <2> QED
    BY <1>1, <2>2 DEF Branch
<1>4. costs2[n] = costs[n]
  BY <1>3
<1> QED
  BY <1>1, <1>2, <1>4 DEF Branch

\* An edge from the end of a branch to a node that was not processed makes a branch.
LEMMA BranchGrows ==
    ASSUME NEW graph, NEW start, NEW w, Cheap(w), CostsUpTo(graph, start, w),
           NEW costs, NEW parents, NEW processed, NEW path, NEW node,
           Branch(graph, start, w, costs, parents, processed, path, node),
           node \in processed, node \in DOMAIN graph, costs[node] \in Int,
           NEW n \in DOMAIN graph[node], n \notin processed, n # start,
           parents[n] = node, costs[n] = costs[node] + graph[node][n]
    PROVE  Branch(graph, start, w, costs, parents, processed, Append(path, n), n)
<1>1. PICK m \in Nat : m = Len(path) /\ m > 1
  BY DEF Branch
<1>2. PICK next : next = Append(path, n)
  OBVIOUS
<1>3. n \in Nodes /\ graph[node][n] \in 0 .. w
  BY DEF CostsUpTo
<1>4. /\ next \in Seq(Nodes) /\ Len(next) = m + 1 /\ DOMAIN next = 1 .. m + 1
      /\ next[m + 1] = n /\ \A i \in 1 .. m : next[i] = path[i]
  <2>1. path \in Seq(Nodes)
    BY DEF Branch
  <2> QED
    BY <1>1, <1>2, <1>3, <2>1, AppendProperties
<1>5. path[m] = node /\ path[1] = start /\ DOMAIN path = 1 .. m
  BY <1>1 DEF Branch
<1>6. \A i \in 1 .. m : path[i] # n
  BY <1>1, BranchNodes
<1>7. IsInjective(next)
  <2> SUFFICES ASSUME NEW i \in 1 .. m + 1, NEW j \in 1 .. m + 1, next[i] = next[j] PROVE i = j
    BY <1>4 DEF IsInjective
  <2>1. \A k \in 1 .. m + 1 : k \in 1 .. m \/ k = m + 1
    OBVIOUS
  <2>2. CASE i \in 1 .. m /\ j \in 1 .. m
    BY <1>4, <1>5, <2>2 DEF Branch, IsInjective
  <2>3. CASE i = m + 1 \/ j = m + 1
    BY <1>4, <1>6, <2>1, <2>3
  <2> QED
    BY <2>1, <2>2, <2>3
<1>8. ASSUME NEW i \in 1 .. m
      PROVE  /\ next[i] \in processed \cup {start} /\ parents[next[i + 1]] = next[i]
             /\ costs[next[i + 1]] = Distance(costs, start, next[i]) + graph[next[i]][next[i + 1]]
             /\ next[i] \in DOMAIN graph /\ next[i + 1] \in DOMAIN graph[next[i]]
  <2>1. CASE i = m
    <3>1. next[i] = node /\ next[i + 1] = n
      BY <1>4, <1>5, <2>1
    <3>2. node # start
      <4>1. m \in 2 .. Len(path)
        BY <1>1
      <4> QED
        BY <1>5, <4>1, BranchNodes
    <3> QED
      BY <3>1, <3>2 DEF Distance
  <2>2. CASE i # m
    <3>1. i \in 1 .. m - 1 /\ i + 1 \in 1 .. m
      BY <2>2
    <3>2. next[i] = path[i] /\ next[i + 1] = path[i + 1]
      BY <1>4, <3>1
    <3> QED
      BY <1>1, <3>1, <3>2 DEF Branch, Edges
  <2> QED
    BY <2>1, <2>2
<1>9. costs[n] <= CostBound(w, m + 1)
  <2>1. CostBound(w, m + 1) = CostBound(w, m) + w /\ CostBound(w, m) \in Nat
    BY <1>1, CostBounds
  <2>2. costs[node] <= CostBound(w, m)
    BY <1>1 DEF Branch
  <2>3. w \in Nat
    BY DEF Cheap
  <2> QED
    BY <1>3, <2>1, <2>2, <2>3
<1>10. Edges(graph, next)
  BY <1>4, <1>8 DEF Edges
<1>11. next[1] = start
  BY <1>1, <1>4, <1>5
<1> QED
  BY <1>1, <1>2, <1>4, <1>7, <1>8, <1>9, <1>10, <1>11 DEF Branch

LoweredBy(graph, costs, node) ==
    {m \in DOMAIN graph[node] : costs[m] > costs[node] + graph[node][m]}

LowerCosts(graph, costs, node) ==
    [n \in DOMAIN costs |-> IF n \in LoweredBy(graph, costs, node) THEN costs[node] + graph[node][n]
                            ELSE costs[n]]

LowerParents(graph, costs, parents, node) ==
    [n \in Nodes |-> IF n \in LoweredBy(graph, costs, node) THEN node ELSE parents[n]]

\* The node taken, and that the turn does not throw.
Taken(graph, start, costs, processed, node) ==
    /\ node \in Entries(graph, start) \ processed /\ costs[node] < IntMax
    /\ \A m \in Entries(graph, start) \ processed : costs[node] <= costs[m]
    /\ node \in DOMAIN graph /\ DOMAIN graph[node] \subseteq Entries(graph, start)

\* What is lowered was not processed, and its cost is an Int.
LEMMA LoweredIs ==
    ASSUME NEW graph, NEW start, NEW w, Cheap(w), CostsUpTo(graph, start, w),
           NEW costs, NEW parents, NEW processed,
           TreeOK(graph, start, w, costs, parents, processed),
           NEW node, Taken(graph, start, costs, processed, node), node # start
    PROVE  /\ costs[node] \in Nat
           /\ \A m \in DOMAIN graph[node] :
                 /\ m \in Nodes /\ m \in Entries(graph, start) /\ graph[node][m] \in Nat
                 /\ costs[node] + graph[node][m] \in 0 .. IntMax - 1
           /\ \A m \in LoweredBy(graph, costs, node) :
                 m # node /\ (m \in processed => m = start)
<1>1. /\ node \in Entries(graph, start) /\ node \notin processed /\ node \in DOMAIN graph
      /\ costs[node] < IntMax /\ DOMAIN graph[node] \subseteq Entries(graph, start)
  BY DEF Taken
<1>2. costs[node] \in Nat /\ \A m \in Entries(graph, start) : costs[m] \in Int
  BY <1>1 DEF TreeOK, CostsOK
<1>3. \A m \in DOMAIN graph[node] : m \in Nodes /\ graph[node][m] \in 0 .. w
  BY <1>1 DEF CostsUpTo
<1>4. PICK path : Branch(graph, start, w, costs, parents, processed, path, node)
  BY <1>1 DEF TreeOK, Branches
<1>5. PICK k \in Nat \ {0} : k = Len(path) /\ k <= Cardinality(Nodes)
  <2>1. path \in Seq(Nodes) /\ IsInjective(path) /\ Len(path) > 1
    BY <1>4 DEF Branch
  <2>2. Len(path) <= Cardinality(Nodes)
    BY <2>1, PathLength
  <2> QED
    BY <2>1, <2>2
<1>6. CostBound(w, k) \in Nat /\ CostBound(w, k) + w < IntMax /\ w \in Nat /\ IntMax \in Nat
  BY <1>5, CostBounds, CallsAssumption DEF Cheap
<1>7. costs[node] <= CostBound(w, k)
  BY <1>4, <1>5 DEF Branch
<1>8. ASSUME NEW m \in DOMAIN graph[node]
      PROVE  graph[node][m] \in Nat /\ costs[node] + graph[node][m] \in 0 .. IntMax - 1
  <2>1. graph[node][m] \in 0 .. w
    BY <1>3
  <2> QED
    BY <1>2, <1>6, <1>7, <2>1
<1>9. ASSUME NEW m \in LoweredBy(graph, costs, node), m = node \/ (m \in processed /\ m # start)
      PROVE  FALSE
  <2>1. m \in DOMAIN graph[node] /\ costs[m] > costs[node] + graph[node][m]
    BY DEF LoweredBy
  <2>2. graph[node][m] \in Nat /\ costs[m] \in Int
    BY <1>1, <1>2, <1>8, <2>1
  <2>3. CASE m = node
    BY <1>2, <2>1, <2>2, <2>3
  <2>4. CASE m \in processed /\ m # start
    <3>1. costs[m] <= costs[node]
      BY <1>1, <2>4 DEF TreeOK, NearestFirst
    <3> QED
      BY <1>2, <2>1, <2>2, <3>1
  <2> QED
    BY <1>9, <2>3, <2>4
<1> QED
  BY <1>1, <1>2, <1>3, <1>8, <1>9

LEMMA TreeGrows ==
    ASSUME NEW graph, NEW start, NEW w, Cheap(w), CostsUpTo(graph, start, w),
           NEW costs, NEW parents, NEW processed,
           TreeOK(graph, start, w, costs, parents, processed),
           NEW node, Taken(graph, start, costs, processed, node), node # start
    PROVE  TreeOK(graph, start, w, LowerCosts(graph, costs, node),
                  LowerParents(graph, costs, parents, node), processed \cup {node})
<1>1. PICK L, costs2, parents2, processed2, D :
         /\ L = LoweredBy(graph, costs, node) /\ costs2 = LowerCosts(graph, costs, node)
         /\ parents2 = LowerParents(graph, costs, parents, node)
         /\ processed2 = processed \cup {node} /\ D = Entries(graph, start)
  OBVIOUS
<1>2. /\ node \in D /\ node \notin processed /\ node \in DOMAIN graph /\ node \in Nodes
      /\ costs[node] < IntMax /\ DOMAIN graph[node] \subseteq D
      /\ \A m \in D \ processed : costs[node] <= costs[m]
  BY <1>1 DEF Taken, CostsUpTo
<1>3. /\ costs[node] \in Nat
      /\ \A m \in DOMAIN graph[node] :
            /\ m \in Nodes /\ m \in D /\ graph[node][m] \in Nat
            /\ costs[node] + graph[node][m] \in 0 .. IntMax - 1
      /\ \A m \in L : m # node /\ (m \in processed => m = start)
  BY <1>1, LoweredIs
<1>4. L \subseteq DOMAIN graph[node] /\ \A m \in L : costs[m] > costs[node] + graph[node][m]
  BY <1>1 DEF LoweredBy
<1>5. DOMAIN costs = D /\ \A n \in D : costs[n] \in Int /\ costs[n] <= IntMax
  BY <1>1 DEF TreeOK, CostsOK
<1>6. /\ DOMAIN costs2 = D
      /\ \A n \in D : costs2[n] = IF n \in L THEN costs[node] + graph[node][n] ELSE costs[n]
  BY <1>1, <1>5 DEF LowerCosts
<1>7. parents2 = [n \in Nodes |-> IF n \in L THEN node ELSE parents[n]]
  BY <1>1 DEF LowerParents
<1>8. IntMax \in Nat /\ w \in Nat /\ start \in Nodes
  BY CallsAssumption DEF Cheap, CostsUpTo
<1>9. ASSUME NEW n \in D
      PROVE  /\ costs2[n] \in Int /\ costs2[n] <= costs[n] /\ (n # start => costs2[n] >= 0)
             /\ n \in L => costs2[n] \in 0 .. IntMax - 1
  <2>1. CASE n \in L
    <3>1. costs2[n] = costs[node] + graph[node][n] /\ costs[node] + graph[node][n] \in 0 .. IntMax - 1
          /\ costs[n] > costs[node] + graph[node][n]
      BY <1>3, <1>4, <1>6, <2>1
    <3> QED
      BY <1>5, <1>8, <3>1
  <2>2. CASE n \notin L
    <3>1. costs2[n] = costs[n]
      BY <1>6, <2>2
    <3>2. n # start => costs[n] >= 0
      BY <1>1 DEF TreeOK, CostsOK
    <3> QED
      BY <1>5, <2>2, <3>1, <3>2
  <2> QED
    BY <2>1, <2>2
<1>10. \A u \in processed2 : costs2[u] <= costs[u] /\ costs2[u] < IntMax /\ costs2[u] \in Int /\ u \in D
  <2>1. \A u \in processed2 : u \in D /\ costs[u] < IntMax
    BY <1>1, <1>2 DEF TreeOK, CostsOK
  <2> QED
    BY <1>5, <1>8, <1>9, <2>1
<1>11. \A u \in processed2 : u # start => costs2[u] = costs[u] /\ u \notin L
  <2>1. processed \subseteq D
    BY <1>1 DEF TreeOK, CostsOK
  <2> QED
    BY <1>1, <1>2, <1>3, <1>6, <2>1
<1>12. CostsOK(graph, start, w, costs2, processed2)
  <2>1. costs2 \in [D -> Int]
    <3>1. costs2 = [n \in D |-> IF n \in L THEN costs[node] + graph[node][n] ELSE costs[n]]
      BY <1>1, <1>5 DEF LowerCosts
    <3> QED
      BY <1>6, <1>9, <3>1
  <2>2. \A n \in D : costs2[n] <= IntMax /\ (n # start => costs2[n] >= 0)
    BY <1>5, <1>8, <1>9
  <2>3. ASSUME start \in D
        PROVE  costs2[start] < IntMax /\ (Nodes # {start} => costs2[start] \in 0 .. w)
    <3>1. costs[start] < IntMax /\ (Nodes # {start} => costs[start] \in 0 .. w)
      BY <1>1, <2>3 DEF TreeOK, CostsOK
    <3>2. costs2[start] \in Int /\ costs2[start] <= costs[start]
          /\ (start \in L => costs2[start] \in 0 .. IntMax - 1)
      BY <1>9, <2>3
    <3>3. start \notin L => costs2[start] = costs[start]
      BY <1>6, <2>3
    <3> QED
      BY <1>5, <1>8, <2>3, <3>1, <3>2, <3>3
  <2>4. processed2 \subseteq DOMAIN graph \cap D
    BY <1>1, <1>2 DEF TreeOK, CostsOK
  <2> QED
    BY <1>1, <1>10, <2>1, <2>2, <2>3, <2>4 DEF CostsOK
<1>13. ParentsOK(graph, start, costs2, parents2, processed2)
  <2>1. parents \in [Nodes -> processed \cup {start, Nothing}]
        /\ \A n \in Nodes : parents[n] = Nothing <=> (n \in D => costs[n] = IntMax)
    BY <1>1 DEF TreeOK, ParentsOK
  <2>2. parents2 \in [Nodes -> processed2 \cup {start, Nothing}]
    BY <1>1, <1>7, <2>1
  <2>3. ASSUME NEW n \in Nodes
        PROVE  parents2[n] = Nothing <=> (n \in D => costs2[n] = IntMax)
    <3>1. CASE n \in L
      <4>1. parents2[n] = node /\ node # Nothing
        BY <1>2, <1>7, <3>1, AlgorithmsAssumption
      <4>2. n \in D /\ costs2[n] \in 0 .. IntMax - 1
        BY <1>3, <1>4, <1>9, <3>1
      <4> QED
        BY <1>8, <4>1, <4>2
    <3>2. CASE n \notin L
      BY <1>6, <1>7, <2>1, <3>2
    <3> QED
      BY <3>1, <3>2
  <2> QED
    BY <1>1, <2>2, <2>3 DEF ParentsOK
<1>14. EdgesSeen(graph, start, costs2, processed2)
  <2>1. ASSUME NEW u \in processed \cup {start}, NEW v \in DOMAIN graph[u]
        PROVE  /\ v \in D /\ costs2[v] < IntMax
               /\ v # start => costs2[v] <= Distance(costs2, start, u) + graph[u][v]
    <3>1. /\ v \in D /\ costs[v] < IntMax
          /\ v # start => costs[v] <= Distance(costs, start, u) + graph[u][v]
      BY <1>1, <2>1 DEF TreeOK, EdgesSeen
    <3>2. costs2[v] \in Int /\ costs[v] \in Int /\ costs2[v] <= costs[v]
      BY <1>5, <1>9, <3>1
    <3>3. Distance(costs2, start, u) = Distance(costs, start, u) /\ Distance(costs, start, u) \in Int
      <4>1. CASE u = start
        BY <4>1 DEF Distance
      <4>2. CASE u # start
        <5>1. u \in processed2 /\ u \in D
          BY <1>1, <1>10, <4>2
        <5> QED
          BY <1>5, <1>11, <4>2, <5>1 DEF Distance
      <4> QED
        BY <4>1, <4>2
    <3>4. graph[u][v] \in Int
      <4>1. u \in DOMAIN graph
        BY DEF TreeOK, CostsOK, CostsUpTo
      <4> QED
        BY <4>1 DEF CostsUpTo
    <3> QED
      BY <1>8, <3>1, <3>2, <3>3, <3>4
  <2>2. ASSUME NEW v \in DOMAIN graph[node]
        PROVE  /\ v \in D /\ costs2[v] < IntMax
               /\ costs2[v] <= Distance(costs2, start, node) + graph[node][v]
    <3>1. v \in D /\ graph[node][v] \in Nat /\ costs[node] + graph[node][v] \in 0 .. IntMax - 1
      BY <1>3
    <3>2. Distance(costs2, start, node) = costs[node]
      BY <1>1, <1>11 DEF Distance
    <3>3. costs2[v] <= costs[node] + graph[node][v]
      <4>1. CASE v \in L
        <5>1. costs2[v] = costs[node] + graph[node][v]
          BY <1>6, <3>1, <4>1
        <5> QED
          BY <3>1, <5>1
      <4>2. CASE v \notin L
        <5>1. ~(costs[v] > costs[node] + graph[node][v]) /\ costs2[v] = costs[v]
          BY <1>1, <1>6, <3>1, <4>2 DEF LoweredBy
        <5> QED
          BY <1>3, <1>5, <3>1, <5>1
      <4> QED
        BY <4>1, <4>2
    <3>4. costs2[v] \in Int
      BY <1>9, <3>1
    <3> QED
      BY <1>8, <3>1, <3>2, <3>3, <3>4
  <2> QED
    BY <1>1, <2>1, <2>2 DEF EdgesSeen
<1>15. NearestFirst(graph, start, costs2, processed2)
  <2> SUFFICES ASSUME NEW u \in processed2 \ {start}, NEW v \in D \ (processed2 \cup {start})
               PROVE  costs2[u] <= costs2[v]
    BY <1>1 DEF NearestFirst
  <2>1. costs2[u] = costs[u] /\ u \in D /\ costs[u] \in Int
    BY <1>5, <1>10, <1>11
  <2>2. costs[u] <= costs[node] /\ costs[u] <= costs[v]
    <3>1. CASE u = node
      BY <1>1, <1>2, <1>3, <3>1
    <3>2. CASE u # node
      <4>1. u \in processed \ {start} /\ v \in D \ (processed \cup {start})
            /\ node \in D \ (processed \cup {start})
        BY <1>1, <1>2, <3>2
      <4> QED
        BY <1>1, <4>1 DEF TreeOK, NearestFirst
    <3> QED
      BY <3>1, <3>2
  <2>3. CASE v \in L
    <3>1. costs2[v] = costs[node] + graph[node][v] /\ graph[node][v] \in Nat
      BY <1>3, <1>4, <1>6, <2>3
    <3> QED
      BY <1>3, <2>1, <2>2, <3>1
  <2>4. CASE v \notin L
    BY <1>6, <2>1, <2>2, <2>4
  <2> QED
    BY <2>3, <2>4
<1>16. ASSUME NEW path, NEW n, Branch(graph, start, w, costs, parents, processed, path, n),
              n \in D \ {start}, n \notin L
       PROVE  Branch(graph, start, w, costs2, parents2, processed2, path, n)
  <2>1. ASSUME NEW x \in (processed \cup {n}) \ {start}
        PROVE  costs2[x] = costs[x] /\ parents2[x] = parents[x]
    <3>1. x \notin L /\ x \in D /\ x \in Nodes
      <4>1. processed \subseteq D /\ D \subseteq Nodes
        BY <1>1, <1>8 DEF TreeOK, CostsOK, Entries, CostsUpTo
      <4> QED
        BY <1>3, <1>16, <4>1
    <3> QED
      BY <1>6, <1>7, <3>1
  <2>2. processed \subseteq processed2
    BY <1>1
  <2> QED
    BY <1>16, <2>1, <2>2, BranchKept
<1>17. Branches(graph, start, w, costs2, parents2, processed2)
  <2> SUFFICES ASSUME NEW n \in D \ {start}, costs2[n] < IntMax
               PROVE  \E path : Branch(graph, start, w, costs2, parents2, processed2, path, n)
    BY <1>1 DEF Branches
  <2>1. CASE n \notin L
    <3>1. costs[n] < IntMax
      BY <1>6, <2>1
    <3>2. PICK path : Branch(graph, start, w, costs, parents, processed, path, n)
      BY <1>1, <3>1 DEF TreeOK, Branches
    <3> QED
      BY <1>16, <2>1, <3>2
  <2>2. CASE n \in L
    <3>1. PICK path : Branch(graph, start, w, costs, parents, processed, path, node)
      BY <1>1, <1>2 DEF TreeOK, Branches
    <3>2. node \notin L /\ node \in D \ {start}
      BY <1>2, <1>3
    <3>3. Branch(graph, start, w, costs2, parents2, processed2, path, node)
      BY <1>16, <3>1, <3>2
    <3>4. n \in DOMAIN graph[node] /\ n \notin processed2 /\ n # start
      BY <1>1, <1>3, <1>4, <2>2
    <3>5. n \in Nodes /\ parents2[n] = node /\ costs2[node] = costs[node]
          /\ costs2[n] = costs2[node] + graph[node][n] /\ costs2[node] \in Int
      BY <1>2, <1>3, <1>6, <1>7, <2>2, <3>2, <3>4
    <3>6. node \in processed2
      BY <1>1
    <3>7. Branch(graph, start, w, costs2, parents2, processed2, Append(path, n), n)
      BY <1>2, <3>3, <3>4, <3>5, <3>6, BranchGrows
    <3> QED
      BY <3>7
  <2> QED
    BY <2>1, <2>2
<1> QED
  BY <1>1, <1>12, <1>13, <1>14, <1>15, <1>17 DEF TreeOK

\* start itself is taken, when it is its own neighbour.
LEMMA StartTaken ==
    ASSUME NEW graph, NEW start, NEW w, Cheap(w), CostsUpTo(graph, start, w),
           NEW costs, NEW parents, NEW processed,
           TreeOK(graph, start, w, costs, parents, processed),
           Taken(graph, start, costs, processed, start),
           NEW costs2 \in [Entries(graph, start) -> Int], costs2[start] < IntMax,
           \A n \in Entries(graph, start) : n # start => costs2[n] = costs[n],
           Nodes # {start} => costs2[start] = costs[start],
           NEW parents2 \in [Nodes -> processed \cup {start, Nothing}],
           \A n \in Nodes : parents2[n] = parents[n] \/ (n = start /\ parents2[n] = start)
    PROVE  TreeOK(graph, start, w, costs2, parents2, processed \cup {start})
<1>1. PICK D, processed2 : D = Entries(graph, start) /\ processed2 = processed \cup {start}
  OBVIOUS
<1>2. start \in D /\ start \in DOMAIN graph /\ start \in Nodes /\ D \subseteq Nodes
  BY <1>1 DEF Taken, CostsUpTo, Entries
<1>3. /\ processed \subseteq DOMAIN graph \cap D /\ \A u \in processed : costs[u] < IntMax
      /\ \A n \in D : costs[n] \in Int /\ costs[n] <= IntMax /\ (n # start => costs[n] >= 0)
      /\ costs[start] < IntMax /\ (Nodes # {start} => costs[start] \in 0 .. w)
  BY <1>1, <1>2 DEF TreeOK, CostsOK
<1>4. IntMax \in Nat /\ start # Nothing
  BY <1>2, CallsAssumption, AlgorithmsAssumption
<1>5. CostsOK(graph, start, w, costs2, processed2)
  <2>1. costs2 \in [D -> Int]
    BY <1>1
  <2>2. \A n \in D : costs2[n] <= IntMax /\ (n # start => costs2[n] >= 0)
    BY <1>1, <1>3, <1>4, <2>1
  <2>3. costs2[start] < IntMax /\ (Nodes # {start} => costs2[start] \in 0 .. w)
    BY <1>3
  <2>4. processed2 \subseteq DOMAIN graph \cap D
    BY <1>1, <1>2, <1>3
  <2>5. \A u \in processed2 : costs2[u] < IntMax
    <3> SUFFICES ASSUME NEW u \in processed2, u # start PROVE costs2[u] < IntMax
      BY <2>3
    <3>1. u \in processed /\ u \in D
      BY <1>1, <1>3
    <3> QED
      BY <1>1, <1>3, <3>1
  <2> QED
    BY <1>1, <2>1, <2>2, <2>3, <2>4, <2>5 DEF CostsOK
<1>6. ParentsOK(graph, start, costs2, parents2, processed2)
  <2>1. \A n \in Nodes : parents[n] = Nothing <=> (n \in D => costs[n] = IntMax)
    BY <1>1 DEF TreeOK, ParentsOK
  <2>2. ASSUME NEW n \in Nodes
        PROVE  parents2[n] = Nothing <=> (n \in D => costs2[n] = IntMax)
    <3>1. CASE n = start
      <4>1. costs[n] # IntMax /\ costs2[n] # IntMax
        BY <1>1, <1>2, <1>3, <1>4, <3>1
      <4>2. parents[n] # Nothing
        BY <1>2, <2>1, <3>1, <4>1
      <4> QED
        BY <1>2, <1>4, <3>1, <4>1, <4>2
    <3>2. CASE n # start
      <4>1. parents2[n] = parents[n] /\ (n \in D => costs2[n] = costs[n])
        BY <1>1, <3>2
      <4> QED
        BY <2>1, <4>1
    <3> QED
      BY <3>1, <3>2
  <2>3. parents2 \in [Nodes -> processed2 \cup {start, Nothing}]
    BY <1>1
  <2> QED
    BY <1>1, <2>2, <2>3 DEF ParentsOK
<1>7. EdgesSeen(graph, start, costs2, processed2)
  <2> SUFFICES ASSUME NEW u \in processed \cup {start}, NEW v \in DOMAIN graph[u]
               PROVE  /\ v \in D /\ costs2[v] < IntMax
                      /\ v # start => costs2[v] <= Distance(costs2, start, u) + graph[u][v]
    BY <1>1 DEF EdgesSeen
  <2>1. /\ v \in D /\ costs[v] < IntMax
        /\ v # start => costs[v] <= Distance(costs, start, u) + graph[u][v]
    BY <1>1 DEF TreeOK, EdgesSeen
  <2>2. Distance(costs2, start, u) = Distance(costs, start, u)
    BY <1>1, <1>3 DEF Distance
  <2>3. costs2[v] < IntMax /\ (v # start => costs2[v] = costs[v])
    BY <1>1, <2>1
  <2> QED
    BY <2>1, <2>2, <2>3
<1>8. NearestFirst(graph, start, costs2, processed2)
  <2> SUFFICES ASSUME NEW u \in processed \ {start}, NEW v \in D \ (processed \cup {start})
               PROVE  costs2[u] <= costs2[v]
    BY <1>1 DEF NearestFirst
  <2>1. costs[u] <= costs[v]
    BY <1>1 DEF TreeOK, NearestFirst
  <2>2. costs2[u] = costs[u] /\ costs2[v] = costs[v]
    BY <1>1, <1>3
  <2> QED
    BY <2>1, <2>2
<1>9. Branches(graph, start, w, costs2, parents2, processed2)
  <2> SUFFICES ASSUME NEW n \in D \ {start}, costs2[n] < IntMax
               PROVE  \E path : Branch(graph, start, w, costs2, parents2, processed2, path, n)
    BY <1>1 DEF Branches
  <2>1. costs[n] < IntMax
    BY <1>1
  <2>2. PICK path : Branch(graph, start, w, costs, parents, processed, path, n)
    BY <1>1, <2>1 DEF TreeOK, Branches
  <2>3. ASSUME NEW x \in (processed \cup {n}) \ {start}
        PROVE  costs2[x] = costs[x] /\ parents2[x] = parents[x]
    <3>1. x \in D /\ x \in Nodes /\ x # start
      BY <1>2, <1>3
    <3> QED
      BY <1>1, <3>1
  <2>4. processed \subseteq processed2
    BY <1>1
  <2>5. Branch(graph, start, w, costs2, parents2, processed2, path, n)
    BY <2>2, <2>3, <2>4, BranchKept
  <2> QED
    BY <2>5
<1> QED
  BY <1>1, <1>5, <1>6, <1>7, <1>8, <1>9 DEF TreeOK

\* The costs and parents after the turn for a node.
NewCosts(graph, costs, node) == [n \in DOMAIN graph[node] |-> ToInt(costs[node] + graph[node][n])]

TurnCosts(graph, costs, node) ==
    [n \in DOMAIN costs |->
       IF n \in DOMAIN NewCosts(graph, costs, node) /\ costs[n] > NewCosts(graph, costs, node)[n]
       THEN NewCosts(graph, costs, node)[n] ELSE costs[n]]

TurnParents(graph, costs, parents, node) ==
    [n \in Nodes |->
       IF n \in DOMAIN costs /\ n \in DOMAIN NewCosts(graph, costs, node)
            /\ costs[n] > NewCosts(graph, costs, node)[n]
       THEN node ELSE parents[n]]

LEMMA TurnOfOther ==
    ASSUME NEW graph, NEW start, NEW w, Cheap(w), CostsUpTo(graph, start, w),
           NEW costs, NEW parents, NEW processed,
           TreeOK(graph, start, w, costs, parents, processed),
           NEW node, Taken(graph, start, costs, processed, node), node # start
    PROVE  TreeOK(graph, start, w, TurnCosts(graph, costs, node),
                  TurnParents(graph, costs, parents, node), processed \cup {node})
<1>1. PICK new : new = NewCosts(graph, costs, node)
  OBVIOUS
<1>2. DOMAIN new = DOMAIN graph[node]
  BY <1>1 DEF NewCosts
<1>3. \A m \in DOMAIN graph[node] : m \in Entries(graph, start)
         /\ costs[node] + graph[node][m] \in 0 .. IntMax - 1
  BY LoweredIs
<1>4. ASSUME NEW m \in DOMAIN graph[node] PROVE new[m] = costs[node] + graph[node][m]
  <2>1. costs[node] + graph[node][m] \in 0 .. IntMax
    BY <1>3, CallsAssumption
  <2>2. ToInt(costs[node] + graph[node][m]) = costs[node] + graph[node][m]
    BY <2>1, ToIntOfInt
  <2> QED
    BY <1>1, <2>2 DEF NewCosts
<1>5. DOMAIN costs = Entries(graph, start)
  BY DEF TreeOK, CostsOK
<1>6. \A n : n \in LoweredBy(graph, costs, node) <=> n \in DOMAIN new /\ costs[n] > new[n]
  BY <1>2, <1>4 DEF LoweredBy
<1>7. TurnCosts(graph, costs, node) = LowerCosts(graph, costs, node)
  <2>1. \A n \in DOMAIN costs :
           (IF n \in DOMAIN new /\ costs[n] > new[n] THEN new[n] ELSE costs[n])
             = IF n \in LoweredBy(graph, costs, node) THEN costs[node] + graph[node][n] ELSE costs[n]
    BY <1>2, <1>4, <1>6
  <2> QED
    BY <1>1, <2>1 DEF TurnCosts, LowerCosts
<1>8. TurnParents(graph, costs, parents, node) = LowerParents(graph, costs, parents, node)
  <2>1. \A n \in Nodes :
           (IF n \in DOMAIN costs /\ n \in DOMAIN new /\ costs[n] > new[n] THEN node ELSE parents[n])
             = IF n \in LoweredBy(graph, costs, node) THEN node ELSE parents[n]
    BY <1>2, <1>3, <1>5, <1>6
  <2> QED
    BY <1>1, <2>1 DEF TurnParents, LowerParents
<1> QED
  BY <1>7, <1>8, TreeGrows

LEMMA TurnOfStart ==
    ASSUME NEW graph, NEW start, NEW w, Cheap(w), CostsUpTo(graph, start, w),
           NEW costs, NEW parents, NEW processed,
           TreeOK(graph, start, w, costs, parents, processed),
           Taken(graph, start, costs, processed, start)
    PROVE  TreeOK(graph, start, w, TurnCosts(graph, costs, start),
                  TurnParents(graph, costs, parents, start), processed \cup {start})
<1>1. PICK new, costs2, parents2, D :
         /\ new = NewCosts(graph, costs, start) /\ costs2 = TurnCosts(graph, costs, start)
         /\ parents2 = TurnParents(graph, costs, parents, start) /\ D = Entries(graph, start)
  OBVIOUS
<1>2. start \in D /\ start \in Nodes /\ start \in DOMAIN graph
  BY <1>1 DEF Taken, CostsUpTo
<1>3. /\ DOMAIN costs = D /\ \A n \in D : costs[n] \in Int
      /\ costs[start] < IntMax /\ (Nodes # {start} => costs[start] \in 0 .. w)
  BY <1>1, <1>2 DEF TreeOK, CostsOK
<1>4. \A m \in DOMAIN graph[start] :
         m \in Nodes /\ graph[start][m] \in 0 .. w /\ m \in D /\ (m # start => costs[m] <= graph[start][m])
  <2> SUFFICES ASSUME NEW m \in DOMAIN graph[start]
               PROVE  m \in Nodes /\ graph[start][m] \in 0 .. w /\ m \in D
                      /\ (m # start => costs[m] <= graph[start][m])
    OBVIOUS
  <2>1. m \in Nodes /\ graph[start][m] \in 0 .. w
    BY <1>2 DEF CostsUpTo
  <2>2. m \in D /\ (m # start => costs[m] <= 0 + graph[start][m])
    BY <1>1 DEF TreeOK, EdgesSeen, Distance
  <2> QED
    BY <1>3, <2>1, <2>2
<1>5. w \in Nat /\ IntMax \in Nat
  BY CallsAssumption DEF Cheap
<1>6. DOMAIN new = DOMAIN graph[start] /\ \A m \in DOMAIN new : new[m] = ToInt(costs[start] + graph[start][m])
  BY <1>1 DEF NewCosts
<1>7. \A m \in DOMAIN new : new[m] \in Int
  <2> SUFFICES ASSUME NEW m \in DOMAIN new PROVE new[m] \in Int
    OBVIOUS
  <2>1. costs[start] + graph[start][m] \in Int
    BY <1>2, <1>3, <1>4, <1>6
  <2>2. ToInt(costs[start] + graph[start][m]) \in - IntMax - 1 .. IntMax
    BY <2>1, ToIntIs
  <2> QED
    BY <1>5, <1>6, <2>2
<1>8. ASSUME Nodes # {start}, NEW m \in DOMAIN new PROVE ~(costs[m] > new[m])
  <2>1. 2 <= Cardinality(Nodes)
    <3>1. PICK n \in Nodes : n # start
      BY <1>2, <1>8
    <3>2. PICK path : path = <<start, n>>
      OBVIOUS
    <3>3. path \in Seq(Nodes) /\ Len(path) = 2 /\ DOMAIN path = 1 .. 2 /\ path[1] = start /\ path[2] = n
      BY <1>2, <3>2
    <3>4. IsInjective(path)
      <4>1. \A i \in 1 .. 2 : i = 1 \/ i = 2
        OBVIOUS
      <4> QED
        BY <3>1, <3>3, <4>1 DEF IsInjective
    <3> QED
      BY <3>3, <3>4, PathLength
  <2>2. w + w < IntMax
    BY <2>1, CostBounds
  <2>3. costs[start] \in 0 .. w /\ graph[start][m] \in 0 .. w
    BY <1>3, <1>4, <1>6, <1>8
  <2>4. costs[start] + graph[start][m] \in 0 .. IntMax
    BY <1>5, <2>2, <2>3
  <2>5. new[m] = costs[start] + graph[start][m]
    BY <1>6, <2>4, ToIntOfInt
  <2>6. CASE m = start
    BY <1>5, <2>3, <2>5, <2>6
  <2>7. CASE m # start
    <3>1. costs[m] <= graph[start][m] /\ costs[m] \in Int
      BY <1>3, <1>4, <1>6, <2>7
    <3> QED
      BY <1>5, <2>3, <2>5, <3>1
  <2> QED
    BY <2>6, <2>7
<1>9. ASSUME NEW n \in D, n # start PROVE Nodes # {start}
  <2>1. n \in Nodes
    BY <1>1 DEF Entries, CostsUpTo
  <2> QED
    BY <1>9, <2>1
<1>10. costs2 = [n \in D |-> IF n \in DOMAIN new /\ costs[n] > new[n] THEN new[n] ELSE costs[n]]
  BY <1>1, <1>3 DEF TurnCosts
<1>11. parents2 = [n \in Nodes |-> IF n \in DOMAIN costs /\ n \in DOMAIN new /\ costs[n] > new[n]
                                  THEN start ELSE parents[n]]
  BY <1>1 DEF TurnParents
<1>12. costs2 \in [D -> Int]
  BY <1>3, <1>7, <1>10
<1>13. costs2[start] < IntMax
  BY <1>2, <1>3, <1>5, <1>7, <1>10
<1>14. \A n \in D : n # start => costs2[n] = costs[n]
  BY <1>8, <1>9, <1>10
<1>15. Nodes # {start} => costs2[start] = costs[start]
  BY <1>2, <1>8, <1>10
<1>16. parents \in [Nodes -> processed \cup {start, Nothing}]
  BY DEF TreeOK, ParentsOK
<1>17. parents2 \in [Nodes -> processed \cup {start, Nothing}]
  BY <1>11, <1>16
<1>18. ASSUME NEW n \in Nodes PROVE parents2[n] = parents[n] \/ (n = start /\ parents2[n] = start)
  <2>1. CASE n \in DOMAIN costs /\ n \in DOMAIN new /\ costs[n] > new[n]
    <3>1. Nodes = {start}
      BY <1>8, <2>1
    <3> QED
      BY <1>11, <2>1, <3>1
  <2>2. CASE ~(n \in DOMAIN costs /\ n \in DOMAIN new /\ costs[n] > new[n])
    BY <1>11, <2>2
  <2> QED
    BY <2>1, <2>2
<1>19. TreeOK(graph, start, w, costs2, parents2, processed \cup {start})
  BY <1>1, <1>12, <1>13, <1>14, <1>15, <1>17, <1>18, StartTaken
<1> QED
  BY <1>1, <1>19

LEMMA TreeStarts ==
    ASSUME NEW graph, NEW start, NEW w, Cheap(w), CostsUpTo(graph, start, w),
           NEW costs, NEW parents,
           costs = [n \in Entries(graph, start) |->
                      IF n \in DOMAIN graph[start] THEN graph[start][n] ELSE IntMax],
           parents = [n \in Nodes |-> IF n \in DOMAIN graph[start] THEN start ELSE Nothing]
    PROVE  TreeOK(graph, start, w, costs, parents, {})
<1>1. PICK D : D = Entries(graph, start)
  OBVIOUS
<1>2. start \in Nodes /\ start \in DOMAIN graph /\ DOMAIN graph[start] \subseteq D /\ D \subseteq Nodes
  BY <1>1 DEF Entries, CostsUpTo
<1>3. w < IntMax /\ w \in Nat /\ IntMax \in Nat
  <2>1. <<start>> \in Seq(Nodes) /\ IsInjective(<<start>>) /\ Len(<<start>>) = 1
    BY <1>2 DEF IsInjective
  <2>2. 1 <= Cardinality(Nodes)
    BY <2>1, PathLength
  <2>3. 0 + w < IntMax
    BY <2>2, CostBounds
  <2> QED
    BY <2>3, CallsAssumption DEF Cheap
<1>4. \A n \in DOMAIN graph[start] : graph[start][n] \in 0 .. w
  BY <1>2 DEF CostsUpTo
<1>5. ASSUME NEW n \in D
      PROVE  /\ costs[n] \in 0 .. IntMax
             /\ n \in DOMAIN graph[start] =>
                   /\ costs[n] = graph[start][n] /\ costs[n] \in 0 .. w /\ costs[n] < IntMax
                   /\ costs[n] # IntMax
                   /\ graph[start][n] \in Nat
             /\ n \notin DOMAIN graph[start] => costs[n] = IntMax
  <2>1. CASE n \in DOMAIN graph[start]
    <3>1. costs[n] = graph[start][n] /\ graph[start][n] \in 0 .. w
      BY <1>1, <1>4, <2>1
    <3>2. PICK x : x = costs[n] /\ x \in 0 .. w
      BY <3>1
    <3>3. x \in 0 .. IntMax /\ x < IntMax /\ x \in Nat /\ x # IntMax
      BY <1>3, <3>2
    <3> QED
      BY <2>1, <3>1, <3>2, <3>3
  <2>2. CASE n \notin DOMAIN graph[start]
    BY <1>1, <1>3, <2>2
  <2> QED
    BY <2>1, <2>2
<1>6. start \in D => start \in DOMAIN graph[start]
  BY <1>1 DEF Entries
<1>7. CostsOK(graph, start, w, costs, {})
  <2>1. costs \in [D -> Int]
    BY <1>1, <1>3, <1>5
  <2> QED
    BY <1>1, <1>3, <1>5, <1>6, <2>1 DEF CostsOK
<1>8. ParentsOK(graph, start, costs, parents, {})
  <2>1. ASSUME NEW n \in Nodes PROVE parents[n] = Nothing <=> (n \in D => costs[n] = IntMax)
    <3>1. start # Nothing
      BY <1>2, AlgorithmsAssumption
    <3>2. CASE n \in DOMAIN graph[start]
      <4>1. n \in D /\ costs[n] # IntMax
        BY <1>2, <1>3, <1>5, <3>2
      <4>2. parents[n] = start
        BY <3>2
      <4> QED
        BY <3>1, <4>1, <4>2
    <3>3. CASE n \notin DOMAIN graph[start]
      BY <1>5, <3>3
    <3> QED
      BY <3>2, <3>3
  <2> QED
    BY <1>1, <2>1 DEF ParentsOK
<1>9. EdgesSeen(graph, start, costs, {})
  <2> SUFFICES ASSUME NEW v \in DOMAIN graph[start]
               PROVE  v \in D /\ costs[v] < IntMax /\ costs[v] <= Distance(costs, start, start) + graph[start][v]
    BY <1>1 DEF EdgesSeen
  <2>1. Distance(costs, start, start) = 0
    BY DEF Distance
  <2>2. v \in D /\ costs[v] = graph[start][v] /\ costs[v] < IntMax /\ graph[start][v] \in Nat
    BY <1>2, <1>5
  <2> QED
    BY <2>1, <2>2
<1>10. NearestFirst(graph, start, costs, {})
  BY DEF NearestFirst
<1>11. Branches(graph, start, w, costs, parents, {})
  <2> SUFFICES ASSUME NEW n \in D \ {start}, costs[n] < IntMax
               PROVE  \E path : Branch(graph, start, w, costs, parents, {}, path, n)
    BY <1>1 DEF Branches
  <2>1. n \in DOMAIN graph[start] /\ n \in Nodes /\ n # start
    <3>1. costs[n] # IntMax
      <4>1. PICK x : x = costs[n]
        OBVIOUS
      <4>2. x \in 0 .. IntMax /\ x < IntMax
        BY <1>5, <4>1
      <4> QED
        BY <1>3, <4>1, <4>2
    <3> QED
      BY <1>2, <1>5, <3>1
  <2>2. PICK path : path = <<start, n>>
    OBVIOUS
  <2>3. path \in Seq(Nodes) /\ Len(path) = 2 /\ DOMAIN path = 1 .. 2 /\ path[1] = start /\ path[2] = n
    BY <1>2, <2>1, <2>2
  <2>4. IsInjective(path)
    <3>1. \A i \in 1 .. 2 : i = 1 \/ i = 2
      OBVIOUS
    <3> QED
      BY <2>1, <2>3, <3>1 DEF IsInjective
  <2>5. \A i \in 1 .. Len(path) - 1 : i = 1
    BY <2>3
  <2>6. Edges(graph, path)
    BY <1>2, <2>1, <2>3, <2>5 DEF Edges
  <2>7. costs[n] = 0 + graph[start][n] /\ costs[n] <= CostBound(w, 2)
    <3>1. CostBound(w, 2) = w
      BY CostBounds
    <3>2. costs[n] = graph[start][n] /\ costs[n] \in 0 .. w
      BY <1>5, <2>1
    <3> QED
      BY <1>3, <3>1, <3>2
  <2>8. parents[n] = start
    BY <2>1
  <2>9. Branch(graph, start, w, costs, parents, {}, path, n)
    <3>1. Distance(costs, start, path[1]) = 0
      BY <2>3 DEF Distance
    <3> QED
      BY <2>3, <2>4, <2>5, <2>6, <2>7, <2>8, <3>1 DEF Branch
  <2> QED
    BY <2>9
<1> QED
  BY <1>7, <1>8, <1>9, <1>10, <1>11 DEF TreeOK

AllTaken(graph, start, costs, processed) ==
    \A n \in Entries(graph, start) : costs[n] < IntMax => n \in processed

\* The loop goes on as long as a node has a cost and was not processed.
LEMMA TreeIsDone ==
    ASSUME NEW graph, NEW start, NEW w, Cheap(w), CostsUpTo(graph, start, w),
           NEW costs, NEW parents, NEW processed,
           TreeOK(graph, start, w, costs, parents, processed),
           LowestCostNode(costs, processed) = {}
    PROVE  AllTaken(graph, start, costs, processed)
<1> SUFFICES ASSUME NEW n \in Entries(graph, start), costs[n] < IntMax, n \notin processed
             PROVE  FALSE
  BY DEF AllTaken
<1>1. /\ DOMAIN costs = Entries(graph, start) /\ \A m \in Entries(graph, start) : costs[m] \in Int
      /\ \A m \in Entries(graph, start) : m # start => costs[m] >= 0
      /\ start \in Entries(graph, start) => (Nodes # {start} => costs[start] \in 0 .. w)
  BY DEF TreeOK, CostsOK
<1>2. PICK rest : rest = Entries(graph, start) \ processed
  OBVIOUS
<1>3. rest \subseteq Nodes /\ n \in rest
  BY <1>2 DEF Entries, CostsUpTo
<1>4. ASSUME NEW m \in rest, \A k \in rest : costs[m] <= costs[k] PROVE FALSE
  <2>1. costs[m] <= costs[n] /\ costs[m] \in Int /\ costs[n] \in Int
    BY <1>1, <1>2, <1>3, <1>4
  <2>2. costs[m] < IntMax
    BY <2>1, CallsAssumption
  <2>3. m \in LowestCostNode(costs, processed)
    BY <1>1, <1>2, <1>4, <2>2 DEF LowestCostNode
  <2> QED
    BY <2>3
<1>5. CASE Nodes = {start}
  <2>1. \A k \in rest : k = n
    BY <1>3, <1>5
  <2>2. costs[n] <= costs[n]
    BY <1>1
  <2> QED
    BY <1>3, <1>4, <2>1, <2>2
<1>6. CASE Nodes # {start}
  <2>1. \A k \in rest : costs[k] \in Nat
    <3> SUFFICES ASSUME NEW k \in rest PROVE costs[k] \in Nat
      OBVIOUS
    <3>1. k \in Entries(graph, start)
      BY <1>2
    <3>2. CASE k = start
      BY <1>1, <1>6, <3>1, <3>2
    <3>3. CASE k # start
      BY <1>1, <3>1, <3>3
    <3> QED
      BY <3>2, <3>3
  <2>2. PICK S : S = {costs[k] : k \in rest}
    OBVIOUS
  <2>3. S \subseteq Nat /\ S # {}
    BY <1>3, <2>1, <2>2
  <2>4. Min(S) \in S /\ \A x \in S : Min(S) <= x
    BY <2>3, MinIs
  <2>5. PICK m \in rest : costs[m] = Min(S)
    BY <2>2, <2>4
  <2>6. \A k \in rest : costs[m] <= costs[k]
    BY <2>2, <2>4, <2>5
  <2> QED
    BY <1>4, <2>6
<1> QED
  BY <1>5, <1>6

\* A branch is a path, of the cost of its node.
LEMMA BranchIsPath ==
    ASSUME NEW graph, NEW start, NEW w \in Nat, CostsUpTo(graph, start, w),
           NEW costs \in [Entries(graph, start) -> Int], NEW parents, NEW processed, NEW path, NEW n,
           processed \subseteq Entries(graph, start), n \in Entries(graph, start),
           Branch(graph, start, w, costs, parents, processed, path, n)
    PROVE  path \in PathsFrom(graph, start) /\ Last(path) = n /\ CostOf(graph, path) = costs[n]
<1>1. PICK m \in Nat : m = Len(path) /\ m > 1
  BY DEF Branch
<1>2. /\ path \in Seq(Nodes) /\ path # <<>> /\ IsInjective(path) /\ path[1] = start
      /\ path[m] = n /\ Edges(graph, path)
  BY <1>1 DEF Branch
<1>3. path \in PathsFrom(graph, start)
  BY <1>2, PathsAre
<1>4. PICK f : f = [i \in 1 .. m |-> Distance(costs, start, path[i])]
  OBVIOUS
<1>5. \A i \in 2 .. m : path[i] # start
  BY <1>1, BranchNodes
<1>6. \A i \in 1 .. m : path[i] \in processed \cup {start, n}
  BY <1>1, BranchNodes
<1>7. \A i \in 1 .. m : Distance(costs, start, path[i]) \in Int
  BY <1>6 DEF Distance
<1>8. f \in [1 .. m -> Int] /\ f[1] = 0
  BY <1>1, <1>2, <1>4, <1>7 DEF Distance
<1>9. ASSUME NEW i \in 1 .. m - 1 PROVE f[i + 1] = f[i] + graph[path[i]][path[i + 1]]
  <2>1. costs[path[i + 1]] = Distance(costs, start, path[i]) + graph[path[i]][path[i + 1]]
    BY <1>1 DEF Branch
  <2>2. i + 1 \in 2 .. m /\ i + 1 \in 1 .. m /\ i \in 1 .. m
    BY <1>1
  <2>3. f[i + 1] = costs[path[i + 1]]
    BY <1>4, <1>5, <2>2 DEF Distance
  <2> QED
    BY <1>4, <2>1, <2>2, <2>3
<1>10. CostsAlong(graph, path, f)
  BY <1>1, <1>8, <1>9 DEF CostsAlong
<1>11. PICK g : CostsAlong(graph, path, g) /\ g[Len(path)] = CostOf(graph, path)
  BY <1>2, CostsAlongExist
<1>12. f[Len(path)] = g[Len(path)]
  BY <1>2, <1>10, <1>11, CostsAlongSame
<1>13. f[m] = costs[n]
  <2>1. m \in 2 .. m /\ m \in 1 .. m
    BY <1>1
  <2> QED
    BY <1>2, <1>4, <1>5, <2>1 DEF Distance
<1> QED
  BY <1>1, <1>2, <1>3, <1>11, <1>12, <1>13 DEF Last

\* Where a path ends was processed, and costs no more than the path.
LEMMA PathsSeen ==
    ASSUME NEW graph, NEW start, NEW w, Cheap(w), CostsUpTo(graph, start, w),
           NEW costs, NEW parents, NEW processed,
           TreeOK(graph, start, w, costs, parents, processed),
           AllTaken(graph, start, costs, processed),
           NEW path \in PathsFrom(graph, start)
    PROVE  /\ Last(path) \in processed \cup {start}
           /\ Distance(costs, start, Last(path)) <= CostOf(graph, path)
           /\ CostOf(graph, path) \in Int
<1>1. path \in Seq(Nodes) /\ path # <<>> /\ IsInjective(path) /\ path[1] = start /\ Edges(graph, path)
  BY PathsAre
<1>2. PICK m \in Nat \ {0} : m = Len(path)
  BY <1>1
<1>3. w \in Nat
  BY DEF Cheap
<1>4. PICK f : CostsAlong(graph, path, f) /\ f[m] = CostOf(graph, path)
  BY <1>1, <1>2, <1>3, CostsAlongExist
<1>5. \A i \in 1 .. m : f[i] \in Int
  BY <1>2, <1>4 DEF CostsAlong
<1> DEFINE Seen(i) == path[i] \in processed \cup {start} /\ Distance(costs, start, path[i]) <= f[i]
           S == {k \in Nat : Seen(k + 1)}
<1>6. 0 \in S
  <2>1. Seen(1)
    BY <1>1, <1>4 DEF CostsAlong, Distance
  <2>2. 0 + 1 = 1
    OBVIOUS
  <2> HIDE DEF Seen
  <2> QED
    BY <2>1, <2>2
<1>7. ASSUME NEW k \in 0 .. (m - 1) - 1, k \in S PROVE k + 1 \in S
  <2>1. PICK i \in 1 .. m - 1 : i = k + 1
    BY <1>2
  <2>2. Seen(i)
    BY <1>7, <2>1
  <2>3. path[i + 1] \in DOMAIN graph[path[i]] /\ path[i] \in DOMAIN graph
    BY <1>1, <1>2 DEF Edges
  <2>4. PICK u, v : u = path[i] /\ v = path[i + 1]
    OBVIOUS
  <2>5. graph[u][v] \in Int
    BY <2>3, <2>4 DEF CostsUpTo
  <2>6. f[i + 1] = f[i] + graph[u][v] /\ f[i] \in Int /\ f[i + 1] \in Int
    BY <1>2, <1>4, <2>4 DEF CostsAlong
  <2>7. v \in Entries(graph, start) /\ costs[v] < IntMax
        /\ (v # start => costs[v] <= Distance(costs, start, u) + graph[u][v])
    BY <2>2, <2>3, <2>4 DEF TreeOK, EdgesSeen
  <2>8. v \in processed
    BY <2>7 DEF AllTaken
  <2>9. v # start
    <3>1. i + 1 \in 1 .. m /\ 1 \in 1 .. m /\ i + 1 # 1
      BY <1>2
    <3> QED
      BY <1>1, <1>2, <2>4, <3>1 DEF IsInjective
  <2>10. costs[v] \in Int /\ Distance(costs, start, u) \in Int
    <3>1. u = start \/ u \in Entries(graph, start)
      BY <2>2, <2>4 DEF TreeOK, CostsOK
    <3>2. \A n \in Entries(graph, start) : costs[n] \in Int
      BY DEF TreeOK, CostsOK
    <3> QED
      BY <2>7, <3>1, <3>2 DEF Distance
  <2>11. costs[v] <= f[i + 1]
    BY <2>2, <2>4, <2>5, <2>6, <2>7, <2>9, <2>10
  <2>12. Seen(i + 1)
    BY <2>4, <2>8, <2>9, <2>11 DEF Distance
  <2> HIDE DEF Seen
  <2> QED
    BY <2>1, <2>12
<1>8. 0 .. m - 1 \subseteq S
  <2>1. m - 1 \in Nat
    BY <1>2
  <2> HIDE DEF S
  <2> QED
    BY <1>6, <1>7, <2>1, NumbersUpTo
<1>9. Seen(m)
  <2>1. m - 1 \in 0 .. m - 1 /\ (m - 1) + 1 = m
    BY <1>2
  <2>2. m - 1 \in S
    BY <1>8, <2>1
  <2> HIDE DEF Seen
  <2> QED
    BY <2>1, <2>2
<1>10. Last(path) = path[m] /\ m \in 1 .. m
  BY <1>2 DEF Last
<1> QED
  BY <1>4, <1>5, <1>9, <1>10

------------------------------------------------------------------------------
(* dijkstraSearch: its result.                                             *)

\* A call with these arguments has the outcome it should have.
ShortestOf(args, outcome, result) ==
    LET paths == {p \in PathsFrom(args.graph, args.start) : Last(p) = args.end}
        costs == {CostOf(args.graph, p) : p \in paths}
    IN IF Unfit(args) THEN outcome = "thrown"
       ELSE /\ outcome = "returned"
            /\ IF paths = {} THEN result = [cost |-> IntMax, path |-> <<args.end>>]
               ELSE /\ result.cost = Min(costs)
                    /\ result.path \in paths
                    /\ CostOf(args.graph, result.path) = Min(costs)

\* The nodes of a branch from the k-th on, and the one before.
Followed(branch, k, paths, path) ==
    /\ paths \in Seq(Nodes) /\ Len(paths) = Len(branch) - k + 1
    /\ \A i \in 1 .. Len(paths) : paths[i] = branch[(i + k) - 1]
    /\ path = IF k = 1 THEN Nothing ELSE branch[k - 1]

\* The path followed back from the end, once no node is left.
Following(graph, start, end, w, costs, parents, processed, paths, path) ==
    end \in Entries(graph, start) =>
       \/ costs[end] = IntMax /\ path = Nothing /\ paths = <<end>>
       \/ /\ costs[end] < IntMax /\ start \in Entries(graph, start)
          /\ path \in Nodes /\ parents[path] # Nothing
       \/ /\ costs[end] < IntMax /\ start \notin Entries(graph, start)
          /\ \E branch : \E k \in 1 .. Len(branch) :
                /\ Branch(graph, start, w, costs, parents, processed, branch, end)
                /\ Followed(branch, k, paths, path)

\* A node with a cost has a parent, which has one as well unless it is start.
LEMMA ParentsHaveParents ==
    ASSUME NEW graph, NEW start, NEW w, CostsUpTo(graph, start, w),
           NEW costs, NEW parents, NEW processed,
           TreeOK(graph, start, w, costs, parents, processed),
           NEW n \in Nodes, parents[n] # Nothing
    PROVE  /\ parents[n] \in Nodes /\ parents[n] \in processed \cup {start}
           /\ parents[n] # start \/ start \in Entries(graph, start) => parents[parents[n]] # Nothing
<1>1. PICK D : D = Entries(graph, start)
  OBVIOUS
<1>2. D \subseteq Nodes /\ processed \subseteq D /\ start \in Nodes
  BY <1>1 DEF Entries, CostsUpTo, TreeOK, CostsOK
<1>3. parents[n] \in processed \cup {start}
  BY DEF TreeOK, ParentsOK
<1>4. \A x \in Nodes : parents[x] = Nothing <=> (x \in D => costs[x] = IntMax)
  BY <1>1 DEF TreeOK, ParentsOK
<1>5. \A x \in processed : costs[x] # IntMax
  <2> SUFFICES ASSUME NEW x \in processed PROVE costs[x] # IntMax
    OBVIOUS
  <2>1. costs[x] < IntMax /\ costs[x] \in Int
    BY <1>1, <1>2 DEF TreeOK, CostsOK
  <2> QED
    BY <2>1, CallsAssumption
<1>6. start \in D => costs[start] # IntMax
  <2> SUFFICES ASSUME start \in D PROVE costs[start] # IntMax
    OBVIOUS
  <2>1. costs[start] < IntMax /\ costs[start] \in Int
    BY <1>1 DEF TreeOK, CostsOK
  <2> QED
    BY <2>1, CallsAssumption
<1>7. ASSUME parents[n] # start \/ start \in D PROVE parents[parents[n]] # Nothing
  <2>1. PICK x : x = parents[n]
    OBVIOUS
  <2>2. x \in D /\ x \in Nodes /\ costs[x] # IntMax
    BY <1>2, <1>3, <1>5, <1>6, <1>7, <2>1
  <2> QED
    BY <1>4, <2>1, <2>2
<1> QED
  BY <1>1, <1>2, <1>3, <1>7

LEMMA FollowingStarts ==
    ASSUME NEW graph, NEW start, NEW w, Cheap(w), CostsUpTo(graph, start, w),
           NEW costs, NEW parents, NEW processed,
           TreeOK(graph, start, w, costs, parents, processed),
           NEW end \in Nodes
    PROVE  Following(graph, start, end, w, costs, parents, processed, <<end>>, parents[end])
<1> SUFFICES ASSUME end \in Entries(graph, start)
             PROVE  Following(graph, start, end, w, costs, parents, processed, <<end>>, parents[end])
  BY DEF Following
<1>1. parents[end] = Nothing <=> costs[end] = IntMax
  BY DEF TreeOK, ParentsOK
<1>2. costs[end] \in Int /\ costs[end] <= IntMax /\ IntMax \in Nat
  BY CallsAssumption DEF TreeOK, CostsOK
<1>3. CASE costs[end] = IntMax
  BY <1>1, <1>3 DEF Following
<1>4. CASE costs[end] < IntMax /\ start \in Entries(graph, start)
  <2>1. parents[end] # Nothing
    BY <1>1, <1>2, <1>4
  <2>2. parents[end] \in Nodes /\ parents[parents[end]] # Nothing
    BY <1>4, <2>1, ParentsHaveParents
  <2> QED
    BY <1>4, <2>2 DEF Following
<1>5. CASE costs[end] < IntMax /\ start \notin Entries(graph, start)
  <2>1. end \in Entries(graph, start) \ {start}
    BY <1>5
  <2>2. PICK branch : Branch(graph, start, w, costs, parents, processed, branch, end)
    BY <1>5, <2>1 DEF TreeOK, Branches
  <2>3. PICK k \in Nat : k = Len(branch) /\ k > 1
    BY <2>2 DEF Branch
  <2>4. branch[k] = end /\ k - 1 \in 1 .. k - 1 /\ (k - 1) + 1 = k
    BY <2>2, <2>3 DEF Branch
  <2>5. parents[end] = branch[k - 1]
    BY <2>2, <2>3, <2>4 DEF Branch
  <2>6. PICK paths : paths = <<end>>
    OBVIOUS
  <2>7. paths \in Seq(Nodes) /\ Len(paths) = k - k + 1 /\ \A i \in 1 .. Len(paths) : paths[i] = branch[(i + k) - 1]
    <3>1. paths \in Seq(Nodes) /\ Len(paths) = 1 /\ paths[1] = end
      BY <2>6
    <3>2. \A i \in 1 .. Len(paths) : i = 1 /\ (i + k) - 1 = k
      BY <2>3, <3>1
    <3> QED
      BY <2>3, <2>4, <3>1, <3>2
  <2>8. k \in 1 .. Len(branch) /\ k # 1
    BY <2>3
  <2>9. Followed(branch, k, paths, parents[end])
    BY <2>3, <2>5, <2>7, <2>8 DEF Followed
  <2> QED
    BY <1>5, <2>2, <2>6, <2>8, <2>9 DEF Following
<1> QED
  BY <1>2, <1>3, <1>4, <1>5

LEMMA FollowingGoesOn ==
    ASSUME NEW graph, NEW start, NEW w, Cheap(w), CostsUpTo(graph, start, w),
           NEW costs, NEW parents, NEW processed,
           TreeOK(graph, start, w, costs, parents, processed),
           NEW end \in Nodes, NEW paths, NEW path, path # Nothing,
           Following(graph, start, end, w, costs, parents, processed, paths, path),
           NEW paths2, paths2 = IF Len(paths) <= Cardinality(Nodes) THEN <<path>> \o paths ELSE paths
    PROVE  Following(graph, start, end, w, costs, parents, processed, paths2, parents[path])
<1> SUFFICES ASSUME end \in Entries(graph, start)
             PROVE  Following(graph, start, end, w, costs, parents, processed, paths2, parents[path])
  BY DEF Following
<1>1. CASE /\ costs[end] < IntMax /\ start \in Entries(graph, start)
           /\ path \in Nodes /\ parents[path] # Nothing
  <2>1. parents[path] \in Nodes /\ parents[parents[path]] # Nothing
    BY <1>1, ParentsHaveParents
  <2> QED
    BY <1>1, <2>1 DEF Following
<1>2. ASSUME costs[end] < IntMax, start \notin Entries(graph, start),
             NEW branch, NEW k \in 1 .. Len(branch),
             Branch(graph, start, w, costs, parents, processed, branch, end),
             Followed(branch, k, paths, path)
      PROVE  Following(graph, start, end, w, costs, parents, processed, paths2, parents[path])
  <2>1. PICK m \in Nat : m = Len(branch) /\ m > 1
    BY <1>2 DEF Branch
  <2>2. k # 1 /\ path = branch[k - 1]
    BY <1>2 DEF Followed
  <2>3. k \in 2 .. m /\ k - 1 \in 1 .. m - 1 /\ k - 1 \in 1 .. m
    BY <1>2, <2>1, <2>2
  <2>4. branch \in Seq(Nodes) /\ m <= Cardinality(Nodes) /\ path \in Nodes
    BY <1>2, <2>1, <2>2, <2>3, PathLength DEF Branch
  <2>5. Cardinality(Nodes) \in Nat
    BY AlgorithmsAssumption, FS_CardinalityType
  <2>6. PICK l \in Nat : l = Len(paths) /\ l = m - k + 1 /\ l <= Cardinality(Nodes)
    BY <1>2, <2>1, <2>3, <2>4, <2>5 DEF Followed
  <2>7. /\ paths2 \in Seq(Nodes) /\ Len(paths2) = l + 1 /\ paths2[1] = path
        /\ \A i \in 1 .. l : paths2[i + 1] = paths[i]
    <3>1. PICK first : first = <<path>>
      OBVIOUS
    <3>2. first \in Seq(Nodes) /\ Len(first) = 1 /\ first[1] = path
      BY <2>4, <3>1
    <3>3. paths2 = first \o paths
      BY <2>6, <3>1
    <3>4. /\ paths2 \in Seq(Nodes) /\ Len(paths2) = 1 + l
          /\ \A i \in 1 .. 1 + l : paths2[i] = IF i <= 1 THEN first[i] ELSE paths[i - 1]
      <4>1. paths \in Seq(Nodes)
        BY <1>2 DEF Followed
      <4>2. /\ first \o paths \in Seq(Nodes) /\ Len(first \o paths) = Len(first) + Len(paths)
            /\ \A i \in 1 .. Len(first) + Len(paths) :
                  (first \o paths)[i] = IF i <= Len(first) THEN first[i] ELSE paths[i - Len(first)]
        BY <3>2, <4>1, ConcatProperties
      <4> QED
        BY <2>6, <3>2, <3>3, <4>2
    <3>5. ASSUME NEW i \in 1 .. l PROVE paths2[i + 1] = paths[i]
      <4>1. i + 1 \in 1 .. 1 + l /\ ~(i + 1 <= 1) /\ (i + 1) - 1 = i
        BY <2>6
      <4> QED
        BY <3>4, <4>1
    <3>6. 1 \in 1 .. 1 + l
      BY <2>6
    <3> QED
      BY <2>6, <3>2, <3>4, <3>5, <3>6
  <2>8. ASSUME NEW i \in 1 .. l + 1 PROVE paths2[i] = branch[(i + (k - 1)) - 1]
    <3>1. CASE i = 1
      <4>1. (i + (k - 1)) - 1 = k - 1
        BY <3>1
      <4> QED
        BY <2>2, <2>7, <3>1, <4>1
    <3>2. CASE i # 1
      <4>1. PICK j \in 1 .. l : i = j + 1
        <5>1. i - 1 \in 1 .. l /\ i = (i - 1) + 1
          BY <2>6, <3>2
        <5> QED
          BY <5>1
      <4>2. paths2[i] = paths[j] /\ paths[j] = branch[(j + k) - 1]
        BY <1>2, <2>6, <2>7, <4>1 DEF Followed
      <4>3. (i + (k - 1)) - 1 = (j + k) - 1
        BY <4>1
      <4> QED
        BY <4>2, <4>3
    <3> QED
      BY <3>1, <3>2
  <2>9. parents[path] = IF k - 1 = 1 THEN Nothing ELSE branch[(k - 1) - 1]
    <3>1. CASE k - 1 = 1
      <4>1. path = start /\ start \in Nodes
        BY <1>2, <2>2, <3>1 DEF Branch, CostsUpTo
      <4> QED
        BY <1>2, <3>1, <4>1 DEF TreeOK, ParentsOK
    <3>2. CASE k - 1 # 1
      <4>1. PICK i \in 1 .. m - 1 : i = (k - 1) - 1 /\ i + 1 = k - 1
        <5>1. (k - 1) - 1 \in 1 .. m - 1 /\ ((k - 1) - 1) + 1 = k - 1
          BY <2>1, <2>3, <3>2
        <5> QED
          BY <5>1
      <4>2. parents[branch[i + 1]] = branch[i]
        BY <1>2, <2>1 DEF Branch
      <4> QED
        BY <2>2, <3>2, <4>1, <4>2
    <3> QED
      BY <3>1, <3>2
  <2>10. k - 1 \in 1 .. Len(branch) /\ Len(paths2) = Len(branch) - (k - 1) + 1 /\ Len(paths2) = l + 1
    BY <2>1, <2>3, <2>6, <2>7
  <2>11. Followed(branch, k - 1, paths2, parents[path])
    BY <2>7, <2>8, <2>9, <2>10 DEF Followed
  <2> QED
    BY <1>2, <2>10, <2>11 DEF Following
<1>3. \/ costs[end] = IntMax /\ path = Nothing /\ paths = <<end>>
      \/ /\ costs[end] < IntMax /\ start \in Entries(graph, start)
         /\ path \in Nodes /\ parents[path] # Nothing
      \/ /\ costs[end] < IntMax /\ start \notin Entries(graph, start)
         /\ \E branch : \E k \in 1 .. Len(branch) :
               /\ Branch(graph, start, w, costs, parents, processed, branch, end)
               /\ Followed(branch, k, paths, path)
  BY DEF Following
<1> QED
  BY <1>1, <1>2, <1>3

\* A node that is reached and with which the loop throws makes the graph unfit.
LEMMA ThrowsOnlyUnfit ==
    ASSUME NEW args, NEW w, Cheap(w), CostsUpTo(args.graph, args.start, w),
           NEW costs, NEW parents, NEW processed,
           TreeOK(args.graph, args.start, w, costs, parents, processed),
           NEW node \in Entries(args.graph, args.start), costs[node] < IntMax,
           node \notin DOMAIN args.graph
             \/ ~ DOMAIN args.graph[node] \subseteq Entries(args.graph, args.start)
    PROVE  Unfit(args)
<1>1. PICK graph, start : graph = args.graph /\ start = args.start
  OBVIOUS
<1>2. node # start
  <2>1. start \in DOMAIN graph /\ DOMAIN graph[start] \subseteq Entries(graph, start)
    BY <1>1 DEF CostsUpTo, Entries
  <2> QED
    BY <1>1, <2>1
<1>3. PICK path : Branch(graph, start, w, costs, parents, processed, path, node)
  BY <1>1, <1>2 DEF TreeOK, Branches
<1>4. path \in PathsFrom(graph, start) /\ Last(path) = node
  <2>1. w \in Nat /\ costs \in [Entries(graph, start) -> Int] /\ processed \subseteq Entries(graph, start)
    BY <1>1 DEF Cheap, TreeOK, CostsOK
  <2> QED
    BY <1>1, <1>3, <2>1, BranchIsPath
<1>5. node \in Reached(graph, start)
  BY <1>4 DEF Reached
<1> QED
  BY <1>1, <1>5 DEF Unfit, Entries

\* When all is processed, only an end that has no entry does.
LEMMA UnfitAtEnd ==
    ASSUME NEW args, NEW w, Cheap(w), CostsUpTo(args.graph, args.start, w),
           NEW costs, NEW parents, NEW processed,
           TreeOK(args.graph, args.start, w, costs, parents, processed),
           AllTaken(args.graph, args.start, costs, processed)
    PROVE  Unfit(args) <=> args.end \notin Entries(args.graph, args.start)
<1>1. PICK graph, start : graph = args.graph /\ start = args.start
  OBVIOUS
<1>2. ASSUME NEW n \in Reached(graph, start)
      PROVE  n \in DOMAIN graph /\ DOMAIN graph[n] \subseteq Entries(graph, start)
  <2>1. PICK path \in PathsFrom(graph, start) : n = Last(path)
    BY DEF Reached
  <2>2. n \in processed \cup {start}
    BY <1>1, <2>1, PathsSeen
  <2>3. n \in DOMAIN graph
    BY <1>1, <2>2 DEF TreeOK, CostsOK, CostsUpTo
  <2>4. DOMAIN graph[n] \subseteq Entries(graph, start)
    BY <1>1, <2>2 DEF TreeOK, EdgesSeen
  <2> QED
    BY <2>3, <2>4
<1> QED
  BY <1>1, <1>2 DEF Unfit, Entries

\* What is returned when the path was followed back.
LEMMA ReturnsShortest ==
    ASSUME NEW args, NEW w, Cheap(w), CostsUpTo(args.graph, args.start, w),
           NEW costs, NEW parents, NEW processed,
           TreeOK(args.graph, args.start, w, costs, parents, processed),
           AllTaken(args.graph, args.start, costs, processed),
           args.end \in Entries(args.graph, args.start), NEW paths,
           Following(args.graph, args.start, args.end, w, costs, parents, processed, paths, Nothing)
    PROVE  ShortestOf(args, "returned", [cost |-> costs[args.end], path |-> paths])
<1>1. PICK graph, start, end, result, ps, cs :
         /\ graph = args.graph /\ start = args.start /\ end = args.end
         /\ result = [cost |-> costs[end], path |-> paths]
         /\ ps = {p \in PathsFrom(graph, start) : Last(p) = end}
         /\ cs = {CostOf(graph, p) : p \in ps}
  OBVIOUS
<1>2. result.cost = costs[end] /\ result.path = paths
  BY <1>1
<1>3. ~Unfit(args)
  BY UnfitAtEnd
<1>4. ASSUME IF ps = {} THEN result = [cost |-> IntMax, path |-> <<end>>]
             ELSE /\ result.cost = Min(cs) /\ result.path \in ps
                  /\ CostOf(graph, result.path) = Min(cs)
      PROVE  ShortestOf(args, "returned", result)
  BY <1>1, <1>3, <1>4 DEF ShortestOf
<1>5. costs \in [Entries(graph, start) -> Int] /\ processed \subseteq Entries(graph, start)
      /\ w \in Nat /\ IntMax \in Nat
  BY <1>1, CallsAssumption DEF TreeOK, CostsOK, Cheap
<1>6. CASE costs[end] = IntMax /\ paths = <<end>>
  <2>1. ASSUME NEW p \in ps PROVE FALSE
    <3>1. p \in PathsFrom(graph, start) /\ Last(p) = end
      BY <1>1
    <3>2. end \in processed \cup {start}
      BY <1>1, <3>1, PathsSeen
    <3>3. costs[end] < IntMax
      BY <1>1, <3>2 DEF TreeOK, CostsOK
    <3> QED
      BY <1>5, <1>6, <3>3
  <2>2. ps = {}
    BY <2>1
  <2>3. result = [cost |-> IntMax, path |-> <<end>>]
    BY <1>1, <1>6
  <2> QED
    BY <1>1, <1>4, <2>2, <2>3
<1>7. ASSUME NEW branch, NEW k \in 1 .. Len(branch), start \notin Entries(graph, start),
             Branch(graph, start, w, costs, parents, processed, branch, end),
             Followed(branch, k, paths, Nothing)
      PROVE  ShortestOf(args, "returned", result)
  <2>1. PICK m \in Nat : m = Len(branch) /\ m > 1
    BY <1>7 DEF Branch
  <2>2. branch \in Seq(Nodes)
    BY <1>7 DEF Branch
  <2>3. k = 1
    <3> SUFFICES ASSUME k # 1 PROVE FALSE
      OBVIOUS
    <3>1. k - 1 \in 1 .. Len(branch)
      BY <2>1
    <3>2. branch[k - 1] \in Nodes
      BY <2>2, <3>1
    <3> QED
      BY <1>7, <3>2, AlgorithmsAssumption DEF Followed
  <2>4. paths = branch
    <3>1. paths \in Seq(Nodes) /\ Len(paths) = m /\ \A i \in 1 .. m : paths[i] = branch[i]
      <4>1. paths \in Seq(Nodes) /\ Len(paths) = m
        BY <1>7, <2>1, <2>3 DEF Followed
      <4>2. ASSUME NEW i \in 1 .. m PROVE paths[i] = branch[i]
        <5>1. (i + 1) - 1 = i
          OBVIOUS
        <5> QED
          BY <1>7, <2>3, <4>1, <5>1 DEF Followed
      <4> QED
        BY <4>1, <4>2
    <3> QED
      BY <2>1, <2>2, <3>1, SeqEqual
  <2>5. branch \in PathsFrom(graph, start) /\ Last(branch) = end /\ CostOf(graph, branch) = costs[end]
    BY <1>1, <1>5, <1>7, BranchIsPath
  <2>6. branch \in ps /\ costs[end] \in cs
    BY <1>1, <2>5
  <2>7. end # start /\ end \in Entries(graph, start)
    BY <1>1, <1>7
  <2>8. costs[end] \in Nat
    BY <1>1, <2>7 DEF TreeOK, CostsOK
  <2>9. ASSUME NEW p \in ps PROVE CostOf(graph, p) \in Nat /\ costs[end] <= CostOf(graph, p)
    <3>1. p \in PathsFrom(graph, start) /\ Last(p) = end
      BY <1>1
    <3>2. Distance(costs, start, end) <= CostOf(graph, p) /\ CostOf(graph, p) \in Int
      BY <1>1, <3>1, PathsSeen
    <3>3. Distance(costs, start, end) = costs[end]
      BY <2>7 DEF Distance
    <3> QED
      BY <2>8, <3>2, <3>3
  <2>10. cs \subseteq Nat /\ \A c \in cs : costs[end] <= c
    BY <1>1, <2>9
  <2>11. Min(cs) = costs[end]
    <3>1. PICK c : c = Min(cs)
      OBVIOUS
    <3>2. c \in cs /\ \A x \in cs : c <= x
      BY <2>6, <2>10, <3>1, MinIs
    <3>3. c \in Nat /\ costs[end] <= c /\ c <= costs[end]
      BY <2>6, <2>10, <3>2
    <3> QED
      BY <2>8, <3>1, <3>3
  <2> QED
    BY <1>2, <1>4, <2>4, <2>5, <2>6, <2>11
<1>8. Nothing \notin Nodes
  BY AlgorithmsAssumption
<1>9. \/ costs[end] = IntMax /\ paths = <<end>>
      \/ /\ start \notin Entries(graph, start)
         /\ \E branch : \E k \in 1 .. Len(branch) :
               /\ Branch(graph, start, w, costs, parents, processed, branch, end)
               /\ Followed(branch, k, paths, Nothing)
  BY <1>1, <1>8 DEF Following
<1> QED
  BY <1>1, <1>6, <1>7, <1>9

------------------------------------------------------------------------------

\* The two loops of a call that runs.
Processing(graph, start, w, locals) ==
    \E costs : \E parents : \E processed :
       /\ locals = [costs |-> costs, parents |-> parents, processed |-> processed]
       /\ TreeOK(graph, start, w, costs, parents, processed)

GoingBack(graph, start, end, w, locals) ==
    \E costs : \E parents : \E processed : \E paths : \E path :
       /\ locals = [costs |-> costs, parents |-> parents, paths |-> paths, path |-> path]
       /\ TreeOK(graph, start, w, costs, parents, processed)
       /\ AllTaken(graph, start, costs, processed)
       /\ Following(graph, start, end, w, costs, parents, processed, paths, path)

DijkstraOK ==
    call.function = "dijkstraSearch" /\ NoOverflow(call.args.graph) =>
       \E w :
          /\ Cheap(w) /\ CostsUpTo(call.args.graph, call.args.start, w) /\ call.args.end \in Nodes
          /\ call.outcome = "running" =>
                \/ Processing(call.args.graph, call.args.start, w, call.locals)
                \/ GoingBack(call.args.graph, call.args.start, call.args.end, w, call.locals)
          /\ call.outcome # "running" => ShortestOf(call.args, call.outcome, call.result)

\* Costs that do not overflow are cheap.
LEMMA CheapCosts ==
    ASSUME NEW keys \in SUBSET Nodes,
           NEW graph \in [keys -> UNION {[to -> 0 .. IntMax] : to \in SUBSET Nodes}],
           NEW start \in keys, NoOverflow(graph)
    PROVE  \E w : Cheap(w) /\ CostsUpTo(graph, start, w)
<1>1. IntMax \in Nat \ {0} /\ Cardinality(Nodes) \in Nat
  BY CallsAssumption, AlgorithmsAssumption, FS_CardinalityType
<1>2. \A n \in keys : DOMAIN graph[n] \subseteq Nodes /\ \A m \in DOMAIN graph[n] : graph[n][m] \in 0 .. IntMax
  <2> SUFFICES ASSUME NEW n \in keys
               PROVE  DOMAIN graph[n] \subseteq Nodes
                      /\ \A m \in DOMAIN graph[n] : graph[n][m] \in 0 .. IntMax
    OBVIOUS
  <2>1. PICK to \in SUBSET Nodes : graph[n] \in [to -> 0 .. IntMax]
    OBVIOUS
  <2> QED
    BY <2>1
<1>3. PICK t : t = {x \in 1 .. IntMax : \E n \in keys : \E m \in DOMAIN graph[n] : graph[n][m] = x}
  OBVIOUS
<1>4. ASSUME NEW w \in Nat, \A x \in t : x <= w PROVE CostsUpTo(graph, start, w)
  <2>1. ASSUME NEW n \in keys, NEW m \in DOMAIN graph[n] PROVE graph[n][m] \in 0 .. w
    <3>1. PICK x : x = graph[n][m] /\ x \in 0 .. IntMax
      BY <1>2
    <3>2. x = 0 \/ x \in t
      BY <1>1, <1>3, <3>1
    <3>3. x \in 0 .. w
      BY <1>1, <1>4, <3>1, <3>2
    <3> QED
      BY <3>1, <3>3
  <2> QED
    BY <1>2, <2>1 DEF CostsUpTo
<1>5. CASE t = {}
  <2>1. Cheap(0)
    <3>1. Cardinality(Nodes) * 0 = 0
      BY <1>1
    <3> QED
      BY <1>1, <3>1 DEF Cheap
  <2>2. 0 \in Nat
    OBVIOUS
  <2> QED
    BY <1>4, <1>5, <2>1, <2>2
<1>6. CASE t # {}
  <2>1. PICK w : w = Max(t)
    OBVIOUS
  <2>2. w \in t /\ \A x \in t : w >= x
    <3>1. t \in SUBSET (1 .. IntMax)
      BY <1>3
    <3> QED
      BY <1>1, <1>6, <2>1, <3>1, MaxIn
  <2>3. w \in Nat /\ Cardinality(Nodes) * w < IntMax
    BY <1>3, <2>2 DEF NoOverflow
  <2>4. \A x \in t : x <= w
    BY <1>3, <2>2, <2>3
  <2> QED
    BY <1>4, <2>3, <2>4 DEF Cheap
<1> QED
  BY <1>5, <1>6

LEMMA DijkstraStarts == Init => DijkstraOK
<1> SUFFICES ASSUME Init, call.function = "dijkstraSearch", NoOverflow(call.args.graph) PROVE DijkstraOK
  BY DEF DijkstraOK
<1>1. PICK keys \in SUBSET Nodes :
         \E graph \in [keys -> UNION {[to -> 0 .. IntMax] : to \in SUBSET Nodes}] :
         \E start \in keys : \E end \in Nodes : call = Dijkstra(graph, start, end)
  BY CallStarts
<1>2. PICK graph \in [keys -> UNION {[to -> 0 .. IntMax] : to \in SUBSET Nodes}],
           start \in keys, end \in Nodes : call = Dijkstra(graph, start, end)
  BY <1>1
<1>3. PICK costs, parents :
         /\ costs = [n \in Entries(graph, start) |->
                       IF n \in DOMAIN graph[start] THEN graph[start][n] ELSE IntMax]
         /\ parents = [n \in Nodes |-> IF n \in DOMAIN graph[start] THEN start ELSE Nothing]
  OBVIOUS
<1>4. /\ call.args = [graph |-> graph, start |-> start, end |-> end] /\ call.outcome = "running"
      /\ call.locals = [costs |-> costs, parents |-> parents, processed |-> {}]
  BY <1>2, <1>3 DEF Dijkstra, CallOf, Entries
<1>5. call.args.graph = graph /\ call.args.start = start /\ call.args.end = end
  BY <1>4
<1>6. PICK w : Cheap(w) /\ CostsUpTo(graph, start, w)
  BY <1>5, CheapCosts
<1>7. TreeOK(graph, start, w, costs, parents, {})
  BY <1>3, <1>6, TreeStarts
<1>8. Processing(graph, start, w, call.locals)
  BY <1>4, <1>7 DEF Processing
<1> QED
  BY <1>4, <1>5, <1>6, <1>8 DEF DijkstraOK

\* The locals with a longer list of paths and the next node to go back to.
Replaced(locals, paths, path) == [locals EXCEPT !.paths = paths, !.path = path]

\* Only the two fields change.
LEMMA PathsReplaced ==
  ASSUME NEW costs, NEW parents, NEW paths, NEW path, NEW locals, NEW paths2, NEW path2,
         locals = [costs |-> costs, parents |-> parents, paths |-> paths, path |-> path]
  PROVE  Replaced(locals, paths2, path2)
         = [costs |-> costs, parents |-> parents, paths |-> paths2, path |-> path2]
<1>1. PICK one : one = [costs |-> costs, parents |-> parents, paths |-> paths2, path |-> path]
  OBVIOUS
<1>2. [locals EXCEPT !.paths = paths2] = one
  BY <1>1
<1>3. [one EXCEPT !.path = path2]
      = [costs |-> costs, parents |-> parents, paths |-> paths2, path |-> path2]
  BY <1>1
<1>4. [[locals EXCEPT !.paths = paths2] EXCEPT !.path = path2] = [one EXCEPT !.path = path2]
  BY ONLY <1>2, Zenon
<1>5. [locals EXCEPT !.paths = paths2, !.path = path2] = [[locals EXCEPT !.paths = paths2] EXCEPT !.path = path2]
  OBVIOUS
<1> QED
  BY <1>3, <1>4, <1>5 DEF Replaced


\* The turn for a node goes on with a tree, or throws for an unfit graph.
LEMMA TurnIsRight ==
    ASSUME NEW args, NEW w, Cheap(w), CostsUpTo(args.graph, args.start, w),
           NEW costs, NEW parents, NEW processed,
           TreeOK(args.graph, args.start, w, costs, parents, processed),
           NEW node \in LowestCostNode(costs, processed)
    PROVE  IF node \notin DOMAIN args.graph \/ ~ DOMAIN args.graph[node] \subseteq DOMAIN costs
           THEN Unfit(args)
           ELSE TreeOK(args.graph, args.start, w, TurnCosts(args.graph, costs, node),
                       TurnParents(args.graph, costs, parents, node), processed \cup {node})
<1>1. PICK graph, start : graph = args.graph /\ start = args.start
  OBVIOUS
<1>2. DOMAIN costs = Entries(graph, start)
  BY <1>1 DEF TreeOK, CostsOK
<1>3. /\ node \in Entries(graph, start) \ processed /\ costs[node] < IntMax
      /\ \A m \in Entries(graph, start) \ processed : costs[node] <= costs[m]
  BY <1>2 DEF LowestCostNode
<1>4. CASE node \notin DOMAIN graph \/ ~ DOMAIN graph[node] \subseteq DOMAIN costs
  <2>1. Unfit(args)
    BY <1>1, <1>2, <1>3, <1>4, ThrowsOnlyUnfit
  <2> QED
    BY <1>1, <1>4, <2>1
<1>5. CASE node \in DOMAIN graph /\ DOMAIN graph[node] \subseteq DOMAIN costs
  <2>1. Taken(graph, start, costs, processed, node)
    BY <1>2, <1>3, <1>5 DEF Taken
  <2>2. TreeOK(graph, start, w, TurnCosts(graph, costs, node),
               TurnParents(graph, costs, parents, node), processed \cup {node})
    <3>1. CASE node = start
      BY <1>1, <2>1, <3>1, TurnOfStart
    <3>2. CASE node # start
      BY <1>1, <2>1, <3>2, TurnOfOther
    <3> QED
      BY <3>1, <3>2
  <2> QED
    BY <1>1, <1>5, <2>2
<1> QED
  BY <1>4, <1>5

LEMMA DijkstraStep == CallOK /\ DijkstraOK /\ [Next]_call => DijkstraOK'
<1> SUFFICES ASSUME CallOK, DijkstraOK, [Next]_call, call.function = "dijkstraSearch",
                    NoOverflow(call.args.graph)
             PROVE  DijkstraOK'
  BY CallKept DEF DijkstraOK
<1>1. call'.function = call.function /\ call'.args = call.args
  BY CallKept
<1>2. CASE call' = call
  BY <1>2 DEF DijkstraOK
<1>3. ASSUME call.outcome = "running", ProcessNext \/ PathNext PROVE DijkstraOK'
  <2>1. PICK args, graph, start, end :
           args = call.args /\ graph = args.graph /\ start = args.start /\ end = args.end
    OBVIOUS
  <2>2. PICK w : /\ Cheap(w) /\ CostsUpTo(graph, start, w) /\ end \in Nodes
                 /\ Processing(graph, start, w, call.locals)
                      \/ GoingBack(graph, start, end, w, call.locals)
    BY <1>3, <2>1 DEF DijkstraOK
  <2>3. ASSUME NEW locals, Continue(locals),
               Processing(graph, start, w, locals) \/ GoingBack(graph, start, end, w, locals)
        PROVE  DijkstraOK'
    <3>1. call'.outcome = "running" /\ call'.locals = locals
      BY <1>3, <2>3, Continues
    <3> QED
      BY <1>1, <2>1, <2>2, <2>3, <3>1 DEF DijkstraOK
  <2>4. ASSUME NEW outcome \in {"returned", "thrown"}, NEW result, End(outcome, result),
               ShortestOf(args, outcome, result)
        PROVE  DijkstraOK'
    <3>1. call'.outcome = outcome /\ call'.result = result /\ outcome # "running"
      BY <2>4, CallEnds
    <3> QED
      BY <1>1, <2>1, <2>2, <2>4, <3>1 DEF DijkstraOK
  <2>5. ASSUME Unfit(args), NEW exception PROVE ShortestOf(args, "thrown", exception)
    BY <2>5 DEF ShortestOf
  <2>6. ASSUME NEW costs, NEW parents, NEW processed,
               call.locals = [costs |-> costs, parents |-> parents, processed |-> processed],
               TreeOK(graph, start, w, costs, parents, processed)
        PROVE  DijkstraOK'
    <3>1. /\ call.locals.costs = costs /\ call.locals.parents = parents
          /\ call.locals.processed = processed /\ ~("path" \in DOMAIN call.locals)
      BY <2>6
    <3>2. ProcessNext
      BY <1>3, <3>1 DEF PathNext
    <3>3. ASSUME NEW node \in LowestCostNode(costs, processed), Process(node) PROVE DijkstraOK'
      <4>1. IF node \notin DOMAIN graph \/ ~ DOMAIN graph[node] \subseteq DOMAIN costs
            THEN Throw("NoSuchElement")
            ELSE Continue([costs |-> TurnCosts(graph, costs, node),
                           parents |-> TurnParents(graph, costs, parents, node),
                           processed |-> processed \cup {node}])
        BY <2>1, <3>1, <3>3 DEF Process, TurnCosts, TurnParents, NewCosts
      <4>2. IF node \notin DOMAIN graph \/ ~ DOMAIN graph[node] \subseteq DOMAIN costs
            THEN Unfit(args)
            ELSE TreeOK(graph, start, w, TurnCosts(graph, costs, node),
                        TurnParents(graph, costs, parents, node), processed \cup {node})
        BY <2>1, <2>2, <2>6, <3>3, TurnIsRight
      <4>3. CASE node \notin DOMAIN graph \/ ~ DOMAIN graph[node] \subseteq DOMAIN costs
        <5>1. End("thrown", "NoSuchElement") /\ ShortestOf(args, "thrown", "NoSuchElement")
          BY <2>5, <4>1, <4>2, <4>3 DEF Throw
        <5> QED
          BY <2>4, <5>1
      <4>4. CASE ~(node \notin DOMAIN graph \/ ~ DOMAIN graph[node] \subseteq DOMAIN costs)
        <5>1. PICK locals : locals = [costs |-> TurnCosts(graph, costs, node),
                                      parents |-> TurnParents(graph, costs, parents, node),
                                      processed |-> processed \cup {node}]
          OBVIOUS
        <5>2. Processing(graph, start, w, locals)
          BY <4>2, <4>4, <5>1 DEF Processing
        <5> QED
          BY <2>3, <4>1, <4>4, <5>1, <5>2
      <4> QED
        BY <4>3, <4>4
    <3>4. ASSUME LowestCostNode(costs, processed) = {},
                 Continue([costs |-> costs, parents |-> parents, paths |-> <<end>>, path |-> parents[end]])
          PROVE  DijkstraOK'
      <4>1. PICK locals : locals = [costs |-> costs, parents |-> parents, paths |-> <<end>>,
                                    path |-> parents[end]]
        OBVIOUS
      <4>2. AllTaken(graph, start, costs, processed)
        BY <2>2, <2>6, <3>4, TreeIsDone
      <4>3. Following(graph, start, end, w, costs, parents, processed, <<end>>, parents[end])
        BY <2>2, <2>6, FollowingStarts
      <4>4. GoingBack(graph, start, end, w, locals)
        BY <2>6, <4>1, <4>2, <4>3 DEF GoingBack
      <4> QED
        BY <2>3, <3>4, <4>1, <4>4
    <3>5. \/ \E node \in LowestCostNode(costs, processed) : Process(node)
          \/ /\ LowestCostNode(costs, processed) = {}
             /\ Continue([costs |-> costs, parents |-> parents, paths |-> <<end>>,
                          path |-> parents[end]])
      BY <2>1, <3>1, <3>2 DEF ProcessNext
    <3> QED
      BY <3>3, <3>4, <3>5
  <2>7. ASSUME NEW costs, NEW parents, NEW processed, NEW paths, NEW path,
               call.locals = [costs |-> costs, parents |-> parents, paths |-> paths, path |-> path],
               TreeOK(graph, start, w, costs, parents, processed),
               AllTaken(graph, start, costs, processed),
               Following(graph, start, end, w, costs, parents, processed, paths, path)
        PROVE  DijkstraOK'
    <3>1. /\ call.locals.costs = costs /\ call.locals.parents = parents
          /\ call.locals.paths = paths /\ call.locals.path = path /\ "path" \in DOMAIN call.locals
      BY <2>7
    <3>2. PathNext
      BY <1>3, <3>1 DEF ProcessNext
    <3>3. PICK paths2 : paths2 = IF Len(paths) <= Cardinality(Nodes) THEN <<path>> \o paths ELSE paths
      OBVIOUS
    <3>4. PICK locals : locals = [costs |-> costs, parents |-> parents, paths |-> paths2,
                                  path |-> parents[path]]
      OBVIOUS
    <3>5. CASE path # Nothing
      <4>1. Continue([call.locals EXCEPT
                        !.paths = IF Len(@) <= Cardinality(Nodes) THEN <<call.locals.path>> \o @ ELSE @,
                        !.path = call.locals.parents[@]])
        BY <3>1, <3>2, <3>5 DEF PathNext
      <4>2. [call.locals EXCEPT
               !.paths = IF Len(@) <= Cardinality(Nodes) THEN <<call.locals.path>> \o @ ELSE @,
               !.path = call.locals.parents[@]] = locals
        <5>1. [call.locals EXCEPT !.paths = paths2, !.path = parents[path]] = locals
          <6>1. PICK path2 : path2 = parents[path]
            OBVIOUS
          <6>2. PICK old : old = call.locals
            OBVIOUS
          <6>3. old = [costs |-> costs, parents |-> parents, paths |-> paths, path |-> path]
            BY <2>7, <6>2
          <6>4. Replaced(old, paths2, path2)
                = [costs |-> costs, parents |-> parents, paths |-> paths2, path |-> path2]
            BY <6>3, PathsReplaced
          <6>5. [call.locals EXCEPT !.paths = paths2, !.path = parents[path]]
                = Replaced(old, paths2, path2)
            BY <6>1, <6>2 DEF Replaced
          <6> QED
            BY <3>4, <6>1, <6>4, <6>5
        <5>2. paths2 = (IF Len(call.locals.paths) <= Cardinality(Nodes)
                        THEN <<call.locals.path>> \o call.locals.paths ELSE call.locals.paths)
          BY <3>1, <3>3
        <5>3. parents[path] = call.locals.parents[call.locals.path]
          BY <3>1
        <5> QED
          BY <5>1, <5>2, <5>3
      <4>3. Continue(locals)
        BY <4>1, <4>2
      <4>4. Following(graph, start, end, w, costs, parents, processed, paths2, parents[path])
        BY <2>2, <2>7, <3>3, <3>5, FollowingGoesOn
      <4>5. GoingBack(graph, start, end, w, locals)
        BY <2>7, <3>4, <4>4 DEF GoingBack
      <4> QED
        BY <2>3, <4>3, <4>5
    <3>6. CASE path = Nothing
      <4>1. DOMAIN costs = Entries(graph, start)
        BY <2>7 DEF TreeOK, CostsOK
      <4>2. CASE end \in DOMAIN costs
        <5>1. End("returned", [cost |-> costs[end], path |-> paths])
          BY <2>1, <3>1, <3>2, <3>6, <4>2 DEF PathNext, Return
        <5>2. ShortestOf(args, "returned", [cost |-> costs[end], path |-> paths])
          BY <2>1, <2>2, <2>7, <3>6, <4>1, <4>2, ReturnsShortest
        <5> QED
          BY <2>4, <5>1, <5>2
      <4>3. CASE end \notin DOMAIN costs
        <5>1. End("thrown", "NoSuchElement")
          BY <2>1, <3>1, <3>2, <3>6, <4>3 DEF PathNext, Throw
        <5>2. Unfit(args)
          BY <2>1, <2>2, <2>7, <4>1, <4>3, UnfitAtEnd
        <5> QED
          BY <2>4, <2>5, <5>1, <5>2
      <4> QED
        BY <4>2, <4>3
    <3> QED
      BY <3>5, <3>6
  <2> QED
    BY <2>2, <2>6, <2>7 DEF Processing, GoingBack
<1>4. ProcessNext \/ PathNext => call.outcome = "running"
  BY DEF ProcessNext, PathNext, Running
<1> QED
  BY <1>2, <1>3, <1>4, ItsSteps

LEMMA DijkstraFollows == DijkstraOK => PathIsShortest
<1> SUFFICES ASSUME DijkstraOK, call.function = "dijkstraSearch", call.outcome # "running",
                    NoOverflow(call.args.graph)
             PROVE  PathIsShortest
  BY DEF PathIsShortest
<1>1. ShortestOf(call.args, call.outcome, call.result)
  BY DEF DijkstraOK
<1> QED
  BY <1>1 DEF PathIsShortest, ShortestOf

\* When costs do not overflow, dijkstraSearch throws exactly for the unfit graphs and
\* otherwise returns the least cost of the paths to the end, with a path of that cost.
THEOREM ShortestIsFound == Spec => []PathIsShortest
<1>1. Init => CallOK /\ DijkstraOK
  BY CallStartsOK, DijkstraStarts
<1>2. CallOK /\ DijkstraOK /\ [Next]_call => (CallOK /\ DijkstraOK)'
  BY CallStepOK, DijkstraStep
<1>3. DijkstraOK => PathIsShortest
  BY DijkstraFollows
<1> QED
  BY <1>1, <1>2, <1>3, PTL DEF Spec

------------------------------------------------------------------------------
(* namedParameterToQuestionMarked.                                         *)

\* Where the name at a question mark ends, the places of names, the other places up
\* to one, the question marks up to one, and those whose names have ended.
StopOf(sql, i) == Min(Ends(sql, i))
NamePlaces(sql) == UNION {i + 1 .. StopOf(sql, i) - 1 : i \in Marks(sql)}
KeptUpTo(sql, n) == {i \in 1 .. n : i \notin NamePlaces(sql)}
MarksUpTo(sql, n) == {i \in Marks(sql) : i <= n}
EndedBy(sql, n) == {i \in Marks(sql) : StopOf(sql, i) <= n}

LEMMA StopIs ==
    ASSUME NEW sql \in Seq(STRING), ListOfNames(sql), NEW i \in Marks(sql)
    PROVE  /\ i \in 1 .. Len(sql) /\ sql[i] = "?"
           /\ StopOf(sql, i) \in i + 1 .. Len(sql) /\ sql[StopOf(sql, i)] \in Terminators
           /\ \A j \in i + 1 .. Len(sql) : sql[j] \in Terminators => StopOf(sql, i) <= j
           /\ \A k \in Marks(sql) : k > i => k > StopOf(sql, i)
<1>1. i \in 1 .. Len(sql) /\ sql[i] = "?"
  BY DEF Marks
<1>2. PICK S : S = Ends(sql, i)
  OBVIOUS
<1>3. S = {j \in i + 1 .. Len(sql) : sql[j] \in Terminators}
  BY <1>2 DEF Ends
<1>4. S # {} /\ \A k \in Marks(sql) : k > i => k > Min(S)
  BY <1>2 DEF ListOfNames
<1>5. S \subseteq Nat
  BY <1>1, <1>3
<1>6. Min(S) \in S /\ \A j \in S : Min(S) <= j
  BY <1>4, <1>5, MinIs
<1>7. StopOf(sql, i) = Min(S)
  BY <1>2 DEF StopOf
<1> QED
  BY <1>1, <1>3, <1>4, <1>6, <1>7

LEMMA MarkIsNoTerminator == "?" \notin Terminators
BY DEF Terminators

\* The question mark whose name is read, and no other name goes over its place.
LEMMA OneName ==
    ASSUME NEW sql \in Seq(STRING), ListOfNames(sql), NEW n \in Nat,
           NEW i \in Marks(sql), i <= n, n < StopOf(sql, i),
           NEW k \in Marks(sql), k <= n
    PROVE  k = i \/ StopOf(sql, k) < i
<1>1. i \in Nat /\ k \in Nat /\ StopOf(sql, i) \in Nat /\ StopOf(sql, k) \in Nat
  BY StopIs
<1>2. k > i => k > StopOf(sql, i)
  BY StopIs
<1>3. i > k => i > StopOf(sql, k)
  BY StopIs
<1> QED
  BY <1>1, <1>2, <1>3

LEMMA KeptUpToIs ==
    ASSUME NEW sql, NEW n \in Nat
    PROVE  /\ IsFiniteSet(KeptUpTo(sql, n)) /\ Cardinality(KeptUpTo(sql, n)) \in Nat
           /\ n + 1 \in NamePlaces(sql) =>
                 KeptUpTo(sql, n + 1) = KeptUpTo(sql, n)
           /\ n + 1 \notin NamePlaces(sql) =>
                 /\ KeptUpTo(sql, n + 1) = KeptUpTo(sql, n) \cup {n + 1}
                 /\ Cardinality(KeptUpTo(sql, n + 1)) = Cardinality(KeptUpTo(sql, n)) + 1
<1>1. IsFiniteSet(1 .. n)
  BY FS_Interval
<1>2. KeptUpTo(sql, n) \in SUBSET (1 .. n)
  BY DEF KeptUpTo
<1>3. IsFiniteSet(KeptUpTo(sql, n)) /\ Cardinality(KeptUpTo(sql, n)) \in Nat
  BY <1>1, <1>2, FS_Subset, FS_CardinalityType
<1>4. ASSUME n + 1 \in NamePlaces(sql) PROVE KeptUpTo(sql, n + 1) = KeptUpTo(sql, n)
  BY <1>4 DEF KeptUpTo
<1>5. ASSUME n + 1 \notin NamePlaces(sql) PROVE KeptUpTo(sql, n + 1) = KeptUpTo(sql, n) \cup {n + 1}
  BY <1>5 DEF KeptUpTo
<1>6. n + 1 \notin KeptUpTo(sql, n)
  BY DEF KeptUpTo
<1>7. Cardinality(KeptUpTo(sql, n) \cup {n + 1}) = Cardinality(KeptUpTo(sql, n)) + 1
  BY <1>3, <1>6, FS_AddElement
<1> QED
  BY <1>3, <1>4, <1>5, <1>7

------------------------------------------------------------------------------

\* The text after n characters: what is kept of them.
TextSoFar(sql, n, buf) ==
    /\ buf \in Seq(STRING) /\ Len(buf) = Cardinality(KeptUpTo(sql, n))
    /\ \A i \in KeptUpTo(sql, n) : buf[Cardinality(KeptUpTo(sql, i))] = sql[i]

\* The names after n characters, with the number of the last question mark of each.
Bound(sql, n, params, name) ==
    \E i \in EndedBy(sql, n) :
       /\ NameAt(sql, i) = name /\ params[name] = Cardinality(MarksUpTo(sql, i))
       /\ \A k \in EndedBy(sql, n) : NameAt(sql, k) = name => k <= i

NamesSoFar(sql, n, params, idx) ==
    /\ idx = Cardinality(EndedBy(sql, n)) /\ IsFiniteSet(EndedBy(sql, n))
    /\ DOMAIN params = {NameAt(sql, i) : i \in EndedBy(sql, n)}
    /\ \A name \in DOMAIN params : Bound(sql, n, params, name)

\* The name that is read after n characters.
NameSoFar(sql, n, isName, paramBuf) ==
    /\ isName \in BOOLEAN
    /\ isName => \E i \in Marks(sql) : i <= n /\ n < StopOf(sql, i) /\ paramBuf = SubSeq(sql, i + 1, n)
    /\ ~isName => paramBuf = <<>> /\ \A k \in Marks(sql) : k <= n => StopOf(sql, k) <= n

\* A character is kept or not.
LEMMA TextGrows ==
    ASSUME NEW sql \in Seq(STRING), NEW n \in 0 .. Len(sql) - 1, NEW buf, TextSoFar(sql, n, buf)
    PROVE  /\ n + 1 \in NamePlaces(sql) => TextSoFar(sql, n + 1, buf)
           /\ n + 1 \notin NamePlaces(sql) => TextSoFar(sql, n + 1, Append(buf, sql[n + 1]))
<1>1. n \in Nat /\ n + 1 \in 1 .. Len(sql)
  OBVIOUS
<1>2. n + 1 \in NamePlaces(sql) => TextSoFar(sql, n + 1, buf)
  BY <1>1, KeptUpToIs DEF TextSoFar
<1>3. ASSUME n + 1 \notin NamePlaces(sql) PROVE TextSoFar(sql, n + 1, Append(buf, sql[n + 1]))
  <2>1. PICK size \in Nat : size = Len(buf) /\ size = Cardinality(KeptUpTo(sql, n))
    BY <1>1, KeptUpToIs DEF TextSoFar
  <2>2. KeptUpTo(sql, n + 1) = KeptUpTo(sql, n) \cup {n + 1} /\ Cardinality(KeptUpTo(sql, n + 1)) = size + 1
    BY <1>1, <1>3, <2>1, KeptUpToIs
  <2>3. PICK next : next = Append(buf, sql[n + 1])
    OBVIOUS
  <2>4. sql[n + 1] \in STRING /\ buf \in Seq(STRING)
    BY <1>1 DEF TextSoFar
  <2>5. /\ next \in Seq(STRING) /\ Len(next) = size + 1 /\ next[size + 1] = sql[n + 1]
        /\ \A i \in 1 .. size : next[i] = buf[i]
    <3>1. PICK S, c : S = STRING /\ c \in S /\ c = sql[n + 1] /\ buf \in Seq(S)
      BY <2>4
    <3>2. next = Append(buf, c)
      BY <2>3, <3>1
    <3>3. /\ Append(buf, c) \in Seq(S) /\ Len(Append(buf, c)) = Len(buf) + 1
          /\ \A i \in 1 .. Len(buf) : Append(buf, c)[i] = buf[i]
          /\ Append(buf, c)[Len(buf) + 1] = c
      BY <3>1, AppendProperties
    <3> QED
      BY <2>1, <3>1, <3>2, <3>3
  <2>6. ASSUME NEW i \in KeptUpTo(sql, n) PROVE next[Cardinality(KeptUpTo(sql, i))] = sql[i]
    <3>1. PICK m : m = Cardinality(KeptUpTo(sql, i))
      OBVIOUS
    <3>2. i \in 1 .. n /\ i \in KeptUpTo(sql, i) /\ KeptUpTo(sql, i) \in SUBSET KeptUpTo(sql, n)
      BY <1>1 DEF KeptUpTo
    <3>3. IsFiniteSet(KeptUpTo(sql, n)) /\ IsFiniteSet(KeptUpTo(sql, i)) /\ m \in Nat
      BY <1>1, <3>1, <3>2, KeptUpToIs
    <3>4. m <= size
      BY <2>1, <3>1, <3>2, <3>3, FS_Subset
    <3>5. m # 0
      BY <3>1, <3>2, <3>3, FS_EmptySet
    <3>6. m \in 1 .. size
      BY <3>3, <3>4, <3>5
    <3>7. buf[m] = sql[i]
      BY <3>1 DEF TextSoFar
    <3> QED
      BY <2>5, <3>1, <3>6, <3>7
  <2>7. next[Cardinality(KeptUpTo(sql, n + 1))] = sql[n + 1]
    BY <2>2, <2>5
  <2>8. TextSoFar(sql, n + 1, next)
    <3>1. \A i \in KeptUpTo(sql, n + 1) : next[Cardinality(KeptUpTo(sql, i))] = sql[i]
      BY <2>2, <2>6, <2>7
    <3> QED
      BY <2>2, <2>5, <3>1 DEF TextSoFar
  <2> QED
    BY <2>3, <2>8
<1> QED
  BY <1>2, <1>3

LEMMA NoNameEnds ==
    ASSUME NEW sql, NEW n, EndedBy(sql, n + 1) = EndedBy(sql, n), NEW params, NEW idx,
           NamesSoFar(sql, n, params, idx)
    PROVE  NamesSoFar(sql, n + 1, params, idx)
BY DEF NamesSoFar, Bound

\* What holds between the characters.
SqlSoFar(sql, n, sqlBuf, paramBuf, params, idx, isName) ==
    /\ TextSoFar(sql, n, sqlBuf)
    /\ NamesSoFar(sql, n, params, idx)
    /\ NameSoFar(sql, n, isName, paramBuf)

SqlNames(sql) == sql \in Seq(STRING) /\ ListOfNames(sql)

LEMMA SubSeqAppends ==
    ASSUME NEW S, NEW s \in Seq(S), NEW i \in Nat, NEW n \in i .. Len(s) - 1
    PROVE  Append(SubSeq(s, i + 1, n), s[n + 1]) = SubSeq(s, i + 1, n + 1)
<1>1. PICK m \in Nat : m = n - i /\ n = m + i
  OBVIOUS
<1>2. PICK p, q, c : p = SubSeq(s, i + 1, n) /\ q = SubSeq(s, i + 1, n + 1) /\ c = s[n + 1]
  OBVIOUS
<1>3. /\ p \in Seq(S) /\ Len(p) = m /\ \A k \in 1 .. m : p[k] = s[i + k]
      /\ q \in Seq(S) /\ Len(q) = m + 1 /\ \A k \in 1 .. m + 1 : q[k] = s[i + k]
      /\ c \in S
  <2>1. \A k \in 1 .. Len(s) : s[k] \in S
    OBVIOUS
  <2>2. ASSUME NEW b \in i .. Len(s), NEW r, r = SubSeq(s, i + 1, b)
        PROVE  r \in Seq(S) /\ Len(r) = b - i /\ \A k \in 1 .. b - i : r[k] = s[i + k]
    <3>1. PICK a \in Int : a = i + 1
      OBVIOUS
    <3>2. \A k \in a .. b : s[k] \in S
      BY <2>1, <3>1
    <3>3. /\ SubSeq(s, a, b) \in Seq(S)
          /\ Len(SubSeq(s, a, b)) = IF a <= b THEN b - a + 1 ELSE 0
          /\ \A k \in 1 .. b - a + 1 : SubSeq(s, a, b)[k] = s[a + k - 1]
      BY <3>2, SubSeqProperties
    <3>4. r = SubSeq(s, a, b) /\ b - a + 1 = b - i /\ (IF a <= b THEN b - i ELSE 0) = b - i
      BY <2>2, <3>1
    <3>5. \A k \in 1 .. b - i : a + k - 1 = i + k
      BY <3>1
    <3> QED
      BY <3>3, <3>4, <3>5
  <2>3. n \in i .. Len(s) /\ n + 1 \in i .. Len(s) /\ n - i = m /\ (n + 1) - i = m + 1
    BY <1>1
  <2>4. p \in Seq(S) /\ Len(p) = m /\ \A k \in 1 .. m : p[k] = s[i + k]
    BY <1>2, <2>2, <2>3
  <2>5. q \in Seq(S) /\ Len(q) = m + 1 /\ \A k \in 1 .. m + 1 : q[k] = s[i + k]
    BY <1>2, <2>2, <2>3
  <2>6. n + 1 \in 1 .. Len(s)
    BY <2>3
  <2> QED
    BY <1>2, <2>1, <2>4, <2>5, <2>6
<1>4. /\ Append(p, c) \in Seq(S) /\ Len(Append(p, c)) = Len(p) + 1
      /\ \A k \in 1 .. Len(p) : Append(p, c)[k] = p[k]
      /\ Append(p, c)[Len(p) + 1] = c
  BY <1>3, AppendProperties
<1>5. PICK r : r = Append(p, c)
  OBVIOUS
<1>6. r \in Seq(S) /\ Len(r) = m + 1 /\ r[m + 1] = c /\ \A k \in 1 .. m : r[k] = s[i + k]
  BY <1>3, <1>4, <1>5
<1>7. i + (m + 1) = n + 1
  BY <1>1
<1>8. \A k \in 1 .. m + 1 : r[k] = q[k]
  BY <1>2, <1>3, <1>6, <1>7
<1>9. r = q
  <2>1. /\ r \in [1 .. m + 1 -> S] /\ q \in [1 .. m + 1 -> S]
    BY <1>3, <1>6
  <2> QED
    BY <1>8, <2>1
<1> QED
  BY <1>2, <1>5, <1>9

\* A place that belongs to no name, when none is read.
LEMMA OutsideNames ==
    ASSUME NEW sql, SqlNames(sql), NEW n \in 0 .. Len(sql) - 1,
           \A k \in Marks(sql) : k <= n => StopOf(sql, k) <= n + 1
    PROVE  n + 1 \notin NamePlaces(sql)
<1> SUFFICES ASSUME NEW k \in Marks(sql), n + 1 \in k + 1 .. StopOf(sql, k) - 1 PROVE FALSE
  BY DEF NamePlaces
<1>1. k \in Nat /\ StopOf(sql, k) \in Nat
  BY StopIs DEF SqlNames
<1> QED
  BY <1>1

LEMMA MarkRead ==
    ASSUME NEW sql, SqlNames(sql), NEW n \in 0 .. Len(sql) - 1,
           NEW sqlBuf, NEW paramBuf, NEW params, NEW idx, NEW isName,
           SqlSoFar(sql, n, sqlBuf, paramBuf, params, idx, isName), sql[n + 1] = "?"
    PROVE  SqlSoFar(sql, n + 1, Append(sqlBuf, "?"), paramBuf, params, idx, TRUE)
<1>1. n + 1 \in Marks(sql) /\ n \in Nat
  BY DEF Marks, SqlNames
<1>2. \A k \in Marks(sql) : /\ k \in Nat /\ StopOf(sql, k) \in Nat
                            /\ n + 1 > k => n + 1 > StopOf(sql, k)
  BY <1>1, StopIs DEF SqlNames
<1>3. ~isName /\ paramBuf = <<>>
  <2>1. ~isName
    BY <1>1, <1>2 DEF SqlSoFar, NameSoFar
  <2> QED
    BY <2>1 DEF SqlSoFar, NameSoFar
<1>4. n + 1 \notin NamePlaces(sql)
  BY <1>1, <1>2, OutsideNames
<1>5. TextSoFar(sql, n + 1, Append(sqlBuf, "?"))
  BY <1>4, TextGrows DEF SqlNames, SqlSoFar
<1>6. EndedBy(sql, n + 1) = EndedBy(sql, n)
  <2>1. ASSUME NEW k \in Marks(sql) PROVE StopOf(sql, k) # n + 1
    BY StopIs, MarkIsNoTerminator DEF SqlNames
  <2> QED
    BY <1>1, <1>2, <2>1 DEF EndedBy
<1>7. NamesSoFar(sql, n + 1, params, idx)
  BY <1>6, NoNameEnds DEF SqlSoFar
<1>8. StopOf(sql, n + 1) > n + 1
  BY <1>1, StopIs DEF SqlNames
<1>9. SubSeq(sql, n + 1 + 1, n + 1) = <<>>
  BY <1>1 DEF SqlNames
<1>10. NameSoFar(sql, n + 1, TRUE, paramBuf)
  BY <1>1, <1>3, <1>8, <1>9 DEF NameSoFar
<1> QED
  BY <1>5, <1>7, <1>10 DEF SqlSoFar

LEMMA PlainRead ==
    ASSUME NEW sql, SqlNames(sql), NEW n \in 0 .. Len(sql) - 1,
           NEW sqlBuf, NEW paramBuf, NEW params, NEW idx, NEW isName,
           SqlSoFar(sql, n, sqlBuf, paramBuf, params, idx, isName), sql[n + 1] # "?", ~isName
    PROVE  SqlSoFar(sql, n + 1, Append(sqlBuf, sql[n + 1]), paramBuf, params, idx, isName)
<1>1. n \in Nat /\ n + 1 \notin Marks(sql)
  BY DEF Marks
<1>2. \A k \in Marks(sql) : k \in Nat /\ StopOf(sql, k) \in Nat /\ k < StopOf(sql, k)
  BY StopIs DEF SqlNames
<1>3. paramBuf = <<>> /\ \A k \in Marks(sql) : k <= n => StopOf(sql, k) <= n
  BY DEF SqlSoFar, NameSoFar
<1>4. n + 1 \notin NamePlaces(sql)
  BY <1>1, <1>2, <1>3, OutsideNames
<1>5. TextSoFar(sql, n + 1, Append(sqlBuf, sql[n + 1]))
  BY <1>4, TextGrows DEF SqlNames, SqlSoFar
<1>6. EndedBy(sql, n + 1) = EndedBy(sql, n)
  BY <1>1, <1>2, <1>3 DEF EndedBy
<1>7. NamesSoFar(sql, n + 1, params, idx)
  BY <1>6, NoNameEnds DEF SqlSoFar
<1>8. \A k \in Marks(sql) : k <= n + 1 => StopOf(sql, k) <= n + 1
  BY <1>1, <1>2, <1>3
<1>9. NameSoFar(sql, n + 1, isName, paramBuf)
  BY <1>3, <1>8 DEF NameSoFar, SqlSoFar
<1> QED
  BY <1>5, <1>7, <1>9 DEF SqlSoFar

LEMMA NameRead ==
    ASSUME NEW sql, SqlNames(sql), NEW n \in 0 .. Len(sql) - 1,
           NEW sqlBuf, NEW paramBuf, NEW params, NEW idx, NEW isName,
           SqlSoFar(sql, n, sqlBuf, paramBuf, params, idx, isName),
           sql[n + 1] \notin Terminators, isName
    PROVE  SqlSoFar(sql, n + 1, sqlBuf, Append(paramBuf, sql[n + 1]), params, idx, isName)
<1>1. n \in Nat /\ n + 1 \in 1 .. Len(sql)
  OBVIOUS
<1>2. PICK i \in Marks(sql) : i <= n /\ n < StopOf(sql, i) /\ paramBuf = SubSeq(sql, i + 1, n)
  BY DEF SqlSoFar, NameSoFar
<1>3. \A k \in Marks(sql) : /\ k \in Nat /\ StopOf(sql, k) \in Nat /\ k < StopOf(sql, k)
                            /\ StopOf(sql, k) # n + 1
  BY StopIs DEF SqlNames
<1>4. n + 1 < StopOf(sql, i)
  BY <1>1, <1>2, <1>3
<1>5. n + 1 \in NamePlaces(sql)
  BY <1>1, <1>2, <1>3, <1>4 DEF NamePlaces
<1>6. TextSoFar(sql, n + 1, sqlBuf)
  BY <1>5, TextGrows DEF SqlNames, SqlSoFar
<1>7. EndedBy(sql, n + 1) = EndedBy(sql, n)
  BY <1>1, <1>3 DEF EndedBy
<1>8. NamesSoFar(sql, n + 1, params, idx)
  BY <1>7, NoNameEnds DEF SqlSoFar
<1>9. Append(paramBuf, sql[n + 1]) = SubSeq(sql, i + 1, n + 1)
  <2>1. sql \in Seq(STRING) /\ i \in Nat /\ n \in i .. Len(sql) - 1
    BY <1>1, <1>2, <1>3 DEF SqlNames
  <2> QED
    BY <1>2, <2>1, SubSeqAppends
<1>10. NameSoFar(sql, n + 1, isName, Append(paramBuf, sql[n + 1]))
  <2>1. i <= n + 1
    BY <1>1, <1>2, <1>3
  <2>2. isName \in BOOLEAN
    BY DEF SqlSoFar, NameSoFar
  <2> QED
    BY <1>4, <1>9, <2>1, <2>2 DEF NameSoFar
<1> QED
  BY <1>6, <1>8, <1>10 DEF SqlSoFar

LEMMA EndRead ==
    ASSUME NEW sql, SqlNames(sql), NEW n \in 0 .. Len(sql) - 1,
           NEW sqlBuf, NEW paramBuf, NEW params, NEW idx, NEW isName,
           SqlSoFar(sql, n, sqlBuf, paramBuf, params, idx, isName),
           sql[n + 1] \in Terminators, isName
    PROVE  SqlSoFar(sql, n + 1, Append(sqlBuf, sql[n + 1]), <<>>,
                    Record(params, Trim(paramBuf), idx + 1), idx + 1, FALSE)
<1>1. n \in Nat /\ n + 1 \in 1 .. Len(sql)
  OBVIOUS
<1>2. PICK i \in Marks(sql) : i <= n /\ n < StopOf(sql, i) /\ paramBuf = SubSeq(sql, i + 1, n)
  BY DEF SqlSoFar, NameSoFar
<1>3. \A k \in Marks(sql) : /\ k \in Nat /\ StopOf(sql, k) \in Nat /\ k < StopOf(sql, k)
                            /\ n + 1 >= k + 1 => StopOf(sql, k) <= n + 1
                            /\ k # n + 1
  BY <1>1, StopIs, MarkIsNoTerminator DEF SqlNames
<1>4. StopOf(sql, i) = n + 1
  BY <1>1, <1>2, <1>3
<1>5. \A k \in Marks(sql) : k <= n => k = i \/ StopOf(sql, k) < i
  BY <1>1, <1>2, OneName DEF SqlNames
<1>6. n + 1 \notin NamePlaces(sql)
  <2>1. \A k \in Marks(sql) : k <= n => StopOf(sql, k) <= n + 1
    BY <1>1, <1>3
  <2> QED
    BY <2>1, OutsideNames
<1>7. TextSoFar(sql, n + 1, Append(sqlBuf, sql[n + 1]))
  BY <1>6, TextGrows DEF SqlNames, SqlSoFar
<1>8. /\ EndedBy(sql, n + 1) = EndedBy(sql, n) \cup {i} /\ i \notin EndedBy(sql, n)
      /\ EndedBy(sql, n + 1) = MarksUpTo(sql, i)
      /\ \A k \in EndedBy(sql, n) : k <= i
  <2>1. ASSUME NEW k \in Marks(sql) PROVE /\ StopOf(sql, k) <= n + 1 <=> StopOf(sql, k) <= n \/ k = i
                                          /\ StopOf(sql, k) <= n + 1 <=> k <= i
                                          /\ StopOf(sql, k) <= n => k <= i
    <3>1. k \in Nat /\ StopOf(sql, k) \in Nat /\ i \in Nat /\ k < StopOf(sql, k)
          /\ (k <= n => StopOf(sql, k) <= n + 1)
      BY <1>1, <1>3
    <3>2. k <= n => k = i \/ StopOf(sql, k) < i
      BY <1>5
    <3> QED
      BY <1>1, <1>2, <1>4, <3>1, <3>2
  <2>2. ~(StopOf(sql, i) <= n)
    BY <1>1, <1>4
  <2> QED
    BY <2>1, <2>2 DEF EndedBy, MarksUpTo
<1>9. idx = Cardinality(EndedBy(sql, n)) /\ IsFiniteSet(EndedBy(sql, n))
      /\ DOMAIN params = {NameAt(sql, k) : k \in EndedBy(sql, n)}
      /\ \A name \in DOMAIN params : Bound(sql, n, params, name)
  BY DEF SqlSoFar, NamesSoFar
<1>10. idx + 1 = Cardinality(EndedBy(sql, n + 1)) /\ IsFiniteSet(EndedBy(sql, n + 1))
  BY <1>8, <1>9, FS_AddElement
<1>11. PICK name : name = NameAt(sql, i) /\ name = Trim(paramBuf)
  <2>1. StopOf(sql, i) - 1 = n
    BY <1>1, <1>4
  <2> QED
    BY <1>2, <2>1 DEF NameAt, StopOf
<1>12. PICK next : next = Record(params, name, idx + 1)
  OBVIOUS
<1>13. next = [m \in DOMAIN params \cup {name} |-> IF m = name THEN idx + 1 ELSE params[m]]
  BY <1>12 DEF Record
<1>14. DOMAIN next = {NameAt(sql, k) : k \in EndedBy(sql, n + 1)}
  <2>1. DOMAIN next = DOMAIN params \cup {name}
    BY <1>13
  <2> QED
    BY <1>8, <1>9, <1>11, <2>1
<1>15. ASSUME NEW m \in DOMAIN next PROVE Bound(sql, n + 1, next, m)
  <2>1. CASE m = name
    <3>1. next[m] = Cardinality(MarksUpTo(sql, i))
      BY <1>8, <1>10, <1>13, <2>1
    <3>2. \A k \in EndedBy(sql, n + 1) : k <= i
      BY <1>8 DEF MarksUpTo
    <3> QED
      BY <1>8, <1>11, <2>1, <3>1, <3>2 DEF Bound
  <2>2. CASE m # name
    <3>1. m \in DOMAIN params /\ next[m] = params[m]
      BY <1>13, <2>2
    <3>2. PICK j \in EndedBy(sql, n) :
             /\ NameAt(sql, j) = m /\ params[m] = Cardinality(MarksUpTo(sql, j))
             /\ \A k \in EndedBy(sql, n) : NameAt(sql, k) = m => k <= j
      BY <1>9, <3>1 DEF Bound
    <3>3. \A k \in EndedBy(sql, n + 1) : NameAt(sql, k) = m => k <= j
      BY <1>8, <1>11, <2>2, <3>2
    <3> QED
      BY <1>8, <3>1, <3>2, <3>3 DEF Bound
  <2> QED
    BY <2>1, <2>2
<1>16. NamesSoFar(sql, n + 1, next, idx + 1)
  BY <1>10, <1>14, <1>15 DEF NamesSoFar
<1>17. NameSoFar(sql, n + 1, FALSE, <<>>)
  <2>1. \A k \in Marks(sql) : k <= n + 1 => StopOf(sql, k) <= n + 1
    BY <1>1, <1>3
  <2> QED
    BY <2>1 DEF NameSoFar
<1> QED
  BY <1>7, <1>11, <1>12, <1>16, <1>17 DEF SqlSoFar

\* The places that are kept, in their order, are numbered without a gap.
LEMMA KeptAreNumbered ==
    ASSUME NEW sql, NEW n \in Nat
    PROVE  /\ Cardinality(KeptUpTo(sql, n)) \in Nat
           /\ \A k \in 1 .. Cardinality(KeptUpTo(sql, n)) :
                 \E i \in KeptUpTo(sql, n) : Cardinality(KeptUpTo(sql, i)) = k
<1>1. PICK K : K = KeptUpTo(sql, n)
  OBVIOUS
<1>2. PICK size \in Nat : size = Cardinality(K)
  BY <1>1, KeptUpToIs
<1>3. PICK f : f = [i \in K |-> Cardinality(KeptUpTo(sql, i))]
  OBVIOUS
<1>4. IsFiniteSet(K) /\ K \subseteq 1 .. n
  BY <1>1, KeptUpToIs DEF KeptUpTo
<1>5. ASSUME NEW i \in K
      PROVE  /\ KeptUpTo(sql, i) \in SUBSET K /\ i \in KeptUpTo(sql, i)
             /\ IsFiniteSet(KeptUpTo(sql, i)) /\ f[i] \in 1 .. size
             /\ f[i] = Cardinality(KeptUpTo(sql, i))
  <2>1. i \in Nat /\ KeptUpTo(sql, i) \in SUBSET K /\ i \in KeptUpTo(sql, i)
    BY <1>1, <1>4 DEF KeptUpTo
  <2>2. IsFiniteSet(KeptUpTo(sql, i)) /\ Cardinality(KeptUpTo(sql, i)) \in Nat
    BY <2>1, KeptUpToIs
  <2>3. Cardinality(KeptUpTo(sql, i)) <= size
    BY <1>2, <1>4, <2>1, FS_Subset
  <2>4. Cardinality(KeptUpTo(sql, i)) # 0
    BY <2>1, <2>2, FS_EmptySet
  <2> QED
    BY <1>3, <2>1, <2>2, <2>3, <2>4
<1>6. ASSUME NEW i \in K, NEW j \in K, i < j PROVE f[i] # f[j]
  <2>1. KeptUpTo(sql, i) \in SUBSET KeptUpTo(sql, j) /\ j \notin KeptUpTo(sql, i)
    BY <1>4, <1>6 DEF KeptUpTo
  <2>2. Cardinality(KeptUpTo(sql, j)) = Cardinality(KeptUpTo(sql, i)) =>
           KeptUpTo(sql, j) = KeptUpTo(sql, i)
    BY <1>5, <2>1, FS_Subset
  <2> QED
    BY <1>5, <2>1, <2>2
<1>7. ASSUME NEW i \in K, NEW j \in K, f[i] = f[j] PROVE i = j
  <2>1. i \in Int /\ j \in Int
    BY <1>4
  <2> QED
    BY <1>6, <1>7, <2>1
<1>8. IsFiniteSet(1 .. size) /\ Cardinality(1 .. size) = size
  BY FS_Interval
<1>9. f \in Injection(K, 1 .. size)
  BY <1>3, <1>5, <1>7 DEF Injection, IsInjective
<1>10. f \in Surjection(K, 1 .. size)
  BY <1>2, <1>8, <1>9, FS_Injection
<1>11. \A k \in 1 .. size : \E i \in K : f[i] = k
  BY <1>10 DEF Surjection
<1> QED
  BY <1>1, <1>2, <1>5, <1>11

\* The statement without the places of the names.
Without(sql, names) ==
    [k \in 1 .. Len(sql) - Cardinality(names) |->
       sql[CHOOSE i \in DOMAIN sql \ names :
              Cardinality({j \in DOMAIN sql \ names : j <= i}) = k]]

\* The text at the end.
LEMMA TextAtEnd ==
    ASSUME NEW sql, SqlNames(sql), NEW buf, TextSoFar(sql, Len(sql), buf), NEW names,
           names = NamePlaces(sql)
    PROVE  buf = Without(sql, names)
<1>1. PICK n \in Nat : n = Len(sql) /\ DOMAIN sql = 1 .. n
  BY DEF SqlNames
<1>2. PICK K : K = DOMAIN sql \ names
  OBVIOUS
<1>3. K = KeptUpTo(sql, n) /\ K = (1 .. n) \ names
  BY <1>1, <1>2 DEF KeptUpTo
<1>4. names \subseteq 1 .. n
  <2>1. ASSUME NEW i \in Marks(sql) PROVE i + 1 .. StopOf(sql, i) - 1 \subseteq 1 .. n
    <3>1. i \in 1 .. n /\ StopOf(sql, i) \in i + 1 .. n
      BY <1>1, StopIs DEF SqlNames
    <3> QED
      BY <3>1
  <2> QED
    BY <2>1 DEF NamePlaces
<1>5. IsFiniteSet(1 .. n) /\ Cardinality(1 .. n) = n
  BY FS_Interval
<1>6. IsFiniteSet(names) /\ Cardinality(names) \in Nat
  BY <1>4, <1>5, FS_Subset, FS_CardinalityType
<1>7. Cardinality((1 .. n) \ names) = Cardinality(1 .. n) - Cardinality((1 .. n) \cap names)
  BY <1>5, FS_Difference
<1>8. (1 .. n) \cap names = names
  BY <1>4
<1>9. PICK size \in Nat : size = Cardinality(K) /\ size = n - Cardinality(names)
  BY <1>3, <1>5, <1>6, <1>7, <1>8, KeptUpToIs
<1>10. \A i \in K : {j \in K : j <= i} = KeptUpTo(sql, i)
  BY <1>3 DEF KeptUpTo
<1>11. \A k \in 1 .. size : \E i \in K : Cardinality(KeptUpTo(sql, i)) = k
  <2>1. \A k \in 1 .. Cardinality(KeptUpTo(sql, n)) :
           \E i \in KeptUpTo(sql, n) : Cardinality(KeptUpTo(sql, i)) = k
    BY KeptAreNumbered
  <2> QED
    BY <1>3, <1>9, <2>1
<1>12. /\ Len(buf) = size /\ buf \in Seq(STRING)
       /\ \A i \in K : buf[Cardinality(KeptUpTo(sql, i))] = sql[i]
  BY <1>1, <1>3, <1>9 DEF TextSoFar
<1>13. ASSUME NEW k \in 1 .. size
       PROVE  buf[k] = sql[CHOOSE i \in K : Cardinality({j \in K : j <= i}) = k]
  <2>1. \E i \in K : Cardinality({j \in K : j <= i}) = k
    BY <1>10, <1>11
  <2>2. PICK i : i = CHOOSE m \in K : Cardinality({j \in K : j <= m}) = k
    OBVIOUS
  <2>3. i \in K /\ Cardinality({j \in K : j <= i}) = k
    BY <2>1, <2>2, Zenon
  <2>4. buf[k] = sql[i]
    BY <1>10, <1>12, <2>3
  <2> QED
    BY <2>2, <2>4
<1>14. buf = [k \in 1 .. size |-> buf[k]]
  BY <1>12
<1>15. buf = [k \in 1 .. size |-> sql[CHOOSE i \in K : Cardinality({j \in K : j <= i}) = k]]
  BY <1>13, <1>14
<1> QED
  BY <1>1, <1>2, <1>9, <1>15 DEF Without

\* Every name is bound to the number of its last question mark.
BoundToLast(sql, params) ==
    /\ DOMAIN params = {NameAt(sql, i) : i \in Marks(sql)}
    /\ \A name \in DOMAIN params :
          params[name] = Cardinality({k \in Marks(sql) :
                            k <= Max({i \in Marks(sql) : NameAt(sql, i) = name})})

LEMMA NamesAtEnd ==
    ASSUME NEW sql, SqlNames(sql), NEW params, NEW idx, NamesSoFar(sql, Len(sql), params, idx)
    PROVE  BoundToLast(sql, params)
<1>1. PICK n \in Nat : n = Len(sql)
  BY DEF SqlNames
<1>2. \A i \in Marks(sql) : i \in Nat /\ StopOf(sql, i) <= n
  BY <1>1, StopIs DEF SqlNames
<1>3. EndedBy(sql, n) = Marks(sql)
  BY <1>2 DEF EndedBy
<1>4. ASSUME NEW name \in DOMAIN params
      PROVE  params[name] = Cardinality({k \in Marks(sql) :
                               k <= Max({i \in Marks(sql) : NameAt(sql, i) = name})})
  <2>1. Bound(sql, n, params, name)
    BY <1>1 DEF NamesSoFar
  <2>2. PICK i \in Marks(sql) :
           /\ NameAt(sql, i) = name /\ params[name] = Cardinality(MarksUpTo(sql, i))
           /\ \A k \in Marks(sql) : NameAt(sql, k) = name => k <= i
    BY <1>3, <2>1 DEF Bound
  <2>3. PICK S : S = {k \in Marks(sql) : NameAt(sql, k) = name}
    OBVIOUS
  <2>4. i \in S /\ (\A k \in S : i >= k) /\ S \subseteq Nat
    BY <1>2, <2>2, <2>3
  <2>5. PICK m : m = Max(S)
    OBVIOUS
  <2>6. m \in S /\ \A k \in S : m >= k
    BY <2>4, <2>5 DEF Max
  <2>7. m = i
    BY <2>4, <2>6
  <2> QED
    BY <2>2, <2>3, <2>5, <2>7 DEF MarksUpTo
<1>5. DOMAIN params = {NameAt(sql, i) : i \in Marks(sql)}
  BY <1>1, <1>3 DEF NamesSoFar
<1> QED
  BY <1>4, <1>5 DEF BoundToLast

------------------------------------------------------------------------------

SqlFields == {"rest", "sqlBuf", "paramBuf", "params", "idx", "isName"}

\* The characters up to n have been read.
SqlRead(sql, n, locals) ==
    /\ DOMAIN locals = SqlFields /\ locals.rest = SubSeq(sql, n + 1, Len(sql))
    /\ SqlSoFar(sql, n, locals.sqlBuf, locals.paramBuf, locals.params, locals.idx, locals.isName)

SqlDone(sql, result) ==
    /\ TextSoFar(sql, Len(sql), result.sql)
    /\ \E idx : NamesSoFar(sql, Len(sql), result.params, idx)

SqlOK ==
    call.function = "namedParameterToQuestionMarked" /\ ListOfNames(call.args.sql) =>
       /\ SqlNames(call.args.sql)
       /\ call.outcome = "running" =>
             \E n \in 0 .. Len(call.args.sql) : SqlRead(call.args.sql, n, call.locals)
       /\ call.outcome = "returned" => SqlDone(call.args.sql, call.result)

LEMMA SqlStarts == Init => SqlOK
<1> SUFFICES ASSUME Init, call.function = "namedParameterToQuestionMarked",
                    ListOfNames(call.args.sql)
             PROVE  SqlOK
  BY DEF SqlOK
<1>1. PICK sql \in Seq(STRING) : call = NamedParameters(sql)
  BY CallStarts
<1>2. PICK locals : locals = [rest |-> sql, sqlBuf |-> <<>>, paramBuf |-> <<>>, params |-> <<>>,
                              idx |-> 0, isName |-> FALSE]
  OBVIOUS
<1>3. call.args.sql = sql /\ call.outcome = "running" /\ call.locals = locals
  BY <1>1, <1>2 DEF NamedParameters, CallOf
<1>4. SqlNames(sql)
  BY <1>3 DEF SqlNames
<1>5. /\ DOMAIN locals = SqlFields /\ locals.rest = sql /\ locals.sqlBuf = <<>>
      /\ locals.paramBuf = <<>> /\ locals.params = <<>> /\ locals.idx = 0
      /\ locals.isName = FALSE
  BY <1>2 DEF SqlFields
<1>6. sql = SubSeq(sql, 0 + 1, Len(sql)) /\ 0 \in 0 .. Len(sql)
  OBVIOUS
<1>7. KeptUpTo(sql, 0) = {} /\ Cardinality({}) = 0 /\ IsFiniteSet({})
  BY FS_EmptySet DEF KeptUpTo
<1>8. \A i \in Marks(sql) : i \in Nat \ {0} /\ StopOf(sql, i) \in Nat \ {0}
  BY <1>4, StopIs DEF SqlNames
<1>9. EndedBy(sql, 0) = {}
  BY <1>8 DEF EndedBy
<1>10. TextSoFar(sql, 0, <<>>)
  <2>1. <<>> \in Seq(STRING) /\ Len(<<>>) = 0
    OBVIOUS
  <2>2. Len(<<>>) = Cardinality(KeptUpTo(sql, 0))
    BY <1>7, <2>1
  <2>3. \A i \in KeptUpTo(sql, 0) : FALSE
    BY <1>7
  <2> QED
    BY <2>1, <2>2, <2>3 DEF TextSoFar
<1>11. NamesSoFar(sql, 0, <<>>, 0)
  <2>1. DOMAIN <<>> = {}
    OBVIOUS
  <2>2. {NameAt(sql, i) : i \in EndedBy(sql, 0)} = {}
    BY <1>9
  <2>3. 0 = Cardinality(EndedBy(sql, 0)) /\ IsFiniteSet(EndedBy(sql, 0))
    BY <1>7, <1>9
  <2>4. \A name \in DOMAIN <<>> : Bound(sql, 0, <<>>, name)
    BY <2>1
  <2> QED
    BY <2>1, <2>2, <2>3, <2>4 DEF NamesSoFar
<1>12. NameSoFar(sql, 0, FALSE, <<>>)
  BY <1>8 DEF NameSoFar
<1>13. SqlRead(sql, 0, locals)
  BY <1>5, <1>6, <1>10, <1>11, <1>12 DEF SqlRead, SqlSoFar
<1> QED
  BY <1>3, <1>4, <1>6, <1>13 DEF SqlOK

LEMMA SqlFollows == SqlOK => NamesBound
<1> SUFFICES ASSUME SqlOK, call.function = "namedParameterToQuestionMarked",
                    call.outcome = "returned", ListOfNames(call.args.sql)
             PROVE  NamesBound
  BY DEF NamesBound, Returned
<1>1. PICK sql, buf, params : sql = call.args.sql /\ buf = call.result.sql /\ params = call.result.params
  OBVIOUS
<1>2. SqlNames(sql) /\ TextSoFar(sql, Len(sql), buf)
  BY <1>1 DEF SqlOK, SqlDone
<1>3. PICK idx : NamesSoFar(sql, Len(sql), params, idx)
  BY <1>1 DEF SqlOK, SqlDone
<1>4. PICK names : names = UNION {i + 1 .. Min(Ends(sql, i)) - 1 : i \in Marks(sql)}
  OBVIOUS
<1>5. names = NamePlaces(sql)
  BY <1>4 DEF NamePlaces, StopOf
<1>6. buf = Without(sql, names)
  BY <1>2, <1>5, TextAtEnd
<1>7. BoundToLast(sql, params)
  BY <1>2, <1>3, NamesAtEnd
<1> QED
  BY <1>1, <1>4, <1>6, <1>7 DEF NamesBound, Without, BoundToLast

\* The rest of a statement after n characters.
RestFrom(sql, n, rest) ==
    /\ rest = <<>> <=> n = Len(sql)
    /\ n # Len(sql) => /\ Head(rest) = sql[n + 1]
                       /\ Tail(rest) = SubSeq(sql, n + 1 + 1, Len(sql))

LEMMA RestIs ==
    ASSUME NEW sql \in Seq(STRING), NEW n \in 0 .. Len(sql), NEW rest,
           rest = SubSeq(sql, n + 1, Len(sql))
    PROVE  RestFrom(sql, n, rest)
<1>1. PICK size \in Nat : size = Len(sql)
  OBVIOUS
<1>2. /\ rest \in Seq(STRING) /\ Len(rest) = size - n
      /\ \A i \in 1 .. size - n : rest[i] = sql[n + i]
  BY <1>1
<1>3. rest = <<>> <=> n = size
  <2>1. size - n \in Nat /\ (size - n = 0 <=> n = size)
    BY <1>1
  <2>2. rest = <<>> <=> Len(rest) = 0
    BY <1>2, EmptySeq
  <2> QED
    BY <1>2, <2>1, <2>2
<1>4. ASSUME n # size PROVE Head(rest) = sql[n + 1] /\ Tail(rest) = SubSeq(sql, n + 1 + 1, size)
  <2>1. 1 \in 1 .. size - n /\ rest # <<>>
    BY <1>1, <1>3, <1>4
  <2>2. Head(rest) = sql[n + 1]
    BY <1>2, <2>1
  <2>3. PICK a, b : a = Tail(rest) /\ b = SubSeq(sql, n + 1 + 1, size)
    OBVIOUS
  <2>4. /\ a \in Seq(STRING) /\ Len(a) = size - n - 1
        /\ \A i \in 1 .. size - n - 1 : a[i] = rest[i + 1]
    BY <1>2, <2>1, <2>3
  <2>5. /\ b \in Seq(STRING) /\ Len(b) = size - n - 1
        /\ \A i \in 1 .. size - n - 1 : b[i] = sql[n + 1 + i]
    BY <1>1, <1>4, <2>3
  <2>6. ASSUME NEW i \in 1 .. size - n - 1 PROVE a[i] = b[i]
    <3>1. i + 1 \in 1 .. size - n /\ n + 1 + i = n + (i + 1)
      BY <1>1
    <3>2. rest[i + 1] = sql[n + (i + 1)]
      BY <1>2, <3>1
    <3> QED
      BY <2>4, <2>5, <3>1, <3>2
  <2>7. a = b
    BY <2>4, <2>5, <2>6
  <2> QED
    BY <2>2, <2>3, <2>7
<1> QED
  BY <1>1, <1>3, <1>4 DEF RestFrom

\* What the turns change of the local variables.
LEMMA TurnFields ==
    ASSUME NEW locals, DOMAIN locals = SqlFields, NEW turn,
           turn = [locals EXCEPT !.rest = Tail(@)]
    PROVE  /\ DOMAIN turn = SqlFields /\ turn.rest = Tail(locals.rest)
           /\ turn.sqlBuf = locals.sqlBuf /\ turn.paramBuf = locals.paramBuf
           /\ turn.params = locals.params /\ turn.idx = locals.idx /\ turn.isName = locals.isName
BY DEF SqlFields

AtMark(turn) == [turn EXCEPT !.sqlBuf = Append(@, "?"), !.isName = TRUE]

AtEnd(turn, c, params, idx) ==
    [turn EXCEPT !.sqlBuf = Append(@, c), !.idx = idx, !.params = params,
                 !.paramBuf = <<>>, !.isName = FALSE]

LEMMA MarkFields ==
    ASSUME NEW turn, DOMAIN turn = SqlFields, NEW next, next = AtMark(turn)
    PROVE  /\ DOMAIN next = SqlFields /\ next.rest = turn.rest
           /\ next.sqlBuf = Append(turn.sqlBuf, "?") /\ next.paramBuf = turn.paramBuf
           /\ next.params = turn.params /\ next.idx = turn.idx /\ next.isName = TRUE
BY DEF SqlFields, AtMark

LEMMA NameFields ==
    ASSUME NEW turn, DOMAIN turn = SqlFields, NEW next, NEW c,
           next = [turn EXCEPT !.paramBuf = Append(@, c)]
    PROVE  /\ DOMAIN next = SqlFields /\ next.rest = turn.rest
           /\ next.sqlBuf = turn.sqlBuf /\ next.paramBuf = Append(turn.paramBuf, c)
           /\ next.params = turn.params /\ next.idx = turn.idx /\ next.isName = turn.isName
BY DEF SqlFields

LEMMA PlainFields ==
    ASSUME NEW turn, DOMAIN turn = SqlFields, NEW next, NEW c,
           next = [turn EXCEPT !.sqlBuf = Append(@, c)]
    PROVE  /\ DOMAIN next = SqlFields /\ next.rest = turn.rest
           /\ next.sqlBuf = Append(turn.sqlBuf, c) /\ next.paramBuf = turn.paramBuf
           /\ next.params = turn.params /\ next.idx = turn.idx /\ next.isName = turn.isName
BY DEF SqlFields

LEMMA SqlStep == CallOK /\ SqlOK /\ [Next]_call => SqlOK'
<1> SUFFICES ASSUME CallOK, SqlOK, [Next]_call,
                    call.function = "namedParameterToQuestionMarked",
                    ListOfNames(call.args.sql)
             PROVE  SqlOK'
  BY CallKept DEF SqlOK
<1>1. call'.function = call.function /\ call'.args = call.args
  BY CallKept
<1>2. CASE call' = call
  BY <1>2 DEF SqlOK
<1>3. CASE CharacterNext
  <2>1. PICK sql : sql = call.args.sql
    OBVIOUS
  <2>2. SqlNames(sql) /\ call.outcome = "running" /\ sql \in Seq(STRING)
    BY <1>3, <2>1 DEF SqlOK, SqlNames, CharacterNext, Running
  <2>3. PICK n \in 0 .. Len(sql) : SqlRead(sql, n, call.locals)
    BY <2>1, <2>2 DEF SqlOK
  <2>4. PICK locals : locals = call.locals
    OBVIOUS
  <2>5. PICK rest, sqlBuf, paramBuf, params, idx, isName :
           /\ rest = locals.rest /\ sqlBuf = locals.sqlBuf /\ paramBuf = locals.paramBuf
           /\ params = locals.params /\ idx = locals.idx /\ isName = locals.isName
    OBVIOUS
  <2>6. /\ DOMAIN locals = SqlFields /\ rest = SubSeq(sql, n + 1, Len(sql))
        /\ SqlSoFar(sql, n, sqlBuf, paramBuf, params, idx, isName)
    BY <2>3, <2>4, <2>5 DEF SqlRead
  <2>7. PICK c, turn : c = Head(rest) /\ turn = [locals EXCEPT !.rest = Tail(@)]
    OBVIOUS
  <2>8. /\ DOMAIN turn = SqlFields /\ turn.rest = Tail(rest)
        /\ turn.sqlBuf = sqlBuf /\ turn.paramBuf = paramBuf
        /\ turn.params = params /\ turn.idx = idx /\ turn.isName = isName
    BY <2>5, <2>6, <2>7, TurnFields
  <2>9. /\ rest = <<>> <=> n = Len(sql)
        /\ n # Len(sql) => /\ c = sql[n + 1] /\ Tail(rest) = SubSeq(sql, n + 1 + 1, Len(sql))
    <3>1. RestFrom(sql, n, rest)
      BY <2>2, <2>6, RestIs
    <3> QED
      BY <2>7, <3>1 DEF RestFrom
  <2>10. ASSUME NEW next, Continue(next), rest # <<>>, DOMAIN next = SqlFields,
                next.rest = turn.rest,
                SqlSoFar(sql, n + 1, next.sqlBuf, next.paramBuf, next.params, next.idx, next.isName)
         PROVE  SqlOK'
    <3>1. call'.outcome = "running" /\ call'.locals = next
      BY <2>2, <2>10, Continues
    <3>2. n + 1 \in 0 .. Len(sql)
      BY <2>2, <2>9, <2>10
    <3>3. SqlRead(sql, n + 1, next)
      BY <2>8, <2>9, <2>10 DEF SqlRead
    <3> QED
      BY <1>1, <2>1, <2>2, <3>1, <3>2, <3>3 DEF SqlOK
  <2>11. ASSUME rest # <<>> PROVE n \in 0 .. Len(sql) - 1
    BY <2>2, <2>9, <2>11
  <2>12. CASE rest = <<>> /\ Return([sql |-> sqlBuf, params |-> params])
    <3>1. PICK result : result = [sql |-> sqlBuf, params |-> params]
      OBVIOUS
    <3>2. call'.outcome = "returned" /\ call'.result = result
      BY <2>12, <3>1, CallEnds DEF Return
    <3>3. result.sql = sqlBuf /\ result.params = params
      BY <3>1
    <3>4. SqlDone(sql, result)
      BY <2>6, <2>9, <2>12, <3>3 DEF SqlDone, SqlSoFar
    <3> QED
      BY <1>1, <2>1, <2>2, <3>2, <3>4 DEF SqlOK
  <2>13. CASE /\ rest # <<>> /\ c = "?"
              /\ Continue([turn EXCEPT !.sqlBuf = Append(@, "?"), !.isName = TRUE])
    <3>1. PICK next : next = AtMark(turn)
      OBVIOUS
    <3>2. /\ DOMAIN next = SqlFields /\ next.rest = turn.rest
          /\ next.sqlBuf = Append(sqlBuf, "?") /\ next.paramBuf = paramBuf
          /\ next.params = params /\ next.idx = idx /\ next.isName = TRUE
      BY <2>8, <3>1, MarkFields
    <3>3. SqlSoFar(sql, n + 1, Append(sqlBuf, "?"), paramBuf, params, idx, TRUE)
      BY <2>2, <2>6, <2>9, <2>11, <2>13, MarkRead
    <3>4. Continue(next)
      BY <2>13, <3>1 DEF AtMark
    <3> QED
      BY <2>10, <2>13, <3>2, <3>3, <3>4
  <2>14. CASE /\ rest # <<>> /\ c \in Terminators /\ isName
              /\ Continue([turn EXCEPT
                    !.sqlBuf = Append(@, c), !.idx = @ + 1,
                    !.params = Record(@, Trim(paramBuf), idx + 1),
                    !.paramBuf = <<>>, !.isName = FALSE])
    <3>1. PICK params2, idx2 : params2 = Record(params, Trim(paramBuf), idx + 1) /\ idx2 = idx + 1
      OBVIOUS
    <3>2. PICK next : next = AtEnd(turn, c, params2, idx2)
      OBVIOUS
    <3>3. next = [turn EXCEPT !.sqlBuf = Append(@, c), !.idx = @ + 1,
                              !.params = Record(@, Trim(paramBuf), idx + 1),
                              !.paramBuf = <<>>, !.isName = FALSE]
      BY <2>8, <3>1, <3>2 DEF AtEnd
    <3>4. /\ DOMAIN next = SqlFields /\ next.rest = turn.rest
          /\ next.sqlBuf = Append(sqlBuf, c) /\ next.paramBuf = <<>>
          /\ next.params = params2 /\ next.idx = idx2 /\ next.isName = FALSE
      BY <2>8, <3>2 DEF AtEnd, SqlFields
    <3>5. SqlSoFar(sql, n + 1, Append(sqlBuf, c), <<>>, params2, idx2, FALSE)
      BY <2>2, <2>6, <2>9, <2>11, <2>14, <3>1, EndRead
    <3>6. Continue(next)
      BY <2>14, <3>3
    <3> QED
      BY <2>10, <2>14, <3>4, <3>5, <3>6
  <2>15. CASE /\ rest # <<>> /\ c # "?" /\ isName /\ c \notin Terminators
              /\ Continue([turn EXCEPT !.paramBuf = Append(@, c)])
    <3>1. PICK next : next = [turn EXCEPT !.paramBuf = Append(@, c)]
      OBVIOUS
    <3>2. /\ DOMAIN next = SqlFields /\ next.rest = turn.rest
          /\ next.sqlBuf = sqlBuf /\ next.paramBuf = Append(paramBuf, c)
          /\ next.params = params /\ next.idx = idx /\ next.isName = isName
      BY <2>8, <3>1, NameFields
    <3>3. SqlSoFar(sql, n + 1, sqlBuf, Append(paramBuf, c), params, idx, isName)
      BY <2>2, <2>6, <2>9, <2>11, <2>15, NameRead
    <3> QED
      BY <2>10, <2>15, <3>1, <3>2, <3>3
  <2>16. CASE /\ rest # <<>> /\ c # "?" /\ ~isName
              /\ Continue([turn EXCEPT !.sqlBuf = Append(@, c)])
    <3>1. PICK next : next = [turn EXCEPT !.sqlBuf = Append(@, c)]
      OBVIOUS
    <3>2. /\ DOMAIN next = SqlFields /\ next.rest = turn.rest
          /\ next.sqlBuf = Append(sqlBuf, c) /\ next.paramBuf = paramBuf
          /\ next.params = params /\ next.idx = idx /\ next.isName = isName
      BY <2>8, <3>1, PlainFields
    <3>3. SqlSoFar(sql, n + 1, Append(sqlBuf, c), paramBuf, params, idx, isName)
      BY <2>2, <2>6, <2>9, <2>11, <2>16, PlainRead
    <3> QED
      BY <2>10, <2>16, <3>1, <3>2, <3>3
  <2>17. \/ rest = <<>> /\ Return([sql |-> sqlBuf, params |-> params])
         \/ /\ rest # <<>> /\ c = "?"
            /\ Continue([turn EXCEPT !.sqlBuf = Append(@, "?"), !.isName = TRUE])
         \/ /\ rest # <<>> /\ c \in Terminators /\ isName
            /\ Continue([turn EXCEPT
                  !.sqlBuf = Append(@, c), !.idx = @ + 1,
                  !.params = Record(@, Trim(paramBuf), idx + 1),
                  !.paramBuf = <<>>, !.isName = FALSE])
         \/ /\ rest # <<>> /\ c # "?" /\ isName /\ c \notin Terminators
            /\ Continue([turn EXCEPT !.paramBuf = Append(@, c)])
         \/ /\ rest # <<>> /\ c # "?" /\ ~isName
            /\ Continue([turn EXCEPT !.sqlBuf = Append(@, c)])
    BY <1>3, <2>4, <2>5, <2>7 DEF CharacterNext
  <2> QED
    BY <2>12, <2>13, <2>14, <2>15, <2>16, <2>17
<1> QED
  BY <1>2, <1>3, ItsSteps

\* In a statement whose names all end with a comma or a parenthesis, the names are
\* taken out and nothing else, and each is bound to the number of its last question
\* mark, for statements of any length.
THEOREM NamesAreBound == Spec => []NamesBound
<1>1. Init => CallOK /\ SqlOK
  BY CallStartsOK, SqlStarts
<1>2. CallOK /\ SqlOK /\ [Next]_call => (CallOK /\ SqlOK)'
  BY CallStepOK, SqlStep
<1> QED
  BY <1>1, <1>2, SqlFollows, PTL DEF Spec

------------------------------------------------------------------------------
(* Calls that never end.                                                   *)

\* greedys chooses among the stations there are, and does not throw.
StationsKnown ==
    call.function = "greedys" =>
       /\ call.outcome = "running" =>
             call.locals.finalStations \subseteq DOMAIN call.args.stations
       /\ call.outcome # "running" => call.result \subseteq DOMAIN call.args.stations

LEMMA StationsKnownStarts == Init => StationsKnown
<1> SUFFICES ASSUME Init, call.function = "greedys" PROVE StationsKnown
  BY DEF StationsKnown
<1>1. PICK stations, states : IsFiniteSet(states) /\ call = Greedy(stations, states)
  BY CallStarts
<1>2. call.outcome = "running" /\ call.locals.finalStations = {}
  BY <1>1 DEF Greedy, CallOf
<1> QED
  BY <1>2 DEF StationsKnown

LEMMA StationsKnownStep == CallOK /\ StationsKnown /\ [Next]_call => StationsKnown'
<1> SUFFICES ASSUME CallOK, StationsKnown, [Next]_call, call.function = "greedys" PROVE StationsKnown'
  BY CallKept DEF StationsKnown
<1>1. call'.function = call.function /\ call'.args = call.args
  BY CallKept
<1>2. CASE call' = call
  BY <1>2 DEF StationsKnown
<1>3. CASE GreedyNext
  <2>1. PICK final, needed, stations : /\ final = call.locals.finalStations
                                       /\ needed = call.locals.statesNeeded
                                       /\ stations = call.args.stations
    OBVIOUS
  <2>2. call.outcome = "running" /\ final \subseteq DOMAIN stations
    BY <1>3, <2>1 DEF GreedyNext, Running, StationsKnown
  <2>3. CASE Return(final)
    <3>1. call'.outcome = "returned" /\ call'.result = final
      BY <2>3, CallEnds DEF Return
    <3> QED
      BY <1>1, <2>1, <2>2, <3>1 DEF StationsKnown
  <2>4. ASSUME NEW locals, Continue(locals), locals.finalStations \subseteq DOMAIN stations
        PROVE  StationsKnown'
    <3>1. call'.outcome = "running" /\ call'.locals = locals
      BY <2>2, <2>4, Continues
    <3> QED
      BY <1>1, <2>1, <2>4, <3>1 DEF StationsKnown
  <2>5. ASSUME NEW x \in DOMAIN stations,
               Continue([finalStations |-> final \cup {x},
                         statesNeeded |-> needed \ Covered(x, needed)])
        PROVE  StationsKnown'
    <3>1. PICK locals : locals = [finalStations |-> final \cup {x},
                                  statesNeeded |-> needed \ Covered(x, needed)]
      OBVIOUS
    <3>2. locals.finalStations \subseteq DOMAIN stations
      BY <2>2, <3>1
    <3> QED
      BY <2>4, <2>5, <3>1, <3>2
  <2>6. CASE Continue(call.locals)
    BY <2>1, <2>2, <2>4, <2>6
  <2>7. \/ Return(final)
        \/ \E x \in DOMAIN stations :
              Continue([finalStations |-> final \cup {x},
                        statesNeeded |-> needed \ Covered(x, needed)])
        \/ Continue(call.locals)
    BY <1>3, <2>1 DEF GreedyNext
  <2> QED
    BY <2>3, <2>5, <2>6, <2>7
<1> QED
  BY <1>2, <1>3, ItsSteps

\* What stations cover, all of them do.
LEMMA CoverTells ==
    ASSUME NEW args, NEW final, CoverOK(args, final, {}), final \subseteq DOMAIN args.stations
    PROVE  args.states \subseteq UNION {args.stations[x] : x \in DOMAIN args.stations}
<1>1. args.states \subseteq UNION {args.stations[x] : x \in final}
  BY DEF CoverOK
<1> QED
  BY <1>1

\* The bounds of a search for an item above the first element never cross so far
\* that it returns.
LEMMA AbsentGoesOn ==
    ASSUME BinarySearchOK, call.function = "genericBinarySearch", Endless, BinarySearchNext
    PROVE  Throw("IndexOutOfBounds") \/ \E locals : Continue(locals)
<1>1. PICK list, item, low, high, mid :
         /\ list = call.args.list /\ item = call.args.item
         /\ low = call.locals.low /\ high = call.locals.high /\ mid = Half(ToInt(low + high))
  OBVIOUS
<1>2. /\ list \in Seq(Int) /\ Len(list) <= IntMax /\ item \in Int
      /\ Between(list, item, low, high) /\ list # <<>> /\ ~Contains(list, item) /\ item > Head(list)
  BY <1>1 DEF BinarySearchOK, BinarySearchNext, Running, Endless
<1>3. PICK n \in Nat \ {0} : n = Len(list)
  BY <1>2
<1>4. low \in 0 .. n /\ high \in -1 .. n - 1
  BY <1>2, <1>3 DEF Between
<1>5. list[1] = Head(list) /\ \A i \in 1 .. n : list[i] \in Int /\ list[i] # item
  BY <1>2, <1>3 DEF Contains
<1>6. high >= 0
  <2> SUFFICES ASSUME high = -1 PROVE FALSE
    BY <1>4
  <2>1. 1 \in 1 .. n /\ 1 > high + 1
    BY <1>3
  <2>2. list[1] > item
    BY <1>2, <1>3, <2>1 DEF Between
  <2> QED
    BY <1>2, <1>5, <2>1, <2>2
<1>7. low <= high + 1
  <2> SUFFICES ASSUME low > high + 1 PROVE FALSE
    BY <1>4
  <2>1. low \in 1 .. n /\ low <= low
    BY <1>4, <1>6
  <2>2. list[low] < item /\ list[low] > item
    BY <1>2, <1>3, <2>1 DEF Between
  <2> QED
    BY <1>2, <1>5, <2>1, <2>2
<1>8. low + high \in Int /\ low + high >= -1 /\ low + high # -1 /\ low + high <= 2 * IntMax
  BY <1>2, <1>3, <1>4, <1>6, CallsAssumption
<1>9. mid \in Int /\ mid <= high /\ (mid >= 0 => list[mid + 1] # item)
  <2>1. CASE low + high > IntMax
    <3>1. mid \in Int /\ mid < 0
      BY <1>1, <1>8, <2>1, MiddleIs
    <3> QED
      BY <1>4, <1>6, <3>1
  <2>2. CASE low + high <= IntMax
    <3>1. mid = Half(low + high)
      BY <1>1, <1>8, <2>2, MiddleIs
    <3>2. mid \in Nat /\ 2 * mid <= low + high
      BY <1>8, <3>1, HalfIs, HalfNat
    <3>3. mid <= high /\ mid + 1 \in 1 .. n
      BY <1>4, <1>6, <1>7, <3>2
    <3> QED
      BY <1>5, <3>2, <3>3
  <2> QED
    BY <1>8, <2>1, <2>2, CallsAssumption
<1>10. ~(list = <<>> \/ mid > high)
  BY <1>2, <1>4, <1>9
<1> QED
  BY <1>1, <1>9, <1>10 DEF BinarySearchNext

\* The way back of a start that is its own neighbour does not leave it.
LEMMA LoopGoesOn ==
    ASSUME DijkstraOK, call.function = "dijkstraSearch", Endless, ~Overflows, ProcessNext \/ PathNext
    PROVE  \E locals : Continue(locals)
<1>1. PICK args, graph, start, end :
         args = call.args /\ graph = args.graph /\ start = args.start /\ end = args.end
  OBVIOUS
<1>2. /\ start \in DOMAIN graph[start] /\ end \in Reached(graph, start) /\ ~Unfit(args)
      /\ NoOverflow(graph) /\ call.outcome = "running"
  BY <1>1 DEF Endless, Overflows, ProcessNext, PathNext, Running
<1>3. PICK w : /\ Cheap(w) /\ CostsUpTo(graph, start, w) /\ end \in Nodes
               /\ Processing(graph, start, w, call.locals)
                    \/ GoingBack(graph, start, end, w, call.locals)
  BY <1>1, <1>2 DEF DijkstraOK
<1>4. ASSUME NEW costs, NEW parents, NEW processed,
             call.locals = [costs |-> costs, parents |-> parents, processed |-> processed],
             TreeOK(graph, start, w, costs, parents, processed)
      PROVE  \E locals : Continue(locals)
  <2>1. /\ call.locals.costs = costs /\ call.locals.processed = processed
        /\ ~("path" \in DOMAIN call.locals)
    BY <1>4
  <2>2. ProcessNext
    BY <2>1 DEF PathNext
  <2>3. ASSUME NEW node \in LowestCostNode(costs, processed), Process(node)
        PROVE  \E locals : Continue(locals)
    <3>1. ~(node \notin DOMAIN graph \/ ~ DOMAIN graph[node] \subseteq DOMAIN costs)
      BY <1>1, <1>2, <1>3, <1>4, TurnIsRight
    <3> QED
      BY <1>1, <2>1, <2>3, <3>1 DEF Process
  <2>4. \/ \E node \in LowestCostNode(costs, processed) : Process(node)
        \/ \E locals : Continue(locals)
    BY <2>1, <2>2 DEF ProcessNext
  <2> QED
    BY <2>3, <2>4
<1>5. ASSUME NEW costs, NEW parents, NEW processed, NEW paths, NEW path,
             call.locals = [costs |-> costs, parents |-> parents, paths |-> paths, path |-> path],
             TreeOK(graph, start, w, costs, parents, processed),
             AllTaken(graph, start, costs, processed),
             Following(graph, start, end, w, costs, parents, processed, paths, path)
      PROVE  \E locals : Continue(locals)
  <2>1. call.locals.path = path /\ "path" \in DOMAIN call.locals
    BY <1>5
  <2>2. PathNext
    BY <2>1 DEF ProcessNext
  <2>3. start \in Entries(graph, start) /\ end \in Entries(graph, start)
    BY <1>1, <1>2 DEF Entries, Unfit
  <2>4. PICK p \in PathsFrom(graph, start) : end = Last(p)
    BY <1>2 DEF Reached
  <2>5. end \in processed \cup {start}
    BY <1>3, <1>5, <2>4, PathsSeen
  <2>6. costs[end] < IntMax
    BY <1>5, <2>3, <2>5, CallsAssumption DEF TreeOK, CostsOK
  <2>7. path \in Nodes
    BY <1>5, <2>3, <2>6, CallsAssumption DEF Following
  <2>8. path # Nothing
    BY <2>7, AlgorithmsAssumption
  <2> QED
    BY <2>1, <2>2, <2>8 DEF PathNext
<1> QED
  BY <1>3, <1>4, <1>5 DEF Processing, GoingBack

EndlessOK == CallOK /\ GreedyOK /\ BinarySearchOK /\ DijkstraOK /\ StationsKnown /\ EndlessGoOn

LEMMA EndlessStarts == Init => EndlessOK
<1> SUFFICES ASSUME Init PROVE EndlessOK
  OBVIOUS
<1>1. Endless => call.outcome = "running"
  <2>1. CASE call.function = "greedys"
    BY <2>1, CallStarts DEF Greedy, CallOf
  <2>2. CASE call.function = "genericBinarySearch"
    BY <2>2, CallStarts DEF BinarySearch, CallOf
  <2>3. CASE call.function = "dijkstraSearch"
    <3>1. PICK graph, start, end : call = Dijkstra(graph, start, end)
      <4>1. PICK keys : \E graph \in [keys -> UNION {[to -> 0 .. IntMax] : to \in SUBSET Nodes}] :
                        \E start \in keys : \E end \in Nodes : call = Dijkstra(graph, start, end)
        BY <2>3, CallStarts
      <4> QED
        BY <4>1
    <3> QED
      BY <3>1 DEF Dijkstra, CallOf
  <2> QED
    BY <2>1, <2>2, <2>3 DEF Endless
<1> QED
  BY <1>1, CallStartsOK, GreedyStarts, BinarySearchStarts, DijkstraStarts, StationsKnownStarts
     DEF EndlessOK, EndlessGoOn

LEMMA EndlessStep == EndlessOK /\ [Next]_call => EndlessOK'
<1> SUFFICES ASSUME EndlessOK, [Next]_call PROVE EndlessOK'
  OBVIOUS
<1>1. /\ CallOK /\ GreedyOK /\ BinarySearchOK /\ DijkstraOK /\ StationsKnown /\ EndlessGoOn
      /\ (CallOK /\ GreedyOK /\ BinarySearchOK /\ DijkstraOK /\ StationsKnown)'
  BY CallStepOK, GreedyStep, BinarySearchStep, DijkstraStep, StationsKnownStep DEF EndlessOK
<1>2. call'.function = call.function /\ call'.args = call.args
  BY <1>1, CallKept
<1>3. ASSUME call'.function = "genericBinarySearch", call'.outcome = "thrown"
      PROVE  SearchOverflowed'
  BY <1>1, <1>3 DEF BinarySearchOK, SearchOverflowed
<1>4. ASSUME SearchOverflowed PROVE SearchOverflowed'
  <2>1. call' = call
    BY <1>1, <1>4, CallKept DEF SearchOverflowed
  <2>2. call'.function = "genericBinarySearch" /\ call'.outcome = "thrown"
    BY <1>4, <2>1 DEF SearchOverflowed
  <2> QED
    BY <1>3, <2>2
<1>5. ASSUME Endless, ~Overflows PROVE call'.outcome = "running" \/ SearchOverflowed'
  <2> SUFFICES ASSUME ~SearchOverflowed PROVE call'.outcome = "running" \/ SearchOverflowed'
    BY <1>4
  <2>1. call.outcome = "running"
    BY <1>1, <1>5 DEF EndlessGoOn
  <2>2. ASSUME NEW locals, Continue(locals) PROVE call'.outcome = "running"
    BY <1>1, <2>1, <2>2, Continues
  <2>3. CASE call' = call
    BY <2>1, <2>3
  <2>4. CASE call.function = "greedys" /\ GreedyNext
    <3>1. Return(call.locals.finalStations) \/ \E locals : Continue(locals)
      BY <2>4 DEF GreedyNext
    <3>2. call'.outcome \in {"running", "returned"}
      BY <2>2, <3>1, CallEnds DEF Return
    <3>3. ASSUME call'.outcome = "returned" PROVE FALSE
      <4>1. CoverOK(call'.args, call'.result, {})
        BY <1>1, <1>2, <2>4, <3>3 DEF GreedyOK
      <4>2. call'.result \subseteq DOMAIN call'.args.stations
        BY <1>1, <1>2, <2>4, <3>3 DEF StationsKnown
      <4>3. PICK args, result : args = call'.args /\ result = call'.result
        OBVIOUS
      <4>4. args.states \subseteq UNION {args.stations[x] : x \in DOMAIN args.stations}
        BY <4>1, <4>2, <4>3, CoverTells
      <4>5. args = call.args
        BY <1>2, <4>3
      <4> QED
        BY <1>5, <2>4, <4>4, <4>5 DEF Endless
    <3> QED
      BY <3>2, <3>3
  <2>5. CASE call.function = "genericBinarySearch" /\ BinarySearchNext
    <3>1. CASE Throw("IndexOutOfBounds")
      <4>1. call'.outcome = "thrown"
        BY <3>1, CallEnds DEF Throw
      <4> QED
        BY <1>2, <1>3, <2>5, <4>1
    <3>2. CASE \E locals : Continue(locals)
      BY <2>2, <3>2
    <3> QED
      BY <1>1, <1>5, <2>5, <3>1, <3>2, AbsentGoesOn
  <2>6. CASE call.function = "dijkstraSearch" /\ (ProcessNext \/ PathNext)
    BY <1>1, <1>5, <2>2, <2>6, LoopGoesOn
  <2>7. call.function \in {"greedys", "genericBinarySearch", "dijkstraSearch"}
    BY <1>5 DEF Endless
  <2> QED
    BY <2>3, <2>4, <2>5, <2>6, <2>7, ItsSteps
<1>6. Endless' => Endless
  BY <1>2 DEF Endless
<1>7. Overflows => Overflows'
  BY <1>2 DEF Overflows
<1>8. EndlessGoOn'
  BY <1>5, <1>6, <1>7 DEF EndlessGoOn
<1> QED
  BY <1>1, <1>8 DEF EndlessOK

\* The three kinds of calls whose loop has no end never end, whatever the size of their
\* arguments: greedys with a state that is in no station's set, genericBinarySearch
\* for an absent item above the first element - it may throw if it is so far back that
\* a sum of two indices is no Int -, dijkstraSearch from a start that is its own
\* neighbour, in graphs whose costs do not overflow.
THEOREM EndlessNeverEnd == Spec => []EndlessGoOn
<1>1. EndlessOK => EndlessGoOn
  BY DEF EndlessOK
<1> QED
  BY <1>1, EndlessStarts, EndlessStep, PTL DEF Spec

=============================================================================
