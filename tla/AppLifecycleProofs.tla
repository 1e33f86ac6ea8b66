------------------------- MODULE AppLifecycleProofs -------------------------
(***************************************************************************)
(* Proofs about AppLifecycle: however many stops race for the deque, every *)
(* hook is in one place and is called at most once; and a single stop      *)
(* calls the hooks last in, first out, and leaves none of them behind.     *)
(***************************************************************************)
EXTENDS AppLifecycle, SequenceTheorems, TLAPS

HooksTypeOK ==
    /\ hooks \in Seq(Hooks)
    /\ status \in [Hooks -> Statuses]
    /\ chain \in [Threads -> Seq(Hooks)]
    /\ current \in [Threads -> Hooks \cup {NoHook}]
    /\ starts \in [Hooks -> Nat]

InDeque == \A h \in Hooks : h \in ToSet(hooks) <=> status[h] = "queued"

InChains == \A h \in Hooks : (\E p \in Threads : h \in ToSet(chain[p])) <=> status[h] = "chained"

NoRepetition == IsInjective(hooks) /\ \A p \in Threads : IsInjective(chain[p])

ChainsDisjoint ==
    \A p, q \in Threads : p # q => \A h \in Hooks : ~(h \in ToSet(chain[p]) /\ h \in ToSet(chain[q]))

\* What a stop waits for runs, and for this stop only.
CurrentRuns ==
    \A p \in Threads : current[p] # NoHook =>
       /\ status[current[p]] = "running"
       /\ \A q \in Threads : p # q => current[q] # current[p]

CalledOnce ==
    \A h \in Hooks : starts[h] = IF status[h] \in {"running", "ended", "thrown"} THEN 1 ELSE 0

IInv ==
    /\ HooksTypeOK /\ InDeque /\ InChains /\ NoRepetition
    /\ ChainsDisjoint /\ CurrentRuns /\ CalledOnce

hookVars == <<hooks, status, chain, current, starts>>

------------------------------------------------------------------------------
(* Sequences without repetition.                                           *)

LEMMA EmptyIsInjective ==
    ASSUME NEW S
    PROVE  IsInjective(<<>>) /\ ToSet(<<>>) = {} /\ <<>> \in Seq(S)
    BY DEF IsInjective, ToSet

LEMMA ElementsTyped ==
    ASSUME NEW S, NEW s \in Seq(S)
    PROVE  ToSet(s) \subseteq S
    BY DEF ToSet

LEMMA HeadAndTail ==
    ASSUME NEW S, NEW s \in Seq(S), s # <<>>
    PROVE  /\ Head(s) \in S /\ Tail(s) \in Seq(S)
           /\ \A x : x \in ToSet(s) <=> x = Head(s) \/ x \in ToSet(Tail(s))
           /\ IsInjective(s) => IsInjective(Tail(s)) /\ Head(s) \notin ToSet(Tail(s))
<1>1. Len(s) \in Nat \ {0} /\ s[1] = Head(s) /\ Tail(s) \in Seq(S) /\ Head(s) \in S
    OBVIOUS
<1>2. /\ DOMAIN s = 1 .. Len(s) /\ DOMAIN Tail(s) = 1 .. Len(s) - 1
      /\ \A i \in 1 .. Len(s) - 1 : Tail(s)[i] = s[i + 1]
    BY <1>1
<1>3. ASSUME NEW x PROVE x \in ToSet(s) <=> x = Head(s) \/ x \in ToSet(Tail(s))
  <2>1. ASSUME NEW i \in 1 .. Len(s), x = s[i], x # Head(s) PROVE x \in ToSet(Tail(s))
    <3>1. i - 1 \in 1 .. Len(s) - 1 /\ Tail(s)[i - 1] = s[i]
        BY <1>1, <1>2, <2>1
    <3> QED
        BY <3>1, <2>1, <1>2 DEF ToSet
  <2>2. ASSUME NEW i \in 1 .. Len(s) - 1, x = Tail(s)[i] PROVE x \in ToSet(s)
    <3>1. i + 1 \in 1 .. Len(s) /\ x = s[i + 1]
        BY <1>1, <1>2, <2>2
    <3> QED
        BY <3>1, <1>2 DEF ToSet
  <2>3. 1 \in 1 .. Len(s)
      BY <1>1
  <2> QED
      BY <1>1, <1>2, <2>1, <2>2, <2>3 DEF ToSet
<1>4. ASSUME IsInjective(s) PROVE IsInjective(Tail(s)) /\ Head(s) \notin ToSet(Tail(s))
    BY <1>1, <1>2, <1>4 DEF IsInjective, ToSet
<1> QED
    BY <1>1, <1>3, <1>4

LEMMA Appended ==
    ASSUME NEW S, NEW s \in Seq(S), NEW x \in S
    PROVE  /\ Append(s, x) \in Seq(S)
           /\ \A y : y \in ToSet(Append(s, x)) <=> y = x \/ y \in ToSet(s)
           /\ IsInjective(s) /\ x \notin ToSet(s) => IsInjective(Append(s, x))
<1>1. /\ Append(s, x) \in Seq(S) /\ Len(s) \in Nat
      /\ DOMAIN s = 1 .. Len(s) /\ DOMAIN Append(s, x) = 1 .. Len(s) + 1
      /\ \A i \in 1 .. Len(s) : Append(s, x)[i] = s[i]
      /\ Append(s, x)[Len(s) + 1] = x
    OBVIOUS
<1>2. ASSUME NEW y PROVE y \in ToSet(Append(s, x)) <=> y = x \/ y \in ToSet(s)
  <2>1. ASSUME NEW i \in 1 .. Len(s) + 1, y = Append(s, x)[i], y # x PROVE y \in ToSet(s)
      BY <1>1, <2>1 DEF ToSet
  <2>2. ASSUME NEW i \in 1 .. Len(s), y = s[i] PROVE y \in ToSet(Append(s, x))
      BY <1>1, <2>2 DEF ToSet
  <2>3. Len(s) + 1 \in 1 .. Len(s) + 1
      BY <1>1
  <2> QED
      BY <1>1, <2>1, <2>2, <2>3 DEF ToSet
<1>3. ASSUME IsInjective(s), x \notin ToSet(s) PROVE IsInjective(Append(s, x))
    BY <1>1, <1>3 DEF IsInjective, ToSet
<1> QED
    BY <1>1, <1>2, <1>3

LEMMA Pushed ==
    ASSUME HooksTypeOK, NEW x \in Hooks
    PROVE  /\ Push(x) \in Seq(Hooks)
           /\ \A y : y \in ToSet(Push(x)) <=> y = x \/ y \in ToSet(hooks)
           /\ IsInjective(hooks) /\ x \notin ToSet(hooks) => IsInjective(Push(x))
<1>1. /\ Push(x) \in Seq(Hooks) /\ Len(hooks) \in Nat
      /\ DOMAIN hooks = 1 .. Len(hooks) /\ DOMAIN Push(x) = 1 .. Len(hooks) + 1
      /\ \A i \in 1 .. Len(hooks) : Push(x)[i + 1] = hooks[i]
      /\ Push(x)[1] = x
    BY DEF Push, HooksTypeOK
<1>2. ASSUME NEW i \in 2 .. Len(hooks) + 1
      PROVE  i - 1 \in 1 .. Len(hooks) /\ Push(x)[i] = hooks[i - 1]
    BY <1>1
<1>3. ASSUME NEW y PROVE y \in ToSet(Push(x)) <=> y = x \/ y \in ToSet(hooks)
  <2>1. ASSUME NEW i \in 1 .. Len(hooks) + 1, y = Push(x)[i], y # x PROVE y \in ToSet(hooks)
      BY <1>1, <1>2, <2>1 DEF ToSet
  <2>2. ASSUME NEW i \in 1 .. Len(hooks), y = hooks[i] PROVE y \in ToSet(Push(x))
    <3>1. i + 1 \in 1 .. Len(hooks) + 1 /\ y = Push(x)[i + 1]
        BY <1>1, <2>2
    <3> QED
        BY <3>1, <1>1 DEF ToSet
  <2>3. 1 \in 1 .. Len(hooks) + 1
      BY <1>1
  <2> QED
      BY <1>1, <2>1, <2>2, <2>3 DEF ToSet
<1>4. ASSUME IsInjective(hooks), x \notin ToSet(hooks) PROVE IsInjective(Push(x))
  <2> SUFFICES ASSUME NEW i \in 1 .. Len(hooks) + 1, NEW j \in 1 .. Len(hooks) + 1,
                      Push(x)[i] = Push(x)[j]
               PROVE  i = j
      BY <1>1 DEF IsInjective
  <2>1. \A k \in 2 .. Len(hooks) + 1 : Push(x)[k] # x
      BY <1>1, <1>2, <1>4 DEF ToSet
  <2>2. CASE i = 1 \/ j = 1
      BY <2>1, <2>2, <1>1
  <2>3. CASE i # 1 /\ j # 1
    <3>1. i \in 2 .. Len(hooks) + 1 /\ j \in 2 .. Len(hooks) + 1
        BY <2>3, <1>1
    <3>2. hooks[i - 1] = hooks[j - 1] /\ i - 1 \in DOMAIN hooks /\ j - 1 \in DOMAIN hooks
        BY <3>1, <1>1, <1>2
    <3>3. i - 1 = j - 1
        BY <3>2, <1>4 DEF IsInjective
    <3> QED
        BY <3>1, <3>3
  <2> QED
      BY <2>2, <2>3
<1> QED
    BY <1>1, <1>3, <1>4

------------------------------------------------------------------------------

LEMMA InitIInv == Init => IInv
<1> SUFFICES ASSUME Init PROVE IInv
    OBVIOUS
<1> USE EmptyIsInjective DEF Init
<1>1. HooksTypeOK
    BY DEF HooksTypeOK, Statuses
<1>2. InDeque /\ InChains /\ NoRepetition /\ ChainsDisjoint
    BY DEF InDeque, InChains, NoRepetition, ChainsDisjoint
<1>3. CurrentRuns /\ CalledOnce
    BY DEF CurrentRuns, CalledOnce
<1> QED
    BY <1>1, <1>2, <1>3 DEF IInv

LEMMA AddKeeps ==
    ASSUME IInv, NEW h \in Hooks, AddStopHook(h)
    PROVE  IInv'
<1> USE DEF AddStopHook, IInv
<1>1. h \notin ToSet(hooks)
    BY DEF InDeque
<1>2. HooksTypeOK'
    BY Pushed DEF HooksTypeOK, Statuses
<1>3. InDeque'
    BY Pushed DEF HooksTypeOK, InDeque
<1>4. InChains'
    BY DEF HooksTypeOK, InChains
<1>5. NoRepetition'
    BY <1>1, Pushed DEF NoRepetition
<1>6. ChainsDisjoint'
    BY DEF ChainsDisjoint
<1>7. CurrentRuns' /\ CalledOnce'
    BY DEF HooksTypeOK, CurrentRuns, CalledOnce
<1> QED
    BY <1>2, <1>3, <1>4, <1>5, <1>6, <1>7

LEMMA PollKeeps ==
    ASSUME IInv, NEW p \in Threads, Poll(p), UNCHANGED <<current, starts>>
    PROVE  IInv'
<1> DEFINE h == Head(hooks)
<1> USE DEF IInv
<1>1. /\ hooks # <<>> /\ hooks' = Tail(hooks) /\ h \in Hooks /\ hooks' \in Seq(Hooks)
      /\ \A x : x \in ToSet(hooks) <=> x = h \/ x \in ToSet(hooks')
      /\ IsInjective(hooks') /\ h \notin ToSet(hooks')
    BY HeadAndTail DEF Poll, HooksTypeOK, NoRepetition
<1>2. status[h] = "queued" /\ \A q \in Threads : h \notin ToSet(chain[q])
    BY <1>1 DEF InDeque, InChains
<1>3. \/ p \in failed /\ status' = [status EXCEPT ![h] = "skipped"] /\ chain' = chain
      \/ /\ status' = [status EXCEPT ![h] = "chained"]
         /\ chain' = [chain EXCEPT ![p] = Append(chain[p], h)]
    BY DEF Poll
<1> HIDE DEF h
<1>4. /\ chain[p] \in Seq(Hooks) /\ Append(chain[p], h) \in Seq(Hooks)
      /\ \A y : y \in ToSet(Append(chain[p], h)) <=> y = h \/ y \in ToSet(chain[p])
      /\ IsInjective(Append(chain[p], h))
    BY <1>1, <1>2, Appended DEF HooksTypeOK, NoRepetition
<1>5. \A x \in Hooks \ {h} : status'[x] = status[x]
    BY <1>3 DEF HooksTypeOK
<1>6. status'[h] \in {"skipped", "chained"}
    BY <1>1, <1>3 DEF HooksTypeOK
<1>7. HooksTypeOK'
    BY <1>1, <1>3, <1>4 DEF HooksTypeOK, Statuses
<1>8. InDeque'
    BY <1>1, <1>5, <1>6 DEF InDeque
<1>9. CurrentRuns' /\ CalledOnce'
    BY <1>1, <1>2, <1>5, <1>6 DEF HooksTypeOK, CurrentRuns, CalledOnce
<1>10. InChains' /\ NoRepetition' /\ ChainsDisjoint'
  <2>1. CASE chain' = chain /\ status'[h] = "skipped"
      BY <2>1, <1>1, <1>2, <1>5 DEF InChains, NoRepetition, ChainsDisjoint
  <2>2. CASE chain' = [chain EXCEPT ![p] = Append(chain[p], h)] /\ status'[h] = "chained"
    <3>1. chain'[p] = Append(chain[p], h) /\ \A q \in Threads \ {p} : chain'[q] = chain[q]
        BY <2>2 DEF HooksTypeOK
    <3>2. InChains'
        BY <3>1, <2>2, <1>1, <1>4, <1>5 DEF InChains
    <3>3. NoRepetition'
        BY <3>1, <1>1, <1>4 DEF NoRepetition
    <3>4. ChainsDisjoint'
      <4> SUFFICES ASSUME NEW q \in Threads, NEW r \in Threads, q # r, NEW x \in Hooks,
                          x \in ToSet(chain'[q]), x \in ToSet(chain'[r])
                   PROVE  FALSE
          BY DEF ChainsDisjoint
      <4>1. CASE q = p
          BY <4>1, <3>1, <1>2, <1>4 DEF ChainsDisjoint
      <4>2. CASE r = p
          BY <4>2, <3>1, <1>2, <1>4 DEF ChainsDisjoint
      <4>3. CASE q # p /\ r # p
          BY <4>3, <3>1 DEF ChainsDisjoint
      <4> QED
          BY <4>1, <4>2, <4>3
    <3> QED
        BY <3>2, <3>3, <3>4
  <2> QED
      BY <2>1, <2>2, <1>1, <1>3 DEF HooksTypeOK
<1> QED
    BY <1>7, <1>8, <1>9, <1>10

LEMMA StartKeeps ==
    ASSUME IInv, NEW p \in Threads, StartHook(p)
    PROVE  IInv'
<1> DEFINE h == Head(chain[p])
<1> USE DEF IInv
<1>1. /\ chain[p] # <<>> /\ current[p] = NoHook /\ h \in Hooks /\ Tail(chain[p]) \in Seq(Hooks)
      /\ \A x : x \in ToSet(chain[p]) <=> x = h \/ x \in ToSet(Tail(chain[p]))
      /\ IsInjective(Tail(chain[p])) /\ h \notin ToSet(Tail(chain[p]))
    BY HeadAndTail DEF StartHook, PreviousCompleted, HooksTypeOK, NoRepetition
<1>2. /\ hooks' = hooks /\ starts' = [starts EXCEPT ![h] = starts[h] + 1]
      /\ \/ /\ chain' = [chain EXCEPT ![p] = Tail(chain[p])]
            /\ current' = [current EXCEPT ![p] = h]
            /\ status' = [status EXCEPT ![h] = "running"]
         \/ /\ chain' = [chain EXCEPT ![p] = <<>>]
            /\ status' = [x \in Hooks |-> IF x = h THEN "thrown"
                                          ELSE IF x \in ToSet(chain[p]) THEN "skipped"
                                          ELSE status[x]]
            /\ current' = current
    BY DEF StartHook, HooksTypeOK
<1>3. status[h] = "chained" /\ \A q \in Threads \ {p} : h \notin ToSet(chain[q])
    BY <1>1 DEF InChains, ChainsDisjoint
<1>4. ToSet(chain[p]) \subseteq Hooks /\ \A x \in ToSet(chain[p]) : status[x] = "chained"
    BY ElementsTyped DEF HooksTypeOK, InChains
<1>5. h # NoHook
    BY <1>1, HookAssumption
<1>6. starts[h] = 0 /\ starts'[h] = 1 /\ \A x \in Hooks \ {h} : starts'[x] = starts[x]
    BY <1>1, <1>2, <1>3 DEF HooksTypeOK, CalledOnce
<1> HIDE DEF h
<1>7. CASE /\ chain' = [chain EXCEPT ![p] = Tail(chain[p])]
           /\ current' = [current EXCEPT ![p] = h]
           /\ status' = [status EXCEPT ![h] = "running"]
  <2>1. /\ chain'[p] = Tail(chain[p]) /\ \A q \in Threads \ {p} : chain'[q] = chain[q]
        /\ current'[p] = h /\ \A q \in Threads \ {p} : current'[q] = current[q]
        /\ status'[h] = "running" /\ \A x \in Hooks \ {h} : status'[x] = status[x]
      BY <1>1, <1>7 DEF HooksTypeOK
  <2>2. HooksTypeOK'
      BY <1>1, <1>2, <1>7 DEF HooksTypeOK, Statuses
  <2>3. InDeque'
      BY <1>2, <1>3, <2>1 DEF InDeque
  <2>4. InChains'
    <3>1. ASSUME NEW x \in Hooks \ {h}
          PROVE  (\E q \in Threads : x \in ToSet(chain'[q])) <=> \E q \in Threads : x \in ToSet(chain[q])
        BY <1>1, <2>1
    <3>2. ~ \E q \in Threads : h \in ToSet(chain'[q])
        BY <1>1, <1>3, <2>1
    <3> QED
        BY <3>1, <3>2, <2>1 DEF InChains
  <2>5. NoRepetition'
      BY <1>1, <1>2, <2>1 DEF NoRepetition
  <2>6. ChainsDisjoint'
      BY <1>1, <2>1 DEF ChainsDisjoint
  <2>7. CurrentRuns'
    <3>1. \A q \in Threads : current[q] # NoHook =>
             /\ current[q] \in Hooks /\ status[current[q]] = "running" /\ current[q] # h
        BY <1>3 DEF CurrentRuns, HooksTypeOK
    <3> SUFFICES ASSUME NEW q \in Threads, current'[q] # NoHook
                 PROVE  /\ status'[current'[q]] = "running"
                        /\ \A r \in Threads : q # r => current'[r] # current'[q]
        BY DEF CurrentRuns
    <3>2. CASE q = p
      <4>1. \A r \in Threads \ {p} : current[r] # h
          BY <3>1, <1>5
      <4> QED
          BY <3>2, <2>1, <4>1
    <3>3. CASE q # p
      <4>1. current'[q] = current[q] /\ current[q] # h /\ status[current[q]] = "running"
            /\ current[q] \in Hooks
          BY <3>1, <3>3, <2>1
      <4>2. \A r \in Threads : q # r => current'[r] # current'[q]
          BY <4>1, <3>3, <2>1 DEF CurrentRuns
      <4> QED
          BY <4>1, <4>2, <2>1
    <3> QED
        BY <3>2, <3>3
  <2>8. CalledOnce'
      BY <1>6, <2>1 DEF CalledOnce
  <2> QED
      BY <2>2, <2>3, <2>4, <2>5, <2>6, <2>7, <2>8
<1>8. CASE /\ chain' = [chain EXCEPT ![p] = <<>>]
           /\ status' = [x \in Hooks |-> IF x = h THEN "thrown"
                                         ELSE IF x \in ToSet(chain[p]) THEN "skipped"
                                         ELSE status[x]]
           /\ current' = current
  <2>1. /\ chain'[p] = <<>> /\ \A q \in Threads \ {p} : chain'[q] = chain[q]
        /\ ToSet(chain'[p]) = {}
      BY <1>8, EmptyIsInjective DEF HooksTypeOK
  <2>2. /\ status'[h] = "thrown"
        /\ \A x \in ToSet(chain[p]) \ {h} : status'[x] = "skipped"
        /\ \A x \in Hooks \ ToSet(chain[p]) : status'[x] = status[x]
      BY <1>1, <1>4, <1>8
  <2>3. HooksTypeOK'
    <3>1. status' \in [Hooks -> Statuses]
        BY <1>8 DEF HooksTypeOK, Statuses
    <3> QED
        BY <3>1, <1>1, <1>2, <1>8, EmptyIsInjective DEF HooksTypeOK
  <2>4. InDeque'
      BY <1>1, <1>2, <1>4, <2>2 DEF InDeque
  <2>5. InChains'
    <3>1. ASSUME NEW x \in Hooks \ ToSet(chain[p])
          PROVE  (\E q \in Threads : x \in ToSet(chain'[q])) <=> \E q \in Threads : x \in ToSet(chain[q])
        BY <3>1, <2>1
    <3>2. ASSUME NEW x \in ToSet(chain[p])
          PROVE  ~ \E q \in Threads : x \in ToSet(chain'[q])
        BY <3>2, <1>4, <2>1 DEF ChainsDisjoint
    <3> QED
        BY <3>1, <3>2, <2>2 DEF InChains
  <2>6. NoRepetition'
      BY <1>2, <2>1, EmptyIsInjective DEF NoRepetition
  <2>7. ChainsDisjoint'
      BY <2>1 DEF ChainsDisjoint
  <2>8. CurrentRuns'
      BY <1>4, <1>8, <2>2 DEF CurrentRuns, HooksTypeOK
  <2>9. CalledOnce'
      BY <1>1, <1>4, <1>6, <2>2 DEF CalledOnce
  <2> QED
      BY <2>3, <2>4, <2>5, <2>6, <2>7, <2>8, <2>9
<1> QED
    BY <1>2, <1>7, <1>8 DEF h

LEMMA EndKeeps ==
    ASSUME IInv, NEW p \in Threads, EndHook(p)
    PROVE  IInv'
<1> USE DEF IInv, EndHook
<1>1. current[p] \in Hooks /\ status[current[p]] = "running"
    BY DEF HooksTypeOK, CurrentRuns
<1>2. HooksTypeOK'
    BY DEF HooksTypeOK, Statuses
<1>3. InDeque' /\ InChains'
    BY <1>1 DEF HooksTypeOK, InDeque, InChains
<1>4. NoRepetition' /\ ChainsDisjoint'
    BY DEF NoRepetition, ChainsDisjoint
<1>5. CurrentRuns'
    BY <1>1 DEF HooksTypeOK, CurrentRuns
<1>6. CalledOnce'
    BY <1>1 DEF HooksTypeOK, CalledOnce
<1> QED
    BY <1>2, <1>3, <1>4, <1>5, <1>6

LEMMA UnchangedKeeps == IInv /\ UNCHANGED hookVars => IInv'
    BY DEF hookVars, IInv, HooksTypeOK, InDeque, InChains, NoRepetition, ChainsDisjoint,
           CurrentRuns, CalledOnce

\* Every step keeps the invariant.
LEMMA NextIInv == IInv /\ [Next]_vars => IInv'
<1> SUFFICES ASSUME IInv, [Next]_vars PROVE IInv'
    OBVIOUS
<1>1. ASSUME NEW p \in Threads, Stop(p) PROVE IInv'
    BY <1>1, UnchangedKeeps DEF Stop, hookVars
<1>2. ASSUME NEW p \in Threads, ClearHooks(p) PROVE IInv'
    BY <1>2, PollKeeps, UnchangedKeeps DEF ClearHooks, hookVars
<1>3. ASSUME NEW p \in Threads, TerminateSystem(p) \/ ShutdownDone(p) PROVE IInv'
    BY <1>3, UnchangedKeeps DEF TerminateSystem, ShutdownDone, hookVars
<1>4. CASE SystemDown \/ UNCHANGED vars
    BY <1>4, UnchangedKeeps DEF SystemDown, vars, hookVars
<1> QED
    BY <1>1, <1>2, <1>3, <1>4, AddKeeps, StartKeeps, EndKeeps DEF Next, Shutdown

\* Every hook is in the deque, in one chain, running for one stop, or finished,
\* and is called at most once, for any number of hooks and racing stops.
THEOREM EveryHookInOnePlace == Spec => []HookInOnePlace
<1>1. IInv => HookInOnePlace
  <2> SUFFICES ASSUME IInv PROVE HookInOnePlace
      OBVIOUS
  <2> USE DEF IInv
  <2>1. ToSet(hooks) = {h \in Hooks : status[h] = "queued"}
      BY ElementsTyped DEF InDeque, HooksTypeOK
  <2>2. \A p \in Threads : ToSet(chain[p]) \subseteq Hooks
      BY ElementsTyped DEF HooksTypeOK
  <2>3. UNION {ToSet(chain[p]) : p \in Threads} = {h \in Hooks : status[h] = "chained"}
      BY <2>2 DEF InChains
  <2>4. \A p, q \in Threads : p # q => ToSet(chain[p]) \cap ToSet(chain[q]) = {}
      BY <2>2 DEF ChainsDisjoint
  <2> QED
      BY <2>1, <2>3, <2>4 DEF HookInOnePlace, HooksTypeOK, NoRepetition, CalledOnce
<1> QED
    BY InitIInv, NextIInv, <1>1, PTL DEF Spec

------------------------------------------------------------------------------
(* The order in which a single stop calls the hooks.                       *)

\* What is recorded of components and stops.
HistoryOK ==
    /\ added \in Seq(Hooks) /\ IsInjective(added)
    /\ \A h \in Hooks : h \in ToSet(added) <=> status[h] # "new"
    /\ pc \in [Threads -> {"idle", "polling", "waiting", "terminating", "done"}]
    /\ inTime \in [Threads -> SUBSET Hooks]
    /\ \A p \in Threads : inTime[p] \subseteq ToSet(added)
    /\ failed \subseteq Threads
    /\ system \in {"absent", "up", "terminating", "down"}
    /\ timedOut \in BOOLEAN

\* Only a stop that was called has hooks, and it was called with the system there.
IdleRests ==
    \A p \in Threads :
       IF pc[p] = "idle"
       THEN chain[p] = <<>> /\ current[p] = NoHook /\ p \notin failed /\ inTime[p] = {}
       ELSE SystemHook \in inTime[p]

\* What has become of a hook was done by a stop.
StopsAct ==
    /\ \A h \in Hooks : status[h] \notin {"new", "queued"} => \E p \in Threads : pc[p] # "idle"
    /\ \A h \in Hooks : status[h] \in {"thrown", "skipped"} => failed # {}
    /\ \A h \in Hooks : status[h] = "running" => \E p \in Threads : current[p] = h
    /\ \A p \in failed : /\ chain[p] = <<>> /\ current[p] = NoHook
                         /\ \E h \in Throwing : status[h] = "thrown"

\* A stop that waits has taken every hook that was there when it was called.
Polled ==
    \A p \in Threads : pc[p] \notin {"idle", "polling"} =>
       \A h \in inTime[p] : status[h] # "queued"

\* The deque begins with the hook that was added last.
DequeSorted ==
    \A i, j \in 1 .. Len(hooks) : i < j => Order(hooks[i]) > Order(hooks[j])

\* A single stop is never further with a hook than with those added after it.
LaterAhead(p) ==
    \A g, h \in inTime[p] : Order(g) > Order(h) =>
       /\ status[h] \in {"running", "ended", "thrown"} => status[g] = "ended"
       /\ status[h] = "chained" =>
             /\ status[g] \in {"chained", "running", "ended"}
             /\ \A i, j \in 1 .. Len(chain[p]) :
                   chain[p][i] = g /\ chain[p][j] = h => i < j

SystemOK ==
    /\ system = "absent" <=> status[SystemHook] = "new"
    /\ system \in {"terminating", "down"} => \E p \in Threads : pc[p] # "idle"

SystemEndsLast(p) ==
    ~timedOut /\ system \in {"terminating", "down"} =>
       \A h \in inTime[p] :
          Order(h) > Order(SystemHook) => status[h] \notin {"queued", "chained", "running"}

OInv ==
    /\ HistoryOK /\ IdleRests /\ StopsAct /\ Polled /\ DequeSorted /\ SystemOK
    /\ \A p \in Threads : Alone(p) => LaterAhead(p) /\ SystemEndsLast(p)

------------------------------------------------------------------------------
(* Places in the order of addition.                                        *)

LEMMA PlaceOf ==
    ASSUME NEW S, NEW s \in Seq(S), IsInjective(s), NEW k \in 1 .. Len(s)
    PROVE  IndexFirstSubSeq(<<s[k]>>, s) = k
<1> DEFINE x == s[k]
           Within(i) == <<x>> \in SubSeqs(SubSeq(s, 1, i))
<1>1. /\ Len(s) \in Nat /\ DOMAIN s = 1 .. Len(s)
      /\ \A i, j \in 1 .. Len(s) : s[i] = s[j] => i = j
    BY DEF IsInjective
<1>2. ASSUME NEW i \in 0 .. Len(s) PROVE Within(i) <=> k <= i
  <2> DEFINE t == SubSeq(s, 1, i)
  <2>1. t \in Seq(S) /\ Len(t) = i /\ \A j \in 1 .. i : t[j] = s[j]
      BY <1>1
  <2>2. ASSUME k <= i PROVE Within(i)
    <3> DEFINE r == SubSeq(t, k, k)
    <3>1. k \in 1 .. Len(t) /\ t[k] = x
        BY <1>1, <2>1, <2>2
    <3> HIDE DEF t, x
    <3>2. r \in Seq(S) /\ Len(r) = 1 /\ r[1] = x /\ x \in S
        BY <2>1, <3>1
    <3>3. r = <<x>>
      <4>1. <<x>> \in Seq(S) /\ Len(<<x>>) = 1 /\ <<x>>[1] = x
          BY <3>2
      <4>2. \A n \in 1 .. Len(r) : r[n] = <<x>>[n]
          BY <3>2, <4>1
      <4> HIDE DEF r
      <4> QED
          BY <3>2, <4>1, <4>2, SeqEqual
    <3>4. k - 1 \in 0 .. Len(t) /\ k \in 0 .. Len(t) /\ (k - 1) + 1 = k
        BY <2>1, <3>1
    <3>5. <<x>> = SubSeq(t, (k - 1) + 1, k)
        BY <3>3, <3>4
    <3>6. \E a, b \in 0 .. Len(t) : <<x>> = SubSeq(t, a + 1, b)
        BY <3>4, <3>5
    <3>7. <<x>> \in SubSeqs(t)
        BY <3>6 DEF SubSeqs
    <3> QED
        BY <3>7 DEF t
  <2>3. ASSUME Within(i) PROVE k <= i
    <3>1. PICK a \in 0 .. Len(t), b \in 0 .. Len(t) : <<x>> = SubSeq(t, a + 1, b)
        BY <2>3 DEF SubSeqs
    <3>2. Len(SubSeq(t, a + 1, b)) = 1 /\ SubSeq(t, a + 1, b)[1] = x
        BY <3>1
    <3>3. b = a + 1 /\ t[a + 1] = x
        BY <2>1, <3>1, <3>2
    <3>4. a + 1 \in 1 .. i /\ s[a + 1] = x
        BY <1>1, <2>1, <3>3
    <3> QED
        BY <1>1, <3>4
  <2> QED
      BY <2>2, <2>3
<1> DEFINE P(i) == Within(i) /\ \A j \in 0 .. i - 1 : ~Within(j)
           last == CHOOSE i \in 0 .. Len(s) : P(i)
<1> HIDE DEF Within
<1>3. P(k)
    BY <1>1, <1>2
<1>4. \A i \in 0 .. Len(s) : P(i) => i = k
    BY <1>1, <1>2, <1>3
<1>5. last = k
    BY <1>1, <1>3, <1>4
<1>6. IndexFirstSubSeq(<<x>>, s) = last - (Len(<<x>>) - 1)
    BY Zenon DEF IndexFirstSubSeq, Within
<1> HIDE DEF last
<1>7. Len(<<x>>) = 1
    OBVIOUS
<1> QED
    BY <1>5, <1>6, <1>7

\* What is added later has the higher place, and the places of the others stay.
LEMMA PlacesKept ==
    ASSUME NEW S, NEW s \in Seq(S), IsInjective(s), NEW y \in S, y \notin ToSet(s)
    PROVE  LET t == Append(s, y) IN
           /\ \A x \in ToSet(s) : /\ IndexFirstSubSeq(<<x>>, t) = IndexFirstSubSeq(<<x>>, s)
                                  /\ IndexFirstSubSeq(<<x>>, s) \in Nat
                                  /\ IndexFirstSubSeq(<<x>>, s) < IndexFirstSubSeq(<<y>>, t)
           /\ IndexFirstSubSeq(<<y>>, t) \in Nat
<1> DEFINE t == Append(s, y)
<1>1. /\ t \in Seq(S) /\ IsInjective(t) /\ Len(s) \in Nat /\ Len(t) = Len(s) + 1
      /\ \A i \in 1 .. Len(s) : t[i] = s[i]
      /\ t[Len(s) + 1] = y
    BY Appended
<1>2. IndexFirstSubSeq(<<y>>, t) = Len(s) + 1
  <2> HIDE DEF t
  <2>1. IndexFirstSubSeq(<<t[Len(s) + 1]>>, t) = Len(s) + 1
      BY <1>1, PlaceOf
  <2> QED
      BY <1>1, <2>1
<1>3. ASSUME NEW x \in ToSet(s)
      PROVE  /\ IndexFirstSubSeq(<<x>>, t) = IndexFirstSubSeq(<<x>>, s)
             /\ IndexFirstSubSeq(<<x>>, s) \in 1 .. Len(s)
  <2>1. PICK k \in 1 .. Len(s) : x = s[k]
      BY <1>3 DEF ToSet
  <2>2. IndexFirstSubSeq(<<x>>, s) = k
      BY <2>1, PlaceOf
  <2> HIDE DEF t
  <2>3. x = t[k] /\ k \in 1 .. Len(t)
      BY <1>1, <2>1
  <2>4. IndexFirstSubSeq(<<x>>, t) = k
      BY <1>1, <2>3, PlaceOf
  <2> QED
      BY <2>2, <2>4
<1> QED
    BY <1>1, <1>2, <1>3

\* The steps of a thread that touch no hook.
LEMMA RestKeepsOrder ==
    ASSUME OInv, UNCHANGED <<hooks, status, chain, current, failed, added, inTime>>,
           HistoryOK', \A p \in Threads : pc'[p] = "idle" <=> pc[p] = "idle",
           Polled', SystemOK', \A p \in Threads : Alone(p) => SystemEndsLast(p)'
    PROVE  OInv'
<1>1. IdleRests' /\ StopsAct' /\ DequeSorted'
    BY DEF OInv, IdleRests, StopsAct, DequeSorted, Order
<1>2. ASSUME NEW p \in Threads, Alone(p)' PROVE LaterAhead(p)' /\ SystemEndsLast(p)'
  <2>1. Alone(p)
      BY <1>2 DEF Alone
  <2>2. LaterAhead(p)
      BY <2>1 DEF OInv
  <2> QED
      BY <2>1, <2>2 DEF LaterAhead, Order
<1> QED
    BY <1>1, <1>2 DEF OInv

LEMMA WaitingKeepsOrder ==
    ASSUME IInv, OInv, NEW p \in Threads, pc[p] = "polling", hooks = <<>>,
           pc' = [pc EXCEPT ![p] = "waiting"],
           UNCHANGED <<hooks, status, chain, current, failed, system, added, inTime, timedOut>>
    PROVE  OInv'
<1>1. HistoryOK' /\ SystemOK' /\ \A q \in Threads : pc'[q] = "idle" <=> pc[q] = "idle"
    BY DEF OInv, HistoryOK, SystemOK
<1>2. \A h \in Hooks : status[h] # "queued"
    BY EmptyIsInjective DEF IInv, InDeque
<1>3. Polled'
    BY <1>2 DEF OInv, HistoryOK, Polled
<1>4. \A q \in Threads : Alone(q) => SystemEndsLast(q)'
    BY DEF OInv, SystemEndsLast, Order
<1> QED
    BY <1>1, <1>3, <1>4, RestKeepsOrder

LEMMA DoneKeepsOrder ==
    ASSUME OInv, NEW p \in Threads, ShutdownDone(p)
    PROVE  OInv'
<1>1. /\ pc[p] = "terminating" /\ pc' = [pc EXCEPT ![p] = "done"]
      /\ UNCHANGED <<hooks, status, chain, current, failed, system, added, inTime, timedOut>>
    BY DEF ShutdownDone
<1>2. HistoryOK' /\ SystemOK' /\ \A q \in Threads : pc'[q] = "idle" <=> pc[q] = "idle"
    BY <1>1 DEF OInv, HistoryOK, SystemOK
<1>3. Polled'
    BY <1>1 DEF OInv, HistoryOK, Polled
<1>4. \A q \in Threads : Alone(q) => SystemEndsLast(q)'
    BY <1>1 DEF OInv, SystemEndsLast, Order
<1> QED
    BY <1>1, <1>2, <1>3, <1>4, RestKeepsOrder

LEMMA DownKeepsOrder ==
    ASSUME OInv, SystemDown
    PROVE  OInv'
<1>1. /\ system = "terminating" /\ system' = "down"
      /\ UNCHANGED <<hooks, status, chain, current, failed, pc, added, inTime, timedOut>>
    BY DEF SystemDown
<1>2. HistoryOK' /\ SystemOK' /\ Polled' /\ \A q \in Threads : pc'[q] = "idle" <=> pc[q] = "idle"
    BY <1>1 DEF OInv, HistoryOK, SystemOK, Polled
<1>3. \A q \in Threads : Alone(q) => SystemEndsLast(q)'
    BY <1>1 DEF OInv, SystemEndsLast, Order
<1> QED
    BY <1>1, <1>2, <1>3, RestKeepsOrder

\* When the only stop is completed, none of its hooks runs or will run.
LEMMA CompletedIsOver ==
    ASSUME IInv, OInv, NEW p \in Threads, Alone(p), StopCompleted(p), NEW h \in inTime[p]
    PROVE  /\ status[h] \notin {"queued", "chained", "running"}
           /\ status[h] = "ended" \/ failed # {}
<1>1. h \in Hooks /\ status[h] # "new"
    BY DEF OInv, HistoryOK
<1>2. status[h] # "queued"
    BY DEF OInv, Polled, StopCompleted
<1>3. \A q \in Threads : chain[q] = <<>> /\ current[q] = NoHook
  <2>1. chain[p] = <<>> /\ current[p] = NoHook
      BY DEF StopCompleted, OInv, StopsAct
  <2>2. \A q \in Threads \ {p} : chain[q] = <<>> /\ current[q] = NoHook
      BY DEF Alone, OInv, IdleRests
  <2> QED
      BY <2>1, <2>2
<1>4. status[h] # "chained"
    BY <1>1, <1>3, EmptyIsInjective DEF IInv, InChains
<1>5. status[h] # "running"
    BY <1>1, <1>3, HookAssumption DEF OInv, StopsAct
<1>6. status[h] \in Statuses
    BY <1>1 DEF IInv, HooksTypeOK
<1> QED
    BY <1>1, <1>2, <1>4, <1>5, <1>6 DEF OInv, StopsAct, Statuses

LEMMA TerminateKeepsOrder ==
    ASSUME IInv, OInv, NEW p \in Threads, TerminateSystem(p)
    PROVE  OInv'
<1>1. /\ pc[p] = "waiting" /\ system # "absent" /\ pc' = [pc EXCEPT ![p] = "terminating"]
      /\ system' = Terminated(system) /\ timedOut' = (timedOut \/ ~StopCompleted(p))
      /\ UNCHANGED <<hooks, status, chain, current, failed, added, inTime>>
    BY DEF TerminateSystem
<1>2. timedOut' \in BOOLEAN /\ system' \in {"terminating", "down"}
    BY <1>1 DEF Terminated
<1>3. HistoryOK' /\ \A q \in Threads : pc'[q] = "idle" <=> pc[q] = "idle"
    BY <1>1, <1>2 DEF OInv, HistoryOK
<1>4. SystemOK' /\ Polled'
    BY <1>1, <1>2 DEF OInv, HistoryOK, SystemOK, Polled
<1>5. ASSUME NEW q \in Threads, Alone(q) PROVE SystemEndsLast(q)'
  <2>1. q = p
      BY <1>1, <1>5 DEF Alone
  <2>2. ~timedOut' => StopCompleted(p)
      BY <1>1
  <2>3. ~timedOut' => \A h \in inTime[q] : status[h] \notin {"queued", "chained", "running"}
      BY <1>5, <2>1, <2>2, CompletedIsOver
  <2> QED
      BY <1>1, <2>3 DEF SystemEndsLast
<1> QED
    BY <1>1, <1>3, <1>4, <1>5, RestKeepsOrder

LEMMA StopKeepsOrder ==
    ASSUME OInv, NEW p \in Threads, system # "absent", Stop(p)
    PROVE  OInv'
<1>1. /\ pc[p] = "idle" /\ pc' = [pc EXCEPT ![p] = "polling"]
      /\ inTime' = [inTime EXCEPT ![p] = ToSet(added)]
      /\ UNCHANGED <<hooks, status, chain, current, failed, system, added, timedOut>>
    BY DEF Stop
<1>2. ToSet(added) \subseteq Hooks /\ SystemHook \in ToSet(added)
    BY ElementsTyped, HookAssumption DEF OInv, HistoryOK, SystemOK
<1>3. /\ pc'[p] = "polling" /\ \A q \in Threads \ {p} : pc'[q] = pc[q]
      /\ inTime'[p] = ToSet(added) /\ \A q \in Threads \ {p} : inTime'[q] = inTime[q]
    BY <1>1 DEF OInv, HistoryOK
<1>4. HistoryOK'
    BY <1>1, <1>2 DEF OInv, HistoryOK
<1>5. IdleRests' /\ Polled'
    BY <1>1, <1>2, <1>3 DEF OInv, IdleRests, Polled
<1>6. StopsAct' /\ SystemOK' /\ DequeSorted'
    BY <1>1, <1>3 DEF OInv, StopsAct, SystemOK, DequeSorted, Order
<1>7. ASSUME NEW q \in Threads, Alone(q)' PROVE LaterAhead(q)' /\ SystemEndsLast(q)'
  <2>1. q = p /\ \A r \in Threads : pc[r] = "idle"
      BY <1>1, <1>3, <1>7 DEF Alone
  <2>2. /\ \A h \in Hooks : status'[h] \in {"new", "queued"}
        /\ system' \notin {"terminating", "down"} /\ inTime'[q] \subseteq Hooks
      BY <1>1, <1>2, <1>3, <2>1 DEF OInv, StopsAct, SystemOK
  <2> QED
      BY <2>2 DEF LaterAhead, SystemEndsLast
<1> QED
    BY <1>4, <1>5, <1>6, <1>7 DEF OInv

LEMMA AddKeepsOrder ==
    ASSUME IInv, OInv, NEW h \in Hooks, AddStopHook(h)
    PROVE  OInv'
<1>1. /\ status[h] = "new" /\ hooks' = Push(h) /\ status' = [status EXCEPT ![h] = "queued"]
      /\ system' = (IF h = SystemHook THEN "up" ELSE system) /\ added' = Append(added, h)
      /\ UNCHANGED <<chain, current, failed, pc, inTime, timedOut>>
    BY DEF AddStopHook
<1>2. h \notin ToSet(added) /\ status'[h] = "queued" /\ \A g \in Hooks \ {h} : status'[g] = status[g]
    BY <1>1 DEF OInv, HistoryOK, IInv, HooksTypeOK
<1>3. /\ added' \in Seq(Hooks) /\ IsInjective(added')
      /\ \A g : g \in ToSet(added') <=> g = h \/ g \in ToSet(added)
    BY <1>1, <1>2, Appended DEF OInv, HistoryOK
<1>4. \A g \in ToSet(added) : /\ Order(g)' = Order(g) /\ Order(g) \in Nat
                              /\ Order(g) < Order(h)'
  <2>1. added \in Seq(Hooks) /\ IsInjective(added)
      BY DEF OInv, HistoryOK
  <2>2. ASSUME NEW g \in ToSet(added)
        PROVE  /\ IndexFirstSubSeq(<<g>>, added') = IndexFirstSubSeq(<<g>>, added)
               /\ IndexFirstSubSeq(<<g>>, added) \in Nat
               /\ IndexFirstSubSeq(<<g>>, added) < IndexFirstSubSeq(<<h>>, added')
      BY <1>1, <1>2, <2>1, PlacesKept
  <2> QED
      BY <2>2 DEF Order
<1>5. HistoryOK'
    BY <1>1, <1>2, <1>3 DEF OInv, HistoryOK
<1>6. IdleRests' /\ Polled'
    BY <1>1, <1>2 DEF OInv, HistoryOK, IdleRests, Polled
<1>7. StopsAct' /\ SystemOK'
  <2>1. StopsAct'
      BY <1>1, <1>2, HookAssumption DEF OInv, StopsAct
  <2>2. SystemOK'
      BY <1>1, <1>2, HookAssumption DEF OInv, SystemOK
  <2> QED
      BY <2>1, <2>2
<1>8. DequeSorted'
  <2>1. /\ Len(hooks) \in Nat /\ Len(hooks') = Len(hooks) + 1 /\ hooks'[1] = h
        /\ \A i \in 2 .. Len(hooks) + 1 : i - 1 \in 1 .. Len(hooks) /\ hooks'[i] = hooks[i - 1]
      BY <1>1 DEF Push, IInv, HooksTypeOK
  <2>2. \A i \in 1 .. Len(hooks) : hooks[i] \in ToSet(added)
    <3>1. \A i \in 1 .. Len(hooks) : hooks[i] \in Hooks /\ hooks[i] \in ToSet(hooks)
        BY <2>1 DEF IInv, HooksTypeOK, ToSet
    <3> QED
        BY <3>1 DEF IInv, InDeque, OInv, HistoryOK
  <2>3. ASSUME NEW i \in 1 .. Len(hooks) + 1, NEW j \in 1 .. Len(hooks) + 1, i < j
        PROVE  IndexFirstSubSeq(<<hooks'[i]>>, added') > IndexFirstSubSeq(<<hooks'[j]>>, added')
    <3>1. j \in 2 .. Len(hooks) + 1 /\ hooks'[j] = hooks[j - 1] /\ hooks'[j] \in ToSet(added)
        BY <2>1, <2>2, <2>3
    <3>2. CASE i = 1
      <4>1. PICK g \in ToSet(added) : g = hooks'[j]
          BY <3>1
      <4>2. Order(g)' < Order(h)'
          BY <1>4
      <4>3. Order(g)' \in Nat /\ Order(h)' \in Nat
          BY <1>4, <1>1, <1>2, PlacesKept DEF Order, OInv, HistoryOK
      <4> QED
          BY <4>1, <4>2, <4>3, <3>2, <2>1 DEF Order
    <3>3. CASE i \in 2 .. Len(hooks) + 1
      <4>1. i - 1 \in 1 .. Len(hooks) /\ j - 1 \in 1 .. Len(hooks) /\ i - 1 < j - 1
          BY <2>1, <2>3, <3>1, <3>3
      <4>2. Order(hooks[i - 1]) > Order(hooks[j - 1])
          BY <4>1 DEF OInv, DequeSorted
      <4>3. PICK f \in ToSet(added), g \in ToSet(added) : f = hooks[i - 1] /\ g = hooks[j - 1]
          BY <4>1, <2>2
      <4>4. Order(f)' > Order(g)'
          BY <1>4, <4>2, <4>3
      <4> QED
          BY <4>3, <4>4, <2>1, <3>1, <3>3 DEF Order
    <3> QED
        BY <3>2, <3>3, <2>1
  <2> QED
      BY <2>1, <2>3 DEF DequeSorted, Order
<1>9. ASSUME NEW p \in Threads, Alone(p)' PROVE LaterAhead(p)' /\ SystemEndsLast(p)'
  <2>1. LaterAhead(p) /\ SystemEndsLast(p)
      BY <1>1, <1>9 DEF Alone, OInv
  <2>2. \A g \in inTime[p] : g \in ToSet(added) /\ g # h /\ g \in Hooks
      BY <1>2, ElementsTyped DEF OInv, HistoryOK
  <2>3. LaterAhead(p)'
    <3>1. \A f, g \in inTime[p] : Order(f)' > Order(g)' <=> Order(f) > Order(g)
        BY <1>4, <2>2
    <3>2. \A g \in inTime[p] : status'[g] = status[g]
        BY <1>2, <2>2
    <3> HIDE DEF Order
    <3> QED
        BY <1>1, <2>1, <3>1, <3>2 DEF LaterAhead
  <2>4. SystemEndsLast(p)'
    <3>1. ASSUME ~timedOut', system' \in {"terminating", "down"}, NEW g \in inTime'[p],
                 Order(g)' > Order(SystemHook)'
          PROVE  status'[g] \notin {"queued", "chained", "running"}
      <4>1. h # SystemHook /\ system \in {"terminating", "down"} /\ g \in inTime[p] /\ ~timedOut
          BY <1>1, <3>1
      <4>2. SystemHook \in ToSet(added)
          BY <4>1, HookAssumption DEF OInv, SystemOK, HistoryOK
      <4>3. Order(g) > Order(SystemHook)
          BY <1>4, <2>2, <3>1, <4>1, <4>2
      <4> QED
          BY <4>1, <4>3, <2>1, <2>2, <1>2 DEF SystemEndsLast
    <3> QED
        BY <3>1 DEF SystemEndsLast
  <2> QED
      BY <2>3, <2>4
<1> QED
    BY <1>5, <1>6, <1>7, <1>8, <1>9 DEF OInv

LEMMA EndKeepsOrder ==
    ASSUME IInv, OInv, NEW p \in Threads, EndHook(p)
    PROVE  OInv'
<1>1. /\ current[p] # NoHook /\ status' = [status EXCEPT ![current[p]] = "ended"]
      /\ current' = [current EXCEPT ![p] = NoHook]
      /\ UNCHANGED <<hooks, chain, failed, pc, system, added, inTime, timedOut>>
    BY DEF EndHook
<1>2. PICK h \in Hooks : h = current[p]
    BY <1>1 DEF IInv, HooksTypeOK
<1>3. /\ status[h] = "running" /\ status'[h] = "ended"
      /\ \A g \in Hooks \ {h} : status'[g] = status[g]
    BY <1>1, <1>2 DEF IInv, HooksTypeOK, CurrentRuns
<1>4. current'[p] = NoHook /\ \A q \in Threads \ {p} : current'[q] = current[q]
    BY <1>1 DEF IInv, HooksTypeOK
<1>5. HistoryOK' /\ SystemOK' /\ DequeSorted' /\ Polled'
  <2>1. HistoryOK' /\ SystemOK'
      BY <1>1, <1>3, HookAssumption DEF OInv, HistoryOK, SystemOK
  <2>2. DequeSorted'
      BY <1>1 DEF OInv, DequeSorted, Order
  <2>3. Polled'
      BY <1>1, <1>3, ElementsTyped DEF OInv, HistoryOK, Polled
  <2> QED
      BY <2>1, <2>2, <2>3
<1>6. IdleRests' /\ pc[p] # "idle"
    BY <1>1, <1>4 DEF OInv, IdleRests
<1>7. StopsAct'
  <2>1. \A g \in Hooks : status'[g] \notin {"new", "queued"} => \E q \in Threads : pc'[q] # "idle"
      BY <1>1, <1>6
  <2>2. \A g \in Hooks : status'[g] \in {"thrown", "skipped"} => failed' # {}
      BY <1>1, <1>3 DEF OInv, StopsAct
  <2>3. ASSUME NEW g \in Hooks, status'[g] = "running" PROVE \E q \in Threads : current'[q] = g
    <3>1. g # h /\ status[g] = "running"
        BY <1>3, <2>3
    <3>2. PICK q \in Threads : current[q] = g
        BY <3>1 DEF OInv, StopsAct
    <3>3. q # p
        BY <3>1, <3>2, <1>2
    <3> QED
        BY <3>2, <3>3, <1>4
  <2>4. ASSUME NEW q \in failed' PROVE /\ chain'[q] = <<>> /\ current'[q] = NoHook
                                       /\ \E g \in Throwing : status'[g] = "thrown"
      BY <1>1, <1>3, <1>4, <2>4, HookAssumption DEF OInv, HistoryOK, StopsAct
  <2> QED
      BY <2>1, <2>2, <2>3, <2>4 DEF StopsAct
<1>8. ASSUME NEW q \in Threads, Alone(q)' PROVE LaterAhead(q)' /\ SystemEndsLast(q)'
  <2>1. LaterAhead(q) /\ SystemEndsLast(q)
      BY <1>1, <1>8 DEF Alone, OInv
  <2>2. inTime[q] \subseteq Hooks
      BY ElementsTyped DEF OInv, HistoryOK
  <2>3. LaterAhead(q)'
      BY <1>1, <1>3, <2>1, <2>2 DEF LaterAhead, Order
  <2>4. SystemEndsLast(q)'
      BY <1>1, <1>3, <2>1, <2>2 DEF SystemEndsLast, Order
  <2> QED
      BY <2>3, <2>4
<1> QED
    BY <1>5, <1>6, <1>7, <1>8 DEF OInv

LEMMA PlacesAreNumbers ==
    ASSUME OInv, NEW h \in ToSet(added)
    PROVE  Order(h) \in Nat
<1>1. added \in Seq(Hooks) /\ IsInjective(added)
    BY DEF OInv, HistoryOK
<1>2. PICK k \in 1 .. Len(added) : h = added[k]
    BY <1>1 DEF ToSet
<1>3. IndexFirstSubSeq(<<h>>, added) = k
    BY <1>1, <1>2, PlaceOf
<1> QED
    BY <1>1, <1>3 DEF Order

\* Only the single stop has taken hooks.
LEMMA OnlyOneActs ==
    ASSUME OInv, NEW p \in Threads, Alone(p), NEW q \in Threads, q # p
    PROVE  chain[q] = <<>> /\ current[q] = NoHook /\ q \notin failed
    BY DEF Alone, OInv, IdleRests

LEMMA PollKeepsOrder ==
    ASSUME IInv, OInv, NEW p \in Threads, pc[p] = "polling", Poll(p),
           UNCHANGED <<current, failed, pc, system, added, inTime, timedOut>>
    PROVE  OInv'
<1> DEFINE h == Head(hooks)
<1>1. /\ hooks # <<>> /\ hooks' = Tail(hooks) /\ h \in Hooks /\ h \in ToSet(hooks)
      /\ \A x : x \in ToSet(hooks') => x \in ToSet(hooks)
    BY HeadAndTail DEF Poll, IInv, HooksTypeOK
<1>2. status[h] = "queued" /\ \A q \in Threads : h \notin ToSet(chain[q])
    BY <1>1 DEF IInv, InDeque, InChains
<1>3. \/ p \in failed /\ status' = [status EXCEPT ![h] = "skipped"] /\ chain' = chain
      \/ /\ p \notin failed /\ status' = [status EXCEPT ![h] = "chained"]
         /\ chain' = [chain EXCEPT ![p] = Append(chain[p], h)]
    BY DEF Poll
<1>4. Len(hooks) \in Nat /\ hooks[1] = h /\ 1 \in 1 .. Len(hooks)
    BY <1>1 DEF IInv, HooksTypeOK
<1>5. \A i \in 1 .. Len(hooks) : hooks[i] # h => Order(h) > Order(hooks[i])
  <2>1. \A i \in 1 .. Len(hooks) : i # 1 => 1 < i
      BY <1>4
  <2> HIDE DEF h
  <2> QED
      BY <1>4, <2>1 DEF OInv, DequeSorted
<1>6. DequeSorted'
  <2>1. /\ Len(hooks') = Len(hooks) - 1
        /\ \A i \in 1 .. Len(hooks) - 1 : hooks'[i] = hooks[i + 1] /\ i + 1 \in 1 .. Len(hooks)
      BY <1>1 DEF IInv, HooksTypeOK
  <2>2. ASSUME NEW i \in 1 .. Len(hooks) - 1, NEW j \in 1 .. Len(hooks) - 1, i < j
        PROVE  IndexFirstSubSeq(<<hooks'[i]>>, added') > IndexFirstSubSeq(<<hooks'[j]>>, added')
    <3>1. i + 1 < j + 1 /\ i + 1 \in 1 .. Len(hooks) /\ j + 1 \in 1 .. Len(hooks)
        BY <1>4, <2>2
    <3>2. Order(hooks[i + 1]) > Order(hooks[j + 1])
        BY <3>1 DEF OInv, DequeSorted
    <3> QED
        BY <2>1, <3>2 DEF Order
  <2> QED
      BY <2>1, <2>2 DEF DequeSorted, Order
<1> HIDE DEF h
<1>7. \A x \in Hooks \ {h} : status'[x] = status[x]
    BY <1>3 DEF IInv, HooksTypeOK
<1>8. IF p \in failed THEN status'[h] = "skipped" /\ chain'[p] = chain[p]
      ELSE status'[h] = "chained" /\ chain'[p] = Append(chain[p], h)
    BY <1>1, <1>3 DEF IInv, HooksTypeOK
<1>9. \A q \in Threads \ {p} : chain'[q] = chain[q]
    BY <1>3 DEF IInv, HooksTypeOK
<1>10. HistoryOK' /\ SystemOK' /\ Polled'
  <2>1. HistoryOK' /\ SystemOK'
      BY <1>2, <1>7, <1>8, HookAssumption DEF OInv, HistoryOK, SystemOK
  <2>2. Polled'
      BY <1>7, <1>8, ElementsTyped DEF OInv, HistoryOK, Polled
  <2> QED
      BY <2>1, <2>2
<1>11. IdleRests'
    BY <1>9 DEF OInv, IdleRests
<1>12. StopsAct'
  <2>1. \A x \in Hooks : status'[x] \in {"thrown", "skipped"} => failed' # {}
      BY <1>7, <1>8 DEF OInv, StopsAct
  <2>2. \A x \in Hooks : status'[x] = "running" => \E q \in Threads : current'[q] = x
      BY <1>7, <1>8 DEF OInv, StopsAct
  <2>3. \A q \in failed' : /\ chain'[q] = <<>> /\ current'[q] = NoHook
                           /\ \E g \in Throwing : status'[g] = "thrown"
      BY <1>2, <1>7, <1>8, <1>9, HookAssumption DEF OInv, HistoryOK, StopsAct
  <2> QED
      BY <2>1, <2>2, <2>3 DEF StopsAct
<1>13. ASSUME NEW q \in Threads, Alone(q)' PROVE LaterAhead(q)' /\ SystemEndsLast(q)'
  <2>1. q = p /\ Alone(p) /\ LaterAhead(p) /\ SystemEndsLast(p)
      BY <1>13 DEF Alone, OInv
  <2>2. \A x \in inTime[p] : x \in Hooks /\ status[x] # "new"
      BY DEF OInv, HistoryOK
  <2>3. chain[p] \in Seq(Hooks) /\ Len(chain[p]) \in Nat
      BY DEF IInv, HooksTypeOK
  <2>4. /\ Len(Append(chain[p], h)) = Len(chain[p]) + 1
        /\ \A i \in 1 .. Len(chain[p]) : Append(chain[p], h)[i] = chain[p][i]
        /\ Append(chain[p], h)[Len(chain[p]) + 1] = h
        /\ \A i \in 1 .. Len(chain[p]) : chain[p][i] # h
      BY <1>1, <1>2, <2>3 DEF ToSet
  <2>5. \A i \in 1 .. Len(chain'[p]) : chain'[p][i] # h =>
           i \in 1 .. Len(chain[p]) /\ chain'[p][i] = chain[p][i]
      BY <1>8, <2>3, <2>4
  <2>6. ASSUME NEW f \in inTime[p], NEW g \in inTime[p], Order(f) > Order(g)
        PROVE  /\ status'[g] \in {"running", "ended", "thrown"} => status'[f] = "ended"
               /\ status'[g] = "chained" =>
                     /\ status'[f] \in {"chained", "running", "ended"}
                     /\ \A i, j \in 1 .. Len(chain'[p]) :
                           chain'[p][i] = f /\ chain'[p][j] = g => i < j
    <3>1. /\ status[g] \in {"running", "ended", "thrown"} => status[f] = "ended"
          /\ status[g] = "chained" =>
                /\ status[f] \in {"chained", "running", "ended"}
                /\ \A i, j \in 1 .. Len(chain[p]) :
                      chain[p][i] = f /\ chain[p][j] = g => i < j
        BY <2>1, <2>6 DEF LaterAhead
    <3>2. CASE g # h
      <4>1. status'[g] = status[g]
          BY <3>2, <1>7, <2>2
      <4>2. status'[g] \in {"running", "ended", "thrown", "chained"} => status'[f] = status[f] /\ f # h
          BY <4>1, <3>1, <1>2, <1>7, <2>2
      <4> QED
          BY <3>1, <3>2, <4>1, <4>2, <2>5
    <3>3. CASE g = h /\ p \in failed
        BY <3>3, <1>8
    <3>4. CASE g = h /\ p \notin failed
      <4>1. f # h
        <5>1. Order(h) \in Nat
            BY <1>1, <1>2, PlacesAreNumbers DEF OInv, HistoryOK
        <5> QED
            BY <5>1, <2>6, <3>4
      <4>2. f \notin ToSet(hooks)
        <5> SUFFICES ASSUME NEW i \in 1 .. Len(hooks), f = hooks[i] PROVE FALSE
            BY DEF ToSet, IInv, HooksTypeOK
        <5>1. Order(h) > Order(f)
            BY <1>5, <4>1
        <5>2. f \in ToSet(added) /\ h \in ToSet(added)
            BY <1>1, <1>2, <2>2 DEF OInv, HistoryOK
        <5>3. Order(f) \in Nat /\ Order(h) \in Nat
            BY <5>2, PlacesAreNumbers
        <5> QED
            BY <5>1, <5>3, <2>6, <3>4
      <4>3. status[f] \notin {"new", "queued"} /\ status[f] \in Statuses
          BY <2>2, <4>2 DEF IInv, InDeque, HooksTypeOK
      <4>4. failed = {}
          BY <2>1, <3>4, OnlyOneActs DEF OInv, HistoryOK
      <4>5. status'[f] \in {"chained", "running", "ended"}
          BY <1>7, <2>2, <4>1, <4>3, <4>4 DEF OInv, StopsAct, Statuses
      <4>6. \A i, j \in 1 .. Len(chain'[p]) : chain'[p][i] = f /\ chain'[p][j] = h => i < j
        <5>1. /\ Len(chain'[p]) = Len(chain[p]) + 1
              /\ \A i \in 1 .. Len(chain[p]) : chain'[p][i] # h
            BY <1>8, <2>4, <3>4
        <5>2. ASSUME NEW i \in 1 .. Len(chain'[p]), NEW j \in 1 .. Len(chain'[p]),
                     chain'[p][i] = f, chain'[p][j] = h
              PROVE  i < j
          <6>1. i \in 1 .. Len(chain[p])
              BY <2>5, <4>1, <5>2
          <6>2. j = Len(chain[p]) + 1
              BY <2>3, <5>1, <5>2
          <6> QED
              BY <2>3, <6>1, <6>2
        <5> QED
            BY <5>2
      <4> QED
          BY <3>4, <1>8, <4>5, <4>6
    <3> QED
        BY <3>2, <3>3, <3>4
  <2>7. LaterAhead(p)'
      BY <2>6 DEF LaterAhead, Order
  <2>8. SystemEndsLast(p)'
      BY <1>2, <1>7, <2>1, <2>2 DEF SystemEndsLast, Order
  <2> QED
      BY <2>1, <2>7, <2>8
<1> QED
    BY <1>6, <1>10, <1>11, <1>12, <1>13 DEF OInv

\* When the single stop is about to call a hook, those added later have ended.
LEMMA NextIsDue ==
    ASSUME IInv, OInv, NEW p \in Threads, Alone(p), PreviousCompleted(p),
           NEW f \in inTime[p], NEW h \in inTime[p], h = Head(chain[p]), Order(f) > Order(h)
    PROVE  status[f] = "ended"
<1>1. /\ chain[p] # <<>> /\ current[p] = NoHook /\ chain[p] \in Seq(Hooks)
      /\ Len(chain[p]) \in Nat /\ 1 \in 1 .. Len(chain[p]) /\ chain[p][1] = h
      /\ h \in ToSet(chain[p]) /\ f \in Hooks /\ h \in Hooks
    BY HeadAndTail DEF PreviousCompleted, IInv, HooksTypeOK, OInv, HistoryOK
<1>2. status[h] = "chained"
    BY <1>1 DEF IInv, InChains
<1>3. /\ status[f] \in {"chained", "running", "ended"}
      /\ \A i, j \in 1 .. Len(chain[p]) : chain[p][i] = f /\ chain[p][j] = h => i < j
    BY <1>2 DEF OInv, LaterAhead
<1>4. f \notin ToSet(chain[p])
  <2>1. \A i \in 1 .. Len(chain[p]) : chain[p][i] = f => i < 1
      BY <1>1, <1>3
  <2> QED
      BY <1>1, <2>1 DEF ToSet
<1>5. status[f] # "chained"
  <2>1. \A q \in Threads : f \notin ToSet(chain[q])
      BY <1>4, OnlyOneActs, EmptyIsInjective
  <2> QED
      BY <1>1, <2>1 DEF IInv, InChains
<1>6. status[f] # "running"
  <2>1. \A q \in Threads : current[q] = NoHook
      BY <1>1, OnlyOneActs
  <2> QED
      BY <1>1, <2>1, HookAssumption DEF OInv, StopsAct
<1> QED
    BY <1>3, <1>5, <1>6

\* A hook is called and returns a future.
LEMMA CallKeepsOrder ==
    ASSUME IInv, OInv, NEW p \in Threads, PreviousCompleted(p),
           NEW h \in Hooks, h = Head(chain[p]),
           chain' = [chain EXCEPT ![p] = Tail(chain[p])],
           current' = [current EXCEPT ![p] = h],
           status' = [status EXCEPT ![h] = "running"],
           system' = IF h = SystemHook /\ system = "up" THEN "terminating" ELSE system,
           UNCHANGED <<hooks, failed, pc, added, inTime, timedOut>>
    PROVE  OInv'
<1>1. /\ chain[p] # <<>> /\ current[p] = NoHook /\ chain[p] \in Seq(Hooks)
      /\ Len(chain[p]) \in Nat /\ h \in ToSet(chain[p])
    BY HeadAndTail DEF PreviousCompleted, IInv, HooksTypeOK
<1>2. status[h] = "chained" /\ h # NoHook
    BY <1>1, HookAssumption DEF IInv, InChains
<1>3. /\ chain'[p] = Tail(chain[p]) /\ \A q \in Threads \ {p} : chain'[q] = chain[q]
      /\ current'[p] = h /\ \A q \in Threads \ {p} : current'[q] = current[q]
      /\ status'[h] = "running" /\ \A x \in Hooks \ {h} : status'[x] = status[x]
    BY DEF IInv, HooksTypeOK
<1>4. pc[p] # "idle" /\ p \notin failed
    BY <1>1 DEF OInv, IdleRests, StopsAct
<1>5. HistoryOK' /\ SystemOK' /\ Polled' /\ DequeSorted' /\ IdleRests'
  <2>1. HistoryOK'
      BY <1>2, <1>3 DEF OInv, HistoryOK
  <2>2. SystemOK'
      BY <1>2, <1>3, <1>4, HookAssumption DEF OInv, SystemOK
  <2>3. Polled'
      BY <1>3 DEF OInv, HistoryOK, Polled
  <2>4. DequeSorted' /\ IdleRests'
      BY <1>3, <1>4 DEF OInv, DequeSorted, Order, IdleRests
  <2> QED
      BY <2>1, <2>2, <2>3, <2>4
<1>6. StopsAct'
  <2>1. \A x \in Hooks : status'[x] \in {"thrown", "skipped"} => failed' # {}
      BY <1>3 DEF OInv, StopsAct
  <2>2. ASSUME NEW x \in Hooks, status'[x] = "running" PROVE \E q \in Threads : current'[q] = x
    <3>1. CASE x = h
        BY <3>1, <1>3
    <3>2. CASE x # h
      <4>1. PICK q \in Threads : current[q] = x
          BY <2>2, <3>2, <1>3 DEF OInv, StopsAct
      <4>2. q # p
          BY <4>1, <1>1, HookAssumption
      <4> QED
          BY <4>1, <4>2, <1>3
    <3> QED
        BY <3>1, <3>2
  <2>3. \A q \in failed' : /\ chain'[q] = <<>> /\ current'[q] = NoHook
                           /\ \E g \in Throwing : status'[g] = "thrown"
      BY <1>2, <1>3, <1>4, HookAssumption DEF OInv, HistoryOK, StopsAct
  <2> QED
      BY <1>4, <2>1, <2>2, <2>3 DEF StopsAct
<1>7. ASSUME NEW q \in Threads, Alone(q)' PROVE LaterAhead(q)' /\ SystemEndsLast(q)'
  <2>1. q = p /\ Alone(p) /\ LaterAhead(p) /\ SystemEndsLast(p)
      BY <1>4, <1>7 DEF Alone, OInv
  <2>2. inTime[p] \subseteq Hooks /\ SystemHook \in inTime[p]
      BY <1>4, ElementsTyped DEF OInv, HistoryOK, IdleRests
  <2>3. /\ Len(chain'[p]) = Len(chain[p]) - 1
        /\ \A i \in 1 .. Len(chain[p]) - 1 :
              chain'[p][i] = chain[p][i + 1] /\ i + 1 \in 1 .. Len(chain[p])
    <3>1. ASSUME NEW t \in Seq(Hooks), t # <<>>
          PROVE  /\ Len(Tail(t)) = Len(t) - 1
                 /\ \A i \in 1 .. Len(t) - 1 : Tail(t)[i] = t[i + 1] /\ i + 1 \in 1 .. Len(t)
        BY <3>1
    <3> QED
        BY <3>1, <1>1, <1>3
  <2>4. ASSUME NEW f \in inTime[p], NEW g \in inTime[p], Order(f) > Order(g)
        PROVE  /\ status'[g] \in {"running", "ended", "thrown"} => status'[f] = "ended"
               /\ status'[g] = "chained" =>
                     /\ status'[f] \in {"chained", "running", "ended"}
                     /\ \A i, j \in 1 .. Len(chain'[p]) :
                           chain'[p][i] = f /\ chain'[p][j] = g => i < j
    <3>1. /\ status[g] \in {"running", "ended", "thrown"} => status[f] = "ended"
          /\ status[g] = "chained" =>
                /\ status[f] \in {"chained", "running", "ended"}
                /\ \A i, j \in 1 .. Len(chain[p]) :
                      chain[p][i] = f /\ chain[p][j] = g => i < j
        BY <2>1, <2>4 DEF LaterAhead
    <3>2. CASE g = h
      <4>1. status[f] = "ended"
          BY <3>2, <2>1, <2>4, NextIsDue
      <4> QED
          BY <4>1, <3>2, <1>2, <1>3, <2>2
    <3>3. CASE g # h
      <4>1. status'[g] = status[g]
          BY <3>3, <1>3, <2>2
      <4>2. status[f] = "ended" => status'[f] = "ended"
          BY <1>2, <1>3, <2>2
      <4>3. status[f] \in {"chained", "running", "ended"} =>
               status'[f] \in {"chained", "running", "ended"}
          BY <1>3, <2>2
      <4>4. ASSUME status[g] = "chained", NEW i \in 1 .. Len(chain'[p]),
                   NEW j \in 1 .. Len(chain'[p]), chain'[p][i] = f, chain'[p][j] = g
            PROVE  i < j
          BY <1>1, <2>3, <3>1, <4>4
      <4> QED
          BY <3>1, <4>1, <4>2, <4>3, <4>4
    <3> QED
        BY <3>2, <3>3
  <2>5. LaterAhead(p)'
    <3> SUFFICES ASSUME NEW f \in inTime'[p], NEW g \in inTime'[p],
                        IndexFirstSubSeq(<<f>>, added') > IndexFirstSubSeq(<<g>>, added')
                 PROVE  /\ status'[g] \in {"running", "ended", "thrown"} => status'[f] = "ended"
                        /\ status'[g] = "chained" =>
                              /\ status'[f] \in {"chained", "running", "ended"}
                              /\ \A i, j \in 1 .. Len(chain'[p]) :
                                    chain'[p][i] = f /\ chain'[p][j] = g => i < j
        BY DEF LaterAhead, Order
    <3>1. f \in inTime[p] /\ g \in inTime[p] /\ Order(f) > Order(g)
        BY DEF Order
    <3> QED
        BY <2>4, <3>1
  <2>6. SystemEndsLast(p)'
    <3>1. CASE h = SystemHook
      <4>1. \A f \in inTime[p] : Order(f) > Order(SystemHook) => status'[f] = "ended"
          BY <2>2, <2>4, <3>1, <1>3
      <4> QED
          BY <4>1 DEF SystemEndsLast, Order
    <3>2. CASE h # SystemHook
        BY <3>2, <1>2, <1>3, <2>1, <2>2 DEF SystemEndsLast, Order
    <3> QED
        BY <3>1, <3>2
  <2> QED
      BY <2>1, <2>5, <2>6
<1> QED
    BY <1>5, <1>6, <1>7 DEF OInv

\* A hook is called and throws: those behind it are passed over.
LEMMA ThrowKeepsOrder ==
    ASSUME IInv, OInv, NEW p \in Threads, PreviousCompleted(p),
           NEW h \in Throwing, h = Head(chain[p]),
           chain' = [chain EXCEPT ![p] = <<>>],
           status' = [x \in Hooks |-> IF x = h THEN "thrown"
                                      ELSE IF x \in ToSet(chain[p]) THEN "skipped"
                                      ELSE status[x]],
           failed' = failed \cup {p},
           UNCHANGED <<current, system, hooks, pc, added, inTime, timedOut>>
    PROVE  OInv'
<1>1. /\ chain[p] # <<>> /\ current[p] = NoHook /\ chain[p] \in Seq(Hooks)
      /\ h \in ToSet(chain[p]) /\ ToSet(chain[p]) \subseteq Hooks /\ h \in Hooks
    BY HeadAndTail, ElementsTyped, HookAssumption DEF PreviousCompleted, IInv, HooksTypeOK
<1>2. \A x \in ToSet(chain[p]) : status[x] = "chained"
    BY <1>1 DEF IInv, InChains
<1>3. chain'[p] = <<>> /\ \A q \in Threads \ {p} : chain'[q] = chain[q]
    BY DEF IInv, HooksTypeOK
<1>4. /\ status'[h] = "thrown" /\ \A x \in ToSet(chain[p]) : status'[x] \in {"thrown", "skipped"}
      /\ \A x \in Hooks \ ToSet(chain[p]) : status'[x] = status[x]
    BY <1>1
<1>5. pc[p] # "idle"
    BY <1>1 DEF OInv, IdleRests
<1>6. HistoryOK' /\ SystemOK' /\ Polled' /\ DequeSorted' /\ IdleRests'
  <2>1. HistoryOK'
      BY <1>2, <1>4 DEF OInv, HistoryOK
  <2>2. SystemOK'
      BY <1>2, <1>4, <1>5, HookAssumption DEF OInv, SystemOK
  <2>3. Polled'
      BY <1>4, ElementsTyped DEF OInv, HistoryOK, Polled
  <2>4. DequeSorted' /\ IdleRests'
      BY <1>3, <1>5 DEF OInv, DequeSorted, Order, IdleRests
  <2> QED
      BY <2>1, <2>2, <2>3, <2>4
<1>7. StopsAct'
  <2>1. \A x \in Hooks : status'[x] = "running" => \E q \in Threads : current'[q] = x
      BY <1>4 DEF OInv, StopsAct
  <2>2. ASSUME NEW q \in failed' PROVE /\ chain'[q] = <<>> /\ current'[q] = NoHook
                                       /\ \E g \in Throwing : status'[g] = "thrown"
    <3>1. CASE q = p
        BY <3>1, <1>1, <1>3, <1>4
    <3>2. CASE q # p
        BY <3>2, <2>2, <1>3, <1>4 DEF OInv, HistoryOK, StopsAct
    <3> QED
        BY <3>1, <3>2
  <2> QED
      BY <1>5, <2>1, <2>2 DEF StopsAct
<1>8. ASSUME NEW q \in Threads, Alone(q)' PROVE LaterAhead(q)' /\ SystemEndsLast(q)'
  <2>1. q = p /\ Alone(p) /\ LaterAhead(p) /\ SystemEndsLast(p)
      BY <1>5, <1>8 DEF Alone, OInv
  <2>2. inTime[p] \subseteq Hooks
      BY ElementsTyped DEF OInv, HistoryOK
  <2>3. ASSUME NEW f \in inTime[p], NEW g \in inTime[p], Order(f) > Order(g)
        PROVE  /\ status'[g] \in {"running", "ended", "thrown"} => status'[f] = "ended"
               /\ status'[g] # "chained"
    <3>1. CASE g \in ToSet(chain[p])
      <4>1. g = h => status[f] = "ended"
          BY <2>1, <2>3, NextIsDue
      <4>2. status[f] = "ended" => status'[f] = "ended"
          BY <1>2, <1>4, <2>2
      <4>3. g # h => status'[g] = "skipped"
          BY <3>1, <1>1
      <4> QED
          BY <3>1, <1>4, <4>1, <4>2, <4>3
    <3>2. CASE g \notin ToSet(chain[p])
      <4>1. status'[g] = status[g]
          BY <3>2, <1>4, <2>2
      <4>2. \A r \in Threads : g \notin ToSet(chain[r])
          BY <3>2, <2>1, OnlyOneActs, EmptyIsInjective
      <4>3. status[g] # "chained"
          BY <4>2, <2>2 DEF IInv, InChains
      <4>4. status[g] \in {"running", "ended", "thrown"} => status[f] = "ended"
          BY <2>1, <2>3 DEF LaterAhead
      <4>5. status[f] = "ended" => status'[f] = "ended"
          BY <1>2, <1>4, <2>2
      <4> QED
          BY <4>1, <4>3, <4>4, <4>5
    <3> QED
        BY <3>1, <3>2
  <2>4. LaterAhead(p)'
      BY <2>3 DEF LaterAhead, Order
  <2>5. SystemEndsLast(p)'
      BY <1>4, <2>1, <2>2 DEF SystemEndsLast, Order
  <2> QED
      BY <2>1, <2>4, <2>5
<1> QED
    BY <1>6, <1>7, <1>8 DEF OInv

LEMMA StartKeepsOrder ==
    ASSUME IInv, OInv, NEW p \in Threads, StartHook(p)
    PROVE  OInv'
<1>1. PICK h \in Hooks : h = Head(chain[p])
    BY HeadAndTail DEF StartHook, PreviousCompleted, IInv, HooksTypeOK
<1>2. /\ PreviousCompleted(p)
      /\ \/ /\ chain' = [chain EXCEPT ![p] = Tail(chain[p])]
            /\ current' = [current EXCEPT ![p] = h]
            /\ status' = [status EXCEPT ![h] = "running"]
            /\ UNCHANGED failed
         \/ /\ h \in Throwing
            /\ chain' = [chain EXCEPT ![p] = <<>>]
            /\ status' = [x \in Hooks |->
                            IF x = h THEN "thrown"
                            ELSE IF x \in ToSet(chain[p]) THEN "skipped"
                            ELSE status[x]]
            /\ failed' = failed \cup {p}
            /\ UNCHANGED current
      /\ system' = IF h = SystemHook /\ system = "up" THEN "terminating" ELSE system
      /\ UNCHANGED <<hooks, pc, added, inTime, timedOut>>
    BY <1>1 DEF StartHook
<1>3. h \in Throwing => h # SystemHook
    BY HookAssumption
<1> QED
    BY <1>1, <1>2, <1>3, CallKeepsOrder, ThrowKeepsOrder

LEMMA InitOInv == Init => OInv
<1> SUFFICES ASSUME Init PROVE OInv
    OBVIOUS
<1> USE DEF Init
<1>1. added \in Seq(Hooks) /\ IsInjective(added) /\ ToSet(added) = {}
    BY EmptyIsInjective
<1>2. HistoryOK
    BY <1>1 DEF HistoryOK
<1>3. IdleRests /\ StopsAct /\ Polled /\ SystemOK
    BY HookAssumption DEF IdleRests, StopsAct, Polled, SystemOK
<1>4. DequeSorted
    BY DEF DequeSorted
<1>5. \A p \in Threads : LaterAhead(p) /\ SystemEndsLast(p)
    BY DEF LaterAhead, SystemEndsLast
<1> QED
    BY <1>2, <1>3, <1>4, <1>5 DEF OInv

\* Every step keeps the order.
LEMMA NextOInv == IInv /\ OInv /\ [Next]_vars => OInv'
<1> SUFFICES ASSUME IInv, OInv, [Next]_vars PROVE OInv'
    OBVIOUS
<1>1. ASSUME NEW p \in Threads, ClearHooks(p) PROVE OInv'
    BY <1>1, PollKeepsOrder, WaitingKeepsOrder DEF ClearHooks
<1>2. CASE UNCHANGED vars
    BY <1>2 DEF vars, OInv, HistoryOK, IdleRests, StopsAct, Polled, DequeSorted, SystemOK,
                LaterAhead, SystemEndsLast, Alone, Order
<1> QED
    BY <1>1, <1>2, AddKeepsOrder, StopKeepsOrder, TerminateKeepsOrder, DoneKeepsOrder,
       StartKeepsOrder, EndKeepsOrder, DownKeepsOrder DEF Next, Shutdown

LEMMA AlwaysOInv == Spec => [](IInv /\ OInv)
    BY InitIInv, InitOInv, NextIInv, NextOInv, PTL DEF Spec

\* A single stop calls the hooks last in, first out: when it calls one, all that
\* were added later, and before the stop, have ended, for any number of hooks.
THEOREM LastInFirstOut == Spec => []LaterHooksFirst
<1>1. IInv /\ OInv => LaterHooksFirst
  <2> SUFFICES ASSUME IInv, OInv, NEW p \in Threads, Alone(p), NEW g \in inTime[p],
                      NEW h \in inTime[p], Order(g) > Order(h), starts[h] > 0
               PROVE  status[g] = "ended"
      BY DEF LaterHooksFirst
  <2>1. h \in Hooks
      BY DEF OInv, HistoryOK
  <2>2. status[h] \in {"running", "ended", "thrown"}
      BY <2>1 DEF IInv, CalledOnce
  <2> QED
      BY <2>2 DEF OInv, LaterAhead
<1> QED
    BY <1>1, AlwaysOInv, PTL

\* As long as no wait has timed out, a single stop ends the hooks of everything
\* made with the actor system before the system terminates.
THEOREM SystemEndsAfterItsUsers == Spec => []SystemOutlivesUsers
<1>1. IInv /\ OInv => SystemOutlivesUsers
  <2> SUFFICES ASSUME IInv, OInv, NEW p \in Threads, Alone(p), ~timedOut,
                      NEW h \in inTime[p], Order(h) > Order(SystemHook),
                      status[h] \in {"queued", "chained", "running"}
               PROVE  system = "up"
      BY DEF SystemOutlivesUsers
  <2>1. system \notin {"terminating", "down"}
      BY DEF OInv, SystemEndsLast
  <2>2. SystemHook \in inTime[p]
      BY DEF OInv, IdleRests
  <2>3. system # "absent"
      BY <2>2, HookAssumption DEF OInv, HistoryOK, SystemOK
  <2> QED
      BY <2>1, <2>3 DEF OInv, HistoryOK
<1> QED
    BY <1>1, AlwaysOInv, PTL

\* The future of a single stop is redeemed only when every hook that was there
\* has ended, unless one of them threw.
THEOREM LoneStopEndsAll == Spec => []LoneStopCompletesAfterAll
<1>1. IInv /\ OInv => LoneStopCompletesAfterAll
  <2> SUFFICES ASSUME IInv, OInv, NEW p \in Threads, Alone(p), StopCompleted(p)
               PROVE  \/ \A h \in inTime[p] : status[h] = "ended"
                      \/ \E h \in Throwing : status[h] = "thrown"
      BY DEF LoneStopCompletesAfterAll
  <2>1. CASE failed = {}
      BY <2>1, CompletedIsOver
  <2>2. CASE failed # {}
      BY <2>2 DEF OInv, StopsAct
  <2> QED
      BY <2>1, <2>2
<1> QED
    BY <1>1, AlwaysOInv, PTL

=============================================================================
