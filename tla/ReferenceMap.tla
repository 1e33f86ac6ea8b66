---------------------------- MODULE ReferenceMap ----------------------------
(***************************************************************************)
(* A segment of ConcurrentReferenceHashMap: a table of chains of soft or   *)
(* weak references to entries, written under the lock of the segment, read *)
(* without it, and restructured - purged of references the collector has   *)
(* cleared, or moved to a larger table - while readers and iterators are   *)
(* on their way.  Segments share nothing, so one stands for all.           *)
(*                                                                         *)
(* An entry is a number, its key and value are in `entries'.  A reference  *)
(* is an entry and a generation: restructuring makes new references to the *)
(* entries it keeps.  A chain is immutable and therefore a sequence.  The  *)
(* elements of the table are read without synchronisation: a stale element *)
(* is one that the reader could have read a moment before.                 *)
(***************************************************************************)
EXTENDS Integers, Sequences, FiniteSets, FiniteSetsExt

CONSTANTS
    Threads, Keys, None,
    Hash,           \* of every key
    Calls,          \* the operations each thread may call
    InitialSize,    \* of the table
    MaxSegmentSize, \* MAXIMUM_SEGMENT_SIZE
    MaxCalls,       \* bound: calls of a thread
    MaxCollected    \* bound: entries the collector takes

Operations == {"get", "put", "putIfAbsent", "remove", "replace", "clear", "purge", "iterate"}

ASSUME KeyAssumption == Hash \in [Keys -> Nat] /\ None \notin Keys \cup Threads
ASSUME SizeAssumption ==
    InitialSize \in Nat \ {0} /\ MaxSegmentSize \in Nat /\ InitialSize <= MaxSegmentSize
ASSUME CallAssumption ==
    Calls \in [Threads -> SUBSET Operations] /\ MaxCalls \in Nat /\ MaxCollected \in Nat

VARIABLES
    table,     \* references: the chains, by index
    count,     \* the references the segment believes to hold
    lock,      \* the thread that holds the lock of the segment
    entries,   \* every entry made: key, value, collected, generations of references
    released,  \* references cleared by release()
    pending,   \* references cleared by the collector and not enqueued yet
    queue,     \* the ReferenceQueue
    map,       \* history: the entry that is the map's for every key, or 0
    call,      \* what every thread does
    collected  \* bound: entries collected
vars == <<table, count, lock, entries, released, pending, queue, map, call, collected>>

------------------------------------------------------------------------------
(* Tables, references and calls.                                           *)

createReferenceArray(size) == [i \in 0 .. size - 1 |-> <<>>]

Size(t) == Cardinality(DOMAIN t)

getIndex(key, t) == Hash[key] % Size(t)

\* The load factor is the default one, 0.75.
resizeThreshold(t) == (3 * Size(t)) \div 4

Ref(e, generation) == [e |-> e, gen |-> generation]

\* reference.get() # null.
Alive(r) == ~entries[r.e].collected /\ r \notin released

Elements(chain) == {chain[i] : i \in DOMAIN chain}

References(t) == UNION {Elements(t[i]) : i \in DOMAIN t}

\* Mutant: the first reference with the hash of the key decides.
FindByHash(chain, key) ==
    LET hits == {i \in DOMAIN chain :
                   Alive(chain[i]) /\ Hash[entries[chain[i].e].key] = Hash[key]} IN
    IF hits # {} /\ entries[chain[Min(hits)].e].key = key THEN <<chain[Min(hits)]>> ELSE <<>>

\* Where the chain has references of the key that have not been cleared.
Hits(chain, key) == {i \in DOMAIN chain : Alive(chain[i]) /\ entries[chain[i].e].key = key}

\* The reference of the key that has not been cleared, or nothing.  The chain
\* never holds two, so the moment at which each is looked at makes no difference.
findInChain(chain, key) ==
    IF Hits(chain, key) # {} THEN <<chain[Min(Hits(chain, key))]>> ELSE <<>>

\* The value of a key, when m and es are map and entries.
ValueOf(m, es, key) == IF m[key] = 0 THEN None ELSE es[m[key]].value

\* Operations whose result the properties look at.
Asks(op) == op \in {"get", "remove", "replace"}

\* A thread that does nothing.
Idle ==
    [pc |-> "idle", left |-> MaxCalls, op |-> "purge", key |-> None, value |-> None,
     expect |-> None, result |-> None, seen |-> {}, excused |-> FALSE,
     purge |-> {}, after |-> 0, resizing |-> FALSE, built |-> <<>>, i |-> 0,
     chain |-> <<>>, fresh |-> TRUE, frozen |-> <<>>, yielded |-> <<>>]

\* The call c returns a result.
Done(c, result) ==
    IF Asks(c.op)
    THEN [Idle EXCEPT !.left = c.left, !.op = c.op, !.expect = c.expect, !.result = result,
                      !.seen = c.seen, !.excused = c.excused]
    ELSE [Idle EXCEPT !.left = c.left]

Init ==
    /\ table = createReferenceArray(InitialSize)
    /\ count = 0
    /\ lock = None
    /\ entries = <<>>
    /\ released = {} /\ pending = {} /\ queue = {}
    /\ map = [k \in Keys |-> 0]
    /\ call = [p \in Threads |-> Idle]
    /\ collected = 0

------------------------------------------------------------------------------
(* Calls begin.                                                            *)

Keyless == {"clear", "purge", "iterate"}

\* Every write has a value of its own, so that results tell the writes apart.
FreshValue(p) == <<p, call[p].left>>

\* remove and replace expect nothing, or the value the key has when they are called.
Expected(op, key) ==
    {None} \cup (IF op \in {"remove", "replace"} THEN {ValueOf(map, entries, key)} ELSE {})

\* RESTRUCTURE_BEFORE comes first, then SKIP_IF_EMPTY, then the task.
Begin(p) ==
    /\ call[p].pc = "idle" /\ call[p].left > 0
    /\ \E op \in Calls[p] : \E key \in IF op \in Keyless THEN {None} ELSE Keys :
       \E expect \in Expected(op, key) :
          call' = [call EXCEPT ![p] =
                     [Idle EXCEPT
                        !.left = call[p].left - 1, !.op = op,
                        !.pc = CASE op \in {"remove", "clear"} -> "check"
                                 [] op = "iterate" -> "table"
                                 [] OTHER -> "poll",
                        !.key = key, !.expect = expect,
                        !.value = IF op \in {"put", "putIfAbsent", "replace"}
                                  THEN FreshValue(p) ELSE None,
                        !.seen = IF Asks(op) THEN {ValueOf(map, entries, key)} ELSE {}]]
    /\ UNCHANGED <<table, count, lock, entries, released, pending, queue, map, collected>>

\* The threads, with the value that the key of a call has now among those seen.
Observed(calls) ==
    [q \in Threads |->
       IF calls[q].pc # "idle" /\ Asks(calls[q].op)
       THEN [calls[q] EXCEPT !.seen = @ \cup {ValueOf(map', entries', calls[q].key)}]
       ELSE calls[q]]

\* The threads when the table is replaced: an iterator keeps the old one.
Replaced(calls) ==
    [q \in Threads |->
       IF calls[q].pc = "iterate" /\ calls[q].fresh
       THEN [calls[q] EXCEPT !.fresh = FALSE, !.frozen = table]
       ELSE calls[q]]

------------------------------------------------------------------------------
(* restructureIfNecessary.                                                 *)

allowResize(c) == c.op \in {"put", "putIfAbsent"}

\* The call goes on after restructuring; remove has its result already.
Continued(c) ==
    CASE c.op \in {"get", "replace"} ->
            [c EXCEPT !.pc = "check", !.purge = {}, !.after = 0, !.i = 0]
      [] allowResize(c) ->
            [c EXCEPT !.pc = "task", !.purge = {}, !.after = 0, !.i = 0,
                      !.resizing = FALSE, !.built = <<>>]
      [] OTHER -> Done(c, c.result)

\* pollForPurge, and whether the lock must be taken.
Poll(p) ==
    /\ call[p].pc = "poll"
    /\ \/ \E r \in queue :
             /\ queue' = queue \ {r}
             /\ call' = [call EXCEPT ![p].pc = "lock", ![p].purge = {r}]
       \/ /\ queue = {}
          /\ call' = [call EXCEPT ![p] =
                        IF allowResize(@) /\ count > 0 /\ count >= resizeThreshold(table)
                        THEN [@ EXCEPT !.pc = "lock"]
                        ELSE Continued(@)]
          /\ UNCHANGED queue
    /\ UNCHANGED <<table, count, lock, entries, released, pending, map, collected>>

\* Inside the lock the queue is drained and resizing decided again.
Lock(p) ==
    LET purge == IF call[p].purge = {} THEN {} ELSE call[p].purge \cup queue
        after == count - Cardinality(purge)
        resizing == /\ allowResize(call[p])
                    /\ after > 0 /\ after >= resizeThreshold(table)
                    /\ Size(table) < MaxSegmentSize IN
    /\ call[p].pc = "lock" /\ lock = None
    /\ lock' = p
    /\ queue' = queue \ purge
    /\ call' = [call EXCEPT ![p].pc = "rebuild", ![p].purge = purge, ![p].after = after,
                  ![p].resizing = resizing,
                  ![p].built = IF resizing THEN createReferenceArray(2 * Size(table)) ELSE <<>>]
    /\ UNCHANGED <<table, count, entries, released, pending, map, collected>>

\* The next chain is taken up, and t is the table then.
TakenUp(p, t) ==
    LET c == call[p] IN
    /\ c.pc = "rebuild" /\ c.chain = <<>> /\ c.i < Size(table)
    /\ call' = [call EXCEPT ![p].chain = table[c.i], ![p].i = @ + 1]
    /\ table' = t
    /\ UNCHANGED <<count, lock, entries, released, pending, queue, map, collected>>

\* Mutant: a chain that is rebuilt in place stays where it is.
Copy(p) == TakenUp(p, table)

\* Without resizing its place is emptied.
Detach(p) ==
    TakenUp(p, IF call[p].resizing THEN table ELSE [table EXCEPT ![call[p].i] = <<>>])

\* Is the reference kept?
Test(p) ==
    LET c == call[p]
        r == Head(c.chain) IN
    /\ c.pc = "rebuild" /\ c.chain # <<>>
    /\ call' = [call EXCEPT ![p] = IF r \notin c.purge /\ Alive(r)
                                   THEN [@ EXCEPT !.pc = "move"]
                                   ELSE [@ EXCEPT !.chain = Tail(c.chain)]]
    /\ UNCHANGED <<table, count, lock, entries, released, pending, queue, map, collected>>

\* The table that is built.
Target(c) == IF c.resizing THEN c.built ELSE table

\* A new reference to the entry - to nothing, if the collector came in between -
\* in front of chain i.
MovedTo(p, i) ==
    LET c == call[p]
        e == Head(c.chain).e
        moved == [Target(c) EXCEPT ![i] = <<Ref(e, entries[e].gen + 1)>> \o @] IN
    /\ c.pc = "move"
    /\ entries' = [entries EXCEPT ![e].gen = @ + 1]
    /\ table' = IF c.resizing THEN table ELSE moved
    /\ call' = [call EXCEPT ![p].pc = "rebuild", ![p].chain = Tail(@),
                  ![p].built = IF c.resizing THEN moved ELSE @]
    /\ UNCHANGED <<count, lock, released, pending, queue, map, collected>>

\* Mutant: the place in the new table is computed with the size of the old one.
MoveByOldIndex(p) == MovedTo(p, getIndex(entries[Head(call[p].chain).e].key, table))

Move(p) == MovedTo(p, getIndex(entries[Head(call[p].chain).e].key, Target(call[p])))

\* setReferences, the count, unlock.
Published(p, newCount) ==
    LET c == call[p]
        calls == [call EXCEPT ![p] = Continued(c)] IN
    /\ c.pc = "rebuild" /\ c.chain = <<>> /\ c.i = Size(table)
    /\ count' = newCount
    /\ lock' = None
    /\ IF c.resizing
       THEN table' = c.built /\ call' = Replaced(calls)
       ELSE call' = calls /\ UNCHANGED table
    /\ UNCHANGED <<entries, released, pending, queue, map, collected>>

Publish(p) == Published(p, IF call[p].after > 0 THEN call[p].after ELSE 0)

\* Where the reference of a key is: in the table, or taken out by a purge that
\* works in the table the readers use.
InTable(key) == findInChain(table[getIndex(key, table)], key) # <<>>

TakenOut(key) ==
    \E q \in Threads :
       lock = q /\ ~call[q].resizing /\ findInChain(call[q].chain, key) # <<>>

------------------------------------------------------------------------------
(* Writers: doTask and clear.                                              *)

\* SKIP_IF_EMPTY of a task, and the same test in getReference and clear.
Check(p) ==
    LET c == call[p] IN
    /\ c.pc = "check"
    /\ call' = [call EXCEPT ![p] =
                  IF count > 0 THEN [@ EXCEPT !.pc = IF c.op = "get" THEN "head" ELSE "task"]
                  ELSE IF c.op = "clear" THEN Done(@, None)
                  ELSE Done([@ EXCEPT !.excused = InTable(c.key) \/ TakenOut(c.key)], None)]
    /\ UNCHANGED <<table, count, lock, entries, released, pending, queue, map, collected>>

\* entries.add: a new entry in front of its chain.
Add(key, value) ==
    LET i == getIndex(key, table)
        e == Len(entries) + 1 IN
    /\ entries' = Append(entries, [key |-> key, value |-> value, collected |-> FALSE, gen |-> 1])
    /\ table' = [table EXCEPT ![i] = <<Ref(e, 1)>> \o @]
    /\ count' = count + 1
    /\ map' = [map EXCEPT ![key] = e]

SetValue(e, value) == entries' = [entries EXCEPT ![e].value = value]

\* The reference that the task finds for its key.
Found(c) == findInChain(table[getIndex(c.key, table)], c.key)

\* What a call expects of the value, if it does.
AsExpected(c, r) == c.expect \in {None, entries[r.e].value}

Put(p) ==
    LET c == call[p]
        found == Found(c) IN
    /\ c.pc = "task" /\ c.op \in {"put", "putIfAbsent"} /\ lock = None
    /\ IF found = <<>>
       THEN Add(c.key, c.value)
       ELSE /\ IF c.op = "put" THEN SetValue(Head(found).e, c.value) ELSE UNCHANGED entries
            /\ UNCHANGED <<table, count, map>>
    /\ call' = Observed([call EXCEPT ![p] = Done(c, None)])
    /\ UNCHANGED <<lock, released, pending, queue, collected>>

Replace(p) ==
    LET c == call[p]
        found == Found(c) IN
    /\ c.pc = "task" /\ c.op = "replace" /\ lock = None
    /\ UNCHANGED <<table, count, lock, released, pending, queue, map, collected>>
    /\ IF found # <<>> /\ AsExpected(c, Head(found))
       THEN /\ SetValue(Head(found).e, c.value)
            /\ call' = Observed([call EXCEPT ![p] = Done(c, entries[Head(found).e].value)])
       ELSE /\ call' = [call EXCEPT ![p] = Done(c, None)]
            /\ UNCHANGED entries

\* The reference is enqueued, and cleared if release() does so.
Enqueued(p, clears) ==
    LET c == call[p]
        found == Found(c) IN
    /\ c.pc = "task" /\ c.op = "remove" /\ lock = None
    /\ UNCHANGED <<table, count, lock, entries, pending, collected>>
    /\ IF found # <<>> /\ AsExpected(c, Head(found))
       THEN /\ released' = IF clears THEN released \cup {Head(found)} ELSE released
            /\ queue' = queue \cup {Head(found)}
            /\ map' = [map EXCEPT ![c.key] = 0]
            /\ call' = Observed([call EXCEPT ![p].pc = "poll",
                                             ![p].result = entries[Head(found).e].value])
       ELSE /\ call' = [call EXCEPT ![p].pc = "poll"]
            /\ UNCHANGED <<released, queue, map>>

\* Mutant: the reference is enqueued but not cleared.
RemoveUncleared(p) == Enqueued(p, FALSE)

Remove(p) == Enqueued(p, TRUE)

Clear(p) ==
    LET c == call[p] IN
    /\ c.pc = "task" /\ c.op = "clear" /\ lock = None
    /\ table' = createReferenceArray(InitialSize)
    /\ count' = 0
    /\ map' = [k \in Keys |-> 0]
    /\ UNCHANGED entries
    /\ call' = Observed(Replaced([call EXCEPT ![p] = Done(c, None)]))
    /\ UNCHANGED <<lock, released, pending, queue, collected>>

------------------------------------------------------------------------------
(* Readers.                                                                *)

\* The chain of the key, read without the lock.
ReadHead(p) ==
    LET c == call[p] IN
    /\ c.pc = "head"
    /\ call' = [call EXCEPT ![p].pc = "find", ![p].excused = TakenOut(c.key),
                            ![p].chain = table[getIndex(c.key, table)]]
    /\ UNCHANGED <<table, count, lock, entries, released, pending, queue, map, collected>>

Find(p) ==
    LET c == call[p]
        found == findInChain(c.chain, c.key) IN
    /\ c.pc = "find"
    /\ call' = [call EXCEPT ![p] = IF found = <<>>
                                   THEN Done(@, None)
                                   ELSE [@ EXCEPT !.pc = "value", !.chain = found]]
    /\ UNCHANGED <<table, count, lock, entries, released, pending, queue, map, collected>>

\* reference.get() once more, and the value of the entry.
Value(p) ==
    LET c == call[p]
        r == Head(c.chain) IN
    /\ c.pc = "value"
    /\ call' = [call EXCEPT ![p] = Done(@, IF Alive(r) THEN entries[r.e].value ELSE None)]
    /\ UNCHANGED <<table, count, lock, entries, released, pending, queue, map, collected>>

\* The iterator takes the table that is there.
Iterator(p) ==
    /\ call[p].pc = "table"
    /\ call' = [call EXCEPT ![p].pc = "iterate"]
    /\ UNCHANGED <<table, count, lock, entries, released, pending, queue, map, collected>>

View(c) == IF c.fresh THEN table ELSE c.frozen

\* moveToNextReference, or the end.
NextChain(p) ==
    LET c == call[p] IN
    /\ c.pc = "iterate" /\ c.chain = <<>>
    /\ call' = [call EXCEPT ![p] = IF c.i = Size(View(c))
                                   THEN Done(@, None)
                                   ELSE [@ EXCEPT !.chain = View(c)[c.i], !.i = c.i + 1]]
    /\ UNCHANGED <<table, count, lock, entries, released, pending, queue, map, collected>>

\* The entry of the next reference, if it still has one.
NextEntry(p) ==
    LET c == call[p]
        r == Head(c.chain) IN
    /\ c.pc = "iterate" /\ c.chain # <<>>
    /\ call' = [call EXCEPT ![p].chain = Tail(@),
                  ![p].yielded = IF Alive(r) THEN Append(@, entries[r.e].key) ELSE @]
    /\ UNCHANGED <<table, count, lock, entries, released, pending, queue, map, collected>>

------------------------------------------------------------------------------
(* The garbage collector.                                                  *)

\* The references to e that have not been released.
AllReferences(e) == {Ref(e, g) : g \in 1 .. entries[e].gen} \ released

\* References the structure or a thread can still reach.
Reachable ==
    References(table) \cup
    UNION {Elements(call[q].chain) \cup References(call[q].built) \cup
           References(call[q].frozen) : q \in Threads}

\* All references to an entry are cleared at once.  Those that are reachable will
\* be enqueued; a reference that was replaced but not collected itself may be.
Collect(e) ==
    /\ collected < MaxCollected
    /\ ~entries[e].collected
    /\ collected' = collected + 1
    /\ entries' = [entries EXCEPT ![e].collected = TRUE]
    /\ map' = [k \in Keys |-> IF map[k] = e THEN 0 ELSE map[k]]
    /\ \E others \in SUBSET (AllReferences(e) \ Reachable) :
          pending' = pending \cup (AllReferences(e) \cap Reachable) \cup others
    /\ call' = Observed(call)
    /\ UNCHANGED <<table, count, lock, released, queue>>

Enqueue(r) ==
    /\ pending' = pending \ {r}
    /\ queue' = queue \cup {r}
    /\ UNCHANGED <<table, count, lock, entries, released, map, call, collected>>

------------------------------------------------------------------------------
Restructure(p) ==
    Poll(p) \/ Lock(p) \/ Detach(p) \/ Test(p) \/ Move(p) \/ Publish(p)

doTask(p) == Put(p) \/ Replace(p) \/ Remove(p) \/ Clear(p)

getReference(p) == ReadHead(p) \/ Find(p) \/ Value(p)

Iterate(p) == Iterator(p) \/ NextChain(p) \/ NextEntry(p)

Step(p) == Restructure(p) \/ Check(p) \/ doTask(p) \/ getReference(p) \/ Iterate(p)

\* No thread waits for a lock that is never released.
AllReturned == (\A p \in Threads : call[p].pc = "idle") /\ UNCHANGED vars

Next ==
    \/ \E p \in Threads : Begin(p) \/ Step(p)
    \/ \E e \in DOMAIN entries : Collect(e)
    \/ \E r \in pending : Enqueue(r)
    \/ AllReturned

Spec == Init /\ [][Next]_vars

------------------------------------------------------------------------------
(* Properties.                                                             *)

TypeOK ==
    /\ Size(table) \in InitialSize .. MaxSegmentSize
    /\ count \in Nat
    /\ lock \in Threads \cup {None}
    /\ released \cap pending = {} /\ pending \cap queue = {}
    /\ \A e \in DOMAIN entries : entries[e].gen \in Nat \ {0}
    /\ map \in [Keys -> 0 .. Len(entries)]
    /\ \A p \in Threads : lock = p <=> call[p].pc \in {"rebuild", "move"}

\* While nobody holds the lock the table says what the map is: for every key of
\* the map one reference that has not been cleared, in the chain where the key is
\* looked for, to the entry put last; for other keys none.
TableIsMap ==
    lock = None =>
    \A k \in Keys, i \in DOMAIN table :
       IF i = getIndex(k, table) /\ map[k] # 0
       THEN \E n \in DOMAIN table[i] : Hits(table[i], k) = {n} /\ table[i][n].e = map[k]
       ELSE Hits(table[i], k) = {}

\* A value that get, remove or replace returns was the key's at some moment of
\* the call, whatever was written, purged, moved or collected meanwhile.
ResultsAreCurrent ==
    \A p \in Threads :
       LET c == call[p] IN
       c.pc = "idle" /\ c.result # None => c.result \in c.seen

\* The call returned nothing although the key had, all the time, a value that
\* it would have taken.
Missed(c) ==
    /\ Asks(c.op) /\ c.pc = "idle" /\ c.result = None
    /\ None \notin c.seen
    /\ c.expect # None => c.seen = {c.expect}

\* A call misses a key that is there in two cases only: a purge in place has taken
\* its reference out of the table, or the count is zero although it is there.
MissExplained == \A p \in Threads : Missed(call[p]) => call[p].excused

\* What "Use a local copy to protect against other threads writing" is there for:
\* a key that stays in the map is found.
PresentIsFound == \A p \in Threads : ~Missed(call[p])

\* An iterator returns no key twice, although chains are rebuilt under it.
IteratesOnce ==
    \A p \in Threads :
       \A i, j \in DOMAIN call[p].yielded :
          call[p].yielded[i] = call[p].yielded[j] => i = j

============================================================================
