---------------------------- MODULE MemoryCache ----------------------------
(***************************************************************************)
(* CacheMemorySupport: a Guava cache beside the source of its values.      *)
(* findCache looks, calls the given function when it finds nothing, and    *)
(* puts the answer of its future; a caller that changes the source saves   *)
(* the new value with saveCache.  Nothing is locked in between.  The       *)
(* values of a key are its versions, and None is Scala's None.             *)
(***************************************************************************)
EXTENDS Integers

CONSTANTS
    Callers,    \* threads that use the cache
    Keys,
    MaxUpdates  \* bound: changes of a value in the source

ASSUME MemoryCacheAssumption == MaxUpdates \in Nat

VARIABLES
    enableCache,
    cache,      \* version in the cache, None if there is none
    source,     \* version in the source, None if it has no value
    call,       \* of every caller: what it does, with which key and value
    overlapped  \* history: keys whose last change met another call with the key

None == 0
Versions == None .. MaxUpdates

MemoryInit ==
    /\ enableCache \in BOOLEAN
    /\ cache = [k \in Keys |-> None]
    /\ source = [k \in Keys |-> None]
    /\ \E k \in Keys : call = [c \in Callers |-> [pc |-> "idle", key |-> k, value |-> None]]
    /\ overlapped = {}

At(c, pc) == call[c].pc = pc

Begin(c, k, pc, v) == call' = [call EXCEPT ![c] = [pc |-> pc, key |-> k, value |-> v]]

Goto(c, pc) == call' = [call EXCEPT ![c].pc = pc]

------------------------------------------------------------------------------

\* Mutant: the first value stays.
PutIfAbsent(k, v) ==
    cache' = IF enableCache /\ cache[k] = None THEN [cache EXCEPT ![k] = v] ELSE cache

\* saveCache
Put(k, v) == cache' = IF enableCache THEN [cache EXCEPT ![k] = v] ELSE cache

GetCache(k) == IF enableCache THEN cache[k] ELSE None

\* findCache: a value that is found is the result, otherwise func is called.
\* findCacheDirect differs in its result when there is no value only.
FindCache(c, k) ==
    /\ At(c, "idle")
    /\ Begin(c, k, IF GetCache(k) = None THEN "fetch" ELSE "done", GetCache(k))
    /\ UNCHANGED <<enableCache, cache, source, overlapped>>

\* The function reads the source, or its future fails.
Fetch(c) ==
    /\ At(c, "fetch")
    /\ \/ Begin(c, call[c].key, "fetched", source[call[c].key])
       \/ Goto(c, "failed")
    /\ UNCHANGED <<enableCache, cache, source, overlapped>>

\* The future of the function is mapped: its value is saved, if there is one.
Fill(c) ==
    /\ At(c, "fetched")
    /\ IF call[c].value = None THEN UNCHANGED cache ELSE Put(call[c].key, call[c].value)
    /\ Goto(c, "done")
    /\ UNCHANGED <<enableCache, source, overlapped>>

\* A caller changes the source; it saves the new value next.
Update(c, k) ==
    /\ At(c, "idle")
    /\ source[k] < MaxUpdates
    /\ source' = [source EXCEPT ![k] = @ + 1]
    /\ Begin(c, k, "save", source'[k])
    /\ overlapped' = IF \E d \in Callers : ~At(d, "idle") /\ call[d].key = k
                     THEN overlapped \cup {k} ELSE overlapped \ {k}
    /\ UNCHANGED <<enableCache, cache>>

SaveCache(c) ==
    /\ At(c, "save")
    /\ Put(call[c].key, call[c].value)
    /\ Begin(c, call[c].key, "idle", None)
    /\ UNCHANGED <<enableCache, source, overlapped>>

Return(c) ==
    /\ At(c, "done") \/ At(c, "failed")
    /\ Begin(c, call[c].key, "idle", None)
    /\ UNCHANGED <<enableCache, cache, source, overlapped>>

\* Guava makes room when the cache comes near MAXIMUM_SIZE.
Evict(k) ==
    /\ cache[k] # None
    /\ cache' = [cache EXCEPT ![k] = None]
    /\ UNCHANGED <<enableCache, source, call, overlapped>>

CallStep(c) == Fetch(c) \/ Fill(c) \/ SaveCache(c)

------------------------------------------------------------------------------

\* What the cache holds of a key is what the source has, unless the new value
\* is about to be saved or the last change met another call with the key: only
\* a fetch, or a second change, that overlaps a change leaves an old value
\* behind.  (saveCache, findCache)
FreshOrOverlapped ==
    \A k \in Keys :
       \/ cache[k] \in {None, source[k]}
       \/ \E c \in Callers : At(c, "save") /\ call[c].key = k
       \/ k \in overlapped

==============================================================================
