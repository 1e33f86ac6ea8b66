------------------------- MODULE CachedRouteProofs -------------------------
(***************************************************************************)
(* Proofs about CachedRoute: what the memory cache holds is what the       *)
(* source has, unless a change is being saved or met another call, and     *)
(* what Redis answers was stored for a request with the same key, for      *)
(* any number of handlers, callers, keys, requests and changes.            *)
(***************************************************************************)
EXTENDS CachedRoute, SequenceTheorems, FiniteSetTheorems, WellFoundedInduction, TLAPS

\* The variables of the memory cache have their types; a cache that is not
\* enabled stays empty.
MemoryTypeOK ==
    /\ enableCache \in BOOLEAN
    /\ cache \in [Keys -> Versions]
    /\ source \in [Keys -> Versions]
    /\ call \in [Callers -> [pc : {"idle", "fetch", "fetched", "save", "done", "failed"},
                             key : Keys, value : Versions]]

Unused == enableCache \/ \A k \in Keys : cache[k] = None

\* A version a caller is about to put is the one the source has, unless the key
\* was overlapped.
InHandIsFresh ==
    \A c \in Callers :
       /\ At(c, "fetched") => call[c].value \in {None, source[call[c].key]} \/ call[c].key \in overlapped
       /\ At(c, "save") => call[c].value = source[call[c].key] \/ call[c].key \in overlapped

IInv == MemoryTypeOK /\ Unused /\ InHandIsFresh /\ FreshOrOverlapped

\* What a step does to the memory cache.
MemoryStep ==
    \/ \E c \in Callers :
          \/ Fetch(c) \/ Fill(c) \/ SaveCache(c) \/ Return(c)
          \/ \E k \in Keys : FindCache(c, k) \/ Update(c, k)
    \/ \E k \in Keys : Evict(k)

------------------------------------------------------------------------------

LEMMA InitIInv == Init => IInv
<1> SUFFICES ASSUME Init PROVE IInv
    OBVIOUS
<1> USE MemoryCacheAssumption DEF Init, MemoryInit, At, None, Versions
<1>1. enableCache \in BOOLEAN
    OBVIOUS
<1>2. MemoryTypeOK
    BY <1>1 DEF MemoryTypeOK
<1>3. \A c \in Callers : call[c].pc = "idle"
  <2>1. PICK k \in Keys : call = [c \in Callers |-> [pc |-> "idle", key |-> k, value |-> None]]
      OBVIOUS
  <2> QED
      BY <2>1
<1> QED
    BY <1>2, <1>3 DEF IInv, Unused, InHandIsFresh, FreshOrOverlapped

\* The composition adds nothing to what the memory cache does.
LEMMA StepOfMemory == [Next]_vars => MemoryStep \/ UNCHANGED memoryVars
<1> SUFFICES ASSUME [Next]_vars PROVE MemoryStep \/ UNCHANGED memoryVars
    OBVIOUS
<1> USE CachedRouteAssumption
<1>1. ASSUME NEW h \in Handlers, Receive(h) PROVE MemoryStep \/ UNCHANGED memoryVars
    BY <1>1 DEF Receive, MemoryStep
<1>2. ASSUME NEW h \in Handlers, Handle(h) PROVE MemoryStep \/ UNCHANGED memoryVars
    BY <1>2 DEF Handle, Complete, Finish, CallStep, MemoryStep
<1>3. ASSUME NEW w \in Writers, Write(w) PROVE MemoryStep
    BY <1>3 DEF Write, Writers, CallStep, MemoryStep
<1>4. ASSUME NEW w \in Writers, NEW k \in Keys, Update(w, k) PROVE MemoryStep
    BY <1>4 DEF Writers, MemoryStep
<1>5. ASSUME NEW k \in Keys, Evict(k) PROVE MemoryStep
    BY <1>5 DEF MemoryStep
<1>6. CASE UNCHANGED vars
    BY <1>6 DEF vars
<1> QED
    BY <1>1, <1>2, <1>3, <1>4, <1>5, <1>6 DEF Next

\* The call of c goes on and nothing else changes.
LEMMA CallMoves ==
    ASSUME IInv, NEW c \in Callers, NEW k \in Keys, NEW v \in Versions,
           NEW pc \in {"idle", "fetch", "fetched", "done", "failed"},
           ~At(c, "save"),
           pc = "fetched" => v = source[k],
           Begin(c, k, pc, v), UNCHANGED <<enableCache, cache, source, overlapped>>
    PROVE  IInv'
<1> USE DEF Begin, At
<1>1. MemoryTypeOK'
    BY DEF IInv, MemoryTypeOK
<1>2. Unused'
    BY DEF IInv, Unused
<1>3. InHandIsFresh'
    BY DEF IInv, MemoryTypeOK, InHandIsFresh
<1>4. FreshOrOverlapped'
    BY DEF IInv, MemoryTypeOK, FreshOrOverlapped
<1> QED
    BY <1>1, <1>2, <1>3, <1>4 DEF IInv

\* A version that is fresh or overlapped is put, and the call goes on.
LEMMA CallPuts ==
    ASSUME IInv, NEW c \in Callers, NEW pc \in {"idle", "done"}, NEW v \in Versions, NEW w \in Versions,
           v = source[call[c].key] \/ call[c].key \in overlapped,
           Put(call[c].key, v), Begin(c, call[c].key, pc, w),
           UNCHANGED <<enableCache, source, overlapped>>
    PROVE  IInv'
<1> USE DEF Begin, At, Put
<1>0. call[c].key \in Keys
    BY DEF IInv, MemoryTypeOK
<1>1. MemoryTypeOK'
    BY <1>0 DEF IInv, MemoryTypeOK
<1>2. Unused'
    BY <1>0 DEF IInv, Unused, MemoryTypeOK
<1>3. InHandIsFresh'
    BY <1>0 DEF IInv, MemoryTypeOK, InHandIsFresh
<1>4. FreshOrOverlapped'
    BY <1>0 DEF IInv, MemoryTypeOK, FreshOrOverlapped, Unused
<1> QED
    BY <1>1, <1>2, <1>3, <1>4 DEF IInv

LEMMA UpdateKeeps ==
    ASSUME IInv, NEW c \in Callers, NEW k \in Keys, Update(c, k)
    PROVE  IInv'
<1> USE MemoryCacheAssumption DEF Begin, At, Update
<1>0. /\ source[k] + 1 \in Versions
      /\ source' = [source EXCEPT ![k] = source[k] + 1]
      /\ call' = [call EXCEPT ![c] = [pc |-> "save", key |-> k, value |-> source[k] + 1]]
    BY DEF IInv, MemoryTypeOK, Versions, None
<1>1. MemoryTypeOK'
    BY <1>0 DEF IInv, MemoryTypeOK
<1>2. Unused'
    BY DEF IInv, Unused
<1>3. ASSUME NEW d \in Callers, d # c, call[d].key = k, call[d].pc # "idle"
      PROVE  k \in overlapped'
    BY <1>3
<1>4. \A x \in Keys \ {k} : x \in overlapped' <=> x \in overlapped
    OBVIOUS
<1>5. \A x \in Keys \ {k} : source'[x] = source[x]
    BY <1>0 DEF IInv, MemoryTypeOK
<1>6. source'[k] = source[k] + 1
    BY <1>0 DEF IInv, MemoryTypeOK
<1>7. \A d \in Callers : call[d].key \in Keys
    BY DEF IInv, MemoryTypeOK
<1>8. \A d \in Callers \ {c} : call'[d] = call[d]
    BY <1>0 DEF IInv, MemoryTypeOK
<1>9. call'[c] = [pc |-> "save", key |-> k, value |-> source[k] + 1]
    BY <1>0 DEF IInv, MemoryTypeOK
<1>10. InHandIsFresh'
    BY <1>3, <1>4, <1>5, <1>6, <1>7, <1>8, <1>9 DEF IInv, InHandIsFresh
<1>11. FreshOrOverlapped'
  <2>1. ASSUME NEW x \in Keys
        PROVE \/ cache'[x] \in {None, source'[x]}
              \/ \E d \in Callers : call'[d].pc = "save" /\ call'[d].key = x
              \/ x \in overlapped'
    <3>1. CASE x = k
        BY <3>1, <1>9
    <3>2. CASE x # k
        BY <3>2, <1>4, <1>5, <1>8 DEF IInv, FreshOrOverlapped
    <3> QED
        BY <3>1, <3>2
  <2> QED
      BY <2>1 DEF FreshOrOverlapped
<1> QED
    BY <1>1, <1>2, <1>10, <1>11 DEF IInv

LEMMA EvictKeeps ==
    ASSUME IInv, NEW k \in Keys, Evict(k)
    PROVE  IInv'
<1> USE MemoryCacheAssumption DEF Evict, At, None, Versions
<1>1. MemoryTypeOK'
    BY DEF IInv, MemoryTypeOK
<1>2. Unused'
    BY DEF IInv, MemoryTypeOK, Unused
<1>3. InHandIsFresh'
    BY DEF IInv, InHandIsFresh
<1>4. FreshOrOverlapped'
    BY DEF IInv, MemoryTypeOK, FreshOrOverlapped
<1> QED
    BY <1>1, <1>2, <1>3, <1>4 DEF IInv

\* Every step of the memory cache keeps the invariant.
LEMMA MemoryStepIInv == IInv /\ MemoryStep => IInv'
<1> SUFFICES ASSUME IInv, MemoryStep PROVE IInv'
    OBVIOUS
<1> USE DEF At
<1>0. None \in Versions
    BY MemoryCacheAssumption DEF None, Versions
<1>1. \A c \in Callers :
         /\ call[c].key \in Keys /\ call[c].value \in Versions
         /\ call[c] = [pc |-> call[c].pc, key |-> call[c].key, value |-> call[c].value]
    BY DEF IInv, MemoryTypeOK
<1>2. \A k \in Keys : source[k] \in Versions /\ cache[k] \in Versions
    BY DEF IInv, MemoryTypeOK
<1>3. ASSUME NEW c \in Callers, NEW pc \in {"done", "failed"}, Goto(c, pc)
      PROVE  Begin(c, call[c].key, pc, call[c].value)
  <2>1. [call[c] EXCEPT !.pc = pc] = [pc |-> pc, key |-> call[c].key, value |-> call[c].value]
      BY DEF IInv, MemoryTypeOK
  <2>2. call' = [call EXCEPT ![c] = [call[c] EXCEPT !.pc = pc]]
      BY <1>3 DEF Goto
  <2> QED
      BY <2>1, <2>2 DEF Begin
<1>4. ASSUME NEW c \in Callers, NEW k \in Keys, FindCache(c, k) PROVE IInv'
  <2>1. GetCache(k) \in Versions
      BY <1>0, <1>2 DEF GetCache
  <2> QED
      BY <2>1, <1>4, CallMoves DEF FindCache
<1>5. ASSUME NEW c \in Callers, Fetch(c) PROVE IInv'
    BY <1>1, <1>2, <1>3, <1>5, CallMoves DEF Fetch
<1>6. ASSUME NEW c \in Callers, Fill(c) PROVE IInv'
  <2>1. Begin(c, call[c].key, "done", call[c].value)
      BY <1>3, <1>6 DEF Fill
  <2>2. CASE call[c].value = None
      BY <2>1, <2>2, <1>1, <1>6, CallMoves DEF Fill
  <2>3. CASE call[c].value # None
    <3>1. call[c].value = source[call[c].key] \/ call[c].key \in overlapped
        BY <2>3, <1>6 DEF Fill, IInv, InHandIsFresh
    <3> QED
        BY <3>1, <2>1, <2>3, <1>1, <1>6, CallPuts DEF Fill
  <2> QED
      BY <2>2, <2>3
<1>7. ASSUME NEW c \in Callers, SaveCache(c) PROVE IInv'
  <2>1. call[c].value = source[call[c].key] \/ call[c].key \in overlapped
      BY <1>7 DEF SaveCache, IInv, InHandIsFresh
  <2> QED
      BY <2>1, <1>0, <1>1, <1>7, CallPuts DEF SaveCache
<1>8. ASSUME NEW c \in Callers, Return(c) PROVE IInv'
    BY <1>0, <1>1, <1>8, CallMoves DEF Return
<1> QED
    BY <1>4, <1>5, <1>6, <1>7, <1>8, UpdateKeeps, EvictKeeps DEF MemoryStep

LEMMA StepIInv == IInv /\ [Next]_vars => IInv'
<1>1. IInv /\ UNCHANGED memoryVars => IInv'
    BY DEF memoryVars, IInv, MemoryTypeOK, Unused, InHandIsFresh, FreshOrOverlapped, At
<1> QED
    BY <1>1, StepOfMemory, MemoryStepIInv

\* What the memory cache holds of a key is what the source has, unless the new
\* value is about to be saved or the last change met another call.
THEOREM CacheIsFresh == Spec => []FreshOrOverlapped
<1>1. IInv => FreshOrOverlapped
    BY DEF IInv
<1> QED
    BY InitIInv, StepIInv, <1>1, PTL DEF Spec

------------------------------------------------------------------------------
(* The cache of responses.                                                 *)

\* A handler serves a response that was made for a request with the same key.
SameKey ==
    \A h \in Handlers :
       InStep(h, "served") => Key(handling[h].request) = Key(handling[h].response.request)

\* A response in Redis is stored under the key of the request it was made for, and
\* so is one that is about to be stored.
StoredUnderItsKey ==
    /\ DOMAIN redis = CacheKeys
    /\ \A k \in CacheKeys :
          redis[k] # NoEntry =>
             /\ DOMAIN redis[k] = {"response", "ttl"}
             /\ redis[k].response.request \in Requests
             /\ Key(redis[k].response.request) = k

RequestsInHand ==
    /\ DOMAIN handling = Handlers
    /\ \A h \in Handlers :
          /\ InStep(h, "route") => handling[h].request \in Requests
          /\ InStep(h, "store") => handling[h].response.request \in Requests
          /\ InStep(h, "served") => /\ handling[h].request \in Requests
                                   /\ handling[h].response.request \in Requests

RInv == StoredUnderItsKey /\ RequestsInHand /\ SameKey

\* What a step does to the responses.
ResponseStep ==
    \/ \E h \in Handlers :
          \/ \E r \in Requests : Hit(h, r) \/ Miss(h, r)
          \/ \E v \in Versions : Respond(h, v)
          \/ LookupFails(h) \/ Reject(h) \/ Store(h) \/ StoreFails(h) \/ Sent(h)
    \/ Second

LEMMA InitRInv == Init => RInv
BY DEF Init, ResponseInit, RInv, StoredUnderItsKey, RequestsInHand, SameKey, InStep, Idle

LEMMA StepOfResponses == IInv /\ [Next]_vars => ResponseStep \/ UNCHANGED redisVars
<1> SUFFICES ASSUME IInv, [Next]_vars PROVE ResponseStep \/ UNCHANGED redisVars
    OBVIOUS
<1>1. ASSUME NEW h \in Handlers, Receive(h) PROVE ResponseStep
    BY <1>1 DEF Receive, ResponseStep
<1>2. ASSUME NEW h \in Handlers, Handle(h) PROVE ResponseStep \/ UNCHANGED redisVars
  <2>1. call[h].value \in Versions
      BY CachedRouteAssumption DEF IInv, MemoryTypeOK
  <2> QED
      BY <1>2, <2>1 DEF Handle, Complete, Finish, ResponseStep
<1>3. ASSUME NEW w \in Writers, Write(w) \/ ((\E k \in Keys : Update(w, k)) /\ UNCHANGED redisVars)
      PROVE  UNCHANGED redisVars
    BY <1>3 DEF Write
<1>4. CASE UNCHANGED vars
    BY <1>4 DEF vars
<1> QED
    BY <1>1, <1>2, <1>3, <1>4 DEF Next, ResponseStep

\* A handler goes on, and what it has in hand then is as it should be.
LEMMA HandlerMoves ==
    ASSUME RInv, NEW h \in Handlers, NEW state, Step(h, state),
           state.pc = "route" => state.request \in Requests,
           state.pc = "store" => state.response.request \in Requests,
           state.pc = "served" => /\ state.request \in Requests
                                  /\ state.response.request \in Requests
                                  /\ Key(state.request) = Key(state.response.request)
    PROVE  RequestsInHand' /\ SameKey'
<1>1. /\ handling'[h] = state /\ DOMAIN handling' = Handlers
      /\ \A g \in Handlers \ {h} : handling'[g] = handling[g]
    BY DEF RInv, RequestsInHand, Step
<1>2. RequestsInHand'
    BY <1>1 DEF RInv, RequestsInHand, InStep
<1>3. SameKey'
    BY <1>1 DEF RInv, SameKey, InStep
<1> QED
    BY <1>2, <1>3

LEMMA SameRedisKeeps == RInv /\ UNCHANGED redis => StoredUnderItsKey'
BY DEF RInv, StoredUnderItsKey

LEMMA ResponseStepRInv == RInv /\ ResponseStep => RInv'
<1> SUFFICES ASSUME RInv, ResponseStep PROVE RInv'
    OBVIOUS
<1>1. ASSUME NEW h \in Handlers, NEW r \in Requests, Hit(h, r) PROVE RInv'
  <2>1. /\ redis[Key(r)].response.request \in Requests
        /\ Key(r) = Key(redis[Key(r)].response.request)
      BY <1>1 DEF Hit, RInv, StoredUnderItsKey, CacheKeys
  <2>2. \/ Step(h, Failed)
        \/ Step(h, [pc |-> "served", request |-> r, response |-> redis[Key(r)].response])
      BY <1>1 DEF Hit
  <2>3. RequestsInHand' /\ SameKey'
      BY <2>1, <2>2, HandlerMoves DEF Failed
  <2> QED
      BY <1>1, <2>3, SameRedisKeeps DEF Hit, RInv
<1>2. ASSUME NEW h \in Handlers, NEW r \in Requests, Miss(h, r) PROVE RInv'
  <2>1. RequestsInHand' /\ SameKey'
      BY <1>2, HandlerMoves DEF Miss
  <2> QED
      BY <1>2, <2>1, SameRedisKeeps DEF Miss, RInv
<1>3. ASSUME NEW h \in Handlers, NEW v \in Versions, Respond(h, v) PROVE RInv'
  <2>1. handling[h].request \in Requests
      BY <1>3 DEF Respond, RInv, RequestsInHand
  <2>2. RequestsInHand' /\ SameKey'
      BY <1>3, <2>1, HandlerMoves DEF Respond
  <2> QED
      BY <1>3, <2>2, SameRedisKeeps DEF Respond, RInv
<1>4. ASSUME NEW h \in Handlers, LookupFails(h) \/ Reject(h) \/ StoreFails(h) \/ Sent(h)
      PROVE  RInv'
  <2>1. (Step(h, Idle) \/ Step(h, Failed)) /\ UNCHANGED redis
      BY <1>4 DEF LookupFails, Reject, StoreFails, Sent
  <2>2. RequestsInHand' /\ SameKey'
      BY <2>1, HandlerMoves DEF Idle, Failed
  <2> QED
      BY <2>1, <2>2, SameRedisKeeps DEF RInv
<1>5. ASSUME NEW h \in Handlers, Store(h) PROVE RInv'
  <2>1. handling[h].response.request \in Requests
      BY <1>5 DEF Store, RInv, RequestsInHand
  <2>2. StoredUnderItsKey'
      BY <1>5, <2>1 DEF Store, RInv, StoredUnderItsKey, CacheKeys
  <2>3. RequestsInHand' /\ SameKey'
      BY <1>5, HandlerMoves DEF Store, Idle
  <2> QED
      BY <2>2, <2>3 DEF RInv
<1>6. CASE Second
  <2>1. StoredUnderItsKey'
    <3>1. ASSUME NEW k \in CacheKeys, redis'[k] # NoEntry
          PROVE  redis[k] # NoEntry /\ redis'[k] = [redis[k] EXCEPT !.ttl = @ - 1]
        BY <1>6, <3>1 DEF Second
    <3>2. ASSUME NEW k \in CacheKeys, redis'[k] # NoEntry
          PROVE  /\ DOMAIN redis'[k] = {"response", "ttl"}
                 /\ redis'[k].response = redis[k].response
        BY <3>1, <3>2 DEF RInv, StoredUnderItsKey
    <3>3. DOMAIN redis' = CacheKeys
        BY <1>6 DEF Second
    <3> QED
        BY <3>1, <3>2, <3>3 DEF RInv, StoredUnderItsKey
  <2>2. RequestsInHand' /\ SameKey'
      BY <1>6 DEF Second, RInv, RequestsInHand, SameKey, InStep
  <2> QED
      BY <2>1, <2>2 DEF RInv
<1> QED
    BY <1>1, <1>2, <1>3, <1>4, <1>5, <1>6 DEF ResponseStep

LEMMA StepRInv == IInv /\ RInv /\ [Next]_vars => RInv'
<1>1. RInv /\ UNCHANGED redisVars => RInv'
    BY DEF redisVars, RInv, StoredUnderItsKey, RequestsInHand, SameKey, InStep
<1> QED
    BY <1>1, StepOfResponses, ResponseStepRInv

\* A request is answered from Redis only with the response of a request that has
\* the same path and the same joined values, whatever handlers store and Redis
\* forgets meanwhile: nothing but the key can confuse two requests.
THEOREM AnswersHaveTheKey == Spec => []SameKey
<1>1. RInv => SameKey
    BY DEF RInv
<1> QED
    BY InitIInv, InitRInv, StepIInv, StepRInv, <1>1, PTL DEF Spec

------------------------------------------------------------------------------
(* The key of a request.                                                   *)

LEMMA MinIs ==
    ASSUME NEW S, S \subseteq Nat, S # {}
    PROVE  Min(S) \in S /\ \A n \in S : Min(S) <= n
<1>1. PICK less : less = {x \in Nat \X Nat : x[1] < x[2]}
    OBVIOUS
<1>2. IsWellFoundedOn(less, Nat)
    BY <1>1, NatLessThanWellFounded DEF OpToRel
<1>3. PICK m \in S : \A n \in S : ~(<<n, m>> \in less)
    BY <1>2, WFMin, Zenon
<1>4. ASSUME NEW n \in S PROVE m <= n
  <2>1. m \in Nat /\ n \in Nat
      OBVIOUS
  <2>2. n < m => <<n, m>> \in less
      BY <1>1, <2>1
  <2> QED
      BY <1>3, <2>1, <2>2
<1>5. \E x \in S : \A y \in S : x <= y
    BY <1>4
<1>6. Min(S) = CHOOSE x \in S : \A y \in S : x <= y
    BY DEF Min
<1> QED
    BY <1>5, <1>6, Zenon

\* How many of the names do not come after a name.
UpTo(names, name) == {i \in DOMAIN names : names[i] <= name}
NumberUpTo(names, name) == Cardinality(UpTo(names, name))

LEMMA NumberUpToIs ==
    ASSUME NEW names \in Seq(Nat), NEW name \in Nat
    PROVE  NumberUpTo(names, name) \in 0 .. Len(names) /\ IsFiniteSet(UpTo(names, name))
<1>1. PICK n \in Nat : n = Len(names) /\ DOMAIN names = 1 .. n
    OBVIOUS
<1>2. IsFiniteSet(1 .. n) /\ Cardinality(1 .. n) = n
    BY FS_Interval
<1>3. UpTo(names, name) \in SUBSET (1 .. n)
    BY <1>1 DEF UpTo
<1>4. IsFiniteSet(UpTo(names, name)) /\ Cardinality(UpTo(names, name)) <= n
    BY <1>2, <1>3, FS_Subset
<1>5. Cardinality(UpTo(names, name)) \in Nat
    BY <1>4, FS_CardinalityType
<1> QED
    BY <1>1, <1>4, <1>5 DEF NumberUpTo

\* A name that comes later has more names that do not come after it.
LEMMA NumberUpToGrows ==
    ASSUME NEW names \in Seq(Nat), NEW name \in Nat, NEW i \in DOMAIN names, name < names[i]
    PROVE  NumberUpTo(names, name) < NumberUpTo(names, names[i])
<1>1. names[i] \in Nat
    OBVIOUS
<1>2. UpTo(names, name) \in SUBSET UpTo(names, names[i])
    BY <1>1 DEF UpTo
<1>3. i \in UpTo(names, names[i]) /\ i \notin UpTo(names, name)
    BY <1>1 DEF UpTo
<1>4. IsFiniteSet(UpTo(names, names[i]))
    BY <1>1, NumberUpToIs
<1>5. NumberUpTo(names, name) <= NumberUpTo(names, names[i])
      /\ NumberUpTo(names, name) # NumberUpTo(names, names[i])
    BY <1>2, <1>3, <1>4, FS_Subset DEF NumberUpTo
<1>6. NumberUpTo(names, name) \in Int /\ NumberUpTo(names, names[i]) \in Int
    BY <1>1, NumberUpToIs
<1> QED
    BY <1>5, <1>6

\* No name comes after the last one.
LEMMA LastName ==
    ASSUME NEW names \in Seq(Nat), Len(names) # 0
    PROVE  \E i \in DOMAIN names : NumberUpTo(names, names[i]) = Len(names)
<1>1. PICK n \in Nat \ {0} : n = Len(names) /\ DOMAIN names = 1 .. n
    OBVIOUS
<1> DEFINE Above == {n - NumberUpTo(names, names[i]) : i \in DOMAIN names}
<1>2. \A i \in DOMAIN names : names[i] \in Nat /\ NumberUpTo(names, names[i]) \in 0 .. n
  <2> HIDE DEF Above
  <2>1. \A i \in DOMAIN names : names[i] \in Nat
      OBVIOUS
  <2> QED
      BY <1>1, <2>1, NumberUpToIs
<1>3. Above \subseteq Nat /\ Above # {}
    BY <1>1, <1>2
<1>4. PICK i \in DOMAIN names : \A a \in Above : n - NumberUpTo(names, names[i]) <= a
  <2> HIDE DEF Above
  <2>1. Min(Above) \in Above /\ \A a \in Above : Min(Above) <= a
      BY <1>3, MinIs
  <2> QED
      BY <2>1 DEF Above
<1>5. ASSUME NEW j \in DOMAIN names PROVE names[j] <= names[i]
  <2>1. n - NumberUpTo(names, names[i]) <= n - NumberUpTo(names, names[j])
      BY <1>4
  <2>2. ~(NumberUpTo(names, names[i]) < NumberUpTo(names, names[j]))
      BY <1>2, <2>1
  <2>3. names[i] \in Nat /\ names[j] \in Nat
      BY <1>2
  <2> QED
      BY <2>2, <2>3, NumberUpToGrows
<1>6. UpTo(names, names[i]) = 1 .. n
    BY <1>1, <1>5 DEF UpTo
<1>7. Cardinality(1 .. n) = n
    BY FS_Interval
<1> QED
    BY <1>1, <1>6, <1>7 DEF NumberUpTo

\* The sorted names are the names, and none is missing.
LEMMA SortedIs ==
    ASSUME NEW names \in Seq(Nat)
    PROVE  /\ DOMAIN Sorted(names) = DOMAIN names
           /\ \A k \in DOMAIN names : Sorted(names)[k] \in ToSet(names)
           /\ \A i \in DOMAIN names : \E k \in DOMAIN names : Sorted(names)[k] = names[i]
<1>1. PICK n \in Nat : n = Len(names) /\ DOMAIN names = 1 .. n
    OBVIOUS
<1>2. \A i \in DOMAIN names : names[i] \in Nat /\ names[i] \in ToSet(names)
    BY DEF ToSet
<1>3. ToSet(names) \subseteq Nat
    BY <1>2 DEF ToSet
<1>4. Sorted(names) =
        [k \in DOMAIN names |-> Min({name \in ToSet(names) : NumberUpTo(names, name) >= k})]
    BY DEF Sorted, NumberUpTo, UpTo
<1>5. ASSUME NEW k \in DOMAIN names PROVE Sorted(names)[k] \in ToSet(names)
  <2>1. PICK i \in DOMAIN names : NumberUpTo(names, names[i]) = n
      BY <1>1, LastName
  <2>2. PICK S : S = {name \in ToSet(names) : NumberUpTo(names, name) >= k}
      OBVIOUS
  <2>3. names[i] \in S
      BY <1>1, <1>2, <2>1, <2>2
  <2>4. S \subseteq Nat /\ S # {}
      BY <1>3, <2>2, <2>3
  <2>5. Min(S) \in S
      BY <2>4, MinIs
  <2> QED
      BY <1>4, <2>2, <2>5
<1>6. ASSUME NEW i \in DOMAIN names PROVE \E k \in DOMAIN names : Sorted(names)[k] = names[i]
  <2>1. PICK k : k = NumberUpTo(names, names[i])
      OBVIOUS
  <2>2. k \in 0 .. n /\ IsFiniteSet(UpTo(names, names[i]))
      BY <1>1, <1>2, <2>1, NumberUpToIs
  <2>3. i \in UpTo(names, names[i])
      BY <1>2 DEF UpTo
  <2>4. k # 0
      BY <2>1, <2>2, <2>3, FS_EmptySet DEF NumberUpTo
  <2>5. k \in DOMAIN names
      BY <1>1, <2>2, <2>4
  <2>6. PICK S : S = {name \in ToSet(names) : NumberUpTo(names, name) >= k}
      OBVIOUS
  <2>7. names[i] \in S /\ S \subseteq Nat
      BY <1>2, <1>3, <2>1, <2>2, <2>6
  <2>8. PICK m : m = Min(S)
      OBVIOUS
  <2>9. m \in S /\ m <= names[i]
      BY <2>7, <2>8, MinIs
  <2>10. ~(m < names[i])
    <3>1. m \in Nat /\ NumberUpTo(names, m) >= k
        BY <2>6, <2>7, <2>9
    <3>2. NumberUpTo(names, m) \in Int
        BY <3>1, NumberUpToIs
    <3>3. m < names[i] => NumberUpTo(names, m) < k
        BY <2>1, <3>1, NumberUpToGrows
    <3> QED
        BY <2>2, <3>1, <3>2, <3>3
  <2>11. m = names[i]
      BY <1>2, <2>7, <2>9, <2>10
  <2> QED
      BY <1>4, <2>5, <2>6, <2>8, <2>11
<1> QED
    BY <1>4, <1>5, <1>6

\* Names that occur once are sorted the same way in whatever order they came.
LEMMA SameSorted ==
    ASSUME NEW a \in Seq(Nat), NEW b \in Seq(Nat),
           IsInjective(a), IsInjective(b), ToSet(a) = ToSet(b)
    PROVE  Sorted(a) = Sorted(b)
<1>1. ASSUME NEW s \in Seq(Nat), IsInjective(s), NEW name \in Nat
      PROVE  /\ NumberUpTo(s, name) = Cardinality({n \in ToSet(s) : n <= name})
             /\ Len(s) = Cardinality(ToSet(s))
  <2>1. PICK n \in Nat : n = Len(s) /\ DOMAIN s = 1 .. n
      OBVIOUS
  <2>2. IsFiniteSet(1 .. n) /\ Cardinality(1 .. n) = n
      BY FS_Interval
  <2>3. s \in Bijection(1 .. n, ToSet(s))
      BY <1>1, <2>1 DEF ToSet, IsInjective, Bijection, Injection, Surjection
  <2>4. Cardinality(ToSet(s)) = n
      BY <2>2, <2>3, FS_Bijection DEF ExistsBijection
  <2>5. PICK S, T : S = UpTo(s, name) /\ T = {m \in ToSet(s) : m <= name}
      OBVIOUS
  <2>6. PICK f : f = [i \in S |-> s[i]]
      OBVIOUS
  <2>7. f \in Bijection(S, T)
    <3>1. f \in [S -> T]
        BY <2>1, <2>5, <2>6 DEF UpTo, ToSet
    <3>2. \A i, j \in S : f[i] = f[j] => i = j
        BY <1>1, <2>1, <2>5, <2>6 DEF UpTo, IsInjective
    <3>3. \A t \in T : \E i \in S : f[i] = t
        BY <2>1, <2>5, <2>6 DEF UpTo, ToSet
    <3> QED
        BY <3>1, <3>2, <3>3 DEF Bijection, Injection, Surjection, IsInjective
  <2>8. Cardinality(T) = Cardinality(S)
      BY <2>5, <2>7, NumberUpToIs, FS_Bijection DEF ExistsBijection
  <2> QED
      BY <2>1, <2>4, <2>5, <2>8 DEF NumberUpTo
<1>2. \A name \in ToSet(a) : NumberUpTo(a, name) = NumberUpTo(b, name)
  <2>1. ToSet(a) \subseteq Nat
      BY DEF ToSet
  <2> QED
      BY <1>1, <2>1
<1>3. Len(a) = Len(b)
    BY <1>1
<1>4. \A s \in Seq(Nat) :
        Sorted(s) = [k \in 1 .. Len(s) |-> Min({name \in ToSet(s) : NumberUpTo(s, name) >= k})]
    BY DEF Sorted, NumberUpTo, UpTo
<1>5. \A k \in 1 .. Len(a) : {name \in ToSet(a) : NumberUpTo(a, name) >= k}
                             = {name \in ToSet(b) : NumberUpTo(b, name) >= k}
    BY <1>2
<1>6. Sorted(a) = [k \in 1 .. Len(a) |-> Min({name \in ToSet(a) : NumberUpTo(a, name) >= k})]
      /\ Sorted(b) = [k \in 1 .. Len(b) |-> Min({name \in ToSet(b) : NumberUpTo(b, name) >= k})]
    BY <1>4
<1> QED
    BY <1>3, <1>5, <1>6

\* Flattened up to every place.
Flattened(f, seqs, C) ==
    /\ f \in [1 .. Len(seqs) -> Seq(C)]
    /\ \A i \in 1 .. Len(seqs) : f[i] = IF i = 1 THEN seqs[1] ELSE f[i - 1] \o seqs[i]

\* Induction over the numbers up to n, for a set of them.
LEMMA NumbersFrom1 ==
    ASSUME NEW S, NEW n \in Nat, 1 \in S, \A i \in 1 .. n - 1 : i \in S => i + 1 \in S
    PROVE  1 .. n \subseteq S
<1> SUFFICES ASSUME (1 .. n) \ S # {} PROVE FALSE
    OBVIOUS
<1>1. (1 .. n) \ S \subseteq Nat
    OBVIOUS
<1>2. PICK m \in (1 .. n) \ S : \A i \in (1 .. n) \ S : m <= i
    BY <1>1, MinIs
<1>3. m # 1 /\ m - 1 \in 1 .. n - 1 /\ m - 1 \in S
    BY <1>2
<1> QED
    BY <1>2, <1>3

LEMMA FlattenIs ==
    ASSUME NEW C, NEW seqs \in Seq(Seq(C)), Len(seqs) # 0
    PROVE  \E f : Flattened(f, seqs, C) /\ FlattenSeq(seqs) = f[Len(seqs)]
<1>1. PICK n \in Nat \ {0} : n = Len(seqs) /\ seqs \in [1 .. n -> Seq(C)]
    OBVIOUS
<1> DEFINE Until(m, g) ==
              /\ g \in [1 .. m -> Seq(C)]
              /\ \A i \in 1 .. m : g[i] = IF i = 1 THEN seqs[1] ELSE g[i - 1] \o seqs[i]
           S == {m \in 1 .. n : \E g : Until(m, g)}
<1>2. 1 \in S
  <2>1. Until(1, [i \in 1 .. 1 |-> seqs[1]])
      BY <1>1
  <2>2. 1 \in 1 .. n
      BY <1>1
  <2>3. \E g : Until(1, g)
    <3> HIDE DEF Until
    <3> QED
        BY <2>1
  <2> QED
      BY <2>2, <2>3
<1>3. ASSUME NEW m \in 1 .. n - 1, m \in S PROVE m + 1 \in S
  <2>1. PICK g : Until(m, g)
      BY <1>3
  <2>2. PICK last : last = g[m] \o seqs[m + 1]
      OBVIOUS
  <2>3. m \in 1 .. m /\ m + 1 \in 1 .. n
      BY <1>1
  <2>4. g[m] \in Seq(C) /\ seqs[m + 1] \in Seq(C)
      BY <1>1, <2>1, <2>3
  <2>5. last \in Seq(C)
      BY <2>2, <2>4
  <2>6. PICK h : h = [i \in 1 .. m + 1 |-> IF i = m + 1 THEN last ELSE g[i]]
      OBVIOUS
  <2>7. h \in [1 .. m + 1 -> Seq(C)]
      BY <2>1, <2>5, <2>6
  <2>8. ASSUME NEW i \in 1 .. m PROVE h[i] = IF i = 1 THEN seqs[1] ELSE h[i - 1] \o seqs[i]
    <3>1. h[i] = g[i] /\ (i # 1 => h[i - 1] = g[i - 1])
        BY <2>6
    <3> QED
        BY <2>1, <3>1
  <2>9. h[m + 1] = h[m] \o seqs[m + 1] /\ m + 1 # 1
    <3>1. m \in 1 .. m + 1 /\ m + 1 \in 1 .. m + 1 /\ m # m + 1 /\ m + 1 # 1
        OBVIOUS
    <3>2. h[m] = g[m] /\ h[m + 1] = last
        BY <2>6, <3>1
    <3> QED
        BY <2>2, <3>1, <3>2
  <2>10. Until(m + 1, h)
    <3>1. \A i \in 1 .. m + 1 : i \in 1 .. m \/ i = m + 1
        OBVIOUS
    <3>2. (m + 1) - 1 = m
        OBVIOUS
    <3> QED
        BY <2>7, <2>8, <2>9, <3>1, <3>2
  <2> QED
      BY <2>3, <2>10
<1>4. n \in S
  <2> HIDE DEF S
  <2>1. 1 .. n \subseteq S
      BY <1>1, <1>2, <1>3, NumbersFrom1
  <2> QED
      BY <2>1
<1>5. PICK g : Until(n, g)
    BY <1>4
<1> DEFINE It(f) == f = [i \in 1 .. Len(seqs) |-> IF i = 1 THEN seqs[i] ELSE f[i - 1] \o seqs[i]]
<1>6. It(g)
    BY <1>1, <1>5
<1>7. It(CHOOSE f : It(f))
  <2> HIDE DEF It
  <2> QED
      BY <1>6
<1>8. PICK f : f = CHOOSE h : It(h)
    OBVIOUS
<1>9. f = [i \in 1 .. n |-> IF i = 1 THEN seqs[i] ELSE f[i - 1] \o seqs[i]]
  <2>1. It(f)
    <3> HIDE DEF It
    <3> QED
        BY <1>7, <1>8
  <2> QED
      BY <1>1, <2>1
<1>10. FlattenSeq(seqs) = f[n]
    BY <1>1, <1>8 DEF FlattenSeq
<1>11. f \in [1 .. n -> Seq(C)]
  <2> DEFINE T == {i \in 1 .. n : f[i] \in Seq(C)}
  <2>1. 1 \in T
      BY <1>1, <1>9
  <2>2. ASSUME NEW i \in 1 .. n - 1, i \in T PROVE i + 1 \in T
    <3>1. PICK j \in 1 .. n : j = i + 1 /\ j # 1 /\ j - 1 = i
        OBVIOUS
    <3>2. f[j] = f[i] \o seqs[j]
        BY <1>9, <3>1
    <3>3. f[i] \in Seq(C) /\ seqs[j] \in Seq(C)
        BY <1>1, <2>2
    <3>4. f[j] \in Seq(C)
        BY <3>2, <3>3
    <3> QED
        BY <3>1, <3>4
  <2>3. 1 .. n \subseteq T
    <3> HIDE DEF T
    <3> QED
        BY <1>1, <2>1, <2>2, NumbersFrom1
  <2> QED
      BY <1>9, <2>3
<1>12. \A i \in 1 .. n : f[i] = IF i = 1 THEN seqs[1] ELSE f[i - 1] \o seqs[i]
    BY <1>9
<1> QED
    BY <1>1, <1>10, <1>11, <1>12 DEF Flattened

Joined(a, b, c, d) == a \o b = c \o d

\* What is joined of second parts of the same length is joined of the same parts.
LEMMA SameParts ==
    ASSUME NEW C, NEW a \in Seq(C), NEW b \in Seq(C), NEW c \in Seq(C), NEW d \in Seq(C),
           Joined(a, b, c, d), Len(b) = Len(d)
    PROVE  a = c /\ b = d
<1>1. a \o b = c \o d
    BY DEF Joined
<1>2. Len(a) + Len(b) = Len(c) + Len(d)
  <2>1. Len(a \o b) = Len(a) + Len(b) /\ Len(c \o d) = Len(c) + Len(d)
      OBVIOUS
  <2> QED
      BY <1>1, <2>1
<1>3. PICK n \in Nat, m \in Nat : n = Len(a) /\ n = Len(c) /\ m = Len(b) /\ m = Len(d)
    BY <1>2
<1>4. PICK s : s = a \o b /\ s = c \o d
    BY <1>1
<1>5. ASSUME NEW p \in Seq(C), NEW q \in Seq(C), Len(p) = n, Len(q) = m, s = p \o q
      PROVE  /\ p = [i \in 1 .. n |-> s[i]]
             /\ q = [i \in 1 .. m |-> s[n + i]]
  <2>1. \A i \in 1 .. n + m : (p \o q)[i] = IF i <= n THEN p[i] ELSE q[i - n]
      BY <1>5, ConcatProperties
  <2>2. ASSUME NEW i \in 1 .. n PROVE s[i] = p[i]
    <3>1. i \in 1 .. n + m /\ i <= n
        OBVIOUS
    <3> QED
        BY <1>5, <2>1, <3>1
  <2>3. ASSUME NEW i \in 1 .. m PROVE s[n + i] = q[i]
    <3>1. n + i \in 1 .. n + m /\ ~(n + i <= n) /\ (n + i) - n = i
        OBVIOUS
    <3> QED
        BY <1>5, <2>1, <3>1
  <2>4. p \in [1 .. n -> C] /\ q \in [1 .. m -> C]
      BY <1>5
  <2> QED
      BY <2>2, <2>3, <2>4
<1> QED
    BY <1>3, <1>4, <1>5

\* Texts that are the same when they are joined, of the same lengths in pairs.
LEMMA FlattenTells ==
    ASSUME NEW C, NEW s \in Seq(Seq(C)), NEW t \in Seq(Seq(C)), Len(s) = Len(t),
           \A i \in 1 .. Len(s) : Len(s[i]) = Len(t[i]), FlattenSeq(s) = FlattenSeq(t)
    PROVE  s = t
<1>1. PICK n \in Nat : /\ n = Len(s) /\ n = Len(t)
                       /\ s \in [1 .. n -> Seq(C)] /\ t \in [1 .. n -> Seq(C)]
    OBVIOUS
<1>2. CASE n = 0
    BY <1>1, <1>2
<1>3. CASE n # 0
  <2>1. PICK f : Flattened(f, s, C) /\ FlattenSeq(s) = f[n]
      BY <1>1, <1>3, FlattenIs
  <2>2. PICK g : Flattened(g, t, C) /\ FlattenSeq(t) = g[n]
      BY <1>1, <1>3, FlattenIs
  <2>3. ASSUME NEW i \in 1 .. n PROVE f[i] \in Seq(C) /\ g[i] \in Seq(C) /\ s[i] \in Seq(C) /\ t[i] \in Seq(C)
      BY <1>1, <2>1, <2>2 DEF Flattened
  <2>4. ASSUME NEW i \in 1 .. n, i # 1 PROVE f[i] = f[i - 1] \o s[i] /\ g[i] = g[i - 1] \o t[i]
      BY <1>1, <2>1, <2>2, <2>4 DEF Flattened
  <2>5. f[1] = s[1] /\ g[1] = t[1]
    <3>1. 1 \in 1 .. n
        BY <1>3
    <3> QED
        BY <1>1, <2>1, <2>2, <3>1 DEF Flattened
  <2> DEFINE Same == {i \in 1 .. n : f[n + 1 - i] = g[n + 1 - i]}
  <2>6. 1 \in Same
    <3>1. 1 \in 1 .. n /\ n + 1 - 1 = n
        BY <1>3
    <3>2. f[n] = g[n]
        BY <2>1, <2>2
    <3> QED
        BY <3>1, <3>2
  <2>7. ASSUME NEW i \in 2 .. n, f[i] = g[i] PROVE f[i - 1] = g[i - 1] /\ s[i] = t[i]
    <3>1. i \in 1 .. n /\ i - 1 \in 1 .. n /\ i # 1
        OBVIOUS
    <3>2. f[i - 1] \o s[i] = g[i - 1] \o t[i]
        BY <2>4, <2>7, <3>1
    <3>3. f[i - 1] \in Seq(C) /\ g[i - 1] \in Seq(C) /\ s[i] \in Seq(C) /\ t[i] \in Seq(C)
        BY <2>3, <3>1
    <3>4. Len(s[i]) = Len(t[i])
        BY <1>1, <3>1
    <3>5. PICK a \in Seq(C), c \in Seq(C), b \in Seq(C), d \in Seq(C) :
             a = f[i - 1] /\ b = s[i] /\ c = g[i - 1] /\ d = t[i]
        BY <3>3
    <3>6. Joined(a, b, c, d) /\ Len(b) = Len(d)
        BY <3>2, <3>4, <3>5 DEF Joined
    <3>7. a = c /\ b = d
        BY <3>6, SameParts
    <3> QED
        BY <3>5, <3>7
  <2>8. ASSUME NEW i \in 1 .. n - 1, i \in Same PROVE i + 1 \in Same
    <3>1. n + 1 - i \in 2 .. n /\ (n + 1 - i) - 1 = n + 1 - (i + 1) /\ i + 1 \in 1 .. n
        OBVIOUS
    <3>2. f[(n + 1 - i) - 1] = g[(n + 1 - i) - 1]
        BY <2>7, <2>8, <3>1
    <3> QED
        BY <3>1, <3>2
  <2>9. 1 .. n \subseteq Same
    <3> HIDE DEF Same
    <3> QED
        BY <2>6, <2>8, NumbersFrom1
  <2>10. \A i \in 1 .. n : f[i] = g[i]
    <3>1. ASSUME NEW i \in 1 .. n PROVE f[i] = g[i]
      <4>1. n + 1 - i \in 1 .. n /\ n + 1 - (n + 1 - i) = i
          OBVIOUS
      <4> QED
          BY <2>9, <4>1
    <3> QED
        BY <3>1
  <2>11. \A i \in 1 .. n : s[i] = t[i]
    <3>1. ASSUME NEW i \in 1 .. n, i # 1 PROVE s[i] = t[i]
      <4>1. i \in 2 .. n
          BY <3>1
      <4> QED
          BY <2>7, <2>10, <4>1
    <3>2. s[1] = t[1]
      <4>1. 1 \in 1 .. n
          BY <1>3
      <4> QED
          BY <2>5, <2>10, <4>1
    <3> QED
        BY <3>1, <3>2
  <2>12. s = [i \in 1 .. n |-> s[i]] /\ t = [i \in 1 .. n |-> t[i]]
      BY <1>1
  <2> QED
      BY <2>11, <2>12
<1> QED
    BY <1>2, <1>3

\* A request with names and values that are texts.
LEMMA RequestIs ==
    ASSUME NEW r \in Requests
    PROVE  /\ r.path \in Seq(STRING)
           /\ r.query \in Seq([name : Nat, value : Seq(STRING)])
           /\ Names(r.query) \in Seq(Nat)
           /\ \A name \in ToSet(Names(r.query)) : FirstValue(r.query, name) \in Seq(STRING)
<1>1. PICK q \in Seq([name : Nat, value : Seq(STRING)]) : q = r.query
    BY ResponseCacheAssumption
<1>2. PICK n \in Nat : DOMAIN q = 1 .. n /\ q \in [1 .. n -> [name : Nat, value : Seq(STRING)]]
  <2>1. PICK T : T = [name : Nat, value : Seq(STRING)]
      OBVIOUS
  <2>2. q \in Seq(T)
      BY <2>1
  <2>3. PICK n \in Nat : DOMAIN q = 1 .. n /\ q \in [1 .. n -> T]
      BY <2>2
  <2> QED
      BY <2>1, <2>3
<1>3. \A i \in 1 .. n : q[i] \in [name : Nat, value : Seq(STRING)]
    BY <1>2
<1>4. \A i \in 1 .. n : q[i].name \in Nat /\ q[i].value \in Seq(STRING)
    BY <1>3
<1>5. Names(q) = [i \in 1 .. n |-> q[i].name]
    BY <1>2 DEF Names
<1>6. Names(q) \in Seq(Nat)
    BY <1>4, <1>5
<1>7. ASSUME NEW name \in ToSet(Names(q)) PROVE FirstValue(q, name) \in Seq(STRING)
  <2>1. PICK S : S = {i \in DOMAIN q : q[i].name = name}
      OBVIOUS
  <2>2. S # {}
      BY <1>2, <1>5, <2>1 DEF ToSet
  <2>3. S \subseteq Nat
      BY <1>2, <2>1
  <2>4. Min(S) \in S
      BY <2>2, <2>3, MinIs
  <2>5. FirstValue(q, name) = q[Min(S)].value
      BY <2>1 DEF FirstValue
  <2>6. Min(S) \in 1 .. n
      BY <1>2, <2>1, <2>4
  <2> QED
      BY <1>4, <2>5, <2>6
<1>8. r.path \in Seq(STRING)
    BY ResponseCacheAssumption
<1> QED
    BY <1>1, <1>6, <1>7, <1>8

\* What is joined of texts is a text.
LEMMA FlattenIsText ==
    ASSUME NEW C, NEW seqs \in Seq(Seq(C))
    PROVE  FlattenSeq(seqs) \in Seq(C)
<1>1. CASE Len(seqs) = 0
  <2>1. seqs = << >>
      BY <1>1
  <2>2. FlattenSeq(seqs) = << >>
      BY <1>1, <2>1 DEF FlattenSeq
  <2> QED
      BY <2>2
<1>2. CASE Len(seqs) # 0
  <2>1. PICK f : Flattened(f, seqs, C) /\ FlattenSeq(seqs) = f[Len(seqs)]
      BY <1>2, FlattenIs
  <2>2. Len(seqs) \in 1 .. Len(seqs)
      BY <1>2
  <2> QED
      BY <2>1, <2>2 DEF Flattened
<1> QED
    BY <1>1, <1>2

\* The values in the order of the sorted names, which the key ends with.
SortedValues(r) ==
    LET names == Sorted(Names(r.query))
    IN [i \in DOMAIN names |-> FirstValue(r.query, names[i])]

\* What the texts are made of, the colon among it.
Characters == STRING \cup {":"}

LEMMA TextIs ==
    ASSUME NEW s \in Seq(STRING)
    PROVE  s \in Seq(Characters)
<1>1. PICK C : C = STRING
    OBVIOUS
<1>2. PICK D : D = Characters /\ C \subseteq D
    BY <1>1 DEF Characters
<1>3. s \in Seq(C)
    BY <1>1
<1>4. PICK n \in Nat : s \in [1 .. n -> C]
    BY <1>3
<1>5. s \in [1 .. n -> D]
    BY <1>2, <1>4
<1>6. s \in Seq(D)
    BY <1>5
<1> QED
    BY <1>2, <1>6

\* A text that ends with a colon.
LEMMA ColonEnds ==
    ASSUME NEW p \in Seq(Characters)
    PROVE  ":" \in Characters /\ p \o <<":">> \in Seq(Characters)
<1>1. ":" \in Characters
    BY DEF Characters
<1>2. PICK C, c : C = Characters /\ c = ":"
    OBVIOUS
<1>3. p \o <<c>> \in Seq(C)
  <2>1. p \in Seq(C) /\ c \in C
      BY <1>1, <1>2
  <2> QED
      BY <2>1
<1> QED
    BY <1>1, <1>2, <1>3

\* The key is the path with a colon and the values.
LEMMA KeyIs ==
    ASSUME NEW r \in Requests
    PROVE  /\ Key(r) = r.path \o <<":">> \o FlattenSeq(SortedValues(r))
           /\ SortedValues(r) \in Seq(Seq(STRING))
           /\ FlattenSeq(SortedValues(r)) \in Seq(Characters)
           /\ r.path \in Seq(Characters) /\ r.path \o <<":">> \in Seq(Characters)
<1>1. Key(r) = r.path \o <<":">> \o FlattenSeq(SortedValues(r))
    BY DEF Key, SortedValues
<1>2. PICK a \in Seq(Nat) : a = Names(r.query)
    BY RequestIs
<1>3. PICK names : names = Sorted(a)
    OBVIOUS
<1>4. PICK n \in Nat : DOMAIN a = 1 .. n
    OBVIOUS
<1>5. DOMAIN names = 1 .. n /\ \A k \in 1 .. n : names[k] \in ToSet(a)
    BY <1>3, <1>4, SortedIs
<1>6. SortedValues(r) = [k \in 1 .. n |-> FirstValue(r.query, names[k])]
    BY <1>2, <1>3, <1>5 DEF SortedValues
<1>7. \A k \in 1 .. n : FirstValue(r.query, names[k]) \in Seq(STRING)
    BY <1>2, <1>5, RequestIs
<1>8. SortedValues(r) \in Seq(Seq(STRING))
    BY <1>6, <1>7
<1>9. FlattenSeq(SortedValues(r)) \in Seq(Characters)
    BY <1>8, FlattenIsText, TextIs
<1>10. r.path \in Seq(Characters)
    BY RequestIs, TextIs
<1>11. r.path \o <<":">> \in Seq(Characters)
    BY <1>10, ColonEnds
<1> QED
    BY <1>1, <1>8, <1>9, <1>10, <1>11

\* What is joined of the same first part is joined of the same second part.
LEMMA SameRest ==
    ASSUME NEW C, NEW a \in Seq(C), NEW b \in Seq(C), NEW d \in Seq(C), Joined(a, b, a, d)
    PROVE  b = d
<1>1. Len(a \o b) = Len(a) + Len(b) /\ Len(a \o d) = Len(a) + Len(d)
    OBVIOUS
<1>2. Len(b) = Len(d)
    BY <1>1 DEF Joined
<1> QED
    BY <1>2, SameParts

\* The key of a request that has its names once tells the values from any others of
\* the same lengths for the same path.
LEMMA KeyTells ==
    ASSUME NEW r \in Requests, NEW s \in Requests, Key(r) = Key(s), r.path = s.path,
           NamesOnce(r), NamesOnce(s), DOMAIN ValueOf(r) = DOMAIN ValueOf(s),
           \A name \in DOMAIN ValueOf(r) : Len(ValueOf(r)[name]) = Len(ValueOf(s)[name])
    PROVE  ValueOf(r) = ValueOf(s)
<1>1. PICK a \in Seq(Nat), b \in Seq(Nat) : a = Names(r.query) /\ b = Names(s.query)
    BY RequestIs
<1>2. PICK S : S = ToSet(a)
    OBVIOUS
<1>3. /\ ValueOf(r) = [name \in S |-> FirstValue(r.query, name)]
      /\ ValueOf(s) = [name \in ToSet(b) |-> FirstValue(s.query, name)]
    BY <1>1, <1>2 DEF ValueOf
<1>4. ToSet(b) = S
    BY <1>3
<1>5. IsInjective(a) /\ IsInjective(b)
    BY <1>1 DEF NamesOnce
<1>6. PICK names : names = Sorted(a)
    OBVIOUS
<1>7. names = Sorted(b)
    BY <1>2, <1>4, <1>5, <1>6, SameSorted
<1>8. PICK n \in Nat : DOMAIN a = 1 .. n
    OBVIOUS
<1>9. DOMAIN names = 1 .. n /\ \A k \in 1 .. n : names[k] \in S
    BY <1>2, <1>6, <1>8, SortedIs
<1>10. ASSUME NEW name \in S PROVE \E k \in 1 .. n : names[k] = name
  <2>1. PICK i \in DOMAIN a : name = a[i]
      BY <1>2 DEF ToSet
  <2>2. \A j \in DOMAIN a : \E k \in DOMAIN a : Sorted(a)[k] = a[j]
      BY SortedIs
  <2> QED
      BY <1>6, <1>8, <2>1, <2>2
<1>11. PICK v, w : /\ v = [k \in 1 .. n |-> FirstValue(r.query, names[k])]
                   /\ w = [k \in 1 .. n |-> FirstValue(s.query, names[k])]
    OBVIOUS
<1>12. v = SortedValues(r) /\ w = SortedValues(s)
    BY <1>1, <1>6, <1>7, <1>9, <1>11 DEF SortedValues
<1>13. FlattenSeq(v) = FlattenSeq(w)
  <2>1. PICK p \in Seq(Characters), x \in Seq(Characters), y \in Seq(Characters) :
           p = r.path \o <<":">> /\ x = FlattenSeq(v) /\ y = FlattenSeq(w)
      BY <1>12, KeyIs
  <2>2. Key(r) = p \o x /\ Key(s) = p \o y
      BY <1>12, <2>1, KeyIs
  <2>3. Joined(p, x, p, y)
      BY <2>2 DEF Joined
  <2>4. x = y
      BY <2>3, SameRest
  <2> QED
      BY <2>1, <2>4
<1>14. \A name \in S : FirstValue(r.query, name) \in Seq(STRING) /\ FirstValue(s.query, name) \in Seq(STRING)
    BY <1>1, <1>2, <1>4, RequestIs
<1>15. v \in Seq(Seq(STRING)) /\ w \in Seq(Seq(STRING)) /\ Len(v) = n /\ Len(w) = n
    BY <1>9, <1>11, <1>14
<1>16. \A name \in S : Len(FirstValue(r.query, name)) = Len(FirstValue(s.query, name))
    BY <1>3, <1>4
<1>17. \A k \in 1 .. n : Len(v[k]) = Len(w[k])
    BY <1>9, <1>11, <1>16
<1>18. v = w
  <2> HIDE <1>11
  <2> QED
    BY <1>13, <1>15, <1>17, FlattenTells
<1>19. ASSUME NEW name \in S PROVE FirstValue(r.query, name) = FirstValue(s.query, name)
  <2>1. PICK k \in 1 .. n : names[k] = name
      BY <1>10
  <2>2. v[k] = w[k]
      BY <1>18
  <2> QED
      BY <1>11, <2>1, <2>2
<1> QED
    BY <1>3, <1>4, <1>19

\* A text that is joined begins with its first part.
LEMMA ConcatBegins ==
    ASSUME NEW C, NEW u \in Seq(C), NEW x \in Seq(C), NEW n \in Nat, n = Len(u)
    PROVE  \A i \in 1 .. n : (u \o x)[i] = u[i]
<1>1. PICK m \in Nat : m = Len(x)
    OBVIOUS
<1>2. \A i \in 1 .. n + m : (u \o x)[i] = IF i <= n THEN u[i] ELSE x[i - n]
    BY <1>1, ConcatProperties
<1>3. ASSUME NEW i \in 1 .. n PROVE i \in 1 .. n + m /\ i <= n
    OBVIOUS
<1> QED
    BY <1>2, <1>3

\* Of two paths that end with the same element and are joined to the same text the
\* shorter one is followed by it in the other.
LEMMA ShorterBegins ==
    ASSUME NEW C, NEW p \in Seq(C), NEW q \in Seq(C), NEW c \in C,
           NEW x \in Seq(C), NEW y \in Seq(C),
           Joined(p \o <<c>>, x, q \o <<c>>, y), Len(p) <= Len(q)
    PROVE  p = q \/ IsPrefix(p \o <<c>>, q)
<1>1. PICK u \in Seq(C), w \in Seq(C) : u = p \o <<c>> /\ w = q \o <<c>>
  <2>1. p \o <<c>> \in Seq(C) /\ q \o <<c>> \in Seq(C)
      OBVIOUS
  <2> QED
      BY <2>1
<1>2. PICK n \in Nat, m \in Nat : n = Len(p) /\ m = Len(q) /\ n <= m
    OBVIOUS
<1>3. Len(u) = n + 1 /\ Len(w) = m + 1
    BY <1>1, <1>2
<1>4. PICK t : t = u \o x /\ t = w \o y
    BY <1>1 DEF Joined
<1>5. \A i \in 1 .. n + 1 : t[i] = u[i]
  <2>1. \A i \in 1 .. n + 1 : (u \o x)[i] = u[i]
      BY <1>3, ConcatBegins
  <2> QED
      BY <1>4, <2>1
<1>6. \A i \in 1 .. m + 1 : t[i] = w[i]
  <2>1. \A i \in 1 .. m + 1 : (w \o y)[i] = w[i]
      BY <1>3, ConcatBegins
  <2> QED
      BY <1>4, <2>1
<1>7. <<c>> \in Seq(C)
    OBVIOUS
<1>8. \A i \in 1 .. n : u[i] = p[i]
  <2>1. \A i \in 1 .. n : (p \o <<c>>)[i] = p[i]
      BY <1>2, <1>7, ConcatBegins
  <2> QED
      BY <1>1, <2>1
<1>9. \A i \in 1 .. m : w[i] = q[i]
  <2>1. \A i \in 1 .. m : (q \o <<c>>)[i] = q[i]
      BY <1>2, <1>7, ConcatBegins
  <2> QED
      BY <1>1, <2>1
<1>10. CASE n = m
  <2>1. \A i \in 1 .. n : p[i] = q[i]
      BY <1>5, <1>6, <1>8, <1>9, <1>10
  <2>2. \A o \in Seq(C) : o \in [1 .. Len(o) -> C]
      OBVIOUS
  <2>3. p \in [1 .. n -> C] /\ q \in [1 .. m -> C]
      BY <1>2, <2>2
  <2> QED
      BY <1>10, <2>1, <2>3
<1>11. CASE n < m
  <2>1. ASSUME NEW i \in 1 .. n + 1 PROVE u[i] = q[i]
    <3>1. i \in 1 .. m /\ i \in 1 .. m + 1
        BY <1>11
    <3> QED
        BY <1>5, <1>6, <1>9, <3>1
  <2>2. SubSeq(u, 1, Len(u)) = [i \in 1 .. n + 1 |-> u[i]]
      BY <1>3
  <2>3. SubSeq(q, 1, Len(u)) = [i \in 1 .. n + 1 |-> q[i]]
      BY <1>2, <1>3, <1>11
  <2>4. SubSeq(u, 1, Len(u)) = SubSeq(q, 1, Len(u))
      BY <2>1, <2>2, <2>3
  <2>5. Len(u) <= Len(q)
      BY <1>2, <1>3, <1>11
  <2>6. IsPrefix(u, q)
      BY <2>4, <2>5 DEF IsPrefix
  <2> QED
      BY <1>1, <2>6
<1> QED
    BY <1>2, <1>10, <1>11

\* Requests with the same key have one path, or one path goes on with a colon where
\* the other ends.
LEMMA SamePath ==
    ASSUME NEW r \in Requests, NEW s \in Requests, Key(r) = Key(s)
    PROVE  r.path = s.path \/ BeginsUpToColon(r, s) \/ BeginsUpToColon(s, r)
<1>1. PICK p \in Seq(Characters), q \in Seq(Characters) : p = r.path /\ q = s.path
    BY KeyIs
<1>2. PICK x \in Seq(Characters), y \in Seq(Characters) :
         x = FlattenSeq(SortedValues(r)) /\ y = FlattenSeq(SortedValues(s))
    BY KeyIs
<1>3. PICK c \in Characters : c = ":"
    BY DEF Characters
<1>4. Key(r) = p \o <<c>> \o x /\ Key(s) = q \o <<c>> \o y
    BY <1>1, <1>2, <1>3, KeyIs
<1>5. Joined(p \o <<c>>, x, q \o <<c>>, y) /\ Joined(q \o <<c>>, y, p \o <<c>>, x)
    BY <1>4 DEF Joined
<1>6. CASE Len(p) <= Len(q)
  <2>1. p = q \/ IsPrefix(p \o <<c>>, q)
      BY <1>5, <1>6, ShorterBegins
  <2> QED
      BY <1>1, <1>3, <2>1 DEF BeginsUpToColon
<1>7. CASE Len(q) <= Len(p)
  <2>1. q = p \/ IsPrefix(q \o <<c>>, p)
      BY <1>5, <1>7, ShorterBegins
  <2> QED
      BY <1>1, <1>3, <2>1 DEF BeginsUpToColon
<1>8. Len(p) <= Len(q) \/ Len(q) <= Len(p)
    OBVIOUS
<1> QED
    BY <1>6, <1>7, <1>8

LEMMA RInvNotConfused == RInv => NotConfused
<1> SUFFICES ASSUME RInv, NEW h \in Handlers, InStep(h, "served"),
                    NEW r, NEW s, r = handling[h].request, s = handling[h].response.request
             PROVE  /\ r.path = s.path \/ BeginsUpToColon(r, s) \/ BeginsUpToColon(s, r)
                    /\ /\ r.path = s.path /\ NamesOnce(r) /\ NamesOnce(s)
                       /\ DOMAIN ValueOf(r) = DOMAIN ValueOf(s)
                       /\ \A name \in DOMAIN ValueOf(r) : Len(ValueOf(r)[name]) = Len(ValueOf(s)[name])
                       => ValueOf(r) = ValueOf(s)
    BY DEF NotConfused
<1>1. r \in Requests /\ s \in Requests /\ Key(r) = Key(s)
    BY DEF RInv, RequestsInHand, SameKey
<1> QED
    BY <1>1, KeyTells, SamePath

\* Requests for different paths are not answered for one another unless one path goes
\* on with a colon where the other ends, nor requests for one path with the same
\* names, once each, and values of the same lengths, whatever the order of the names.
THEOREM NoneIsConfused == Spec => []NotConfused
BY InitIInv, InitRInv, StepIInv, StepRInv, RInvNotConfused, PTL DEF Spec

=============================================================================
