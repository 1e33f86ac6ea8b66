---------------------------- MODULE CachedRoute ----------------------------
(***************************************************************************)
(* A route under cacheRedisOnParameters whose handler finds its data with  *)
(* findCache: the answer of a request passes two caches.  Handlers are the *)
(* callers of the memory cache, and callers that change the data.          *)
(***************************************************************************)
EXTENDS MemoryCache, ResponseCache

CONSTANT Item   \* the key of the data the route answers with

ASSUME CachedRouteAssumption == Item \in Keys /\ Handlers \subseteq Callers

memoryVars == <<enableCache, cache, source, call, overlapped>>
vars == <<redisVars, memoryVars>>

Writers == Callers \ Handlers

Init == ResponseInit /\ MemoryInit

------------------------------------------------------------------------------

\* A request comes to the directive; when its key is not in Redis the route is
\* run, which looks into the memory cache.
Receive(h) ==
    \/ \E r \in Requests :
          \/ Hit(h, r) /\ UNCHANGED memoryVars
          \/ Miss(h, r) /\ FindCache(h, Item)
    \/ LookupFails(h) /\ UNCHANGED memoryVars

\* The route completes with what findCache found; it rejects when there is no
\* value or the future failed.
Complete(h) ==
    /\ Return(h)
    /\ IF At(h, "done") /\ call[h].value # None
       THEN Respond(h, call[h].value)
       ELSE Reject(h)

Finish(h) == (Store(h) \/ StoreFails(h) \/ Sent(h)) /\ UNCHANGED memoryVars

Handle(h) == Complete(h) \/ Finish(h) \/ (CallStep(h) /\ UNCHANGED redisVars)

Write(w) == CallStep(w) /\ UNCHANGED redisVars

Next ==
    \/ \E h \in Handlers : Receive(h) \/ Handle(h)
    \/ \E w \in Writers : Write(w) \/ ((\E k \in Keys : Update(w, k)) /\ UNCHANGED redisVars)
    \/ (\E k \in Keys : Evict(k)) /\ UNCHANGED redisVars
    \/ Second /\ UNCHANGED memoryVars

\* Futures and callbacks are run, and time passes in Redis.
Fairness ==
    /\ \A h \in Handlers : WF_vars(Handle(h))
    /\ \A w \in Writers : WF_vars(Write(w))
    /\ WF_vars(Second /\ UNCHANGED memoryVars)

Spec == Init /\ [][Next]_vars /\ Fairness

------------------------------------------------------------------------------

\* When the data does not change any more, the answers become current and stay
\* so, even for requests that hit the cache all the time, unless the memory
\* cache kept an old value of a change that met a fetch.  (Redis lets an entry
\* go after its time, whether it was hit or not.)
AnswersBecomeCurrent ==
    <>[](\A h \in Handlers :
           InStep(h, "served") =>
              handling[h].response.version = source[Item] \/ Item \in overlapped)

TypeOK ==
    /\ redis \in [CacheKeys -> {NoEntry} \cup
                    [response : [request : Requests, version : 1 .. MaxUpdates],
                     ttl : 1 .. Lifetime]]
    /\ \A h \in Handlers :
          handling[h].pc \in {"idle", "route", "store", "served", "failed"}
    /\ enableCache \in BOOLEAN
    /\ cache \in [Keys -> Versions] /\ source \in [Keys -> Versions]
    /\ \A c \in Callers :
          /\ call[c].pc \in {"idle", "fetch", "fetched", "save", "done", "failed"}
          /\ call[c].key \in Keys /\ call[c].value \in Versions
    /\ overlapped \subseteq Keys

==============================================================================
