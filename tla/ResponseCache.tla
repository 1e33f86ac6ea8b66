--------------------------- MODULE ResponseCache ---------------------------
(***************************************************************************)
(* cacheRedisOnParameters: a request is answered from Redis if its key is  *)
(* there, otherwise by the inner route, whose response is stored under the *)
(* key after it was sent.                                                  *)
(***************************************************************************)
EXTENDS Integers, Sequences, SequencesExt, FiniteSetsExt

CONSTANTS
    Handlers,   \* requests that are handled at the same time
    Requests,   \* records with a path and a query, a sequence of names with values;
                \* paths and values are sequences of characters
    TextRequests, \* those whose response has a body that is not JSON
    Expiry,     \* expiry, in seconds
    MillisPerSecond, \* 1000, and less in small instances
    NoEntry

ASSUME ResponseCacheAssumption ==
    /\ \A r \in Requests :
          r.path \in Seq(STRING) /\ r.query \in Seq([name : Nat, value : Seq(STRING)])
    /\ TextRequests \subseteq Requests
    /\ Expiry \in Nat \ {0} /\ MillisPerSecond \in Nat \ {0}

VARIABLES
    redis,      \* entry of every key: the response and its time to live in seconds
    handling    \* of every handler: the step, the request and the response

redisVars == <<redis, handling>>

\* setex takes seconds and is given expiry.toMillis.
Lifetime == Expiry * MillisPerSecond

Names(q) == [i \in DOMAIN q |-> q[i].name]

\* Uri.Query.get: the first value of a name.
FirstValue(q, name) == q[Min({i \in DOMAIN q : q[i].name = name})].value

\* The names in their order, a repeated one every time it occurs.
Sorted(names) ==
    LET UpTo(name) == {i \in DOMAIN names : names[i] <= name}
    IN [k \in DOMAIN names |-> Min({name \in ToSet(names) : Cardinality(UpTo(name)) >= k})]

\* Mutant: the values in the order of the request.
KeyUnsorted(r) ==
    r.path \o <<":">> \o FlattenSeq([i \in DOMAIN r.query |-> r.query[i].value])

\* The key is one text: the path, a colon and the values one after the other.  A
\* path and a value may hold colons themselves.  The SHA-1 of the text is taken to
\* be as good as the text, and it is never blank.
Key(r) ==
    LET names == Sorted(Names(r.query))
    IN r.path \o <<":">> \o FlattenSeq([i \in DOMAIN names |-> FirstValue(r.query, names[i])])

CacheKeys == {Key(r) : r \in Requests}

Idle == [pc |-> "idle"]
Failed == [pc |-> "failed"]

ResponseInit ==
    /\ redis = [k \in CacheKeys |-> NoEntry]
    /\ handling = [h \in Handlers |-> Idle]

InStep(h, pc) == handling[h].pc = pc

Step(h, state) == handling' = [handling EXCEPT ![h] = state]

------------------------------------------------------------------------------

\* Mutant: a hit is kept for another lifetime.
HitExtends(h, r) ==
    /\ InStep(h, "idle") /\ redis[Key(r)] # NoEntry
    /\ LET response == redis[Key(r)].response
       IN Step(h, IF response.request \in TextRequests THEN Failed
                  ELSE [pc |-> "served", request |-> r, response |-> response])
    /\ redis' = [redis EXCEPT ![Key(r)].ttl = Lifetime]

\* The body in the cache is read as JSON - what is not JSON fails the request -
\* and sent with the status 200, whatever the status of the response was.
Hit(h, r) ==
    /\ InStep(h, "idle") /\ redis[Key(r)] # NoEntry
    /\ LET response == redis[Key(r)].response
       IN Step(h, IF response.request \in TextRequests THEN Failed
                  ELSE [pc |-> "served", request |-> r, response |-> response])
    /\ UNCHANGED redis

Miss(h, r) ==
    /\ InStep(h, "idle") /\ redis[Key(r)] = NoEntry
    /\ Step(h, [pc |-> "route", request |-> r])
    /\ UNCHANGED redis

\* Redis does not answer: the exception fails the request.
LookupFails(h) ==
    /\ InStep(h, "idle")
    /\ Step(h, Failed)
    /\ UNCHANGED redis

\* mapResponse: the response of the inner route is sent and goes on to the
\* cache, whatever the method of the request and the status.
Respond(h, version) ==
    /\ InStep(h, "route")
    /\ Step(h, [pc |-> "store",
                response |-> [request |-> handling[h].request, version |-> version]])
    /\ UNCHANGED redis

\* The route rejects or throws: there is no response to map.
Reject(h) ==
    /\ InStep(h, "route")
    /\ Step(h, Idle)
    /\ UNCHANGED redis

\* setex in the callback of toStrict.
Store(h) ==
    /\ InStep(h, "store")
    /\ redis' = [redis EXCEPT ![Key(handling[h].response.request)] =
                    [response |-> handling[h].response, ttl |-> Lifetime]]
    /\ Step(h, Idle)

\* The body does not end within 10 seconds, or Redis fails; it is logged, or not.
StoreFails(h) ==
    /\ InStep(h, "store")
    /\ Step(h, Idle)
    /\ UNCHANGED redis

Sent(h) ==
    /\ InStep(h, "served") \/ InStep(h, "failed")
    /\ Step(h, Idle)
    /\ UNCHANGED redis

\* A second passes in Redis.
Second ==
    /\ \E k \in CacheKeys : redis[k] # NoEntry
    /\ redis' = [k \in CacheKeys |->
                    IF redis[k] = NoEntry \/ redis[k].ttl = 1 THEN NoEntry
                    ELSE [redis[k] EXCEPT !.ttl = @ - 1]]
    /\ UNCHANGED handling

------------------------------------------------------------------------------

Values(r) == [i \in DOMAIN r.query |-> r.query[i].value]
NamesOnce(r) == IsInjective(Names(r.query))
BeginsUpToColon(r, s) == IsPrefix(r.path \o <<":">>, s.path)
ValueOf(r) == [name \in ToSet(Names(r.query)) |-> FirstValue(r.query, name)]

\* Requests for different paths are not answered for one another, unless one path
\* goes on with a colon where the other ends: /a with the value b:c has the key of
\* /a:b with the value c, and each gets the response of the other.  Requests for
\* one path that have the same names, once each, and values of the same lengths are
\* not answered for one another: the order in the query does not matter, and the
\* values of different names are not exchanged.  Nothing more keeps the keys of
\* different requests apart.  (cacheRedisOnParameters)
NotConfused ==
    \A h \in Handlers :
       InStep(h, "served") =>
          LET r == handling[h].request
              s == handling[h].response.request
          IN /\ r.path = s.path \/ BeginsUpToColon(r, s) \/ BeginsUpToColon(s, r)
             /\ /\ r.path = s.path /\ NamesOnce(r) /\ NamesOnce(s)
                /\ DOMAIN ValueOf(r) = DOMAIN ValueOf(s)
                /\ \A name \in DOMAIN ValueOf(r) : Len(ValueOf(r)[name]) = Len(ValueOf(s)[name])
                => ValueOf(r) = ValueOf(s)

==============================================================================
