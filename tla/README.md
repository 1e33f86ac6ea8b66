# A TLA+ verification project for helloscala

helloscala is a library of Scala and Java modules for web services: sessions,
HTTP servers, caches, JDBC, lifecycle, identifiers and a large set of
utilities.  This directory holds TLA+ models of the parts of it that keep
state or compute something with boundaries, the configurations with which TLC
checks them, and proofs that TLAPS checks.  `PROJECT.json` lists for every
definition the source lines it stands for, for every run what it checks, and
for every hazard of the code the properties that cover it.

## 1. Inventory

| Part | State it keeps | Operations | What is hard | What makes it correct |
|---|---|---|---|---|
| Refreshable sessions (`hs-akka-http-session`: `SessionManager`, `SessionDirectives`, `RefreshTokenStorage`) | records of refresh tokens in a storage behind futures; scheduled removals; the cookies of the clients | `setSession`, `session`, `touch*Session`, `invalidateSession`; `rotateToken`, `sessionFromValue`, `removeToken` | requests of one client with the same token interleave at every future; replies out of order; removal with a delay; failed futures; restarts | a removed token stays removed; a used one is served for its grace period and then goes; no client is locked out; no token is left behind |
| Session cookie, CSRF (`SessionEncoder`, `CsrfDirectives`) | none on the server | encode, decode, submit and compare | expiry boundary, damaged cookies, when a CSRF cookie is set | what is decoded was encoded here and has not expired |
| Time based UUIDs (`UUIDs.java`) | one atomic `lastTimestamp` | `timeBased`, `startOf`, `endOf` | compare-and-set loop of many threads; clock that stands still, jumps back, or more than 10 000 ids in a millisecond | timestamps are unique and increase |
| ObjectId (`ObjectId.scala`) | an atomic counter | `get`, `fromTime` | counter wraps; signed overflow | ids of one second are distinct |
| Application lifecycle (`DefaultAppLifecycle`, `HSBuiltinModule`) | a deque of stop hooks | `addStopHook`, `stop` | hooks that fail or throw, hooks added during a stop, two stops | every hook runs once, last in first out, before `stop` completes |
| HTTP server, pid file (`HSAkkaHttpServer`, `PidFile`) | the futures of two bindings, the pid file, the shutdown hooks of the JVM | start, bind, shutdown | a failed binding racing the shutdown hook; two servers, one file; a process that is killed | the pid file names the server that runs; an application is closed after its ports; every stop ends |
| JDBC (`JdbcTemplate`, `JdbcHelper`, `JdbcUtils`) | connections of a pool and their auto-commit mode; the connection of the caller's transaction | `withTransaction`, `execute`, `javaUpdate`, `doInTransaction` | exceptions at every call; nested use of a caller's connection; swallowed commit errors | commit or roll back, close own connections only, report failures |
| Caches (`CacheMemorySupport`, `CacheRedisDirectives`) | a map of bounded size; a Redis server | find or fetch, save; answer from the cache or store the answer | fetch in flight while a newer value is saved; keys that collide; units of the time to live | what is served belongs to the request and is not stale |
| `ConcurrentReferenceHashMap` | segments of reference lists | get, put, remove, replace, iterate, purge | lock-free reads while a segment is rebuilt; references cleared by the collector | a map per key; counts agree |
| Algorithms, paging, SQL rewriting (`algorithm`, `Page`, `JdbcUtils`) | none | pure functions | boundaries, overflow, loops that do not end | agreement with a reference definition; every call ends |
| API tokens, cryptographic padding, string utilities | none | pure functions | boundaries | agreement with a reference definition |

Sessions meet the storage through futures and the client through cookies.  The
lifecycle's hooks close what injection has made: the actor system, the HTTP
server's binding, the database clients.  JDBC helpers share one connection
source.  Caches sit in front of route results.  Everything else is called and
returns.

## 2. Plan

Done so far, in the order of importance:

1. `RefreshTokens`, `RefreshTokensProofs` - the sessions (section 3).
2. `TimestampOracle`, `UuidClock`, `UuidClockProofs` - time based UUIDs (section 4).
3. `AppLifecycle`, `AppLifecycleProofs` - stop hooks and shutdown (section 5).
4. `JdbcTransactions`, `JdbcTransactionsProofs` - connections and
   transactions (section 6).
5. `ReferenceMap`, `ReferenceMapProofs` - the concurrent reference map (section 7).
6. `HttpServer`, `HttpServerProofs` - server processes, their ports and their pid
   file (section 8).
7. `MemoryCache`, `ResponseCache`, `CachedRoute` which composes them, and
   `CachedRouteProofs` (section 9).
8. `Calls`, `Algorithms`, `Paging`, `SqlText`, `PureCalls` which joins them, and
   `PureCallsProofs` (section 10).

Every invariant that a run checks, except the three whose run finds a violation, is
also a theorem.

Left:

9. Abstract specifications: the life cycle of a token (unissued, live, used,
   gone) that `RefreshTokens` implements; a stack of hooks that a single stop
   of `AppLifecycle` drains; a transaction as one step for `JdbcTransactions`.
10. More functions for `PureCalls`: `ObjectId`, the CSRF comparison, API tokens,
   `toCountSql` and `generateWhere`, padding, and the string operations that have
   boundaries (abbreviate, pad, distances, indexOfAny, split).

To keep the whole project checkable in one go its runs are few and each answers
a question of its own.  The types of the sessions, the UUIDs,
the hooks and the JDBC callers are part of what is proved; the other modules
state theirs as `TypeOK`, which TLC finds to hold on the same instances when it
is added to a run's configuration (no run spends a property on it).

## 3. Refreshable sessions: `RefreshTokens`

| Variable or action | Code |
|---|---|
| `store`, `timers` | `RefreshTokenStorage`: `lookup`, `store`, `remove`, `schedule` |
| `jar` | the session and refresh cookies of a client |
| `req[r].pc` | the continuation a request waits for: a future of the storage, or its reply |
| `Send`, `Receive`, `LoseReply` | the client and the network |
| `ReadSession`, `Lookup`, `Check` | `session` / `touchSession`: `SessionDirectives`, `sessionFromValue` |
| `Rotate` in `Login` and `Check`, `StoreDone` | `setRefreshableSession`, `rotateToken` |
| `Logout`, `RemoveDone` | `invalidateSession`, `removeToken` |
| `RunScheduled` | the storage runs a removal `removeUsedRefreshTokenAfter` later; its future may fail, and nobody looks at it |
| `StorageFails`, `Restart`, `Tick` | failed futures, a restart, the clock |

Every future is a point where requests of one client interleave, including the
call of `storage.store`, which `rotateToken` does not wait for before it
schedules the removal of the old token.

What faults do to tokens, and the properties are stated around: a scheduled
removal whose future fails (`SessionManager.scala:151-153`) is not tried again,
and a restart forgets those that were scheduled in the process; either way the
used token stays in the storage and is good until it expires (`lost` names
exactly these tokens).  A client that loses a reply, also because `storage.store`
failed, keeps a cookie whose token is about to be removed, and the token it
would have got is nobody's (`lossy`); so is one of two that concurrent requests
rotated to (`overlapped`).  Nothing removes tokens that nobody presents.

| Run | Question | Bounds |
|---|---|---|
| `refresh_safety` | Without faults: a removed token stays removed, a used one is served in its grace period, no client is locked out by the order of its own requests and replies. | 1 client, 2 requests in flight, 3 selectors, clock to 3 |
| `refresh_liveness` | When something fails: is the removal of a used token on the way and does it happen in the end, is every token of a client that sends one request at a time in somebody's hand, does every request get its answer? | 1 fault (a damaged cookie, a lost reply, a failed future, a scheduled removal that fails, a restart), 1 request at a time, 3 selectors, clock to 2 |
| `refresh_immediate` | A storage whose `schedule` runs the operation at once (as the in-memory storage does) takes the grace period away: violation of `UsedTokenServedInGrace`. | as the first |

Two requests and three selectors are what a race needs: one token that both
requests carry and the two they rotate it to.  Clients share only the storage,
under selectors that never repeat, so one client stands for all.  The age of a
session (0 or 1) is below that of a token, as in the configuration, so that
refreshing happens.  `MaxFaults` and `MaxTime` bound faults and the clock.

Fairness: the execution context runs continuations that are ready, the storage
answers, a due removal is run and time passes; no client has to send anything
and no fault has to happen.  The proofs have all invariants with any number of
faults and of requests at a time.  Deadlock is not an error in these runs: all
requests may wait for a selector when the bounded pool is used up.

**Proved** in `RefreshTokensProofs`, for every number of clients, selectors and
requests and all ages: `TypeOK`, `RemovedStaysRemoved`, `UsedTokenIsScheduled`
and (for storages that delay) `UsedTokenServedInGrace`.  None of the last three
is inductive.  `IInv` adds seven named parts: what a request holds in each
of its phases (`RequestShape`), that selectors known to clients and requests were
issued (`OnlyIssuedKnown`), that a selector about to be stored is known to its
request alone (`PendingIsPrivate`), that one a client has seen was stored
(`ExposedIsStored`), that a lookup fails only for what was removed
(`NotFoundIsGone`), that no token was used in the future (`UsedInPast`), and that
no removal of a used token is due before its grace period is over
(`TimersKeepGrace`).  The proof reduces every action to one of a few effects on the
storage (remove, rotate, store, none), shows once for each effect that the
parts are kept, and then that each action has such an effect.  Assumptions:
`None` is no selector, number or record, and the ages are natural numbers.

Also proved, for all clients at once: `IdleClientHoldsLiveToken` and
`NoAbandonedToken`.  They need to know whose a token is, which `LInv` adds to
`IInv`.  A client knows a token when its jar holds it, a request of its carries
it, or a reply is to bring it; no two clients know the same token, and its record
names the one that does (`OwnTokens`).  A token on its way to its client has
been seen, used and removed by nobody (`FreshUnseen`).  The heart is `JarTokenLive`: when
the token in a jar is used, the request that used it is still to bring its
successor, and when it is logged out, the reply that deletes the cookie is still on
its way - so a client that waits for nothing holds a good one.  `Course` says what a
request has done to the token it carries, `CarriesJar` that the only request of a
client carries what the jar holds, and `TimersAreForUsed` that timers remove nothing
else.  Steps that draw no selector share the lemmas on `NoneDrawn`; lost replies,
failed futures, failed removals and a restart are one lemma, `DropKeeps`.  Both hold for
storages that delay and for those that do not.
Model-checked only: liveness.

Left out: headers instead of cookies as transport (the code is the same), two
selectors that collide, the expiry of the refresh cookie in the browser, the
format and signature of the session cookie (a damaged one is a fault).

## 4. Time based UUIDs: `UuidClock` and `TimestampOracle`

`timeBased` is a loop of reads and one compare-and-set: `Call`, `ReadClock`,
`ReadLast`, `Update` (the whole decision with its atomic update) and `Return`.
`Tick` and `SetBack` are the system clock.  `MakeMSB` and `TimestampOf` do what
`makeMSB` and `java.util.UUID.timestamp` do, with the widths of the fields as
constants, so that small widths reach every boundary.

`TimestampOracle` is what callers are promised: an answer is greater than every
answer decided before.  `UuidClock` implements it (property `Implements`).

| Run | Question | Bounds |
|---|---|---|
| `uuid_calls` | Are UUIDs distinct, ordered as the calls are, not before `startOf` the time of the call; does `unixTimestamp` tell the time; do calls return? | 2 threads, 4 calls, 2 ticks a millisecond, clock 1 to 3, set back once |

Two ticks a millisecond let two calls fill it; four calls overflow it, and two
threads make every race of the compare-and-set.  With few calls each thread wins
its last race; for unboundedly many the loop is lock-free, not wait-free, so
`CallsReturn` is about bounded contention.  Fairness: threads are scheduled and
the clock goes on.  The runs end when all calls are made.

**Proved** in `UuidClockProofs` for any number of threads, any sizes and any
behaviour of the clock: the invariant `IInv`, `TimestampsDistinct`,
`OrderOfCalls`, `NotBeforeStartOf`, and that every step is a step of the oracle
or none (`ClockImplementsOracle`).  `IInv` adds to the three invariants that
whatever was read or given out is at most `lastTimestamp`, and that a clock value
in hand was shown during the call.

Also proved, as long as timestamps fit the 60 bits of the three fields
(`FitsFields`; for any widths, and until the year 5236 for those of the code):
`UuidsDistinct` and `ReportsItsTime`.  The bits are arithmetic: `FieldsOf` and
`TimestampComesBack` show that `TimestampOf` undoes `MakeMSB`, from the uniqueness of
quotient and remainder, so `MakeMSB` is a bijection from the timestamps to the UUIDs.
For the time, `QInv` says of calls that do not overlap and a clock that is not set back
that no timestamp lies after the millisecond the clock shows (`NotAhead`) nor
after the one in which the call under way began (`CallStarts`); the candidate
therefore comes from the millisecond the call has read (`UpdateTells`), which is why the
branch for a clock that went back cannot be taken.  Model-checked only: `CallsReturn`.

The comment on the loop says that the generator stalls when a millisecond is
full.  It does for a thread that has just read the clock; a thread with a stale
reading finds `lastTimestamp` in a later millisecond than its own, takes that for
a clock that went back, and increments past the end of the millisecond.

Left out: node and clock sequence, which are computed once when the class is
loaded; two processes on one host differ in them only by chance (hazard list).

## 5. Application lifecycle: `AppLifecycle`

`AddStopHook` pushes a hook; `Stop`, `ClearHooks` (`Poll`), `StartHook` and
`EndHook` are `DefaultAppLifecycle.stop`: the chain of futures starts to run on
the execution context while the loop is still polling.  `TerminateSystem`,
`SystemDown` and `ShutdownDone` are the thread of `CommonRoutes.shutdown` behind
its two waits of 60 seconds.  A hook may fail, throw before it returns a future
(`Throwing`) or never complete (`Hanging`).

| Run | Question | Bounds |
|---|---|---|
| `lifecycle_stops` | Is every hook called at most once and by one stop; last in first out, and before the actor system goes, when there is a single stop; does every hook end and every shutdown come to its end? | 2 shutdowns, 3 hooks: the system's, one that may throw, one that may hang; waits may time out |

Three hooks are one before, one after and the system's itself; two stops make
the race for the deque.  `AppLifecycle.stop` is documented as "a future that will
be redeemed once all hooks have executed": that holds for a lone stop only, a
second one finds the deque empty and completes at once.  Fairness: threads and the execution context are
scheduled, the actor system terminates, and hooks that do not hang complete.
Runs end when all shutdowns are over.

**Proved** in `AppLifecycleProofs` for any number of hooks and stops, and whichever
hooks throw or hang: `HookInOnePlace`.  `IInv` states it hook by hook - in the deque
exactly when queued (`InDeque`), in some chain exactly when chained (`InChains`) -
and adds that no sequence repeats a hook (`NoRepetition`), that chains are disjoint,
and that what a stop waits for runs, and for this stop only (`CurrentRuns`), without
which a completion could end a hook twice.  It rests on lemmas about `Head`, `Tail`,
`Append` and `Push` on sequences without repetition, and on `HookAssumption`.

Also proved: the order of the hooks.  `OInv` says that the deque always begins with
the hook added last (`DequeSorted`), that a stop which waits has taken every hook that
was there when it was called (`Polled`), and that whatever has become of a hook, a stop
did it (`StopsAct`; one not yet called has done nothing, `IdleRests`).  Of a stop that
is alone it says that it is never further with a hook than with those added after it
(`LaterAhead`), nor is the actor system terminated while a hook added after it is still to come
(`SystemEndsLast`).  `LaterHooksFirst`, `SystemOutlivesUsers` and
`LoneStopCompletesAfterAll` follow.  The place of a hook in the order of addition is
what `IndexFirstSubSeq` finds; `PlaceOf` and `PlacesKept` say where that is, and that
adding a hook moves no other.
Model-checked only: liveness.

## 6. JDBC: `JdbcTransactions`

Callers use the template or the helper, in a transaction or with a single
statement.  `TxGet`, `TxOff`, `BodyEnds`, `Commit`, `Rollback`, `Restore` and
`Close` are `withTransaction` (and `doInTransaction`, whose switch of auto-commit
lies inside its try); `StGet` to `StClose` are `JdbcTemplate.execute` and
`JdbcHelper._execute`.  Every call of a connection throws when it is broken or
closed (`Dead`, `Throws`), a commit may be refused, and a statement may throw
before or after it wrote.  The data source promises what `javax.sql` does:
connections come as they were closed; a pool that resets them hides what
`PooledIsClean` is about.

| Run | Question | Bounds |
|---|---|---|
| `jdbc_callers` | Are transactions atomic, single statements too; do connections come back as they were and none get lost; do callers end? | 2 callers, one of which may run a single statement, 2 connections, 2 statements each, 1 fault |
| `jdbc_swallowed` | "A failure throws": a single statement whose commit is refused returns its result: violation of `ReportedIsCommitted`. | the same |

Two connections are what two callers need and not enough for two transactions
that each ask for a second one.  A second fault would only break the second
connection as well.  What holds is stated with its exceptions, which are
behaviours of the code: `cut` (a helper statement inside `doInTransaction` closes
the connection of the transaction), a connection that broke and is never closed
because `setAutoCommit` throws first, and callers that wait for each other's
connections because `javaUpdate` drops the one it is given.

One of them deserves a reviewer's eye.  The transaction is rolled back for
`NonFatal` only (`JdbcTemplate.scala:64`, `JdbcHelper.scala:117`).  When its function
ends with any other throwable - a non-local `return` or another `ControlThrowable`,
an `InterruptedException`, an `Error` - `finally` comes next, and its
`setAutoCommit(true)` (lines 69 and 121) commits what the function wrote.  `fatal`
marks such a caller, and `AllOrNothing` says of it what the code does: all rows
are committed, or none when the connection broke before.  A transaction never
leaves a part of its rows either way.

`SingleStatement` leaves out callers whose commit was refused: that their
failure is swallowed is what `ReportedIsCommitted` shows.  `EveryCallEnds` leaves
out the mutual wait just named, which no timeout of the code ends.

Fairness: callers
are scheduled, a free connection is handed out, the function of a transaction
ends.  Runs end when all callers have.

**Proved** in `JdbcTransactionsProofs` for any number of callers, connections,
statements and faults: `TypeOK` and `ConnectionsAccounted`.  `IInv` adds to the type
what a caller has in each of its stages (`CallShape`: a connection of its own only
inside a statement, never the one of its transaction; an open connection when it
comes to `setAutoCommit` or `close`), and states the property caller by caller
(`HeldOnce`, `PooledIsFree`).  The proof shows once that the three effects a step may
have - a connection is taken, closed, or given up broken - keep the last two, and
then that every action has one of them or none.  Assumptions: `PoolAssumption`,
`BoundAssumption`.

The module goes on to `AllOrNothing`, `SingleStatement` and
`PooledIsClean`.  None of them is inductive: they speak of callers that are done
and of connections in the pool.  `AInv` says what holds on the way: rows are
counted, so that the next one is new (`RowsCounted`); what is pending on a
connection is of the caller that has it, and nothing is pending on a broken one
(`PendingIsOfHolder`); where the rows of a caller are in each phase of a
transaction (`TxOK`) and each stage of a single statement (`SingleOK`); and, as
long as no helper statement has closed a transaction's connection, which mode the
connection is in and that nothing is visible before the commit (`UncutTxOK`,
`UncutSingleOK`, `AutoOK`), also behind a throwable that is not rolled back, whose
rows wait on the connection until they are all committed.  A connection that is given up broken is used by nobody
again (`Abandoned`), which is why a transaction that throws after its commit can
be told from one that rolled back.  The proof separates what a step does to the
others (`Interference`, `OthersKeep`), to one connection (`Works`, `StepKeeps`) or to
none (`Rests`, `RestKeeps`), and to its own caller, action by action.
`NextIInv` is used as it stands.  Model-checked only: liveness.

Left out: time limits of `getConnection`, mixing template and helper, the
rewriting of SQL.

## 7. The concurrent reference map: `ReferenceMap`

One segment of `ConcurrentReferenceHashMap`: `table` is `references`, a chain is
a sequence because references never change their `next`, a reference is an entry
and a generation because restructuring copies references.  `Poll`, `Lock`,
`Detach`, `Test`, `Move` and `Publish` are `restructureIfNecessary`; `Put`,
`Replace`, `Remove` and `Clear` the tasks under the lock; `ReadHead`, `Find` and
`Value` the readers without it; `Iterator`, `NextChain` and `NextEntry` the
iterator.  `Collect` and `Enqueue` are the garbage collector: all references to
an entry are cleared at once and enqueued later; one that was replaced, and that
the collector has not reclaimed, may be enqueued too.  `map` is a history
variable: what the calls and the collector have made of the map.

| Run | Question | Bounds |
|---|---|---|
| `refmap_calls` | Is the table the map whenever the lock is free; is every result a value the key had during the call; when can a call miss a key; does an iterator repeat one; does anybody wait forever (deadlock)? | 2 keys in one chain, table of 1 to 2 chains, one thread that writes and one that does everything else, 2 calls each, 1 collected entry |
| `refmap_present` | Is a key that stays in the map found?  Not while a purge has taken its chain apart: violation of `PresentIsFound`. | the same |

`MissExplained` says that the purge in place is one of only two ways to miss a
key.  The other is the count: it is lowered by references that had already left
the table (through `clear`, or an older generation), and a count of zero hides
whatever is there.  Four calls suffice for resize, purge, removal and a reader
beside them.  A larger instance (3 threads, 3 keys, 6 calls, all operations,
tables to 4 chains) was explored by random simulation without a violation.  The
elements of the table are read without synchronisation; a stale element is one
the reader could have read a moment before.

**Proved** in `ReferenceMapProofs` for any number of threads, keys, chains, calls
and collected entries: `TableIsMap`, `ResultsAreCurrent`, `MissExplained` and
`IteratesOnce`, by two inductive invariants.

`TInv` is about the table.  References and entries are ones that were made, no
chain has two references to an entry, each is in the chain of its key, and what
was not cleared is the map's (`IsTable`, `CurrentTable`); only cleared references
wait for a purge (`DeadQueued`).  The table has the map (`HoldsMap`) unless a
rebuild in place is under way, which is what makes `TableIsMap` not inductive.
`Working` says where the map is meanwhile: each key's entry is in a chain still to
come, in the chain at hand or in the table that is built.

`CInv` is about the calls.  `TInv` knows nothing of the chains that left the table,
and a reader, the second half of a `get` or an iterator goes on in them.  What a
reader can still find in its chain it has seen, and it is the map's unless the
key has been without a value meanwhile (`SeesChain`); a call that has found nothing
has a reason (`HasReason`); an iterator is in the chains of one table that has
been the segment's, and the keys it gave are of earlier chains or no longer in
the one at hand (`Iterating`).  The proof separates what all steps keep for those
that look on (`Steady`, `Watches`) from what a step does to its own call, action by
action.

Assumptions: those on the constants that `ReferenceMap` states.  Model-checked only:
that nobody waits for ever (deadlock), and the violation of `PresentIsFound`.

## 8. Server processes: `HttpServer`

| Variable or action | Code |
|---|---|
| `pidFile`, `streams`, `OpenPidFile`, `WritePidFile`, `AddPidHook`, `DeletePidFile` | `PidFile.create` in its three steps, and the hook that deletes the file |
| `main`, `BindHttp`, `BindHttps`, `AddServerHook` | the main thread in `startServer` |
| `binding`, `Bound`, `Unbind` | `bindingFuture`, `httpsBindingFuture`, and Akka that completes them |
| `callback`, `CloseAfterFailure`, `ExitAfterFailure` | `afterHttpBindingFailure` on the dispatcher |
| `shutdown`, `AwaitUnbound`, `Close` | the hook that runs `shutdown` |
| `jvm`, `hooks`, `Exit`, `Signal`, `Kill`, `Ended` | the JVM: the first exit starts the hooks, a later one blocks its thread, and the other threads go on until it halts |

Processes share the path of the pid file and the ports.  A write goes to the
file that was opened, also when another process has deleted it meanwhile, and
what two writers leave may be a mixture of two numbers (`Mixed`).

| Run | Question | Bounds |
|---|---|---|
| `http_server` | Is the pid file true, is an application closed only after its ports, does every stop end; does anything wait forever (deadlock)? | 2 processes, both ports, 1 fault (the file cannot be written or deleted, the key store not read, or somebody else holds a port) |

Two processes are the running server and the one that should not have been
started, or a process that was killed and its successor.  What holds is stated
with its exceptions, which are behaviours of the code: a second server takes
the file of the first and deletes it when it cannot bind (`overlapped`); the
file stays and names a process that has ended (`unclean`) when the process was
killed, when it was stopped before it had registered the hook that deletes the
file - also before the write, since the main thread goes on and writes - and when
the deletion fails, which the hook only throws (`PidFile.scala:76-81`, "with best
effort" at line 35); a binding that fails closes the application while the other
port serves or is bound afterwards; a wait of 60 seconds may run out, which is a
choice that is always there.  Fairness: the threads and hooks of a living
process are scheduled and the waits time out; Akka may never answer and nobody
has to stop a server.

**Proved** in `HttpServerProofs` for any number of processes and faults:
`PidFileTrue` and `OpenWhileServing`.  For the first, `IInv` says what the process
that the file names still has to do (`NamedWillDelete`: it is about to register
its hook, or has it, or is unclean; a hook whose deletion fails makes it so), that an exit before the registration is
recorded, and that a process that overlapped no other is alone and finds in the
file what it put there (`LoneIsAlone`, `LoneKeepsFile`).  For the second,
`ServerInv` speaks of one process at a time: ports are bound in the order of
`startServer` and the hook comes last, a callback has a failed binding behind it,
and `shutdown` closes only after its waits.  Model-checked only: `EveryStopEnds`.

Left out: servers with different ports on one pid file,
and what `close` does (section 5 has the lifecycle).  In particular `close` neither
throws nor hangs here: in `afterHttpBindingFailure` it would keep `System.exit` from
being called, and `EveryStopEnds` does not speak of that.

## 9. Two caches: `MemoryCache`, `ResponseCache`, `CachedRoute`

`MemoryCache` is `CacheMemorySupport`: `FindCache` looks, `Fetch` is the function
it calls, `Fill` what it does with its answer, `Update` and `SaveCache` a caller
that changes the source and saves the new value, `Evict` Guava.  `ResponseCache`
is `cacheRedisOnParameters`: `Key`, `Hit`, `Miss`, and, after the inner route,
`Respond` and `Store`; every step may fail where Redis is asked.  `CachedRoute`
composes them: the route under the directive finds its data with `findCache`.

| Run | Question | Bounds |
|---|---|---|
| `cached_route` | Is a value in the memory cache the current one; is an answer that of the request; do answers become current when the data rests; does anything wait forever (deadlock)? | 2 handlers, 1 writer, 1 value that changes twice, 3 requests, entries live 2 seconds |

A handler, a second one that fills at the same time and a writer make every
overlap of a fill; two changes make a stale value differ from the first.  The
requests are those keys may mix up: two parameters in either order with
exchanged values, and a path that goes on with a colon and the values of
another request, `p:x` beside `p` with the values `x` and `:`, whose key it has.
`MillisPerSecond` is 2
instead of 1000: entries live that many times longer than configured, which
delays current answers and does not prevent them.  Fairness: futures and
callbacks are run and time passes in Redis.

Behaviours of the code that the properties are stated around: a fetch that meets
a change leaves the old value in the memory cache for good (`overlapped`; the two
properties about values except those keys and do not catch it); different requests
share a key when path, colon and values join to the same text - `/a:b` with the
value `c` and `/a` with the value `b:c` are answered for one another - or when they
differ in names only or in the second value of a name; an answer lives a thousand
times as long as configured, which no property measures; a response that is not JSON fails
the requests that find it, and one with any status is served again with the
status 200; requests without parameters are cached, although the comment
(`CacheRedisDirectives.scala:45`) says otherwise; the trait ignores
`isEncodeCacheKey`.

**Proved** in `CachedRouteProofs` for any number of handlers, callers, keys,
requests and changes: `FreshOrOverlapped`.  It is not inductive: a caller that has
fetched a value will put it later.  `InHandIsFresh` adds what is true of such a caller
as long as the key was not overlapped - the value it holds is the one the source
has - and `Unused` that a cache that is not enabled stays empty.  The proof first
reduces every step of the composition to a step of the memory cache or none.
Also proved is `NotConfused`, for queries of any length, in two halves.  The first is
about steps: a handler serves only a response that was made for a request with the
same key (`AnswersHaveTheKey`), by `RInv`, which says it of the responses in Redis and
in hand (`StoredUnderItsKey`, `RequestsInHand`).  The second is about the key.  The
sorted names are defined by rank, as the least name that has so many names up to it,
and not by a fold, so that two queries with the same names sort to the same sequence
(`SameSorted`) by counting.  The key is one text, path, colon and values without a
separator; parts that have the same lengths can be read off it again (`FlattenTells`,
by induction on the number of parts), so equal keys of one path mean equal values
(`KeyTells`).  Of two different paths with the same key the shorter one ends where the
other goes on with a colon (`ShorterBegins`, `SamePath`), which is why the property
excepts such paths and no others.  Assumptions: `ResponseCacheAssumption` (a path is a
text, a query a sequence of names with values); names stand for texts by their order,
so they are numbers.  Model-checked only: `AnswersBecomeCurrent`.

## 10. Functions: `Algorithms`, `Paging`, `SqlText`, `PureCalls`

A call is a record (`Calls`): the function, its arguments, its local variables,
in the end its result or exception.  The loop or recursion of the function is
run one turn a step, so that a loop that does not end is a behaviour and not an
error of the checker.  The largest `Int` is a constant, `IntMax`: 2^31 - 1 in the
code, 15 in the run.  `Init` of `PureCalls` are all calls with arguments of any size;
the run takes those of `MCInit` among them.

| Run | Question | Bounds |
|---|---|---|
| `pure_calls` | Is the result that of a reference definition, and does the call end? | breadth first: 4 nodes, up to 2 neighbours each; Dijkstra: 4 nodes, 6 edges of 3 costs, edges back to start; greedy: 3 stations, 3 states; lists of up to 4, and lists of 5 to 15 elements to search; 9 rows, pages of up to 5; statements of 6 characters, colons among them; Ints of 5 bits |

| Functions | Reference definition |
|---|---|
| `breadthFirstSearch` | a wanted node that some walk of the least length ends at |
| `dijkstraSearch` | the least cost among all paths that visit a node once |
| `greedys` | a cover of no more stations than states |
| `genericBinarySearch`, `genericQuicksort`, `recursiveSum` | the index, the sorted list, the sum modulo the width of an Int |
| `Page.offset`, `totalPages` | a client that asks for page after page sees every row once, as long as no sum or product is more than an Int (`PagesFit`) |
| `namedParameterToQuestionMarked` | the names between question marks and terminators, each with its number |

Calls that have no end, and which `CallsEnd` shows to be all that have none:
`greedys` with a state in no station's set; `genericBinarySearch` for an absent
item greater than the first element; `dijkstraSearch` whose start is its own
neighbour.  Calls that throw: `dijkstraSearch` on an edge that leads back to
start, or on a node that is reached and no key; pages of size 0;
`genericBinarySearch` when `low + high` is more than the largest `Int`
(`Searchs.scala:33`), so that the middle is negative.  That takes a list of more
than half as many elements as there are indices - more than 2^30 in the code, a
`Range` may be that long, 9 to 15 in the run - and an item far back in it
(`SumTooLarge`); a search for an absent item may then throw instead of running for
ever.  Other results
worth knowing: `PageInput(params)` starts at the page whose number is the default
size; `totalPages` counts one page too many when the last is full, and too few
when the size is above the largest allowed (the expected pages are computed with
`TotalPages` and `SafeSize` themselves, so `PagesListAll` accepts both); a named
parameter that no comma or parenthesis follows is not bound, and what follows it is
lost; `breadthFirstSearch` looks at its start only if an edge leads to it, where
`Graphs.scala:30` says that the comparison is called for every node.

A disagreement of code and comment, for which there is no violated property: the comment over
`namedParameterToQuestionMarked` (`JdbcUtils.scala:79`) says that all `:name` parameters
are replaced by `?` ("将所有 :name 命名参数替换成?").  The code, and the test
(`JdbcUtilsTest.scala:34`), take `?name`; a colon is a character like any other.  A
statement with `:name` parameters comes back as it was, with nothing bound, and its
parameters are not set.  `NamesBound` says what the code does: it requires just that of
statements without question marks, colons among their characters.

Costs near the
largest Int are outside `PathIsShortest` (their sums overflow).  Fairness: the
thread of the call runs.  The run ends when the call does.

**Proved** in `PureCallsProofs` for arguments of any size and `Int`s of any width:
`ResultsRight`, `PagesListAll`, `NearestFound`, `PathIsShortest` and `NamesBound`.  Each
property speaks of the result alone; for each function an invariant (`GreedyOK`,
`BinarySearchOK`, `QuicksortOK`, `SumOK`, `PagesOK`, `SearchOK`, `DijkstraOK`, `SqlOK`)
says what its local variables have to do with its arguments after any number of turns.
It is proved that the function starts with it, that a turn keeps it, and that the
property follows when the call has ended.

- `greedys`: what is no longer needed is covered by the stations chosen, and every
  station was chosen for a state of its own, so there are no more of them than states.
- `genericBinarySearch`: if the item is in the list it is between the bounds; the
  middle is that of the bounds, or negative if their sum is no `Int` (`MiddleIs`), and
  then the element before the lower bound shows that the item is so far back.
- `genericQuicksort`: the lists on the stack are in order and come after what is
  sorted (`StackInOrder`), and all of them together have every element as often as
  the list (`SortedSoFar`).  A list that is split keeps its place (`SortedSplits`).
- `recursiveSum`: the sum so far and that of the rest differ from the sum of the list
  by a multiple of `IntSize` (`SumSoFar`).
- Pages: the rows so far are those between the offsets of the first page and of the
  next (`Paged`).
- `breadthFirstSearch`: a node has a level, the length of the shortest walk that ends
  at it (`Levels`).  What was taken from the queue was not wanted and has its
  neighbours searched; the queue is in the order of the levels, of two adjacent levels
  at most, and what was taken from it is of no higher level (`SearchSoFar`).
- `dijkstraSearch`: every node with a cost is the end of a branch along `parents` that
  has this cost; no processed node costs more than one that is not, and no neighbour of
  a processed node more than the way through it (`TreeOK`).  When no node is left
  (`AllTaken`) any path can be compared with the costs node by node (`PathsSeen`), and
  the way back from the end is the rest of its branch (`Following`).
- `namedParameterToQuestionMarked`: after n characters the text so far is what lies up
  to n outside names (`TextSoFar`), the names that have ended are bound to the number
  of their last mark (`NamesSoFar`), and the name under way is what follows the mark
  before n.

Also proved is the half of `CallsEnd` that is safety: a call of one of the three kinds
that have no end never ends (`EndlessGoOn`).  greedys chooses only stations there are
(`StationsKnown`), so what it returns would cover what no station does; in a search
for an absent item above the first element low is never above high by more than one
(`AbsentGoesOn`), and the loop returns only when the middle is above high - a sum of
the two that is no `Int` makes it throw, which `EndlessGoOn` names (`SearchOverflowed`); on the way back from the end
every node has a parent when start is its own (`LoopGoesOn`).

Induction over the data - lists, walks, paths, counts - is over the length, with the
induction written out for a set of numbers (`AllNumbers`, `NumbersUpTo`: the least number
that is not in it).  Assumptions: those on the constants (`CallsAssumption`: `IntMax` is a
number greater than zero, `AlgorithmsAssumption`: finitely many nodes, `PagingAssumption`).
Preconditions are those of `Init`: costs are not negative, a list to be searched is sorted
and its length is an `Int`.
Model-checked only: that every other call ends (`CallsEnd`).

## 11. What is not modelled

`PROJECT.json` names for every other part of the repository why: it is planned
(section 2), keeps no state, or is a layer over a library.  The ciphers,
Jackson, Akka HTTP, the drivers of Cassandra, Elasticsearch and Redis and the
reflection utilities stay outside.

All invariants of the passing runs are proved.  Model-checked only is what the
prover has no means for: liveness under fairness (`CallsReturn`, `EveryStopEnds`,
`AnswersBecomeCurrent`, `CallsEnd` and those of the sessions, the hooks and the JDBC
callers), the absence of deadlock, and the violations of the three runs that expect one.
