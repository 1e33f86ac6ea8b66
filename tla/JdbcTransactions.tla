-------------------------- MODULE JdbcTransactions --------------------------
(***************************************************************************)
(* JdbcTemplate.withTransaction and execute, JdbcHelper.doInTransaction    *)
(* and execute: callers that borrow connections of one DataSource, switch  *)
(* auto-commit off, run statements, commit or roll back, restore and close *)
(* - with an exception possible at every JDBC call.                        *)
(*                                                                         *)
(* A caller does one thing: a transaction whose function runs statements,  *)
(* or a single statement.  Each statement writes one row.  A statement in  *)
(* a transaction may use the connection of the transaction or, when the    *)
(* implicit connection is not passed on (javaUpdate drops it), one of its  *)
(* own.  A broken connection throws at every call, and what was pending on *)
(* it is rolled back.  The DataSource promises no more than javax.sql: it  *)
(* hands connections out as they were closed.                              *)
(***************************************************************************)
EXTENDS Integers, FiniteSets

CONSTANTS
    Callers,
    Singles,        \* callers that may run a single statement
    Conns,          \* the connections of the DataSource
    None,
    UseTransaction, \* the constructor argument _useTransaction
    MaxStatements,  \* bound: statements of a caller
    MaxFaults       \* bound: connections that break and commits that fail

ASSUME PoolAssumption ==
    Singles \subseteq Callers /\ None \notin Conns /\ UseTransaction \in BOOLEAN
ASSUME BoundAssumption == MaxStatements \in Nat /\ MaxFaults \in Nat

VARIABLES
    conns,  \* the connections: in the pool?, auto-commit, broken, pending rows
    db,     \* committed rows
    call,   \* the callers
    faults, \* bound
    cut,    \* history: a helper statement closed a transaction's connection
    lied    \* history: callers whose commit failed
vars == <<conns, db, call, faults, cut, lied>>

Rows == Callers \X (1 .. MaxStatements)

Kinds == {"template", "helper"}

\* A caller: the stage of its transaction and of the statement it runs, the
\* connection of each, whether the connection of the transaction is still open,
\* the rows written through it, commitSuccess, the outcome so far, and whether the
\* function of its transaction ended with a throwable that NonFatal lets pass.
Call ==
    [kind : Kinds, tx : BOOLEAN,
     pc : {"get", "off", "body", "commit", "rollback", "restore", "close", "over"},
     stage : {"none", "get", "off", "run", "finish", "restore", "close"},
     conn : Conns \cup {None}, open : BOOLEAN, own : Conns \cup {None},
     count : 0 .. MaxStatements, rows : SUBSET Rows, done : BOOLEAN, ok : BOOLEAN,
     fatal : BOOLEAN]

Init ==
    /\ conns = [c \in Conns |-> [pooled |-> TRUE, auto |-> TRUE, broken |-> FALSE,
                                 pending |-> {}]]
    /\ db = {}
    /\ \E kind \in Kinds, singles \in SUBSET Singles :
          call = [p \in Callers |->
                    [kind |-> kind, tx |-> p \notin singles,
                     pc |-> IF p \in singles THEN "body" ELSE "get",
                     stage |-> IF p \in singles THEN "get" ELSE "none",
                     conn |-> None, open |-> FALSE, own |-> None,
                     count |-> 0, rows |-> {}, done |-> FALSE, ok |-> TRUE,
                     fatal |-> FALSE]]
    /\ faults = 0
    /\ cut = FALSE
    /\ lied = {}

------------------------------------------------------------------------------
(* java.sql.Connection and javax.sql.DataSource.                           *)

\* A connection is taken out of the pool.
Borrowed(c) == conns' = [conns EXCEPT ![c].pooled = FALSE]

\* close: what is pending is rolled back, a broken connection is replaced.
Closed(c) ==
    [conns EXCEPT ![c] =
       [pooled |-> TRUE, auto |-> @.auto \/ @.broken, broken |-> FALSE, pending |-> {}]]

\* commit: everything pending on c becomes permanent.
Committed(c) ==
    /\ db' = db \cup conns[c].pending
    /\ conns' = [conns EXCEPT ![c].pending = {}]

RolledBack(c) ==
    /\ conns' = [conns EXCEPT ![c].pending = {}]
    /\ UNCHANGED db

\* setAutoCommit(true) commits what is pending.
SwitchedOn(c) ==
    /\ db' = db \cup conns[c].pending
    /\ conns' = [conns EXCEPT ![c].pending = {}, ![c].auto = TRUE]

SwitchedOff(c) ==
    /\ conns' = [conns EXCEPT ![c].auto = FALSE]
    /\ UNCHANGED db

Written(c, row) ==
    IF conns[c].auto
    THEN db' = db \cup {row} /\ UNCHANGED conns
    ELSE conns' = [conns EXCEPT ![c].pending = @ \cup {row}] /\ UNCHANGED db

\* A connection that is in use breaks.
Break(c) ==
    /\ faults < MaxFaults
    /\ ~conns[c].pooled /\ ~conns[c].broken
    /\ faults' = faults + 1
    /\ conns' = [conns EXCEPT ![c].broken = TRUE, ![c].pending = {}]
    /\ UNCHANGED <<db, call, cut, lied>>

\* A commit is refused: the database rolls back and the call throws.
CommitRefused(p, c) ==
    /\ faults < MaxFaults
    /\ faults' = faults + 1
    /\ lied' = lied \cup {p}
    /\ RolledBack(c)

------------------------------------------------------------------------------
(* Transactions: withTransaction and doInTransaction.                      *)

\* The connection of p's transaction throws at any call.
Dead(p) == ~call[p].open \/ conns[call[p].conn].broken

Proceed(p, pc) == call' = [call EXCEPT ![p].pc = pc]

Failed(p, pc) == call' = [call EXCEPT ![p].pc = pc, ![p].ok = FALSE]

TxGet(p) ==
    /\ call[p].pc = "get"
    /\ \E c \in {x \in Conns : conns[x].pooled} :
          /\ Borrowed(c)
          /\ call' = [call EXCEPT ![p].pc = "off", ![p].conn = c, ![p].open = TRUE]
    /\ UNCHANGED <<db, faults, cut, lied>>

\* setAutoCommit(false); withTransaction calls it before its try.
TxOff(p) ==
    LET c == call[p].conn IN
    /\ call[p].pc = "off"
    /\ \/ ~Dead(p) /\ SwitchedOff(c) /\ Proceed(p, "body")
       \/ /\ Dead(p)
          /\ Failed(p, IF call[p].kind = "template" THEN "over" ELSE "rollback")
          /\ UNCHANGED <<conns, db>>
    /\ UNCHANGED <<faults, cut, lied>>

\* The function of the transaction returns, or throws.  A throwable that NonFatal
\* does not match (a non-local return, an interrupt, an Error) is not caught:
\* finally comes next.
BodyEnds(p) ==
    /\ call[p].tx /\ call[p].pc = "body" /\ call[p].stage = "none"
    /\ \/ Proceed(p, "commit")
       \/ Failed(p, "rollback")
       \/ call' = [call EXCEPT ![p].pc = "restore", ![p].ok = FALSE, ![p].fatal = TRUE]
    /\ UNCHANGED <<conns, db, faults, cut, lied>>

Commit(p) ==
    LET c == call[p].conn IN
    /\ call[p].pc = "commit"
    /\ \/ ~Dead(p) /\ Committed(c) /\ Proceed(p, "restore") /\ UNCHANGED <<faults, lied>>
       \/ ~Dead(p) /\ CommitRefused(p, c) /\ Failed(p, "rollback")
       \/ Dead(p) /\ Failed(p, "rollback") /\ UNCHANGED <<conns, db, faults, lied>>
    /\ UNCHANGED cut

\* Mutant: an exception is handed on without a rollback.
NoRollback(p) ==
    /\ call[p].pc = "rollback"
    /\ Proceed(p, "restore")
    /\ UNCHANGED <<conns, db, faults, cut, lied>>

Rollback(p) ==
    /\ call[p].pc = "rollback"
    /\ Proceed(p, "restore")
    /\ IF Dead(p) THEN UNCHANGED <<conns, db>> ELSE RolledBack(call[p].conn)
    /\ UNCHANGED <<faults, cut, lied>>

\* Mutant: the mode of the connection is not restored.
NoRestore(p) ==
    /\ call[p].pc = "restore"
    /\ Proceed(p, "close")
    /\ UNCHANGED <<conns, db, faults, cut, lied>>

\* finally: setAutoCommit; when it throws, close is not reached.
Restore(p) ==
    /\ call[p].pc = "restore"
    /\ IF Dead(p)
       THEN Failed(p, "over") /\ UNCHANGED <<conns, db>>
       ELSE Proceed(p, "close") /\ SwitchedOn(call[p].conn)
    /\ UNCHANGED <<faults, cut, lied>>

\* Mutant: a transaction that failed keeps its connection.
CloseIfOk(p) ==
    /\ call[p].pc = "close"
    /\ call' = [call EXCEPT ![p].pc = "over", ![p].open = FALSE]
    /\ conns' = IF call[p].ok THEN Closed(call[p].conn) ELSE conns
    /\ UNCHANGED <<db, faults, cut, lied>>

Close(p) ==
    /\ call[p].pc = "close"
    /\ call' = [call EXCEPT ![p].pc = "over", ![p].open = FALSE]
    /\ conns' = Closed(call[p].conn)
    /\ UNCHANGED <<db, faults, cut, lied>>

------------------------------------------------------------------------------
(* Statements: JdbcTemplate.execute and JdbcHelper._execute.               *)

\* The statement uses the connection of the transaction.
Joined(p) == call[p].own = None

StatementConn(p) == IF Joined(p) THEN call[p].conn ELSE call[p].own

Throws(p) == IF Joined(p) THEN Dead(p) ELSE conns[call[p].own].broken

\* execute switches auto-commit off for a connection it has taken itself.
Transacted(p) == call[p].kind = "template" /\ UseTransaction /\ ~Joined(p)

\* Back to the function of the transaction, or to the caller.
Returned(p, ok) ==
    [call EXCEPT ![p].stage = "none", ![p].own = None, ![p].done = FALSE,
                 ![p].pc = IF call[p].tx THEN @ ELSE "over",
                 ![p].ok = IF call[p].tx THEN @ ELSE ok]

\* The function of a transaction runs its next statement.
Statement(p) ==
    /\ call[p].tx /\ call[p].pc = "body" /\ call[p].stage = "none"
    /\ call[p].count < MaxStatements
    /\ \E stage \in {"run", "get"} : call' = [call EXCEPT ![p].stage = stage]
    /\ UNCHANGED <<conns, db, faults, cut, lied>>

StGet(p) ==
    /\ call[p].stage = "get"
    /\ \E c \in {x \in Conns : conns[x].pooled} :
          /\ Borrowed(c)
          /\ call' = [call EXCEPT ![p].own = c,
                        ![p].stage = IF call[p].kind = "template" /\ UseTransaction
                                     THEN "off" ELSE "run"]
    /\ UNCHANGED <<db, faults, cut, lied>>

StOff(p) ==
    /\ call[p].stage = "off"
    /\ \/ /\ ~Throws(p)
          /\ SwitchedOff(call[p].own)
          /\ call' = [call EXCEPT ![p].stage = "run"]
       \/ /\ Throws(p)
          /\ call' = [call EXCEPT ![p].stage = "finish"]
          /\ UNCHANGED <<conns, db>>
    /\ UNCHANGED <<faults, cut, lied>>

\* After the statement: a statement that joined a transaction of the template
\* is over, one of the helper closes the connection, its own or not.
AfterRun(p, done) ==
    IF call[p].kind = "template" /\ Joined(p)
    THEN Returned(p, done)
    ELSE [call EXCEPT ![p].stage = IF Transacted(p) THEN "finish" ELSE "close",
                      ![p].done = done]

\* The statement is prepared and executed; it may throw before it has written
\* its row, or after it (a warning, a result that cannot be mapped).
Run(p) ==
    LET row == <<p, call[p].count + 1>>
        count == call[p].count + 1
        rows == IF call[p].tx /\ ~Joined(p) THEN call[p].rows ELSE call[p].rows \cup {row} IN
    /\ call[p].stage = "run"
    /\ count <= MaxStatements
    /\ \/ /\ ~Throws(p)
          /\ Written(StatementConn(p), row)
          /\ \E done \in BOOLEAN :
                call' = [AfterRun(p, done) EXCEPT ![p].count = count, ![p].rows = rows]
       \/ /\ call' = [AfterRun(p, FALSE) EXCEPT ![p].count = count]
          /\ UNCHANGED <<conns, db>>
    /\ UNCHANGED <<faults, cut, lied>>

\* Mutant: the transaction of a statement is committed whatever it did.
AlwaysCommit(p) == TRUE

CommitSuccess(p) == call[p].done

\* finally, with a connection of its own: commit or roll back; what these
\* throw is logged.
Finish(p) ==
    LET c == call[p].own IN
    /\ call[p].stage = "finish"
    /\ call' = [call EXCEPT ![p].stage = "restore"]
    /\ \/ ~Throws(p) /\ CommitSuccess(p) /\ Committed(c) /\ UNCHANGED <<faults, lied>>
       \/ ~Throws(p) /\ CommitSuccess(p) /\ CommitRefused(p, c)
       \/ ~Throws(p) /\ ~CommitSuccess(p) /\ RolledBack(c) /\ UNCHANGED <<faults, lied>>
       \/ Throws(p) /\ UNCHANGED <<conns, db, faults, lied>>
    /\ UNCHANGED cut

\* setAutoCommit; when it throws, closeConnection is not reached.
StRestore(p) ==
    /\ call[p].stage = "restore"
    /\ IF Throws(p)
       THEN call' = Returned(p, FALSE) /\ UNCHANGED <<conns, db>>
       ELSE call' = [call EXCEPT ![p].stage = "close"] /\ SwitchedOn(call[p].own)
    /\ UNCHANGED <<faults, cut, lied>>

\* The connection is closed if it is open, and the result returned.
StClose(p) ==
    /\ call[p].stage = "close"
    /\ IF Joined(p)
       THEN /\ conns' = IF call[p].open THEN Closed(call[p].conn) ELSE conns
            /\ call' = [Returned(p, call[p].done) EXCEPT ![p].open = FALSE]
            /\ cut' = TRUE
       ELSE /\ conns' = Closed(call[p].own)
            /\ call' = Returned(p, call[p].done)
            /\ UNCHANGED cut
    /\ UNCHANGED <<db, faults, lied>>

------------------------------------------------------------------------------
Transaction(p) ==
    \/ TxGet(p) \/ TxOff(p) \/ BodyEnds(p)
    \/ Commit(p) \/ Rollback(p) \/ Restore(p) \/ Close(p)

RunStatement(p) ==
    \/ StGet(p) \/ StOff(p) \/ Run(p) \/ Finish(p) \/ StRestore(p) \/ StClose(p)

Next ==
    \/ \E p \in Callers : Transaction(p) \/ Statement(p) \/ RunStatement(p)
    \/ \E c \in Conns : Break(c)

Spec == Init /\ [][Next]_vars

\* Threads are scheduled, a caller waiting for a connection gets one that stays
\* in the pool, and the function of a transaction ends.
FairSpec ==
    Spec /\ \A p \in Callers : WF_vars(Transaction(p)) /\ WF_vars(RunStatement(p))

------------------------------------------------------------------------------
(* Properties.                                                             *)

TypeOK ==
    /\ conns \in [Conns -> [pooled : BOOLEAN, auto : BOOLEAN, broken : BOOLEAN,
                            pending : SUBSET Rows]]
    /\ db \subseteq Rows
    /\ call \in [Callers -> Call]
    /\ \A p \in Callers : call[p].own # None => call[p].stage # "none"
    /\ faults \in 0 .. MaxFaults
    /\ cut \in BOOLEAN
    /\ lied \subseteq Callers

\* Who works with a connection.
Holders(c) ==
    {p \in Callers :
       \/ call[p].conn = c /\ call[p].open /\ call[p].pc # "over"
       \/ call[p].own = c}

\* A transaction that returns has committed every row it wrote through its
\* connection.  One that throws has committed none, unless its connection broke
\* after the commit, or it ended with a throwable that is not NonFatal: then it
\* has committed all of them, as setAutoCommit(true) does, or none if the
\* connection broke.  No row is visible before the function has ended.
AllOrNothing ==
    \A p \in Callers :
       LET q == call[p]
           broke == q.conn # None /\ conns[q.conn].broken IN
       /\ q.tx /\ q.pc = "over" /\ q.ok => q.rows \subseteq db
       /\ q.tx /\ q.pc = "over" /\ ~q.ok /\ ~q.fatal /\ ~cut => q.rows \cap db = {} \/ broke
       /\ q.tx /\ q.pc = "over" /\ q.fatal /\ ~cut =>
             q.rows \subseteq db \/ (q.rows \cap db = {} /\ broke)
       /\ q.tx /\ q.pc = "body" /\ ~cut => q.rows \cap db = {}

\* A single statement of the template that throws leaves nothing behind, even if
\* it throws after writing; a statement that returns is committed.  Excepted are
\* a refused commit and a connection that broke.
SingleStatement ==
    ~cut =>
    \A p \in Callers :
       LET q == call[p] IN
       ~q.tx /\ q.pc = "over" /\ p \notin lied /\ (\A c \in Conns : ~conns[c].broken) =>
          IF q.ok THEN q.rows # {} /\ q.rows \subseteq db
          ELSE q.kind = "template" /\ UseTransaction => q.rows \cap db = {}

\* A connection in the pool is as the DataSource made it, so the next borrower
\* neither inherits a transaction nor runs without one.
PooledIsClean ==
    ~cut =>
    \A c \in Conns :
       conns[c].pooled => conns[c].auto /\ ~conns[c].broken /\ conns[c].pending = {}

\* Every connection is in the pool or with exactly one caller; only one that
\* broke can be lost.
ConnectionsAccounted ==
    \A c \in Conns :
       /\ Cardinality(Holders(c)) <= 1
       /\ conns[c].pooled <=> Holders(c) = {} /\ ~conns[c].broken

\* execute: a statement that succeeds returns, a failure throws.
ReportedIsCommitted ==
    \A p \in Callers :
       ~call[p].tx /\ call[p].pc = "over" /\ call[p].ok => call[p].rows \subseteq db

\* q has the connection of its transaction and waits for a second one.
WaitsForSecond(q) == call[q].tx /\ call[q].stage = "get"

\* Every caller ends, unless a connection broke and was lost to the pool, or every
\* connection is with a caller that waits for a second one inside its transaction.
EveryCallEnds ==
    \A p \in Callers :
       <>(\/ call[p].pc = "over"
          \/ \E c \in Conns : conns[c].broken
          \/ [](\A c \in Conns : \E q \in Holders(c) : WaitsForSecond(q)))

==============================================================================
