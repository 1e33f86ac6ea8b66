----------------------- MODULE JdbcTransactionsProofs -----------------------
(***************************************************************************)
(* Proofs about JdbcTransactions: no connection is lost or shared, what    *)
(* callers write is committed entirely or not at all, and connections come *)
(* back as they were, for any number of callers, connections, statements   *)
(* and faults.                                                             *)
(***************************************************************************)
EXTENDS JdbcTransactions, FiniteSetTheorems, TLAPS

Connection == [pooled : BOOLEAN, auto : BOOLEAN, broken : BOOLEAN, pending : SUBSET Rows]

\* A caller that is in the state q has c.
Has(q, c) ==
    \/ q.conn = c /\ q.open /\ q.pc # "over"
    \/ q.own = c

Holds(p, c) == Has(call[p], c)

\* What a caller has in each of its stages.
ShapeOf(q) ==
    /\ q.stage # "none" => q.pc = "body"
    /\ q.pc \notin {"body", "over"} \/ q.open => q.tx
    /\ q.open => q.conn # None
    /\ q.pc = "get" => ~q.open
    /\ q.pc \in {"off", "close"} => q.open
    /\ q.stage \in {"none", "get"} => q.own = None
    /\ q.stage \in {"off", "finish", "restore"} => q.own # None
    /\ q.own # None /\ q.open => q.own # q.conn

CallShape == \A p \in Callers : ShapeOf(call[p])

HeldOnce ==
    \A c \in Conns, p, q \in Callers : Holds(p, c) /\ Holds(q, c) => p = q

PooledIsFree ==
    \A c \in Conns : conns[c].pooled <=> ~conns[c].broken /\ \A p \in Callers : ~Holds(p, c)

IInv == TypeOK /\ CallShape /\ HeldOnce /\ PooledIsFree

------------------------------------------------------------------------------
(* The effects that a step may have on who holds what.                     *)

OnlyCaller(p) == \A q \in Callers \ {p} : call'[q] = call[q]

SameBut(c) ==
    \A d \in Conns \ {c} : conns'[d].pooled = conns[d].pooled /\ conns'[d].broken = conns[d].broken

SameHeld(p, c) == \A d \in Conns \ {c} : Holds(p, d)' <=> Holds(p, d)

\* p takes c out of the pool.
Taken(p, c) ==
    /\ conns[c].pooled /\ ~conns'[c].pooled /\ conns'[c].broken = conns[c].broken
    /\ Holds(p, c)'

\* p closes c.
GivenBack(p, c) ==
    /\ Holds(p, c) /\ ~Holds(p, c)'
    /\ conns'[c].pooled /\ ~conns'[c].broken

\* p gives up c, which is broken, or nothing happens to c but that it breaks.
Lost(p, c) ==
    /\ conns'[c].pooled = conns[c].pooled
    /\ conns[c].broken => conns'[c].broken
    /\ conns'[c].broken => ~conns[c].pooled
    /\ Holds(p, c)' => Holds(p, c)
    /\ Holds(p, c) /\ ~Holds(p, c)' => conns'[c].broken

LEMMA EffectKeeps ==
    ASSUME TypeOK, TypeOK', HeldOnce, PooledIsFree, NEW p \in Callers, NEW c \in Conns,
           OnlyCaller(p), SameBut(c), SameHeld(p, c),
           Taken(p, c) \/ GivenBack(p, c) \/ Lost(p, c)
    PROVE  HeldOnce' /\ PooledIsFree'
<1>1. ASSUME NEW q \in Callers, NEW d \in Conns, q # p PROVE Holds(q, d)' <=> Holds(q, d)
    BY <1>1 DEF OnlyCaller, Holds
<1>2. ASSUME NEW d \in Conns, d # c
      PROVE  /\ \A q \in Callers : Holds(q, d)' <=> Holds(q, d)
             /\ conns'[d].pooled = conns[d].pooled /\ conns'[d].broken = conns[d].broken
    BY <1>1, <1>2 DEF SameBut, SameHeld
<1>3. CASE Taken(p, c)
  <2>1. \A q \in Callers : ~Holds(q, c)
      BY <1>3 DEF Taken, PooledIsFree
  <2> QED
      BY <1>1, <1>2, <1>3, <2>1 DEF Taken, HeldOnce, PooledIsFree
<1>4. CASE GivenBack(p, c)
  <2>1. \A q \in Callers : ~Holds(q, c)'
      BY <1>1, <1>4 DEF GivenBack, HeldOnce
  <2> QED
      BY <1>1, <1>2, <1>4, <2>1 DEF GivenBack, HeldOnce, PooledIsFree
<1>5. CASE Lost(p, c)
  <2>1. \A q \in Callers : Holds(q, c)' => Holds(q, c)
      BY <1>1, <1>5 DEF Lost
  <2>2. HeldOnce'
      BY <1>2, <2>1 DEF HeldOnce
  <2>3. conns'[c].pooled => ~conns'[c].broken /\ \A q \in Callers : ~Holds(q, c)'
      BY <1>5, <2>1 DEF Lost, PooledIsFree
  <2>4. ASSUME ~conns'[c].broken, \A q \in Callers : ~Holds(q, c)'
        PROVE  conns'[c].pooled
      BY <1>1, <1>5, <2>4 DEF Lost, PooledIsFree
  <2> QED
      BY <1>2, <2>2, <2>3, <2>4 DEF PooledIsFree
<1> QED
    BY <1>3, <1>4, <1>5

\* Nothing changes hands.
LEMMA QuietKeeps ==
    ASSUME TypeOK, TypeOK', HeldOnce, PooledIsFree, NEW p \in Callers, OnlyCaller(p),
           \A c \in Conns : /\ conns'[c].pooled = conns[c].pooled
                            /\ conns'[c].broken = conns[c].broken
                            /\ Holds(p, c)' <=> Holds(p, c)
    PROVE  HeldOnce' /\ PooledIsFree'
<1>1. ASSUME NEW q \in Callers, NEW c \in Conns PROVE Holds(q, c)' <=> Holds(q, c)
    BY DEF OnlyCaller, Holds
<1> QED
    BY <1>1 DEF HeldOnce, PooledIsFree

------------------------------------------------------------------------------
(* What the calls of a connection do.                                      *)

\* The connections stay where they are, and break or not as they did.
InPlace ==
    /\ conns' \in [Conns -> Connection] /\ db' \subseteq Rows
    /\ \A c \in Conns : conns'[c].pooled = conns[c].pooled /\ conns'[c].broken = conns[c].broken

DataOK == conns \in [Conns -> Connection] /\ db \subseteq Rows

LEMMA UnchangedInPlace == DataOK /\ UNCHANGED <<conns, db>> => InPlace
    BY DEF DataOK, InPlace

LEMMA SwitchedOnInPlace == ASSUME DataOK, NEW c \in Conns, SwitchedOn(c) PROVE InPlace
    BY DEF DataOK, InPlace, SwitchedOn, Connection

LEMMA SwitchedOffInPlace == ASSUME DataOK, NEW c \in Conns, SwitchedOff(c) PROVE InPlace
    BY DEF DataOK, InPlace, SwitchedOff, Connection

LEMMA CommittedInPlace == ASSUME DataOK, NEW c \in Conns, Committed(c) PROVE InPlace
    BY DEF DataOK, InPlace, Committed, Connection

LEMMA RolledBackInPlace == ASSUME DataOK, NEW c \in Conns, RolledBack(c) PROVE InPlace
    BY DEF DataOK, InPlace, RolledBack, Connection

LEMMA WrittenInPlace ==
    ASSUME DataOK, NEW c \in Conns, NEW row \in Rows, Written(c, row)
    PROVE  InPlace
<1>1. CASE conns[c].auto
    BY <1>1 DEF DataOK, InPlace, Written
<1>2. CASE ~conns[c].auto
  <2>1. conns' = [conns EXCEPT ![c].pending = @ \cup {row}] /\ db' = db
      BY <1>2 DEF Written
  <2> QED
      BY <2>1 DEF DataOK, InPlace, Connection
<1> QED
    BY <1>1, <1>2

LEMMA BorrowedTyped ==
    ASSUME DataOK, NEW c \in Conns, Borrowed(c)
    PROVE  /\ conns' \in [Conns -> Connection] /\ SameBut(c)
           /\ ~conns'[c].pooled /\ conns'[c].broken = conns[c].broken
    BY DEF DataOK, Borrowed, Connection, SameBut

LEMMA ClosedTyped ==
    ASSUME DataOK, NEW c \in Conns, conns' = Closed(c)
    PROVE  /\ conns' \in [Conns -> Connection] /\ SameBut(c)
           /\ conns'[c].pooled /\ ~conns'[c].broken
<1>1. (conns[c].auto \/ conns[c].broken) \in BOOLEAN
    OBVIOUS
<1> QED
    BY <1>1 DEF DataOK, Closed, Connection, SameBut

------------------------------------------------------------------------------
(* A caller moves on to the state q.                                       *)

BoundsOK == faults \in 0 .. MaxFaults /\ cut \in BOOLEAN /\ lied \subseteq Callers

LEMMA CallerFacts ==
    ASSUME IInv, NEW p \in Callers
    PROVE  /\ DataOK /\ BoundsOK /\ call[p] \in Call /\ ShapeOf(call[p]) /\ None \notin Conns
           /\ call[p].conn \in Conns \cup {None} /\ call[p].own \in Conns \cup {None}
           /\ \A c \in Conns : conns[c] \in Connection
    BY PoolAssumption DEF IInv, TypeOK, DataOK, BoundsOK, Connection, CallShape, Call

LEMMA Moved ==
    ASSUME IInv, NEW p \in Callers, NEW q \in Call, call' = [call EXCEPT ![p] = q],
           ShapeOf(q), DataOK', BoundsOK'
    PROVE  /\ TypeOK' /\ CallShape' /\ OnlyCaller(p)
           /\ \A d \in Conns : Holds(p, d)' <=> Has(q, d)
<1>1. call' \in [Callers -> Call] /\ call'[p] = q /\ OnlyCaller(p)
    BY DEF IInv, TypeOK, OnlyCaller
<1>2. \A x \in Callers : call'[x].own # None => call'[x].stage # "none"
    BY <1>1 DEF IInv, TypeOK, OnlyCaller, ShapeOf
<1>3. TypeOK'
    BY <1>1, <1>2 DEF TypeOK, Connection, DataOK, BoundsOK
<1>4. CallShape'
    BY <1>1 DEF IInv, CallShape, OnlyCaller
<1> QED
    BY <1>1, <1>3, <1>4 DEF Holds

LEMMA MovedQuietly ==
    ASSUME IInv, NEW p \in Callers, NEW q \in Call, call' = [call EXCEPT ![p] = q],
           ShapeOf(q), InPlace, BoundsOK',
           \A d \in Conns : Has(q, d) <=> Holds(p, d)
    PROVE  IInv'
<1>1. /\ TypeOK' /\ CallShape' /\ OnlyCaller(p)
      /\ \A d \in Conns : Holds(p, d)' <=> Has(q, d)
    BY Moved DEF InPlace, DataOK
<1>2. HeldOnce' /\ PooledIsFree'
    BY <1>1, QuietKeeps DEF IInv, InPlace
<1> QED
    BY <1>1, <1>2 DEF IInv

\* On the way p takes c, closes it, or gives it up broken.
LEMMA MovedWith ==
    ASSUME IInv, NEW p \in Callers, NEW q \in Call, call' = [call EXCEPT ![p] = q],
           ShapeOf(q), DataOK', BoundsOK', NEW c \in Conns, SameBut(c),
           \A d \in Conns : d # c => (Has(q, d) <=> Holds(p, d)),
           \/ /\ Has(q, c)
              /\ conns[c].pooled /\ ~conns'[c].pooled /\ conns'[c].broken = conns[c].broken
           \/ /\ Holds(p, c) /\ ~Has(q, c)
              /\ conns'[c].pooled /\ ~conns'[c].broken
           \/ /\ Has(q, c) => Holds(p, c)
              /\ conns[c].broken /\ UNCHANGED conns
    PROVE  IInv'
<1>1. /\ TypeOK' /\ CallShape' /\ OnlyCaller(p)
      /\ \A d \in Conns : Holds(p, d)' <=> Has(q, d)
    BY Moved
<1>2. SameHeld(p, c)
    BY <1>1 DEF SameHeld
<1>3. UNCHANGED conns => (conns[c].broken => ~conns[c].pooled)
    BY DEF IInv, PooledIsFree
<1>4. Taken(p, c) \/ GivenBack(p, c) \/ Lost(p, c)
    BY <1>1, <1>3 DEF Taken, GivenBack, Lost
<1> QED
    BY <1>1, <1>2, <1>4, EffectKeeps DEF IInv

\* The transaction goes on to pc.
LEMMA ProceedKeeps ==
    ASSUME IInv, NEW p \in Callers, NEW pc \in {"body", "commit", "rollback", "restore", "close"},
           Proceed(p, pc) \/ Failed(p, pc),
           call[p].stage = "none", call[p].tx, call[p].pc # "over", pc = "close" => call[p].open,
           InPlace, BoundsOK'
    PROVE  IInv'
<1>1. PICK ok \in BOOLEAN : call' = [call EXCEPT ![p] = [call[p] EXCEPT !.pc = pc, !.ok = ok]]
  <2>1. CASE Proceed(p, pc)
    <3>1. call[p].ok \in BOOLEAN /\ [call[p] EXCEPT !.pc = pc] = [call[p] EXCEPT !.pc = pc, !.ok = call[p].ok]
        BY CallerFacts DEF Call
    <3> QED
        BY <2>1, <3>1 DEF Proceed
  <2>2. CASE Failed(p, pc)
      BY <2>2 DEF Failed
  <2> QED
      BY <2>1, <2>2
<1> DEFINE q == [call[p] EXCEPT !.pc = pc, !.ok = ok]
<1>2. /\ q \in Call /\ q.pc = pc /\ q.stage = "none" /\ q.tx = call[p].tx
      /\ q.conn = call[p].conn /\ q.open = call[p].open /\ q.own = call[p].own
    BY CallerFacts DEF Call
<1> HIDE DEF q
<1>3. ShapeOf(q)
    BY <1>2, CallerFacts DEF ShapeOf
<1>4. \A d \in Conns : Has(q, d) <=> Holds(p, d)
    BY <1>2 DEF Has, Holds
<1> QED
    BY <1>1, <1>2, <1>3, <1>4, MovedQuietly DEF q

\* The statement goes on to a stage.
LEMMA StageKeeps ==
    ASSUME IInv, NEW p \in Callers,
           NEW stage \in {"get", "off", "run", "finish", "restore", "close"},
           call' = [call EXCEPT ![p].stage = stage], call[p].pc = "body",
           stage = "get" => call[p].own = None,
           stage \in {"off", "finish", "restore"} => call[p].own # None,
           InPlace, BoundsOK'
    PROVE  IInv'
<1> DEFINE q == [call[p] EXCEPT !.stage = stage]
<1>1. /\ q \in Call /\ q.pc = "body" /\ q.stage = stage /\ q.tx = call[p].tx
      /\ q.conn = call[p].conn /\ q.open = call[p].open /\ q.own = call[p].own
    BY CallerFacts DEF Call
<1>2. call' = [call EXCEPT ![p] = q]
    OBVIOUS
<1> HIDE DEF q
<1>3. ShapeOf(q)
    BY <1>1, CallerFacts DEF ShapeOf
<1>4. \A d \in Conns : Has(q, d) <=> Holds(p, d)
    BY <1>1 DEF Has, Holds
<1> QED
    BY <1>1, <1>2, <1>3, <1>4, MovedQuietly

------------------------------------------------------------------------------
(* The steps of a transaction.                                             *)

LEMMA TxGetKeeps == ASSUME IInv, NEW p \in Callers, TxGet(p) PROVE IInv'
<1>1. PICK c \in Conns :
         /\ conns[c].pooled /\ Borrowed(c)
         /\ call' = [call EXCEPT ![p].pc = "off", ![p].conn = c, ![p].open = TRUE]
    BY DEF TxGet
<1> DEFINE q == [call[p] EXCEPT !.pc = "off", !.conn = c, !.open = TRUE]
<1>2. call[p].pc = "get" /\ call[p].stage = "none" /\ call[p].own = None /\ ~call[p].open
      /\ call[p].tx
    BY CallerFacts DEF TxGet, ShapeOf
<1>3. call' = [call EXCEPT ![p] = q]
    BY <1>1
<1>4. /\ q \in Call /\ q.pc = "off" /\ q.conn = c /\ q.open = TRUE /\ q.own = call[p].own
      /\ q.stage = call[p].stage /\ q.tx = call[p].tx
    BY CallerFacts DEF Call
<1> HIDE DEF q
<1>5. ShapeOf(q)
    BY <1>2, <1>4, CallerFacts DEF ShapeOf
<1>6. /\ conns' \in [Conns -> Connection] /\ SameBut(c)
      /\ ~conns'[c].pooled /\ conns'[c].broken = conns[c].broken
    BY <1>1, CallerFacts, BorrowedTyped
<1>7. DataOK' /\ BoundsOK'
    BY <1>6, CallerFacts DEF TxGet, DataOK, BoundsOK
<1>8. Has(q, c) /\ \A d \in Conns : d # c => ~Has(q, d) /\ ~Holds(p, d)
    BY <1>2, <1>4, CallerFacts DEF Has, Holds
<1> QED
    BY <1>1, <1>3, <1>4, <1>5, <1>6, <1>7, <1>8, MovedWith

\* A transaction whose connection is broken ends without closing it.
LEMMA GivenUpKeeps ==
    ASSUME IInv, NEW p \in Callers, Failed(p, "over"), Dead(p), call[p].stage = "none",
           call[p].pc # "over", UNCHANGED <<conns, db>>, BoundsOK'
    PROVE  IInv'
<1> DEFINE q == [call[p] EXCEPT !.pc = "over", !.ok = FALSE]
<1>1. call' = [call EXCEPT ![p] = q]
    BY DEF Failed
<1>2. /\ q \in Call /\ q.pc = "over" /\ q.stage = "none" /\ q.tx = call[p].tx
      /\ q.conn = call[p].conn /\ q.open = call[p].open /\ q.own = call[p].own
    BY CallerFacts DEF Call
<1> HIDE DEF q
<1>3. ShapeOf(q) /\ DataOK'
    BY <1>2, CallerFacts DEF ShapeOf, DataOK
<1>4. call[p].own = None
    BY CallerFacts DEF ShapeOf
<1>5. \A d \in Conns : ~Has(q, d)
    BY <1>2, <1>4, CallerFacts DEF Has
<1>6. CASE ~call[p].open
  <2>1. \A d \in Conns : ~Holds(p, d)
      BY <1>4, <1>6, CallerFacts DEF Has, Holds
  <2> QED
      BY <1>1, <1>2, <1>3, <1>5, <2>1, CallerFacts, UnchangedInPlace, MovedQuietly
<1>7. CASE call[p].open
  <2> DEFINE c == call[p].conn
  <2>1. c \in Conns /\ conns[c].broken
      BY <1>7, CallerFacts DEF ShapeOf, Dead
  <2>2. \A d \in Conns : d # c => ~Holds(p, d)
      BY <1>4, CallerFacts DEF Has, Holds
  <2>3. SameBut(c) /\ UNCHANGED conns
      BY DEF SameBut
  <2> HIDE DEF c
  <2> QED
      BY <1>1, <1>2, <1>3, <1>5, <2>1, <2>2, <2>3, MovedWith
<1> QED
    BY <1>6, <1>7

LEMMA TxOffKeeps == ASSUME IInv, NEW p \in Callers, TxOff(p) PROVE IInv'
<1>1. /\ call[p].pc = "off" /\ call[p].stage = "none" /\ call[p].tx
      /\ call[p].conn \in Conns
    BY CallerFacts DEF TxOff, ShapeOf
<1>2. DataOK /\ BoundsOK'
    BY CallerFacts DEF TxOff, BoundsOK
<1>3. CASE SwitchedOff(call[p].conn) /\ Proceed(p, "body")
    BY <1>1, <1>2, <1>3, SwitchedOffInPlace, ProceedKeeps
<1>4. CASE Dead(p) /\ Failed(p, "over") /\ UNCHANGED <<conns, db>>
    BY <1>1, <1>2, <1>4, GivenUpKeeps
<1>5. CASE Failed(p, "rollback") /\ UNCHANGED <<conns, db>>
    BY <1>1, <1>2, <1>5, UnchangedInPlace, ProceedKeeps
<1> QED
    BY <1>3, <1>4, <1>5 DEF TxOff

LEMMA BodyEndsKeeps == ASSUME IInv, NEW p \in Callers, BodyEnds(p) PROVE IInv'
<1>1. InPlace /\ BoundsOK'
    BY CallerFacts, UnchangedInPlace DEF BodyEnds, BoundsOK
<1>2. call[p].pc = "body" /\ call[p].stage = "none" /\ call[p].tx
    BY DEF BodyEnds
<1>3. CASE Proceed(p, "commit") \/ Failed(p, "rollback")
    BY <1>1, <1>2, <1>3, ProceedKeeps
<1>4. CASE call' = [call EXCEPT ![p].pc = "restore", ![p].ok = FALSE, ![p].fatal = TRUE]
  <2> DEFINE q == [call[p] EXCEPT !.pc = "restore", !.ok = FALSE, !.fatal = TRUE]
  <2>1. call' = [call EXCEPT ![p] = q]
      BY <1>4
  <2>2. /\ q \in Call /\ q.pc = "restore" /\ q.stage = "none" /\ q.tx = call[p].tx
        /\ q.conn = call[p].conn /\ q.open = call[p].open /\ q.own = call[p].own
      BY <1>2, CallerFacts DEF Call
  <2> HIDE DEF q
  <2>3. ShapeOf(q)
      BY <1>2, <2>2, CallerFacts DEF ShapeOf
  <2>4. \A d \in Conns : Has(q, d) <=> Holds(p, d)
      BY <1>2, <2>2 DEF Has, Holds
  <2> QED
      BY <1>1, <2>1, <2>2, <2>3, <2>4, MovedQuietly
<1> QED
    BY <1>3, <1>4 DEF BodyEnds

\* A commit that is refused leaves the connections in place.
LEMMA RefusedInPlace ==
    ASSUME IInv, NEW p \in Callers, NEW c \in Conns, CommitRefused(p, c), UNCHANGED cut
    PROVE  InPlace /\ BoundsOK'
<1>1. InPlace
    BY CallerFacts, RolledBackInPlace DEF CommitRefused
<1>2. faults' \in 0 .. MaxFaults
    BY CallerFacts, BoundAssumption DEF CommitRefused, BoundsOK
<1>3. cut' \in BOOLEAN /\ lied' \subseteq Callers
    BY CallerFacts DEF CommitRefused, BoundsOK
<1> QED
    BY <1>1, <1>2, <1>3 DEF BoundsOK

LEMMA CommitKeeps == ASSUME IInv, NEW p \in Callers, Commit(p) PROVE IInv'
<1> DEFINE c == call[p].conn
<1>1. call[p].pc = "commit" /\ call[p].stage = "none" /\ call[p].tx /\ UNCHANGED cut
    BY CallerFacts DEF Commit, ShapeOf
<1>2. ~Dead(p) => c \in Conns
    BY CallerFacts DEF Dead, ShapeOf
<1>3. UNCHANGED <<faults, lied>> => BoundsOK'
    BY <1>1, CallerFacts DEF BoundsOK
<1> HIDE DEF c
<1>4. CASE ~Dead(p) /\ Committed(c) /\ Proceed(p, "restore") /\ UNCHANGED <<faults, lied>>
    BY <1>1, <1>2, <1>3, <1>4, CallerFacts, CommittedInPlace, ProceedKeeps
<1>5. CASE ~Dead(p) /\ CommitRefused(p, c) /\ Failed(p, "rollback")
    BY <1>1, <1>2, <1>5, RefusedInPlace, ProceedKeeps
<1>6. CASE Failed(p, "rollback") /\ UNCHANGED <<conns, db, faults, lied>>
    BY <1>1, <1>3, <1>6, CallerFacts, UnchangedInPlace, ProceedKeeps
<1> QED
    BY <1>4, <1>5, <1>6 DEF Commit, c

LEMMA RollbackKeeps == ASSUME IInv, NEW p \in Callers, Rollback(p) PROVE IInv'
<1>1. call[p].pc = "rollback" /\ call[p].stage = "none" /\ call[p].tx /\ BoundsOK'
    BY CallerFacts DEF Rollback, ShapeOf, BoundsOK
<1>2. ~Dead(p) => call[p].conn \in Conns
    BY CallerFacts DEF Dead, ShapeOf
<1>3. InPlace
    BY <1>2, CallerFacts, UnchangedInPlace, RolledBackInPlace DEF Rollback
<1> QED
    BY <1>1, <1>3, ProceedKeeps DEF Rollback

LEMMA RestoreKeeps == ASSUME IInv, NEW p \in Callers, Restore(p) PROVE IInv'
<1>1. call[p].pc = "restore" /\ call[p].stage = "none" /\ call[p].tx /\ BoundsOK'
    BY CallerFacts DEF Restore, ShapeOf, BoundsOK
<1>2. ~Dead(p) => call[p].conn \in Conns /\ call[p].open
    BY CallerFacts DEF Dead, ShapeOf
<1>3. CASE Dead(p)
    BY <1>1, <1>3, GivenUpKeeps DEF Restore
<1>4. CASE ~Dead(p)
  <2>1. Proceed(p, "close") /\ SwitchedOn(call[p].conn)
      BY <1>4 DEF Restore
  <2> QED
      BY <1>1, <1>2, <1>4, <2>1, CallerFacts, SwitchedOnInPlace, ProceedKeeps
<1> QED
    BY <1>3, <1>4

LEMMA CloseKeeps == ASSUME IInv, NEW p \in Callers, Close(p) PROVE IInv'
<1> DEFINE c == call[p].conn
           q == [call[p] EXCEPT !.pc = "over", !.open = FALSE]
<1>1. /\ call[p].pc = "close" /\ call[p].stage = "none" /\ call[p].open /\ c \in Conns
      /\ call[p].own = None /\ BoundsOK'
    BY CallerFacts DEF Close, ShapeOf, BoundsOK
<1>2. call' = [call EXCEPT ![p] = q] /\ conns' = Closed(c) /\ UNCHANGED db
    BY DEF Close
<1>3. /\ q \in Call /\ q.pc = "over" /\ q.stage = call[p].stage /\ q.open = FALSE
      /\ q.own = call[p].own
    BY CallerFacts DEF Call
<1>4. Holds(p, c) /\ \A d \in Conns : d # c => ~Holds(p, d)
    BY <1>1, CallerFacts DEF Has, Holds
<1> HIDE DEF q, c
<1>5. ShapeOf(q) /\ \A d \in Conns : ~Has(q, d)
    BY <1>1, <1>3, CallerFacts DEF ShapeOf, Has
<1>6. DataOK' /\ SameBut(c) /\ conns'[c].pooled /\ ~conns'[c].broken
    BY <1>1, <1>2, CallerFacts, ClosedTyped DEF DataOK
<1> QED
    BY <1>1, <1>2, <1>3, <1>4, <1>5, <1>6, MovedWith

------------------------------------------------------------------------------
(* The steps of a statement.                                               *)

\* The state of p after Returned.
ReturnTo(p, ok) ==
    [call[p] EXCEPT !.stage = "none", !.own = None, !.done = FALSE,
                    !.pc = IF call[p].tx THEN call[p].pc ELSE "over",
                    !.ok = IF call[p].tx THEN call[p].ok ELSE ok]

LEMMA ReturnedTo ==
    ASSUME IInv, NEW p \in Callers, NEW ok \in BOOLEAN, call[p].pc = "body"
    PROVE  /\ Returned(p, ok) = [call EXCEPT ![p] = ReturnTo(p, ok)]
           /\ ReturnTo(p, ok) \in Call /\ ShapeOf(ReturnTo(p, ok))
           /\ \A c \in Conns : Has(ReturnTo(p, ok), c) <=> call[p].conn = c /\ call[p].open
<1> DEFINE r == call[p]
           pc == IF r.tx THEN r.pc ELSE "over"
           fine == IF r.tx THEN r.ok ELSE ok
           q == [r EXCEPT !.stage = "none", !.own = None, !.done = FALSE, !.pc = pc, !.ok = fine]
<1>1. r \in Call /\ ShapeOf(r) /\ r.tx \in BOOLEAN /\ r.ok \in BOOLEAN
    BY CallerFacts DEF Call
<1>2. fine \in BOOLEAN /\ pc \in {"body", "over"}
    BY <1>1
<1>3. Returned(p, ok) = [call EXCEPT ![p] = q]
    BY DEF Returned
<1>4. ReturnTo(p, ok) = q
    BY DEF ReturnTo
<1> HIDE DEF fine
<1>5. r.tx = FALSE => pc = "over" /\ ~r.open
    BY <1>1 DEF ShapeOf
<1>6. r.tx => pc = "body"
    OBVIOUS
<1> HIDE DEF pc, r
<1>7. /\ q \in Call /\ q.stage = "none" /\ q.own = None /\ q.pc = pc
      /\ q.tx = r.tx /\ q.open = r.open /\ q.conn = r.conn
    BY <1>1, <1>2 DEF Call
<1> HIDE DEF q
<1>8. ShapeOf(q)
    BY <1>1, <1>2, <1>5, <1>7 DEF ShapeOf
<1>9. \A c \in Conns : Has(q, c) <=> r.conn = c /\ r.open
    BY <1>1, <1>2, <1>5, <1>6, <1>7, CallerFacts DEF Has
<1> QED
    BY <1>3, <1>4, <1>7, <1>8, <1>9 DEF r

LEMMA StatementKeeps == ASSUME IInv, NEW p \in Callers, Statement(p) PROVE IInv'
<1>1. InPlace /\ BoundsOK' /\ call[p].own = None
    BY CallerFacts, UnchangedInPlace DEF Statement, BoundsOK, ShapeOf
<1> QED
    BY <1>1, StageKeeps DEF Statement

LEMMA StGetKeeps == ASSUME IInv, NEW p \in Callers, StGet(p) PROVE IInv'
<1>1. PICK c \in Conns, stage \in {"off", "run"} :
         /\ conns[c].pooled /\ Borrowed(c)
         /\ call' = [call EXCEPT ![p].own = c, ![p].stage = stage]
    BY DEF StGet
<1> DEFINE q == [call[p] EXCEPT !.own = c, !.stage = stage]
<1>2. call[p].pc = "body" /\ call[p].own = None /\ ~Holds(p, c)
    BY <1>1, CallerFacts DEF StGet, ShapeOf, IInv, PooledIsFree
<1>3. call' = [call EXCEPT ![p] = q]
    BY <1>1
<1>4. /\ q \in Call /\ q.pc = call[p].pc /\ q.conn = call[p].conn /\ q.open = call[p].open
      /\ q.own = c /\ q.stage = stage /\ q.tx = call[p].tx
    BY CallerFacts DEF Call
<1> HIDE DEF q
<1>5. ShapeOf(q)
    BY <1>2, <1>4, CallerFacts DEF ShapeOf, Holds, Has
<1>6. /\ conns' \in [Conns -> Connection] /\ SameBut(c)
      /\ ~conns'[c].pooled /\ conns'[c].broken = conns[c].broken
    BY <1>1, CallerFacts, BorrowedTyped
<1>7. DataOK' /\ BoundsOK'
    BY <1>6, CallerFacts DEF StGet, DataOK, BoundsOK
<1>8. Has(q, c) /\ \A d \in Conns : d # c => (Has(q, d) <=> Holds(p, d))
    BY <1>2, <1>4, CallerFacts DEF Has, Holds
<1> QED
    BY <1>1, <1>3, <1>4, <1>5, <1>6, <1>7, <1>8, MovedWith

LEMMA StOffKeeps == ASSUME IInv, NEW p \in Callers, StOff(p) PROVE IInv'
<1>1. call[p].pc = "body" /\ call[p].own # None /\ call[p].own \in Conns /\ BoundsOK'
    BY CallerFacts DEF StOff, ShapeOf, BoundsOK
<1>2. CASE SwitchedOff(call[p].own) /\ call' = [call EXCEPT ![p].stage = "run"]
    BY <1>1, <1>2, CallerFacts, SwitchedOffInPlace, StageKeeps
<1>3. CASE call' = [call EXCEPT ![p].stage = "finish"] /\ UNCHANGED <<conns, db>>
    BY <1>1, <1>3, CallerFacts, UnchangedInPlace, StageKeeps
<1> QED
    BY <1>2, <1>3 DEF StOff

\* The state of p after its statement has run.
AfterTo(p, done) ==
    IF call[p].kind = "template" /\ Joined(p)
    THEN ReturnTo(p, done)
    ELSE [call[p] EXCEPT !.stage = IF Transacted(p) THEN "finish" ELSE "close", !.done = done]

LEMMA AfterRunTo ==
    ASSUME IInv, NEW p \in Callers, NEW done \in BOOLEAN, call[p].stage = "run"
    PROVE  /\ AfterRun(p, done) = [call EXCEPT ![p] = AfterTo(p, done)]
           /\ AfterTo(p, done) \in Call /\ ShapeOf(AfterTo(p, done))
           /\ \A c \in Conns : Has(AfterTo(p, done), c) <=> Holds(p, c)
<1>1. call[p].pc = "body"
    BY CallerFacts DEF ShapeOf
<1>2. CASE call[p].kind = "template" /\ Joined(p)
  <2>1. \A c \in Conns : Holds(p, c) <=> call[p].conn = c /\ call[p].open
      BY <1>1, <1>2, CallerFacts DEF Holds, Has, Joined
  <2> QED
      BY <1>1, <1>2, <2>1, ReturnedTo DEF AfterRun, AfterTo
<1>3. CASE ~(call[p].kind = "template" /\ Joined(p))
  <2> DEFINE stage == IF Transacted(p) THEN "finish" ELSE "close"
             q == [call[p] EXCEPT !.stage = stage, !.done = done]
  <2>1. AfterRun(p, done) = [call EXCEPT ![p] = q] /\ AfterTo(p, done) = q
      BY <1>3 DEF AfterRun, AfterTo
  <2>2. stage \in {"finish", "close"} /\ (stage = "finish" => call[p].own # None)
      BY DEF Transacted, Joined
  <2> HIDE DEF stage
  <2>3. /\ q \in Call /\ q.pc = call[p].pc /\ q.conn = call[p].conn /\ q.open = call[p].open
        /\ q.own = call[p].own /\ q.stage = stage /\ q.tx = call[p].tx
      BY <2>2, CallerFacts DEF Call
  <2> HIDE DEF q
  <2>4. ShapeOf(q)
      BY <1>1, <2>2, <2>3, CallerFacts DEF ShapeOf
  <2>5. \A c \in Conns : Has(q, c) <=> Holds(p, c)
      BY <2>3 DEF Has, Holds
  <2> QED
      BY <2>1, <2>3, <2>4, <2>5
<1> QED
    BY <1>2, <1>3

\* The number of statements and the rows of a caller matter to no one.
LEMMA Recounted ==
    ASSUME NEW r \in Call, NEW count \in 0 .. MaxStatements, NEW rows \in SUBSET Rows,
           NEW q, q = [r EXCEPT !.count = count, !.rows = rows] \/ q = [r EXCEPT !.count = count]
    PROVE  q \in Call /\ (ShapeOf(r) => ShapeOf(q)) /\ \A c \in Conns : Has(q, c) <=> Has(r, c)
<1>1. /\ q \in Call /\ q.pc = r.pc /\ q.conn = r.conn /\ q.open = r.open
      /\ q.own = r.own /\ q.stage = r.stage /\ q.tx = r.tx
    BY DEF Call
<1> QED
    BY <1>1 DEF ShapeOf, Has

LEMMA RunKeeps == ASSUME IInv, NEW p \in Callers, Run(p) PROVE IInv'
<1> DEFINE row == <<p, call[p].count + 1>>
           count == call[p].count + 1
           rows == IF call[p].tx /\ ~Joined(p) THEN call[p].rows ELSE call[p].rows \cup {row}
<1>1. call[p].stage = "run" /\ call[p].count \in Nat /\ call[p].rows \subseteq Rows
    BY CallerFacts, BoundAssumption DEF Run, Call
<1>2. count \in 0 .. MaxStatements /\ row \in Rows /\ BoundsOK'
    BY <1>1, CallerFacts, BoundAssumption DEF Run, Rows, BoundsOK
<1>3. rows \in SUBSET Rows
    BY <1>1, <1>2
<1>4. ~Throws(p) => StatementConn(p) \in Conns
    BY CallerFacts DEF Throws, StatementConn, Joined, Dead, ShapeOf
<1>5. \/ /\ ~Throws(p) /\ Written(StatementConn(p), row)
         /\ \E done \in BOOLEAN :
               call' = [AfterRun(p, done) EXCEPT ![p].count = count, ![p].rows = rows]
      \/ /\ call' = [AfterRun(p, FALSE) EXCEPT ![p].count = count]
         /\ UNCHANGED <<conns, db>>
    BY DEF Run
<1> HIDE DEF row, count, rows
<1>6. InPlace
    BY <1>2, <1>4, <1>5, CallerFacts, WrittenInPlace, UnchangedInPlace
<1>7. PICK done \in BOOLEAN : \/ call' = [AfterRun(p, done) EXCEPT ![p].count = count, ![p].rows = rows]
                              \/ call' = [AfterRun(p, done) EXCEPT ![p].count = count]
    BY <1>5
<1> DEFINE r == AfterTo(p, done)
<1>8. /\ AfterRun(p, done) = [call EXCEPT ![p] = r] /\ r \in Call /\ ShapeOf(r)
      /\ \A c \in Conns : Has(r, c) <=> Holds(p, c)
    BY <1>1, AfterRunTo
<1> HIDE DEF r
<1>9. PICK q : /\ q = [r EXCEPT !.count = count, !.rows = rows] \/ q = [r EXCEPT !.count = count]
               /\ call' = [call EXCEPT ![p] = q]
    BY <1>7, <1>8 DEF IInv, TypeOK
<1>10. q \in Call /\ ShapeOf(q) /\ \A c \in Conns : Has(q, c) <=> Has(r, c)
    BY <1>2, <1>3, <1>8, <1>9, Recounted
<1> QED
    BY <1>2, <1>6, <1>8, <1>9, <1>10, MovedQuietly

LEMMA FinishKeeps == ASSUME IInv, NEW p \in Callers, Finish(p) PROVE IInv'
<1> DEFINE c == call[p].own
<1>1. call[p].pc = "body" /\ c # None /\ c \in Conns /\ UNCHANGED cut
    BY CallerFacts DEF Finish, ShapeOf
<1>2. UNCHANGED <<faults, lied>> => BoundsOK'
    BY <1>1, CallerFacts DEF BoundsOK
<1>3. InPlace /\ BoundsOK'
  <2>1. CASE Committed(c) /\ UNCHANGED <<faults, lied>>
      BY <1>1, <1>2, <2>1, CallerFacts, CommittedInPlace
  <2>2. CASE CommitRefused(p, c)
      BY <1>1, <2>2, RefusedInPlace
  <2>3. CASE RolledBack(c) /\ UNCHANGED <<faults, lied>>
      BY <1>1, <1>2, <2>3, CallerFacts, RolledBackInPlace
  <2>4. CASE UNCHANGED <<conns, db, faults, lied>>
      BY <1>2, <2>4, CallerFacts, UnchangedInPlace
  <2> QED
      BY <2>1, <2>2, <2>3, <2>4 DEF Finish
<1> QED
    BY <1>1, <1>3, StageKeeps DEF Finish

LEMMA StRestoreKeeps == ASSUME IInv, NEW p \in Callers, StRestore(p) PROVE IInv'
<1> DEFINE c == call[p].own
<1>1. call[p].pc = "body" /\ c # None /\ c \in Conns /\ ~Joined(p) /\ BoundsOK'
    BY CallerFacts DEF StRestore, ShapeOf, BoundsOK, Joined
<1>2. CASE Throws(p)
  <2> DEFINE q == ReturnTo(p, FALSE)
  <2>1. /\ call' = [call EXCEPT ![p] = q] /\ q \in Call /\ ShapeOf(q)
        /\ \A d \in Conns : Has(q, d) <=> call[p].conn = d /\ call[p].open
      BY <1>1, <1>2, ReturnedTo DEF StRestore
  <2> HIDE DEF q
  <2>2. conns[c].broken /\ UNCHANGED <<conns, db>>
      BY <1>1, <1>2 DEF StRestore, Throws
  <2>3. DataOK' /\ SameBut(c)
      BY <2>2, CallerFacts DEF DataOK, SameBut
  <2>4. /\ Holds(p, c)
        /\ \A d \in Conns : d # c => (Has(q, d) <=> Holds(p, d))
      BY <1>1, <2>1 DEF Holds, Has
  <2> QED
      BY <1>1, <2>1, <2>2, <2>3, <2>4, MovedWith
<1>3. CASE ~Throws(p)
    BY <1>1, <1>3, CallerFacts, SwitchedOnInPlace, StageKeeps DEF StRestore
<1> QED
    BY <1>2, <1>3

LEMMA StCloseKeeps == ASSUME IInv, NEW p \in Callers, StClose(p) PROVE IInv'
<1> DEFINE r == ReturnTo(p, call[p].done)
<1>1. call[p].pc = "body" /\ call[p].done \in BOOLEAN
    BY CallerFacts DEF StClose, ShapeOf, Call
<1>2. /\ Returned(p, call[p].done) = [call EXCEPT ![p] = r] /\ r \in Call /\ ShapeOf(r)
      /\ \A d \in Conns : Has(r, d) <=> call[p].conn = d /\ call[p].open
    BY <1>1, ReturnedTo
<1>3. r.own = None /\ r.stage = "none" /\ r.pc \in {"body", "over"}
    BY <1>1, CallerFacts DEF ReturnTo, Call
<1> HIDE DEF r
<1>4. CASE Joined(p)
  <2> DEFINE q == [r EXCEPT !.open = FALSE]
             c == call[p].conn
  <2>1. call' = [call EXCEPT ![p] = q]
      BY <1>2, <1>4 DEF StClose, IInv, TypeOK
  <2>2. q \in Call /\ q.open = FALSE /\ q.own = r.own /\ q.stage = r.stage /\ q.pc = r.pc
      BY <1>2 DEF Call
  <2> HIDE DEF q
  <2>3. ShapeOf(q) /\ \A d \in Conns : ~Has(q, d)
      BY <1>3, <2>2, CallerFacts DEF ShapeOf, Has
  <2>4. BoundsOK' /\ UNCHANGED db
      BY <1>4, CallerFacts DEF StClose, BoundsOK
  <2>5. \A d \in Conns : Holds(p, d) <=> d = c /\ call[p].open
      BY <1>1, <1>4, CallerFacts DEF Holds, Has, Joined
  <2>6. CASE call[p].open
    <3>1. c \in Conns /\ conns' = Closed(c)
        BY <1>4, <2>6, CallerFacts DEF StClose, ShapeOf
    <3> HIDE DEF c
    <3>2. DataOK' /\ SameBut(c) /\ conns'[c].pooled /\ ~conns'[c].broken
        BY <2>4, <3>1, CallerFacts, ClosedTyped DEF DataOK
    <3> QED
        BY <2>1, <2>2, <2>3, <2>4, <2>5, <2>6, <3>1, <3>2, MovedWith
  <2>7. CASE ~call[p].open
    <3>1. InPlace
        BY <1>4, <2>4, <2>7, CallerFacts, UnchangedInPlace DEF StClose
    <3> QED
        BY <2>1, <2>2, <2>3, <2>4, <2>5, <2>7, <3>1, MovedQuietly
  <2> QED
      BY <2>6, <2>7
<1>5. CASE ~Joined(p)
  <2> DEFINE c == call[p].own
  <2>1. /\ c \in Conns /\ conns' = Closed(c) /\ call' = [call EXCEPT ![p] = r]
        /\ UNCHANGED db /\ BoundsOK'
      BY <1>2, <1>5, CallerFacts DEF StClose, Joined, BoundsOK
  <2>2. /\ Holds(p, c) /\ ~Has(r, c)
        /\ \A d \in Conns : d # c => (Has(r, d) <=> Holds(p, d))
      BY <1>1, <1>2, <2>1, CallerFacts DEF Holds, Has, ShapeOf
  <2> HIDE DEF c
  <2>3. DataOK' /\ SameBut(c) /\ conns'[c].pooled /\ ~conns'[c].broken
      BY <2>1, CallerFacts, ClosedTyped DEF DataOK
  <2> QED
      BY <1>2, <2>1, <2>2, <2>3, MovedWith
<1> QED
    BY <1>4, <1>5

------------------------------------------------------------------------------

LEMMA BreakKeeps == ASSUME IInv, NEW c \in Conns, Break(c) PROVE IInv'
<1>1. conns' \in [Conns -> Connection] /\ SameBut(c)
      /\ conns'[c].pooled = conns[c].pooled /\ conns'[c].broken = TRUE
    BY DEF IInv, TypeOK, Connection, Break, SameBut
<1>2. faults' \in 0 .. MaxFaults
    BY BoundAssumption DEF IInv, TypeOK, Break
<1>3. TypeOK'
    BY <1>1, <1>2 DEF IInv, TypeOK, Connection, Break
<1>4. \A p \in Callers, d \in Conns : Holds(p, d)' <=> Holds(p, d)
    BY DEF Break, Holds
<1>5. CallShape' /\ HeldOnce'
    BY <1>4 DEF IInv, CallShape, HeldOnce, Break
<1>6. PooledIsFree'
    BY <1>1, <1>4 DEF IInv, PooledIsFree, SameBut, Break
<1> QED
    BY <1>3, <1>5, <1>6 DEF IInv

LEMMA InitIInv == Init => IInv
<1> SUFFICES ASSUME Init PROVE IInv
    OBVIOUS
<1>1. PICK kind \in Kinds, singles \in SUBSET Singles :
        call = [p \in Callers |->
                    [kind |-> kind, tx |-> p \notin singles,
                     pc |-> IF p \in singles THEN "body" ELSE "get",
                     stage |-> IF p \in singles THEN "get" ELSE "none",
                     conn |-> None, open |-> FALSE, own |-> None,
                     count |-> 0, rows |-> {}, done |-> FALSE, ok |-> TRUE,
                     fatal |-> FALSE]]
    BY DEF Init
<1>2. ASSUME NEW p \in Callers
      PROVE  /\ call[p] \in Call /\ call[p].own = None /\ call[p].open = FALSE
             /\ call[p].pc \in {"body", "get"} /\ call[p].stage \in {"none", "get"}
             /\ call[p].stage # "none" => call[p].pc = "body"
             /\ call[p].pc = "get" => call[p].tx
  <2> DEFINE tx == p \notin singles
             pc == IF p \in singles THEN "body" ELSE "get"
             stage == IF p \in singles THEN "get" ELSE "none"
  <2>1. call[p] = [kind |-> kind, tx |-> tx, pc |-> pc, stage |-> stage,
                   conn |-> None, open |-> FALSE, own |-> None,
                   count |-> 0, rows |-> {}, done |-> FALSE, ok |-> TRUE,
                   fatal |-> FALSE]
      BY <1>1
  <2>2. /\ tx \in BOOLEAN /\ pc \in {"body", "get"} /\ stage \in {"get", "none"}
        /\ (stage # "none" => pc = "body") /\ (pc = "get" => tx)
      OBVIOUS
  <2>3. 0 \in 0 .. MaxStatements
      BY BoundAssumption
  <2> HIDE DEF tx, pc, stage
  <2>4. call[p] \in Call
      BY <2>1, <2>2, <2>3 DEF Call
  <2>5. /\ call[p].own = None /\ call[p].open = FALSE /\ call[p].pc = pc
        /\ call[p].stage = stage /\ call[p].tx = tx
      BY <2>1
  <2> QED
      BY <2>2, <2>4, <2>5
<1>3. call \in [Callers -> Call]
  <2>1. DOMAIN call = Callers /\ call = [p \in Callers |-> call[p]]
      BY <1>1
  <2> QED
      BY <1>2, <2>1
<1>4. TypeOK
  <2>1. conns \in [Conns -> [pooled : BOOLEAN, auto : BOOLEAN, broken : BOOLEAN,
                            pending : SUBSET Rows]]
      BY DEF Init
  <2>2. db \subseteq Rows /\ cut \in BOOLEAN /\ lied \subseteq Callers
      BY DEF Init
  <2>3. faults \in 0 .. MaxFaults
      BY BoundAssumption DEF Init
  <2> QED
      BY <1>2, <1>3, <2>1, <2>2, <2>3 DEF TypeOK
<1>5. CallShape
    BY <1>2 DEF CallShape, ShapeOf
<1>6. \A p \in Callers, c \in Conns : ~Holds(p, c)
    BY <1>2, PoolAssumption DEF Holds, Has
<1>7. HeldOnce /\ PooledIsFree
    BY <1>6 DEF Init, HeldOnce, PooledIsFree
<1> QED
    BY <1>4, <1>5, <1>7 DEF IInv

\* Every step keeps the invariant.
LEMMA NextIInv == IInv /\ [Next]_vars => IInv'
<1> SUFFICES ASSUME IInv, [Next]_vars PROVE IInv'
    OBVIOUS
<1>1. ASSUME NEW p \in Callers, Transaction(p) PROVE IInv'
    BY <1>1, TxGetKeeps, TxOffKeeps, BodyEndsKeeps, CommitKeeps, RollbackKeeps, RestoreKeeps,
       CloseKeeps DEF Transaction
<1>2. ASSUME NEW p \in Callers, RunStatement(p) PROVE IInv'
    BY <1>2, StGetKeeps, StOffKeeps, RunKeeps, FinishKeeps, StRestoreKeeps, StCloseKeeps
       DEF RunStatement
<1>3. CASE UNCHANGED vars
    BY <1>3 DEF vars, IInv, TypeOK, CallShape, HeldOnce, PooledIsFree, Holds
<1> QED
    BY <1>1, <1>2, <1>3, StatementKeeps, BreakKeeps DEF Next

\* Every variable keeps its type.
THEOREM TypeCorrect == Spec => []TypeOK
<1>1. IInv => TypeOK
    BY DEF IInv
<1> QED
    BY InitIInv, NextIInv, <1>1, PTL DEF Spec

\* Every connection is in the pool or with exactly one caller, or it broke and was
\* lost, for any number of callers, connections, statements and faults.
THEOREM NoConnectionLost == Spec => []ConnectionsAccounted
<1>1. IInv => ConnectionsAccounted
  <2> SUFFICES ASSUME IInv, NEW c \in Conns
               PROVE  /\ Cardinality(Holders(c)) <= 1
                      /\ conns[c].pooled <=> Holders(c) = {} /\ ~conns[c].broken
      BY DEF ConnectionsAccounted
  <2>1. Holders(c) = {p \in Callers : Holds(p, c)}
      BY DEF Holders, Holds, Has
  <2>2. CASE Holders(c) = {}
      BY <2>1, <2>2, FS_EmptySet DEF IInv, PooledIsFree
  <2>3. CASE Holders(c) # {}
    <3>1. PICK p \in Callers : Holds(p, c)
        BY <2>1, <2>3
    <3>2. Holders(c) = {p}
        BY <2>1, <3>1 DEF IInv, HeldOnce
    <3>3. Cardinality(Holders(c)) = 1
        BY <3>2, FS_Singleton
    <3>4. ~conns[c].pooled
        BY <3>1 DEF IInv, PooledIsFree
    <3> QED
        BY <2>3, <3>3, <3>4
  <2> QED
      BY <2>2, <2>3
<1> QED
    BY InitIInv, NextIInv, <1>1, PTL DEF Spec

------------------------------------------------------------------------------
(* Atomicity.                                                              *)

\* Nobody will ever use c again.
Abandoned(c) == conns[c].broken /\ \A x \in Callers : ~Holds(x, c)

\* Rows are counted, and wait for the commit of a caller that has the connection.
RowsCounted ==
    /\ \A row \in db : row[2] <= call[row[1]].count
    /\ \A p \in Callers : \A row \in call[p].rows : row[1] = p /\ row[2] <= call[p].count

PendingIsOfHolder ==
    \A c \in Conns :
       /\ conns[c].broken => conns[c].pending = {}
       /\ \A row \in conns[c].pending : Holds(row[1], c) /\ row[2] <= call[row[1]].count

\* A transaction in each of its phases.
TxOK(p) ==
    LET q == call[p] IN
    /\ q.pc \in {"get", "off"} => q.rows = {}
    /\ q.pc \in {"get", "off", "body", "commit"} => q.ok
    /\ q.pc = "rollback" => ~q.ok
    /\ q.pc \in {"body", "commit"} /\ ~Dead(p) => q.rows \subseteq db \cup conns[q.conn].pending
    /\ q.pc \in {"restore", "close", "over"} /\ q.ok => q.rows \subseteq db
    /\ q.fatal => ~q.ok /\ q.pc \in {"restore", "close", "over"}
    /\ q.own # None => q.rows \cap conns[q.own].pending = {}

UncutTxOK(p) ==
    LET q == call[p] IN
    /\ q.pc \notin {"get", "over"} => q.open
    /\ q.pc \in {"off", "close"} => conns[q.conn].auto
    /\ q.pc \in {"body", "commit"} => ~conns[q.conn].auto
    /\ q.pc \in {"get", "off", "body", "commit", "rollback"} => q.rows \cap db = {}
    /\ q.pc \in {"restore", "close"} /\ ~q.ok /\ ~q.fatal => q.rows \cap db = {}
    /\ q.pc = "restore" /\ ~q.ok /\ ~q.fatal => q.rows \cap conns[q.conn].pending = {}
    /\ q.pc = "over" /\ ~q.ok /\ ~q.fatal => q.rows \cap db = {} \/ (q.open /\ Abandoned(q.conn))
    /\ q.pc = "restore" /\ q.fatal =>
          /\ q.rows \cap db = {}
          /\ conns[q.conn].broken \/ q.rows \subseteq conns[q.conn].pending
    /\ q.pc = "close" /\ q.fatal => q.rows \subseteq db
    /\ q.pc = "over" /\ q.fatal =>
          q.rows \subseteq db \/ (q.rows \cap db = {} /\ q.open /\ Abandoned(q.conn))

\* A single statement in each of its stages.
SingleOK(p) ==
    LET q == call[p] IN
    /\ q.stage = "none" <=> q.pc = "over"
    /\ q.stage \notin {"none", "get"} => q.own # None
    /\ q.stage \in {"get", "off", "run"} => q.rows = {} /\ ~q.done

UncutSingleOK(p) ==
    LET q == call[p] IN
    /\ q.stage = "finish" =>
          /\ q.rows \cap db = {}
          /\ q.done => q.rows # {} /\ (conns[q.own].broken \/ q.rows \subseteq conns[q.own].pending)
    /\ q.stage = "restore" =>
          IF q.done THEN conns[q.own].broken \/ (q.rows # {} /\ q.rows \subseteq db)
          ELSE q.rows \cap (db \cup conns[q.own].pending) = {}
    /\ q.stage = "close" =>
          IF q.done THEN q.rows # {} /\ q.rows \subseteq db
          ELSE Transacted(p) => q.rows \cap db = {}
    /\ q.pc = "over" =>
          \/ \E c \in Conns : Abandoned(c)
          \/ IF q.ok THEN q.rows # {} /\ q.rows \subseteq db
             ELSE q.kind = "template" /\ UseTransaction => q.rows \cap db = {}

\* The mode of a statement's own connection.
AutoOK(p) ==
    LET q == call[p] IN
    q.own # None =>
       /\ q.stage = "off" => Transacted(p)
       /\ q.stage \in {"off", "close"} => conns[q.own].auto
       /\ q.stage = "run" => (conns[q.own].auto <=> ~Transacted(p))

CallerOK(p) ==
    /\ call[p].tx => TxOK(p) /\ (~cut => UncutTxOK(p))
    /\ ~call[p].tx => SingleOK(p) /\ (~cut /\ p \notin lied => UncutSingleOK(p))
    /\ ~cut => AutoOK(p)

AInv ==
    /\ RowsCounted /\ PendingIsOfHolder /\ PooledIsClean
    /\ \A p \in Callers : CallerOK(p)

------------------------------------------------------------------------------
(* What a step of one caller may do to the others.                         *)

\* The connections that x neither has nor takes stay as they are.
Interference(x) ==
    /\ OnlyCaller(x)
    /\ \A d \in Conns : conns'[d] = conns[d] \/ conns[d].pooled \/ Holds(x, d)
    /\ \A d \in Conns : Holds(x, d)' => Holds(x, d) \/ conns[d].pooled
    /\ db \subseteq db' /\ \A row \in db' \ db : row[1] = x
    /\ cut => cut'
    /\ lied \subseteq lied'

LEMMA AbandonedStays ==
    ASSUME IInv, NEW x \in Callers, Interference(x), NEW c \in Conns, Abandoned(c)
    PROVE  Abandoned(c)'
<1>1. ~conns[c].pooled /\ conns'[c] = conns[c]
    BY DEF IInv, PooledIsFree, Interference, Abandoned
<1>2. \A p \in Callers : ~Holds(p, c)'
    BY <1>1 DEF Interference, OnlyCaller, Holds, Abandoned
<1> QED
    BY <1>1, <1>2 DEF Abandoned

LEMMA OthersKeep ==
    ASSUME IInv, AInv, NEW x \in Callers, Interference(x), NEW p \in Callers, p # x
    PROVE  CallerOK(p)'
<1> DEFINE q == call[p]
<1>1. call'[p] = q /\ q.rows \cap db' = q.rows \cap db
    BY DEF Interference, OnlyCaller, AInv, RowsCounted
<1>2. \A d \in Conns : Holds(p, d) => conns'[d] = conns[d]
    BY DEF Interference, IInv, HeldOnce, PooledIsFree
<1>3. q.open /\ q.pc # "over" => conns'[q.conn] = conns[q.conn]
    BY <1>2, CallerFacts DEF Holds, Has, ShapeOf
<1>4. q.own # None => conns'[q.own] = conns[q.own]
    BY <1>2, CallerFacts DEF Holds, Has
<1>5. \A d \in Conns : Abandoned(d) => Abandoned(d)'
    BY AbandonedStays
<1>6. /\ db \subseteq db' /\ (~cut' => ~cut) /\ (p \notin lied' => p \notin lied)
      /\ ShapeOf(q) /\ CallerOK(p) /\ (q.conn # None => q.conn \in Conns)
    BY CallerFacts DEF Interference, AInv
<1>7. Transacted(p)' <=> Transacted(p)
    BY <1>1 DEF Transacted, Joined
<1>8. q.pc # "over" => (Dead(p)' <=> Dead(p))
    BY <1>1, <1>3 DEF Dead
<1> HIDE DEF q
<1>9. ASSUME q.tx, TxOK(p) PROVE TxOK(p)'
    BY <1>1, <1>3, <1>4, <1>6, <1>8, <1>9 DEF TxOK, Dead, q
<1>10. ASSUME q.tx, UncutTxOK(p) PROVE UncutTxOK(p)'
    BY <1>1, <1>3, <1>5, <1>6, <1>10 DEF UncutTxOK, ShapeOf, q
<1>11. ASSUME ~q.tx, SingleOK(p) PROVE SingleOK(p)'
    BY <1>1, <1>11 DEF SingleOK, q
<1>12. ASSUME ~q.tx, SingleOK(p), UncutSingleOK(p) PROVE UncutSingleOK(p)'
    BY <1>1, <1>4, <1>5, <1>6, <1>7, <1>12 DEF SingleOK, UncutSingleOK, q
<1>13. ASSUME AutoOK(p) PROVE AutoOK(p)'
    BY <1>1, <1>4, <1>7, <1>13 DEF AutoOK, q
<1> QED
    BY <1>1, <1>6, <1>9, <1>10, <1>11, <1>12, <1>13 DEF CallerOK, q

\* x works on c: what it writes there, rows of new, waits or is committed.
Works(x, c, new) ==
    /\ \A d \in Conns \ {c} : conns'[d] = conns[d]
    /\ SameHeld(x, c)
    /\ conns[c].pooled \/ Holds(x, c)
    /\ Holds(x, c)' \/ conns'[c].pending = {}
    /\ conns'[c].broken => conns'[c].pending = {}
    /\ conns'[c].pending \subseteq conns[c].pending \cup new
    /\ db \subseteq db' /\ db' \subseteq db \cup conns[c].pending \cup new
    /\ conns'[c].pooled /\ ~cut' =>
          conns'[c].auto /\ ~conns'[c].broken /\ conns'[c].pending = {}

\* x touches no connection; one that it gives up has nothing pending.
Rests(x) ==
    /\ UNCHANGED <<conns, db>>
    /\ \A d \in Conns : Holds(x, d)' => Holds(x, d)
    /\ \A d \in Conns : Holds(x, d) => Holds(x, d)' \/ conns[d].pending = {}

\* The rows of x, and those of new, are counted; nothing recorded is forgotten.
Counts(x, new) ==
    /\ OnlyCaller(x)
    /\ call[x].count <= call'[x].count
    /\ \A row \in call'[x].rows : row[1] = x /\ row[2] <= call'[x].count
    /\ \A row \in new : row[1] = x /\ row[2] <= call'[x].count
    /\ cut => cut'
    /\ lied \subseteq lied'

LEMMA RowFacts ==
    ASSUME IInv
    PROVE  /\ \A row \in db : row[1] \in Callers /\ row[2] \in Int
           /\ \A p \in Callers : call[p].count \in Int
           /\ \A p \in Callers : \A row \in call[p].rows : row[1] \in Callers /\ row[2] \in Int
           /\ \A c \in Conns : \A row \in conns[c].pending : row[1] \in Callers /\ row[2] \in Int
<1>1. \A row \in Rows : row[1] \in Callers /\ row[2] \in Int
    BY DEF Rows
<1>2. /\ db \subseteq Rows
      /\ \A p \in Callers : call[p].count \in Int /\ call[p].rows \subseteq Rows
      /\ \A c \in Conns : conns[c].pending \subseteq Rows
    BY BoundAssumption DEF IInv, TypeOK, Call
<1> QED
    BY <1>1, <1>2

\* What waits on a connection that x has, or on one in the pool, is of x.
LEMMA PendingIsOwn ==
    ASSUME IInv, AInv, NEW x \in Callers, NEW c \in Conns, conns[c].pooled \/ Holds(x, c)
    PROVE  /\ \A row \in conns[c].pending : row[1] = x /\ row[2] <= call[x].count
           /\ conns[c].pooled => conns[c].pending = {}
    BY RowFacts DEF IInv, HeldOnce, PooledIsFree, AInv, PendingIsOfHolder

LEMMA StepKeeps ==
    ASSUME IInv, IInv', AInv, NEW x \in Callers, NEW c \in Conns, NEW new \in SUBSET Rows,
           Works(x, c, new), Counts(x, new), CallerOK(x)'
    PROVE  AInv'
<1>1. /\ \A row \in conns[c].pending : row[1] = x /\ row[2] <= call[x].count
      /\ conns[c].pooled => conns[c].pending = {}
    BY PendingIsOwn DEF Works
<1>2. \A row \in conns[c].pending \cup new : row[1] = x /\ row[2] <= call'[x].count
    BY <1>1, RowFacts DEF Counts, IInv, TypeOK, Call, Rows
<1>3. Interference(x)
  <2>1. \A row \in db' \ db : row[1] = x
      BY <1>2 DEF Works
  <2> QED
      BY <2>1 DEF Works, Counts, Interference, SameHeld
<1>4. \A p \in Callers : call[p].count <= call'[p].count /\ (p # x => call'[p] = call[p])
    BY RowFacts DEF Counts, OnlyCaller
<1>5. \A p \in Callers : CallerOK(p)'
    BY <1>3, OthersKeep
<1>6. RowsCounted'
  <2>1. ASSUME NEW row \in db' PROVE row[2] <= call'[row[1]].count
    <3>1. CASE row \in db
      <4>1. call'[row[1]].count \in Int /\ row[2] <= call[row[1]].count /\ row[1] \in Callers
            /\ row[2] \in Int /\ call[row[1]].count \in Int
          BY <3>1, RowFacts DEF IInv, AInv, RowsCounted, TypeOK, Call
      <4> QED
          BY <1>4, <4>1
    <3>2. CASE row \notin db
        BY <1>2, <3>2 DEF Works
    <3> QED
        BY <3>1, <3>2
  <2>2. ASSUME NEW p \in Callers, NEW row \in call'[p].rows
        PROVE  row[1] = p /\ row[2] <= call'[p].count
      BY <1>4 DEF Counts, AInv, RowsCounted
  <2> QED
      BY <2>1, <2>2 DEF RowsCounted
<1>7. PendingIsOfHolder'
  <2> SUFFICES ASSUME NEW d \in Conns
               PROVE  /\ conns'[d].broken => conns'[d].pending = {}
                      /\ \A row \in conns'[d].pending :
                            Holds(row[1], d)' /\ row[2] <= call'[row[1]].count
      BY DEF PendingIsOfHolder
  <2>1. CASE d = c
      BY <1>2, <2>1 DEF Works
  <2>2. CASE d # c
    <3>1. conns'[d] = conns[d]
        BY <2>2 DEF Works
    <3>2. ASSUME NEW row \in conns[d].pending
          PROVE  Holds(row[1], d)' /\ row[2] <= call'[row[1]].count
      <4>1. /\ row[1] \in Callers /\ row[2] \in Int /\ call[row[1]].count \in Int
            /\ Holds(row[1], d) /\ row[2] <= call[row[1]].count
          BY <3>2, RowFacts DEF AInv, PendingIsOfHolder
      <4>2. call'[row[1]].count \in Int /\ row[2] <= call'[row[1]].count
        <5>1. call'[row[1]].count \in Int
            BY <4>1, BoundAssumption DEF IInv, TypeOK, Call
        <5> QED
            BY <1>4, <4>1, <5>1
      <4>3. Holds(row[1], d)'
          BY <1>4, <2>2, <4>1 DEF Works, SameHeld, Holds
      <4> QED
          BY <4>2, <4>3
    <3> QED
        BY <3>1, <3>2 DEF AInv, PendingIsOfHolder
  <2> QED
      BY <2>1, <2>2
<1>8. PooledIsClean'
    BY DEF Works, Counts, AInv, PooledIsClean
<1> QED
    BY <1>5, <1>6, <1>7, <1>8 DEF AInv

LEMMA RestKeeps ==
    ASSUME IInv, IInv', AInv, NEW x \in Callers, Rests(x), Counts(x, {}), CallerOK(x)'
    PROVE  AInv'
<1>1. Interference(x)
    BY DEF Rests, Counts, Interference
<1>2. \A p \in Callers : /\ call[p].count <= call'[p].count /\ (p # x => call'[p] = call[p])
                         /\ call'[p].count \in Int /\ call[p].count \in Int
    BY RowFacts, BoundAssumption DEF Counts, OnlyCaller, IInv, TypeOK, Call
<1>3. \A p \in Callers : CallerOK(p)'
    BY <1>1, OthersKeep
<1>4. RowsCounted'
  <2>1. ASSUME NEW row \in db PROVE row[2] <= call'[row[1]].count
    <3>1. row[2] <= call[row[1]].count /\ row[1] \in Callers /\ row[2] \in Int
        BY RowFacts DEF AInv, RowsCounted
    <3> QED
        BY <1>2, <3>1
  <2>2. ASSUME NEW p \in Callers, NEW row \in call'[p].rows
        PROVE  row[1] = p /\ row[2] <= call'[p].count
      BY <1>2 DEF Counts, AInv, RowsCounted
  <2> QED
      BY <2>1, <2>2 DEF Rests, RowsCounted
<1>5. PendingIsOfHolder'
  <2>1. ASSUME NEW d \in Conns, NEW row \in conns[d].pending
        PROVE  Holds(row[1], d)' /\ row[2] <= call'[row[1]].count
    <3>1. /\ row[1] \in Callers /\ row[2] \in Int
          /\ Holds(row[1], d) /\ row[2] <= call[row[1]].count
        BY <2>1, RowFacts DEF AInv, PendingIsOfHolder
    <3>2. row[2] <= call'[row[1]].count
        BY <1>2, <3>1
    <3>3. Holds(row[1], d)'
        BY <1>2, <3>1 DEF Rests, Holds
    <3> QED
        BY <3>2, <3>3
  <2> QED
      BY <2>1 DEF Rests, AInv, PendingIsOfHolder
<1>6. PooledIsClean'
    BY DEF Rests, Counts, AInv, PooledIsClean
<1> QED
    BY <1>3, <1>4, <1>5, <1>6 DEF AInv

------------------------------------------------------------------------------
(* What a call of a connection does to it.                                 *)


\* The parts of c after a call.
Parts(c, pooled, auto, broken, pending) ==
    /\ conns'[c].pooled = pooled /\ conns'[c].auto = auto
    /\ conns'[c].broken = broken /\ conns'[c].pending = pending
    /\ \A e \in Conns \ {c} : conns'[e] = conns[e]

LEMMA ConnParts ==
    ASSUME IInv, NEW c \in Conns
    PROVE  LET r == conns[c] IN
           /\ SwitchedOff(c) => db' = db /\ Parts(c, r.pooled, FALSE, r.broken, r.pending)
           /\ SwitchedOn(c) => db' = db \cup r.pending /\ Parts(c, r.pooled, TRUE, r.broken, {})
           /\ Committed(c) => db' = db \cup r.pending /\ Parts(c, r.pooled, r.auto, r.broken, {})
           /\ RolledBack(c) => db' = db /\ Parts(c, r.pooled, r.auto, r.broken, {})
           /\ Borrowed(c) => Parts(c, FALSE, r.auto, r.broken, r.pending)
           /\ conns' = Closed(c) => Parts(c, TRUE, r.auto \/ r.broken, FALSE, {})
<1> DEFINE r == conns[c]
<1>1. DOMAIN conns = Conns /\ r \in Connection
    BY CallerFacts DEF IInv, TypeOK, Connection
<1>2. SwitchedOff(c) => db' = db /\ Parts(c, r.pooled, FALSE, r.broken, r.pending)
    BY <1>1 DEF SwitchedOff, Parts, Connection
<1>3. SwitchedOn(c) => db' = db \cup r.pending /\ Parts(c, r.pooled, TRUE, r.broken, {})
    BY <1>1 DEF SwitchedOn, Parts, Connection
<1>4. Committed(c) => db' = db \cup r.pending /\ Parts(c, r.pooled, r.auto, r.broken, {})
    BY <1>1 DEF Committed, Parts, Connection
<1>5. RolledBack(c) => db' = db /\ Parts(c, r.pooled, r.auto, r.broken, {})
    BY <1>1 DEF RolledBack, Parts, Connection
<1>6. Borrowed(c) => Parts(c, FALSE, r.auto, r.broken, r.pending)
    BY <1>1 DEF Borrowed, Parts, Connection
<1>7. conns' = Closed(c) => Parts(c, TRUE, r.auto \/ r.broken, FALSE, {})
    BY <1>1 DEF Closed, Parts, Connection
<1> QED
    BY <1>2, <1>3, <1>4, <1>5, <1>6, <1>7

\* A row is written: at once, or when it is committed.
LEMMA WrittenParts ==
    ASSUME IInv, NEW c \in Conns, NEW row, Written(c, row)
    PROVE  /\ \A e \in Conns \ {c} : conns'[e] = conns[e]
           /\ conns'[c].pooled = conns[c].pooled /\ conns'[c].auto = conns[c].auto
           /\ conns'[c].broken = conns[c].broken
           /\ IF conns[c].auto THEN db' = db \cup {row} /\ conns'[c].pending = conns[c].pending
              ELSE db' = db /\ conns'[c].pending = conns[c].pending \cup {row}
<1>1. DOMAIN conns = Conns /\ conns[c] \in Connection
    BY CallerFacts DEF IInv, TypeOK, Connection
<1>2. CASE conns[c].auto
    BY <1>2 DEF Written
<1>3. CASE ~conns[c].auto
  <2>1. conns' = [conns EXCEPT ![c].pending = @ \cup {row}] /\ db' = db
      BY <1>3 DEF Written
  <2> QED
      BY <1>1, <1>3, <2>1 DEF Connection
<1> QED
    BY <1>2, <1>3

------------------------------------------------------------------------------
(* What changes of a caller.                                               *)

\* The transaction of p goes on.
TxMoves(p, pc, ok, open) ==
    /\ OnlyCaller(p) /\ call'[p].kind = call[p].kind /\ call'[p].tx = call[p].tx
    /\ call'[p].count = call[p].count /\ call'[p].rows = call[p].rows
    /\ call'[p].conn = call[p].conn /\ call'[p].own = call[p].own
    /\ call'[p].stage = call[p].stage /\ call'[p].done = call[p].done
    /\ call'[p].pc = pc /\ call'[p].ok = ok /\ call'[p].open = open
    /\ call'[p].fatal = call[p].fatal

LEMMA TxFields ==
    ASSUME IInv, NEW p \in Callers, NEW pc
    PROVE  /\ Proceed(p, pc) => TxMoves(p, pc, call[p].ok, call[p].open)
           /\ Failed(p, pc) => TxMoves(p, pc, FALSE, call[p].open)
           /\ call' = [call EXCEPT ![p].pc = pc, ![p].open = FALSE]
                 => TxMoves(p, pc, call[p].ok, FALSE)
<1>1. call \in [Callers -> Call] /\ call[p] \in Call
    BY DEF IInv, TypeOK
<1>2. Proceed(p, pc) => TxMoves(p, pc, call[p].ok, call[p].open)
    BY <1>1 DEF Proceed, TxMoves, OnlyCaller, Call
<1>3. Failed(p, pc) => TxMoves(p, pc, FALSE, call[p].open)
    BY <1>1 DEF Failed, TxMoves, OnlyCaller, Call
<1>4. call' = [call EXCEPT ![p].pc = pc, ![p].open = FALSE]
         => TxMoves(p, pc, call[p].ok, FALSE)
    BY <1>1 DEF TxMoves, OnlyCaller, Call
<1> QED
    BY <1>2, <1>3, <1>4

\* The statement of p goes on to a stage, with a connection.
StMoves(p, stage, own) ==
    /\ OnlyCaller(p) /\ call'[p].kind = call[p].kind /\ call'[p].tx = call[p].tx
    /\ call'[p].count = call[p].count /\ call'[p].rows = call[p].rows
    /\ call'[p].conn = call[p].conn /\ call'[p].own = own
    /\ call'[p].stage = stage /\ call'[p].done = call[p].done
    /\ call'[p].pc = call[p].pc /\ call'[p].ok = call[p].ok /\ call'[p].open = call[p].open
    /\ call'[p].fatal = call[p].fatal

LEMMA StFields ==
    ASSUME IInv, NEW p \in Callers, NEW stage, NEW own
    PROVE  /\ call' = [call EXCEPT ![p].stage = stage] => StMoves(p, stage, call[p].own)
           /\ call' = [call EXCEPT ![p].own = own, ![p].stage = stage] => StMoves(p, stage, own)
<1>1. call \in [Callers -> Call] /\ call[p] \in Call
    BY DEF IInv, TypeOK
<1>2. call' = [call EXCEPT ![p].stage = stage] => StMoves(p, stage, call[p].own)
    BY <1>1 DEF StMoves, OnlyCaller, Call
<1>3. call' = [call EXCEPT ![p].own = own, ![p].stage = stage] => StMoves(p, stage, own)
    BY <1>1 DEF StMoves, OnlyCaller, Call
<1> QED
    BY <1>2, <1>3

\* Moving on counts nothing.
LEMMA MovesCount ==
    ASSUME IInv, AInv, NEW p \in Callers, OnlyCaller(p), cut => cut', lied \subseteq lied',
           call'[p].count = call[p].count, call'[p].rows = call[p].rows
    PROVE  Counts(p, {})
    BY RowFacts DEF Counts, AInv, RowsCounted

\* Only the phase of p and its outcome change.
TxStays(p) ==
    /\ call[p].stage = "none" /\ call[p].pc # "over"
    /\ call'[p].conn = call[p].conn /\ call'[p].own = call[p].own
    /\ call'[p].open = call[p].open

LEMMA TxHolds ==
    ASSUME IInv, NEW p \in Callers, TxStays(p), NEW d \in Conns
    PROVE  /\ call[p].own = None
           /\ Holds(p, d) <=> call[p].conn = d /\ call[p].open
           /\ Holds(p, d)' <=> call[p].conn = d /\ call[p].open /\ call'[p].pc # "over"
    BY CallerFacts DEF TxStays, Holds, Has, ShapeOf

\* A call that changes the mode of c and what is pending on it, at most.
Touches(c) ==
    /\ \A e \in Conns \ {c} : conns'[e] = conns[e]
    /\ conns'[c].pooled = conns[c].pooled /\ conns'[c].broken = conns[c].broken
    /\ conns'[c].pending \subseteq conns[c].pending
    /\ db' = db \/ db' = db \cup conns[c].pending

\* The step of a transaction that calls its own connection.
LEMMA TxCalls ==
    ASSUME IInv, AInv, NEW p \in Callers, TxStays(p), ~Dead(p), call'[p].pc # "over",
           NEW c, c = call[p].conn, Touches(c)
    PROVE  Works(p, c, {})
<1>1. c \in Conns /\ call[p].open /\ ~conns[c].broken
    BY CallerFacts DEF Dead, ShapeOf
<1>2. Holds(p, c) /\ SameHeld(p, c) /\ Holds(p, c)'
    BY <1>1, CallerFacts DEF TxStays, SameHeld, Holds, Has, ShapeOf
<1>3. ~conns[c].pooled
    BY <1>1, <1>2 DEF IInv, PooledIsFree
<1> QED
    BY <1>1, <1>2, <1>3 DEF Works, Touches

\* A transaction that goes on without a call of a connection.
LEMMA TxRests ==
    ASSUME IInv, AInv, NEW p \in Callers, TxStays(p), UNCHANGED <<conns, db>>,
           call'[p].pc = "over" => Dead(p)
    PROVE  Rests(p)
<1>1. \A d \in Conns : Holds(p, d)' => Holds(p, d)
    BY TxHolds
<1>2. ASSUME NEW d \in Conns, Holds(p, d), ~Holds(p, d)' PROVE conns[d].pending = {}
    BY <1>2, TxHolds DEF Dead, AInv, PendingIsOfHolder
<1> QED
    BY <1>1, <1>2 DEF Rests

------------------------------------------------------------------------------
(* The steps of a transaction.                                             *)

LEMMA TxGetAtomic == ASSUME IInv, IInv', AInv, NEW p \in Callers, TxGet(p) PROVE AInv'
<1>1. PICK c \in Conns :
         /\ conns[c].pooled /\ Borrowed(c)
         /\ call' = [call EXCEPT ![p].pc = "off", ![p].conn = c, ![p].open = TRUE]
    BY DEF TxGet
<1>2. /\ OnlyCaller(p) /\ call'[p].count = call[p].count /\ call'[p].rows = call[p].rows
      /\ call'[p].tx = call[p].tx /\ call'[p].ok = call[p].ok /\ call'[p].own = call[p].own
      /\ call'[p].fatal = call[p].fatal
      /\ call'[p].pc = "off" /\ call'[p].conn = c /\ call'[p].open = TRUE
    BY <1>1, CallerFacts DEF IInv, TypeOK, OnlyCaller, Call
<1>3. /\ call[p].pc = "get" /\ call[p].tx /\ call[p].own = None /\ ~call[p].open
      /\ UNCHANGED <<db, faults, cut, lied>>
    BY CallerFacts DEF TxGet, ShapeOf
<1>4. Parts(c, FALSE, conns[c].auto, conns[c].broken, conns[c].pending)
    BY <1>1, ConnParts
<1>5. Holds(p, c)' /\ SameHeld(p, c)
    BY <1>2, <1>3, CallerFacts DEF SameHeld, Holds, Has
<1>6. conns[c].pending = {}
    BY <1>1, PendingIsOwn
<1>7. Works(p, c, {})
    BY <1>1, <1>3, <1>4, <1>5, <1>6 DEF Works, Parts
<1>8. TxOK(p) /\ (~cut => UncutTxOK(p)) /\ (~cut => conns[c].auto)
    BY <1>1, <1>3 DEF AInv, CallerOK, PooledIsClean
<1>9. CallerOK(p)'
    BY <1>2, <1>3, <1>4, <1>8 DEF CallerOK, TxOK, UncutTxOK, AutoOK, Parts
<1> QED
    BY <1>2, <1>3, <1>7, <1>9, MovesCount, StepKeeps

LEMMA TxOffAtomic == ASSUME IInv, IInv', AInv, NEW p \in Callers, TxOff(p) PROVE AInv'
<1>0. PICK c : c = call[p].conn
    OBVIOUS
<1>1. /\ call[p].pc = "off" /\ call[p].stage = "none" /\ call[p].tx /\ call[p].open
      /\ c \in Conns /\ call[p].own = None /\ UNCHANGED <<faults, cut, lied>>
    BY <1>0, CallerFacts DEF TxOff, ShapeOf
<1>2. TxOK(p) /\ (~cut => UncutTxOK(p))
    BY <1>1 DEF AInv, CallerOK
<1>3. CASE ~Dead(p) /\ SwitchedOff(c) /\ Proceed(p, "body")
  <2>1. TxMoves(p, "body", call[p].ok, call[p].open)
      BY <1>3, TxFields
  <2>2. db' = db /\ Parts(c, conns[c].pooled, FALSE, conns[c].broken, conns[c].pending)
      BY <1>1, <1>3, ConnParts
  <2>3. TxStays(p) /\ Touches(c) /\ call'[p].pc # "over"
      BY <1>1, <2>1, <2>2 DEF TxMoves, TxStays, Parts, Touches
  <2>4. Works(p, c, {}) /\ Counts(p, {})
      BY <1>0, <1>1, <1>3, <2>1, <2>3, TxCalls, MovesCount DEF TxMoves
  <2>5. CallerOK(p)'
      BY <1>0, <1>1, <1>2, <2>1, <2>2 DEF CallerOK, TxOK, UncutTxOK, AutoOK, Parts, TxMoves
  <2> QED
      BY <1>1, <2>4, <2>5, StepKeeps
<1>4. ASSUME Dead(p), NEW pc \in {"over", "rollback"}, Failed(p, pc), UNCHANGED <<conns, db>>
      PROVE  AInv'
  <2>1. TxMoves(p, pc, FALSE, call[p].open)
      BY <1>4, TxFields
  <2>2. Rests(p) /\ Counts(p, {})
      BY <1>1, <1>4, <2>1, TxRests, MovesCount DEF TxMoves, TxStays
  <2>3. CallerOK(p)'
      BY <1>1, <1>2, <1>4, <2>1 DEF CallerOK, TxOK, UncutTxOK, AutoOK, TxMoves
  <2> QED
      BY <2>2, <2>3, RestKeeps
<1> QED
    BY <1>0, <1>3, <1>4 DEF TxOff

LEMMA BodyEndsAtomic == ASSUME IInv, IInv', AInv, NEW p \in Callers, BodyEnds(p) PROVE AInv'
<1>1. /\ call[p].pc = "body" /\ call[p].stage = "none" /\ call[p].tx
      /\ call[p].own = None /\ UNCHANGED <<conns, db, faults, cut, lied>>
    BY CallerFacts DEF BodyEnds, ShapeOf
<1>2. TxOK(p) /\ (~cut => UncutTxOK(p))
    BY <1>1 DEF AInv, CallerOK
<1>3. CASE Proceed(p, "commit") \/ Failed(p, "rollback")
  <2>1. PICK pc \in {"commit", "rollback"} :
           TxMoves(p, pc, IF pc = "commit" THEN call[p].ok ELSE FALSE, call[p].open)
    <3>1. CASE Proceed(p, "commit")
        BY <3>1, TxFields
    <3>2. CASE Failed(p, "rollback")
        BY <3>2, TxFields
    <3> QED
        BY <1>3, <3>1, <3>2
  <2>2. Rests(p) /\ Counts(p, {})
      BY <1>1, <2>1, TxRests, MovesCount DEF TxMoves, TxStays
  <2>3. CallerOK(p)'
      BY <1>1, <1>2, <2>1 DEF CallerOK, TxOK, UncutTxOK, AutoOK, TxMoves, Dead
  <2> QED
      BY <2>2, <2>3, RestKeeps
<1>4. CASE call' = [call EXCEPT ![p].pc = "restore", ![p].ok = FALSE, ![p].fatal = TRUE]
  <2>1. /\ OnlyCaller(p) /\ call'[p].kind = call[p].kind /\ call'[p].tx = call[p].tx
        /\ call'[p].count = call[p].count /\ call'[p].rows = call[p].rows
        /\ call'[p].conn = call[p].conn /\ call'[p].own = call[p].own
        /\ call'[p].stage = call[p].stage /\ call'[p].open = call[p].open
        /\ call'[p].pc = "restore" /\ call'[p].ok = FALSE /\ call'[p].fatal = TRUE
      BY <1>4 DEF IInv, TypeOK, OnlyCaller, Call
  <2>2. Rests(p) /\ Counts(p, {})
      BY <1>1, <2>1, TxRests, MovesCount DEF TxStays
  <2>3. TxOK(p)'
      BY <1>1, <1>2, <2>1 DEF TxOK
  <2>4. ASSUME ~cut PROVE UncutTxOK(p)'
    <3>1. call[p].open /\ call[p].rows \cap db = {}
        BY <1>1, <1>2, <2>4 DEF UncutTxOK
    <3>2. conns[call[p].conn].broken \/ call[p].rows \subseteq conns[call[p].conn].pending
        BY <1>1, <1>2, <3>1 DEF TxOK, Dead
    <3> QED
        BY <1>1, <2>1, <3>1, <3>2 DEF UncutTxOK
  <2>5. CallerOK(p)'
      BY <1>1, <2>1, <2>3, <2>4 DEF CallerOK, AutoOK
  <2> QED
      BY <2>2, <2>5, RestKeeps
<1> QED
    BY <1>3, <1>4 DEF BodyEnds

\* A commit that is refused takes back what was pending.
LEMMA RefusedParts ==
    ASSUME IInv, NEW p \in Callers, NEW c \in Conns, CommitRefused(p, c)
    PROVE  /\ db' = db /\ lied' = lied \cup {p}
           /\ Parts(c, conns[c].pooled, conns[c].auto, conns[c].broken, {})
    BY ConnParts DEF CommitRefused

LEMMA CommitAtomic == ASSUME IInv, IInv', AInv, NEW p \in Callers, Commit(p) PROVE AInv'
<1>0. PICK c : c = call[p].conn
    OBVIOUS
<1>1. /\ call[p].pc = "commit" /\ call[p].stage = "none" /\ call[p].tx
      /\ call[p].own = None /\ UNCHANGED cut
    BY CallerFacts DEF Commit, ShapeOf
<1>2. TxOK(p) /\ (~cut => UncutTxOK(p))
    BY <1>1 DEF AInv, CallerOK
<1>3. ~Dead(p) => call[p].open /\ c \in Conns /\ ~conns[c].broken
    BY <1>0, CallerFacts DEF Dead, ShapeOf
<1>4. ASSUME NEW pc \in {"restore", "rollback"}, NEW ok, TxMoves(p, pc, ok, call[p].open),
             ~Dead(p), Parts(c, conns[c].pooled, conns[c].auto, conns[c].broken, {}),
             db' = db \/ db' = db \cup conns[c].pending, lied \subseteq lied'
      PROVE  Works(p, c, {}) /\ Counts(p, {})
  <2>1. TxStays(p) /\ Touches(c) /\ call'[p].pc # "over"
      BY <1>1, <1>4 DEF TxMoves, TxStays, Parts, Touches
  <2>2. Works(p, c, {})
      BY <1>0, <1>4, <2>1, TxCalls
  <2>3. Counts(p, {})
      BY <1>1, <1>4, MovesCount DEF TxMoves
  <2> QED
      BY <2>2, <2>3
<1>5. CASE ~Dead(p) /\ Committed(c) /\ Proceed(p, "restore") /\ UNCHANGED <<faults, lied>>
  <2>1. TxMoves(p, "restore", call[p].ok, call[p].open)
      BY <1>5, TxFields
  <2>2. /\ db' = db \cup conns[c].pending
        /\ Parts(c, conns[c].pooled, conns[c].auto, conns[c].broken, {})
      BY <1>3, <1>5, ConnParts
  <2>3. CallerOK(p)'
      BY <1>0, <1>1, <1>2, <1>5, <2>1, <2>2 DEF CallerOK, TxOK, UncutTxOK, AutoOK, Parts, TxMoves
  <2>4. Works(p, c, {}) /\ Counts(p, {})
      BY <1>4, <1>5, <2>1, <2>2
  <2> QED
      BY <1>3, <1>5, <2>3, <2>4, StepKeeps
<1>6. CASE ~Dead(p) /\ CommitRefused(p, c) /\ Failed(p, "rollback")
  <2>1. TxMoves(p, "rollback", FALSE, call[p].open)
      BY <1>6, TxFields
  <2>2. /\ db' = db /\ lied' = lied \cup {p}
        /\ Parts(c, conns[c].pooled, conns[c].auto, conns[c].broken, {})
      BY <1>3, <1>6, RefusedParts
  <2>3. CallerOK(p)'
      BY <1>1, <1>2, <2>1, <2>2 DEF CallerOK, TxOK, UncutTxOK, AutoOK, Parts, TxMoves
  <2>4. Works(p, c, {}) /\ Counts(p, {})
      BY <1>4, <1>6, <2>1, <2>2
  <2> QED
      BY <1>3, <1>6, <2>3, <2>4, StepKeeps
<1>7. CASE Failed(p, "rollback") /\ UNCHANGED <<conns, db, faults, lied>>
  <2>1. TxMoves(p, "rollback", FALSE, call[p].open)
      BY <1>7, TxFields
  <2>2. Rests(p) /\ Counts(p, {})
      BY <1>1, <1>7, <2>1, TxRests, MovesCount DEF TxMoves, TxStays
  <2>3. CallerOK(p)'
      BY <1>1, <1>2, <1>7, <2>1 DEF CallerOK, TxOK, UncutTxOK, AutoOK, TxMoves
  <2> QED
      BY <2>2, <2>3, RestKeeps
<1> QED
    BY <1>0, <1>5, <1>6, <1>7 DEF Commit

LEMMA RollbackAtomic == ASSUME IInv, IInv', AInv, NEW p \in Callers, Rollback(p) PROVE AInv'
<1>0. PICK c : c = call[p].conn
    OBVIOUS
<1>1. /\ call[p].pc = "rollback" /\ call[p].stage = "none" /\ call[p].tx
      /\ call[p].own = None /\ UNCHANGED <<faults, cut, lied>>
    BY CallerFacts DEF Rollback, ShapeOf
<1>2. TxOK(p) /\ (~cut => UncutTxOK(p)) /\ call[p].ok = FALSE
    BY <1>1, CallerFacts DEF AInv, CallerOK, TxOK, Call
<1>3. TxMoves(p, "restore", FALSE, call[p].open)
    BY <1>2, TxFields DEF Rollback
<1>4. Counts(p, {})
    BY <1>1, <1>3, MovesCount DEF TxMoves
<1>5. CASE ~Dead(p)
  <2>1. call[p].open /\ c \in Conns /\ ~conns[c].broken
      BY <1>0, <1>5, CallerFacts DEF Dead, ShapeOf
  <2>2. db' = db /\ Parts(c, conns[c].pooled, conns[c].auto, conns[c].broken, {})
      BY <1>0, <1>5, <2>1, ConnParts DEF Rollback
  <2>3. CallerOK(p)'
      BY <1>0, <1>1, <1>2, <1>3, <2>2 DEF CallerOK, TxOK, UncutTxOK, AutoOK, Parts, TxMoves
  <2>4. Works(p, c, {})
    <3>1. TxStays(p) /\ Touches(c) /\ call'[p].pc # "over"
        BY <1>1, <1>3, <2>2 DEF TxMoves, TxStays, Parts, Touches
    <3> QED
        BY <1>0, <1>5, <3>1, TxCalls
  <2> QED
      BY <1>4, <2>1, <2>3, <2>4, StepKeeps
<1>6. CASE Dead(p)
  <2>1. UNCHANGED <<conns, db>>
      BY <1>6 DEF Rollback
  <2>2. call[p].open => conns[c].pending = {}
      BY <1>0, <1>6, CallerFacts DEF Dead, ShapeOf, AInv, PendingIsOfHolder
  <2>3. CallerOK(p)'
      BY <1>0, <1>1, <1>2, <1>3, <2>1, <2>2 DEF CallerOK, TxOK, UncutTxOK, AutoOK, TxMoves
  <2>4. Rests(p)
      BY <1>1, <1>3, <2>1, TxRests DEF TxMoves, TxStays
  <2> QED
      BY <1>4, <2>3, <2>4, RestKeeps
<1> QED
    BY <1>5, <1>6

\* A connection that its only user gives up is left to nobody.
LEMMA GivenUpIsAbandoned ==
    ASSUME IInv, NEW p \in Callers, NEW c \in Conns, Holds(p, c), ~Holds(p, c)', OnlyCaller(p),
           conns[c].broken, UNCHANGED conns
    PROVE  Abandoned(c)'
    BY DEF Abandoned, OnlyCaller, Holds, IInv, HeldOnce

LEMMA RestoreAtomic == ASSUME IInv, IInv', AInv, NEW p \in Callers, Restore(p) PROVE AInv'
<1>0. PICK c : c = call[p].conn
    OBVIOUS
<1>1. /\ call[p].pc = "restore" /\ call[p].stage = "none" /\ call[p].tx
      /\ call[p].own = None /\ UNCHANGED <<faults, cut, lied>>
    BY CallerFacts DEF Restore, ShapeOf
<1>2. TxOK(p) /\ (~cut => UncutTxOK(p))
    BY <1>1 DEF AInv, CallerOK
<1>3. CASE ~Dead(p)
  <2>1. call[p].open /\ c \in Conns /\ ~conns[c].broken
      BY <1>0, <1>3, CallerFacts DEF Dead, ShapeOf
  <2>2. TxMoves(p, "close", call[p].ok, call[p].open)
      BY <1>3, TxFields DEF Restore
  <2>3. db' = db \cup conns[c].pending /\ Parts(c, conns[c].pooled, TRUE, conns[c].broken, {})
      BY <1>0, <1>3, <2>1, ConnParts DEF Restore
  <2>4. CallerOK(p)'
    <3>1. TxOK(p)'
        BY <1>1, <1>2, <2>2, <2>3 DEF TxOK, TxMoves
    <3>2. ASSUME ~cut PROVE UncutTxOK(p)'
      <4>1. call[p].fatal => call[p].rows \subseteq db'
          BY <1>0, <1>1, <1>2, <2>1, <2>3, <3>2 DEF UncutTxOK
      <4>2. ~call[p].fatal /\ ~call[p].ok => call[p].rows \cap db' = {}
          BY <1>0, <1>1, <1>2, <2>3, <3>2 DEF UncutTxOK
      <4> QED
          BY <1>0, <2>1, <2>2, <2>3, <4>1, <4>2 DEF UncutTxOK, TxMoves, Parts
    <3> QED
        BY <1>1, <2>2, <3>1, <3>2 DEF CallerOK, AutoOK, TxMoves
  <2>5. Counts(p, {})
      BY <1>1, <2>2, MovesCount DEF TxMoves
  <2>6. Works(p, c, {})
    <3>1. TxStays(p) /\ Touches(c) /\ call'[p].pc # "over"
        BY <1>1, <2>2, <2>3 DEF TxMoves, TxStays, Parts, Touches
    <3> QED
        BY <1>0, <1>3, <3>1, TxCalls
  <2> QED
      BY <2>1, <2>4, <2>5, <2>6, StepKeeps
<1>4. CASE Dead(p)
  <2>1. UNCHANGED <<conns, db>> /\ TxMoves(p, "over", FALSE, call[p].open)
      BY <1>4, TxFields DEF Restore
  <2>2. Rests(p) /\ Counts(p, {})
      BY <1>1, <1>4, <2>1, TxRests, MovesCount DEF TxMoves, TxStays
  <2>3. call[p].open => Abandoned(c)'
    <3>1. TxStays(p) /\ call'[p].pc = "over" /\ OnlyCaller(p)
        BY <1>1, <2>1 DEF TxMoves, TxStays
    <3>2. call[p].open => c \in Conns /\ conns[c].broken
        BY <1>0, <1>4, CallerFacts DEF Dead, ShapeOf
    <3>3. call[p].open => Holds(p, c) /\ ~Holds(p, c)'
        BY <1>0, <1>1, <3>1, <3>2, CallerFacts DEF TxStays, Holds, Has
    <3> QED
        BY <2>1, <3>1, <3>2, <3>3, GivenUpIsAbandoned
  <2>4. TxOK(p)'
      BY <1>1, <1>2, <2>1 DEF TxOK, TxMoves
  <2>5. ~cut => call[p].open
      BY <1>1, <1>2 DEF UncutTxOK
  <2>6. call'[p].conn = c /\ call'[p].open = call[p].open
      BY <1>0, <2>1 DEF TxMoves
  <2>7. ASSUME ~cut PROVE UncutTxOK(p)'
    <3>1. call[p].fatal => call[p].rows \cap db = {}
        BY <1>1, <1>2, <2>7 DEF UncutTxOK
    <3> QED
        BY <1>1, <2>1, <2>3, <2>5, <2>6, <2>7, <3>1 DEF UncutTxOK, TxMoves, Abandoned
  <2>8. CallerOK(p)'
      BY <1>1, <2>1, <2>4, <2>7 DEF CallerOK, AutoOK, TxMoves
  <2> QED
      BY <2>2, <2>8, RestKeeps
<1> QED
    BY <1>3, <1>4

LEMMA CloseAtomic == ASSUME IInv, IInv', AInv, NEW p \in Callers, Close(p) PROVE AInv'
<1>0. PICK c : c = call[p].conn
    OBVIOUS
<1>1. /\ call[p].pc = "close" /\ call[p].stage = "none" /\ call[p].tx /\ call[p].open
      /\ call[p].own = None /\ c \in Conns /\ UNCHANGED <<db, faults, cut, lied>>
    BY <1>0, CallerFacts DEF Close, ShapeOf
<1>2. TxOK(p) /\ (~cut => UncutTxOK(p))
    BY <1>1 DEF AInv, CallerOK
<1>3. TxMoves(p, "over", call[p].ok, FALSE)
    BY TxFields DEF Close
<1>4. Parts(c, TRUE, conns[c].auto \/ conns[c].broken, FALSE, {})
    BY <1>0, <1>1, ConnParts DEF Close
<1>5. CallerOK(p)'
    BY <1>1, <1>2, <1>3 DEF CallerOK, TxOK, UncutTxOK, AutoOK, TxMoves
<1>6. Counts(p, {})
    BY <1>1, <1>3, MovesCount DEF TxMoves
<1>7. Holds(p, c) /\ SameHeld(p, c)
  <2>1. \A d \in Conns : (Holds(p, d) <=> d = c) /\ ~Holds(p, d)'
      BY <1>0, <1>1, <1>3, CallerFacts DEF TxMoves, Holds, Has
  <2> QED
      BY <1>1, <2>1 DEF SameHeld
<1>8. ~cut => conns[c].auto
    BY <1>0, <1>1, <1>2 DEF UncutTxOK
<1>9. Works(p, c, {})
    BY <1>1, <1>4, <1>7, <1>8 DEF Works, Parts
<1> QED
    BY <1>1, <1>5, <1>6, <1>9, StepKeeps

------------------------------------------------------------------------------
(* The steps of a statement.                                               *)

\* The transaction that the statement is part of stays as it is.
TxSame(p) ==
    /\ call'[p].tx = call[p].tx /\ call'[p].pc = call[p].pc /\ call'[p].ok = call[p].ok
    /\ call'[p].fatal = call[p].fatal
    /\ call'[p].conn = call[p].conn /\ call'[p].open = call[p].open
    /\ call'[p].rows = call[p].rows
    /\ call[p].open => conns'[call[p].conn] = conns[call[p].conn]

LEMMA TxUnmoved ==
    ASSUME IInv, AInv, NEW p \in Callers, call[p].tx, call[p].pc = "body", TxSame(p), cut => cut',
           db \subseteq db', call[p].rows \cap db' = call[p].rows \cap db,
           call'[p].own # None => call[p].rows \cap conns'[call'[p].own].pending = {}
    PROVE  TxOK(p)' /\ (~cut' => UncutTxOK(p)')
<1>1. TxOK(p) /\ (~cut => UncutTxOK(p))
    BY DEF AInv, CallerOK
<1>2. TxOK(p)'
    BY <1>1 DEF TxSame, TxOK, Dead
<1>3. UncutTxOK(p) => UncutTxOK(p)'
    BY DEF TxSame, UncutTxOK
<1> QED
    BY <1>1, <1>2, <1>3

\* A caller that runs a single statement has just the connection of that.
LEMMA SingleFacts ==
    ASSUME IInv, AInv, NEW p \in Callers, ~call[p].tx
    PROVE  /\ ~call[p].open /\ call[p].pc \in {"body", "over"}
           /\ call[p].stage \notin {"none", "get"} => ~Joined(p)
           /\ SingleOK(p) /\ (~cut /\ p \notin lied => UncutSingleOK(p))
    BY CallerFacts DEF ShapeOf, AInv, CallerOK, SingleOK, Joined

\* The statement calls a connection of its own.
LEMMA OwnCalls ==
    ASSUME IInv, NEW p \in Callers, NEW c \in Conns, c = call[p].own, ~conns[c].broken,
           NEW stage, StMoves(p, stage, c), Touches(c)
    PROVE  Works(p, c, {})
<1>1. Holds(p, c) /\ Holds(p, c)' /\ SameHeld(p, c)
    BY DEF StMoves, Holds, Has, SameHeld
<1>2. ~conns[c].pooled
    BY <1>1 DEF IInv, PooledIsFree
<1> QED
    BY <1>1, <1>2 DEF Works, Touches

\* The statement goes on without a call of a connection.
LEMMA StRests ==
    ASSUME NEW p \in Callers, StMoves(p, call'[p].stage, call[p].own), UNCHANGED <<conns, db>>
    PROVE  Rests(p)
    BY DEF StMoves, Holds, Has, Rests

LEMMA StatementAtomic == ASSUME IInv, IInv', AInv, NEW p \in Callers, Statement(p) PROVE AInv'
<1>1. /\ call[p].tx /\ call[p].pc = "body" /\ call[p].own = None
      /\ UNCHANGED <<conns, db, faults, cut, lied>>
    BY CallerFacts DEF Statement, ShapeOf
<1>2. PICK stage \in {"run", "get"} : StMoves(p, stage, None)
    BY <1>1, StFields DEF Statement
<1>3. TxSame(p)
    BY <1>1, <1>2 DEF TxSame, StMoves
<1>4. TxOK(p)' /\ (~cut' => UncutTxOK(p)')
    BY <1>1, <1>2, <1>3, TxUnmoved DEF StMoves
<1>5. CallerOK(p)'
    BY <1>1, <1>2, <1>4 DEF CallerOK, AutoOK, StMoves
<1>6. Rests(p) /\ Counts(p, {})
    BY <1>1, <1>2, StRests, MovesCount DEF StMoves
<1> QED
    BY <1>5, <1>6, RestKeeps

LEMMA StGetAtomic == ASSUME IInv, IInv', AInv, NEW p \in Callers, StGet(p) PROVE AInv'
<1> DEFINE stage == IF call[p].kind = "template" /\ UseTransaction THEN "off" ELSE "run"
<1>1. /\ call[p].stage = "get" /\ call[p].pc = "body" /\ call[p].own = None
      /\ UNCHANGED <<db, faults, cut, lied>>
    BY CallerFacts DEF StGet, ShapeOf
<1>2. PICK c \in Conns :
         /\ conns[c].pooled /\ Borrowed(c)
         /\ call' = [call EXCEPT ![p].own = c, ![p].stage = stage]
    BY DEF StGet
<1>3. StMoves(p, stage, c)
    BY <1>2, StFields
<1>4. Parts(c, FALSE, conns[c].auto, conns[c].broken, conns[c].pending)
    BY <1>2, ConnParts
<1>5. conns[c].pending = {} /\ ~Holds(p, c)
    BY <1>2, PendingIsOwn DEF IInv, PooledIsFree
<1>6. ~cut => conns[c].auto
    BY <1>2 DEF AInv, PooledIsClean
<1>7. c # None
    BY CallerFacts
<1>8. Transacted(p)' <=> stage = "off"
    BY <1>3, <1>7 DEF StMoves, Transacted, Joined
<1>9. stage \in {"off", "run"}
    OBVIOUS
<1> HIDE DEF stage
<1>10. AutoOK(p)' \/ cut
    BY <1>1, <1>3, <1>4, <1>6, <1>8, <1>9 DEF AutoOK, StMoves, Parts
<1>11. call[p].tx => TxOK(p)' /\ (~cut' => UncutTxOK(p)')
  <2>1. call[p].open => conns'[call[p].conn] = conns[call[p].conn]
      BY <1>1, <1>4, <1>5, CallerFacts DEF Holds, Has, Parts, ShapeOf
  <2>2. TxSame(p)
      BY <1>3, <2>1 DEF TxSame, StMoves
  <2> QED
      BY <1>1, <1>3, <1>4, <1>5, <2>2, TxUnmoved DEF StMoves, Parts
<1>12. ~call[p].tx => SingleOK(p)' /\ UncutSingleOK(p)'
  <2> SUFFICES ASSUME ~call[p].tx PROVE SingleOK(p)' /\ UncutSingleOK(p)'
      OBVIOUS
  <2>1. SingleOK(p)
      BY SingleFacts
  <2> QED
      BY <1>1, <1>3, <1>7, <1>9, <2>1 DEF SingleOK, UncutSingleOK, StMoves
<1>13. CallerOK(p)'
    BY <1>1, <1>3, <1>10, <1>11, <1>12 DEF CallerOK, StMoves
<1>14. Holds(p, c)' /\ SameHeld(p, c)
    BY <1>1, <1>3, CallerFacts DEF StMoves, SameHeld, Holds, Has
<1>15. Works(p, c, {}) /\ Counts(p, {})
    BY <1>1, <1>2, <1>3, <1>4, <1>5, <1>14, MovesCount DEF Works, Parts, StMoves
<1> QED
    BY <1>13, <1>15, StepKeeps

\* What the invariant says of a caller and its own connection.
LEMMA OwnFacts ==
    ASSUME IInv, AInv, NEW p \in Callers, NEW c \in Conns, c = call[p].own
    PROVE  /\ call[p].pc = "body" /\ ~Joined(p) /\ ~conns[c].pooled
           /\ (Throws(p) <=> conns[c].broken) /\ (conns[c].broken => conns[c].pending = {})
           /\ call[p].open => call[p].conn # c
           /\ call[p].tx => call[p].rows \cap conns[c].pending = {}
           /\ ~cut => AutoOK(p)
<1>1. c # None /\ ShapeOf(call[p])
    BY CallerFacts
<1>2. call[p].pc = "body"
    BY <1>1 DEF ShapeOf
<1>3. Holds(p, c)
    BY DEF Holds, Has
<1>4. call[p].tx => call[p].rows \cap conns[c].pending = {}
    BY <1>1 DEF AInv, CallerOK, TxOK
<1>5. ~cut => AutoOK(p)
    BY DEF AInv, CallerOK
<1>6. conns[c].broken => conns[c].pending = {}
    BY DEF AInv, PendingIsOfHolder
<1> QED
    BY <1>1, <1>2, <1>3, <1>4, <1>5, <1>6
       DEF ShapeOf, Joined, Throws, IInv, PooledIsFree

LEMMA StOffAtomic == ASSUME IInv, IInv', AInv, NEW p \in Callers, StOff(p) PROVE AInv'
<1>1. PICK c \in Conns : c = call[p].own
    BY CallerFacts DEF StOff, ShapeOf
<1>2. /\ call[p].stage = "off" /\ call[p].pc = "body" /\ ~Joined(p) /\ c # None
      /\ UNCHANGED <<faults, cut, lied>>
    BY <1>1, OwnFacts, CallerFacts DEF StOff
<1>3. PICK stage \in {"run", "finish"} : StMoves(p, stage, c)
    BY <1>1, StFields DEF StOff
<1>4. /\ IF conns[c].broken THEN conns' = conns /\ stage = "finish"
         ELSE Parts(c, conns[c].pooled, FALSE, conns[c].broken, conns[c].pending) /\ stage = "run"
      /\ db' = db
  <2>1. CASE Throws(p)
    <3>1. call' = [call EXCEPT ![p].stage = "finish"] /\ UNCHANGED <<conns, db>>
        BY <2>1 DEF StOff
    <3>2. StMoves(p, "finish", c)
        BY <1>1, <3>1, StFields
    <3> QED
        BY <1>1, <1>3, <2>1, <3>1, <3>2, OwnFacts DEF StMoves
  <2>2. CASE ~Throws(p)
    <3>1. call' = [call EXCEPT ![p].stage = "run"] /\ SwitchedOff(c)
        BY <1>1, <2>2 DEF StOff
    <3>2. StMoves(p, "run", c)
        BY <1>1, <3>1, StFields
    <3>3. db' = db /\ Parts(c, conns[c].pooled, FALSE, conns[c].broken, conns[c].pending)
        BY <3>1, ConnParts
    <3> QED
        BY <1>1, <1>3, <2>2, <3>2, <3>3, OwnFacts DEF StMoves
  <2> QED
      BY <2>1, <2>2
<1>5. conns'[c].pending = conns[c].pending
    BY <1>4 DEF Parts
<1>6. Transacted(p)' <=> Transacted(p)
    BY <1>1, <1>3 DEF StMoves, Transacted, Joined
<1>7. ~cut => AutoOK(p)'
  <2> SUFFICES ASSUME ~cut PROVE AutoOK(p)'
      OBVIOUS
  <2>1. Transacted(p)
      BY <1>1, <1>2, OwnFacts DEF AutoOK
  <2> QED
      BY <1>3, <1>4, <1>6, <2>1 DEF AutoOK, StMoves, Parts
<1>8. call[p].tx => TxOK(p)' /\ (~cut' => UncutTxOK(p)')
  <2>1. call[p].open => conns'[call[p].conn] = conns[call[p].conn]
      BY <1>1, <1>4, OwnFacts, CallerFacts DEF Parts, ShapeOf
  <2>2. TxSame(p)
      BY <1>3, <2>1 DEF TxSame, StMoves
  <2> QED
      BY <1>1, <1>2, <1>3, <1>4, <1>5, <2>2, TxUnmoved, OwnFacts DEF StMoves
<1>9. ~call[p].tx => SingleOK(p)' /\ UncutSingleOK(p)'
  <2> SUFFICES ASSUME ~call[p].tx PROVE SingleOK(p)' /\ UncutSingleOK(p)'
      OBVIOUS
  <2>1. SingleOK(p)
      BY SingleFacts
  <2> QED
      BY <1>2, <1>3, <2>1 DEF SingleOK, UncutSingleOK, StMoves
<1>10. CallerOK(p)'
    BY <1>2, <1>3, <1>7, <1>8, <1>9 DEF CallerOK, StMoves
<1>11. Counts(p, {})
    BY <1>2, <1>3, MovesCount DEF StMoves
<1>12. CASE conns[c].broken
  <2>1. Rests(p)
      BY <1>1, <1>3, <1>4, <1>12, StRests DEF StMoves
  <2> QED
      BY <1>10, <1>11, <2>1, RestKeeps
<1>13. CASE ~conns[c].broken
  <2>1. Touches(c)
      BY <1>4, <1>13 DEF Touches, Parts
  <2>2. Works(p, c, {})
      BY <1>1, <1>3, <1>13, <2>1, OwnCalls
  <2> QED
      BY <1>10, <1>11, <2>2, StepKeeps
<1> QED
    BY <1>12, <1>13

LEMMA FinishAtomic == ASSUME IInv, IInv', AInv, NEW p \in Callers, Finish(p) PROVE AInv'
<1>1. PICK c \in Conns : c = call[p].own
    BY CallerFacts DEF Finish, ShapeOf
<1>2. /\ call[p].stage = "finish" /\ call[p].pc = "body" /\ ~Joined(p) /\ c # None
      /\ UNCHANGED cut
    BY <1>1, OwnFacts, CallerFacts DEF Finish
<1>3. StMoves(p, "restore", c)
    BY <1>1, StFields DEF Finish
<1>4. /\ lied \subseteq lied'
      /\ \/ /\ conns[c].broken /\ UNCHANGED <<conns, db>>
         \/ /\ ~conns[c].broken
            /\ Parts(c, conns[c].pooled, conns[c].auto, conns[c].broken, {})
            /\ \/ call[p].done /\ db' = db \cup conns[c].pending
               \/ p \in lied' /\ db' = db
               \/ ~call[p].done /\ db' = db
  <2>1. CASE ~Throws(p) /\ CommitSuccess(p) /\ Committed(c) /\ UNCHANGED <<faults, lied>>
      BY <1>1, <2>1, ConnParts, OwnFacts DEF CommitSuccess
  <2>2. CASE ~Throws(p) /\ CommitSuccess(p) /\ CommitRefused(p, c)
      BY <1>1, <2>2, RefusedParts, OwnFacts
  <2>3. CASE ~Throws(p) /\ ~CommitSuccess(p) /\ RolledBack(c) /\ UNCHANGED <<faults, lied>>
      BY <1>1, <2>3, ConnParts, OwnFacts DEF CommitSuccess
  <2>4. CASE Throws(p) /\ UNCHANGED <<conns, db, faults, lied>>
      BY <1>1, <2>4, OwnFacts
  <2> QED
      BY <1>1, <2>1, <2>2, <2>3, <2>4 DEF Finish
<1>5. conns'[c].pending = {} /\ conns'[c].broken = conns[c].broken
    BY <1>1, <1>4, OwnFacts DEF Parts
<1>6. db \subseteq db' /\ db' \subseteq db \cup conns[c].pending
    BY <1>4
<1>7. AutoOK(p)'
    BY <1>3 DEF AutoOK, StMoves
<1>8. call[p].tx => TxOK(p)' /\ (~cut' => UncutTxOK(p)')
  <2>1. call[p].open => conns'[call[p].conn] = conns[call[p].conn]
      BY <1>1, <1>4, OwnFacts, CallerFacts DEF Parts, ShapeOf
  <2>2. TxSame(p)
      BY <1>3, <2>1 DEF TxSame, StMoves
  <2>3. call[p].tx => call[p].rows \cap db' = call[p].rows \cap db
      BY <1>1, <1>6, OwnFacts
  <2> QED
      BY <1>2, <1>3, <1>5, <1>6, <2>2, <2>3, TxUnmoved DEF StMoves
<1>9. ~call[p].tx => SingleOK(p)' /\ (~cut' /\ p \notin lied' => UncutSingleOK(p)')
  <2> SUFFICES ASSUME ~call[p].tx
               PROVE  SingleOK(p)' /\ (~cut' /\ p \notin lied' => UncutSingleOK(p)')
      OBVIOUS
  <2>1. SingleOK(p) /\ (~cut /\ p \notin lied => UncutSingleOK(p))
      BY SingleFacts
  <2>2. SingleOK(p)'
      BY <1>2, <1>3, <2>1 DEF SingleOK, StMoves
  <2>3. ASSUME ~cut', p \notin lied' PROVE UncutSingleOK(p)'
    <3>1. UncutSingleOK(p)
        BY <1>2, <1>4, <2>1, <2>3
    <3>2. /\ call[p].rows \cap db = {}
          /\ call[p].done =>
                /\ call[p].rows # {}
                /\ (conns[c].broken \/ call[p].rows \subseteq conns[c].pending)
        BY <1>1, <1>2, <3>1 DEF UncutSingleOK
    <3>3. IF call[p].done THEN conns[c].broken \/ (call[p].rows # {} /\ call[p].rows \subseteq db')
          ELSE call[p].rows \cap db' = {}
        BY <1>4, <2>3, <3>2
    <3> QED
        BY <1>2, <1>3, <1>5, <3>3 DEF UncutSingleOK, StMoves
  <2> QED
      BY <2>2, <2>3
<1>10. CallerOK(p)'
    BY <1>3, <1>7, <1>8, <1>9 DEF CallerOK, StMoves
<1>11. Counts(p, {})
    BY <1>2, <1>3, <1>4, MovesCount DEF StMoves
<1>12. CASE conns[c].broken
  <2>1. Rests(p)
      BY <1>1, <1>3, <1>4, <1>12, StRests DEF StMoves
  <2> QED
      BY <1>10, <1>11, <2>1, RestKeeps
<1>13. CASE ~conns[c].broken
  <2>1. Touches(c)
      BY <1>4, <1>13 DEF Touches, Parts
  <2>2. Works(p, c, {})
      BY <1>1, <1>3, <1>13, <2>1, OwnCalls
  <2> QED
      BY <1>10, <1>11, <2>2, StepKeeps
<1> QED
    BY <1>12, <1>13

\* The statement of p is over: back to its transaction, or to the caller.
Returns(p, ok, open) ==
    /\ OnlyCaller(p) /\ call'[p].kind = call[p].kind /\ call'[p].tx = call[p].tx
    /\ call'[p].count = call[p].count /\ call'[p].rows = call[p].rows
    /\ call'[p].conn = call[p].conn /\ call'[p].own = None
    /\ call'[p].stage = "none" /\ call'[p].open = open
    /\ call'[p].fatal = call[p].fatal
    /\ IF call[p].tx THEN call'[p].pc = call[p].pc /\ call'[p].ok = call[p].ok
       ELSE call'[p].pc = "over" /\ call'[p].ok = ok

LEMMA ReturnFields ==
    ASSUME IInv, NEW p \in Callers, NEW ok \in BOOLEAN, call[p].pc = "body"
    PROVE  /\ call' = Returned(p, ok) => Returns(p, ok, call[p].open)
           /\ call' = [Returned(p, ok) EXCEPT ![p].open = FALSE] => Returns(p, ok, FALSE)
<1> DEFINE r == ReturnTo(p, ok)
<1>1. Returned(p, ok) = [call EXCEPT ![p] = r] /\ r \in Call
    BY ReturnedTo
<1>2. call \in [Callers -> Call]
    BY DEF IInv, TypeOK
<1>3. /\ r.kind = call[p].kind /\ r.tx = call[p].tx /\ r.count = call[p].count
      /\ r.rows = call[p].rows /\ r.conn = call[p].conn /\ r.own = None
      /\ r.stage = "none" /\ r.open = call[p].open /\ r.fatal = call[p].fatal
    BY <1>2 DEF ReturnTo, Call
<1>4. IF call[p].tx THEN r.pc = call[p].pc /\ r.ok = call[p].ok ELSE r.pc = "over" /\ r.ok = ok
    BY <1>2 DEF ReturnTo, Call
<1> HIDE DEF r
<1>5. call' = Returned(p, ok) => Returns(p, ok, call[p].open)
    BY <1>1, <1>2, <1>3, <1>4 DEF Returns, OnlyCaller
<1>6. ASSUME call' = [Returned(p, ok) EXCEPT ![p].open = FALSE]
      PROVE  Returns(p, ok, FALSE)
  <2> DEFINE q == [r EXCEPT !.open = FALSE]
  <2>1. call' = [call EXCEPT ![p] = q]
      BY <1>1, <1>2, <1>6
  <2>2. /\ q.kind = r.kind /\ q.tx = r.tx /\ q.count = r.count /\ q.rows = r.rows
        /\ q.conn = r.conn /\ q.own = r.own /\ q.stage = r.stage /\ q.open = FALSE
        /\ q.pc = r.pc /\ q.ok = r.ok /\ q.fatal = r.fatal
      BY <1>1 DEF Call
  <2> HIDE DEF q
  <2> QED
      BY <1>2, <1>3, <1>4, <2>1, <2>2 DEF Returns, OnlyCaller
<1> QED
    BY <1>5, <1>6

LEMMA StRestoreAtomic == ASSUME IInv, IInv', AInv, NEW p \in Callers, StRestore(p) PROVE AInv'
<1>1. PICK c \in Conns : c = call[p].own
    BY CallerFacts DEF StRestore, ShapeOf
<1>2. /\ call[p].stage = "restore" /\ call[p].pc = "body" /\ ~Joined(p) /\ c # None
      /\ UNCHANGED <<faults, cut, lied>>
    BY <1>1, OwnFacts, CallerFacts DEF StRestore
<1>3. CASE Throws(p)
  <2>1. Returns(p, FALSE, call[p].open) /\ UNCHANGED <<conns, db>> /\ conns[c].broken
      BY <1>1, <1>2, <1>3, ReturnFields, OwnFacts DEF StRestore
  <2>2. Holds(p, c) /\ ~Holds(p, c)'
      BY <1>1, <1>2, <2>1, OwnFacts DEF Returns, Holds, Has
  <2>3. Abandoned(c)'
      BY <2>1, <2>2, GivenUpIsAbandoned DEF Returns
  <2>4. call[p].tx => TxOK(p)' /\ (~cut' => UncutTxOK(p)')
    <3>1. call[p].tx => TxSame(p)
        BY <2>1 DEF TxSame, Returns
    <3> QED
        BY <1>2, <2>1, <3>1, TxUnmoved DEF Returns
  <2>5. ~call[p].tx => SingleOK(p)' /\ UncutSingleOK(p)'
      BY <2>1, <2>3 DEF Returns, SingleOK, UncutSingleOK
  <2>6. CallerOK(p)'
      BY <2>1, <2>4, <2>5 DEF CallerOK, AutoOK, Returns
  <2>7. Rests(p)
    <3>1. \A d \in Conns : Holds(p, d)' => Holds(p, d)
        BY <1>2, <2>1, CallerFacts DEF Returns, Holds, Has
    <3>2. \A d \in Conns : Holds(p, d) /\ ~Holds(p, d)' => d = c
        BY <1>1, <1>2, <2>1, SingleFacts DEF Returns, Holds, Has
    <3> QED
        BY <1>1, <2>1, <3>1, <3>2, OwnFacts DEF Rests
  <2>8. Counts(p, {})
      BY <1>2, <2>1, MovesCount DEF Returns
  <2> QED
      BY <2>6, <2>7, <2>8, RestKeeps
<1>4. CASE ~Throws(p)
  <2>1. call' = [call EXCEPT ![p].stage = "close"] /\ SwitchedOn(c)
      BY <1>1, <1>4 DEF StRestore
  <2>2. StMoves(p, "close", c)
      BY <1>1, <2>1, StFields
  <2>3. db' = db \cup conns[c].pending /\ Parts(c, conns[c].pooled, TRUE, conns[c].broken, {})
      BY <2>1, ConnParts
  <2>4. call[p].tx => TxOK(p)' /\ (~cut' => UncutTxOK(p)')
    <3>1. call[p].open => conns'[call[p].conn] = conns[call[p].conn]
        BY <1>1, <2>3, OwnFacts, CallerFacts DEF Parts, ShapeOf
    <3>2. TxSame(p)
        BY <2>2, <3>1 DEF TxSame, StMoves
    <3>3. call[p].tx => call[p].rows \cap db' = call[p].rows \cap db
        BY <1>1, <2>3, OwnFacts
    <3> QED
        BY <1>2, <2>2, <2>3, <3>2, <3>3, TxUnmoved DEF StMoves, Parts
  <2>5. ~call[p].tx => SingleOK(p)' /\ (~cut' /\ p \notin lied' => UncutSingleOK(p)')
    <3> SUFFICES ASSUME ~call[p].tx
                 PROVE  SingleOK(p)' /\ (~cut' /\ p \notin lied' => UncutSingleOK(p)')
        OBVIOUS
    <3>1. SingleOK(p) /\ (~cut /\ p \notin lied => UncutSingleOK(p))
        BY SingleFacts
    <3>2. SingleOK(p)'
        BY <1>2, <2>2, <3>1 DEF SingleOK, StMoves
    <3>3. ASSUME ~cut', p \notin lied' PROVE UncutSingleOK(p)'
      <4>1. UncutSingleOK(p) /\ ~conns[c].broken
          BY <1>1, <1>2, <1>4, <3>1, <3>3, OwnFacts
      <4>2. IF call[p].done THEN call[p].rows # {} /\ call[p].rows \subseteq db
            ELSE call[p].rows \cap (db \cup conns[c].pending) = {}
          BY <1>1, <1>2, <4>1 DEF UncutSingleOK
      <4> QED
          BY <1>2, <2>2, <2>3, <4>2 DEF UncutSingleOK, StMoves
    <3> QED
        BY <3>2, <3>3
  <2>6. AutoOK(p)'
      BY <2>2, <2>3 DEF AutoOK, StMoves, Parts
  <2>7. CallerOK(p)'
      BY <2>2, <2>4, <2>5, <2>6 DEF CallerOK, StMoves
  <2>8. ~conns[c].broken /\ Touches(c)
      BY <1>1, <1>4, <2>3, OwnFacts DEF Touches, Parts
  <2>9. Works(p, c, {}) /\ Counts(p, {})
      BY <1>1, <1>2, <2>2, <2>8, OwnCalls, MovesCount DEF StMoves
  <2> QED
      BY <2>7, <2>9, StepKeeps
<1> QED
    BY <1>3, <1>4

LEMMA StCloseAtomic == ASSUME IInv, IInv', AInv, NEW p \in Callers, StClose(p) PROVE AInv'
<1>1. /\ call[p].stage = "close" /\ call[p].pc = "body" /\ call[p].done \in BOOLEAN
      /\ UNCHANGED <<db, faults, lied>>
    BY CallerFacts DEF StClose, ShapeOf, Call
<1>2. CASE Joined(p)
  <2>1. /\ Returns(p, call[p].done, FALSE) /\ cut' = TRUE
        /\ conns' = IF call[p].open THEN Closed(call[p].conn) ELSE conns
      BY <1>1, <1>2, ReturnFields DEF StClose
  <2>2. call[p].tx /\ TxOK(p) /\ call[p].own = None
      BY <1>1, <1>2, SingleFacts DEF AInv, CallerOK, Joined
  <2>3. CallerOK(p)'
      BY <1>1, <2>1, <2>2 DEF CallerOK, TxOK, Returns, Dead
  <2>4. Counts(p, {})
      BY <1>1, <2>1, MovesCount DEF Returns
  <2>5. CASE call[p].open
    <3>1. PICK c \in Conns : c = call[p].conn
        BY <2>5, CallerFacts DEF ShapeOf
    <3>2. Parts(c, TRUE, conns[c].auto \/ conns[c].broken, FALSE, {})
        BY <2>1, <2>5, <3>1, ConnParts
    <3>3. Holds(p, c) /\ SameHeld(p, c)
        BY <1>1, <2>1, <2>2, <2>5, <3>1, CallerFacts DEF Returns, SameHeld, Holds, Has
    <3>4. Works(p, c, {})
        BY <1>1, <2>1, <3>2, <3>3 DEF Works, Parts
    <3> QED
        BY <2>3, <2>4, <3>4, StepKeeps
  <2>6. CASE ~call[p].open
    <3>1. \A d \in Conns : ~Holds(p, d) /\ ~Holds(p, d)'
        BY <2>1, <2>2, <2>6, CallerFacts DEF Returns, Holds, Has
    <3>2. Rests(p)
        BY <1>1, <2>1, <2>6, <3>1 DEF Rests
    <3> QED
        BY <2>3, <2>4, <3>2, RestKeeps
  <2> QED
      BY <2>5, <2>6
<1>3. CASE ~Joined(p)
  <2>1. PICK c \in Conns : c = call[p].own
      BY <1>3, CallerFacts DEF Joined
  <2>2. /\ Returns(p, call[p].done, call[p].open) /\ UNCHANGED cut
        /\ Parts(c, TRUE, conns[c].auto \/ conns[c].broken, FALSE, {})
      BY <1>1, <1>3, <2>1, ReturnFields, ConnParts DEF StClose
  <2>3. call[p].tx => TxOK(p)' /\ (~cut' => UncutTxOK(p)')
    <3>1. call[p].open => conns'[call[p].conn] = conns[call[p].conn]
        BY <2>1, <2>2, OwnFacts, CallerFacts DEF Parts, ShapeOf
    <3>2. call[p].tx => TxSame(p)
        BY <2>2, <3>1 DEF TxSame, Returns
    <3> QED
        BY <1>1, <2>2, <3>2, TxUnmoved DEF Returns
  <2>4. ~call[p].tx => SingleOK(p)' /\ (~cut' /\ p \notin lied' => UncutSingleOK(p)')
    <3>1. ASSUME ~call[p].tx, ~cut', p \notin lied' PROVE UncutSingleOK(p)'
      <4>1. UncutSingleOK(p)
          BY <1>1, <2>2, <3>1, SingleFacts
      <4>2. Transacted(p) <=> call[p].kind = "template" /\ UseTransaction
          BY <1>3 DEF Transacted
      <4> QED
          BY <1>1, <2>2, <3>1, <4>1, <4>2 DEF UncutSingleOK, Returns
    <3>2. ~call[p].tx => SingleOK(p)'
        BY <2>2 DEF SingleOK, Returns
    <3> QED
        BY <3>1, <3>2
  <2>5. CallerOK(p)'
      BY <2>2, <2>3, <2>4 DEF CallerOK, AutoOK, Returns
  <2>6. Counts(p, {})
      BY <1>1, <2>2, MovesCount DEF Returns
  <2>7. Holds(p, c) /\ SameHeld(p, c) /\ (~cut => conns[c].auto)
    <3>1. SameHeld(p, c)
        BY <1>1, <2>1, <2>2, CallerFacts, SingleFacts DEF Returns, SameHeld, Holds, Has
    <3>2. ~cut => conns[c].auto
        BY <1>1, <2>1, OwnFacts, CallerFacts DEF AutoOK
    <3> QED
        BY <2>1, <3>1, <3>2 DEF Holds, Has
  <2>8. Works(p, c, {})
      BY <1>1, <2>2, <2>7 DEF Works, Parts
  <2> QED
      BY <2>5, <2>6, <2>8, StepKeeps
<1> QED
    BY <1>2, <1>3

\* The statement of p has run, wrote what rows says, and is done or not.
Ran(p, done, rows) ==
    /\ OnlyCaller(p) /\ call'[p].kind = call[p].kind /\ call'[p].tx = call[p].tx
    /\ call'[p].conn = call[p].conn /\ call'[p].open = call[p].open
    /\ call'[p].pc = call[p].pc /\ call'[p].ok = call[p].ok /\ call'[p].own = call[p].own
    /\ call'[p].fatal = call[p].fatal
    /\ call'[p].count = call[p].count + 1 /\ call'[p].rows = rows
    /\ IF call[p].kind = "template" /\ Joined(p) THEN call'[p].stage = "none"
       ELSE /\ call'[p].stage = IF Transacted(p) THEN "finish" ELSE "close"
            /\ call'[p].done = done

LEMMA RanFields ==
    ASSUME IInv, NEW p \in Callers, NEW done \in BOOLEAN, call[p].stage = "run",
           call[p].count + 1 <= MaxStatements, Joined(p) => call[p].tx, NEW rows \in SUBSET Rows,
           \/ call' = [AfterRun(p, done) EXCEPT ![p].count = call[p].count + 1, ![p].rows = rows]
           \/ /\ call' = [AfterRun(p, done) EXCEPT ![p].count = call[p].count + 1]
              /\ rows = call[p].rows
    PROVE  Ran(p, done, rows)
<1> DEFINE r == AfterTo(p, done)
           count == call[p].count + 1
<1>1. AfterRun(p, done) = [call EXCEPT ![p] = r] /\ r \in Call
    BY AfterRunTo
<1>2. call \in [Callers -> Call] /\ call[p] \in Call
    BY DEF IInv, TypeOK
<1>3. /\ r.kind = call[p].kind /\ r.tx = call[p].tx /\ r.conn = call[p].conn
      /\ r.open = call[p].open /\ r.pc = call[p].pc /\ r.ok = call[p].ok
      /\ r.own = call[p].own /\ r.rows = call[p].rows /\ r.fatal = call[p].fatal
      /\ IF call[p].kind = "template" /\ Joined(p) THEN r.stage = "none"
         ELSE r.stage = (IF Transacted(p) THEN "finish" ELSE "close") /\ r.done = done
  <2>1. CASE call[p].kind = "template" /\ Joined(p)
    <3>1. r = ReturnTo(p, done) /\ call[p].tx /\ call[p].own = None
        BY <2>1 DEF AfterTo, Joined
    <3> HIDE DEF r
    <3> QED
        BY <1>2, <2>1, <3>1 DEF ReturnTo, Call
  <2>2. CASE ~(call[p].kind = "template" /\ Joined(p))
    <3> DEFINE stage == IF Transacted(p) THEN "finish" ELSE "close"
    <3>1. r = [call[p] EXCEPT !.stage = stage, !.done = done]
        BY <2>2 DEF AfterTo
    <3> HIDE DEF r, stage
    <3>2. /\ r.kind = call[p].kind /\ r.tx = call[p].tx /\ r.conn = call[p].conn
          /\ r.open = call[p].open /\ r.pc = call[p].pc /\ r.ok = call[p].ok
          /\ r.own = call[p].own /\ r.rows = call[p].rows /\ r.stage = stage /\ r.done = done
          /\ r.fatal = call[p].fatal
        BY <1>2, <3>1 DEF Call
    <3> QED
        BY <2>2, <3>2 DEF stage
  <2> QED
      BY <2>1, <2>2
<1>7. \/ call' = [AfterRun(p, done) EXCEPT ![p].count = count, ![p].rows = rows]
      \/ call' = [AfterRun(p, done) EXCEPT ![p].count = count] /\ rows = call[p].rows
    OBVIOUS
<1> HIDE DEF r, count
<1>4. PICK q : /\ \/ q = [r EXCEPT !.count = count, !.rows = rows]
                  \/ q = [r EXCEPT !.count = count] /\ rows = call[p].rows
               /\ call' = [call EXCEPT ![p] = q]
  <2>1. CASE call' = [AfterRun(p, done) EXCEPT ![p].count = count, ![p].rows = rows]
    <3>1. call' = [call EXCEPT ![p] = [r EXCEPT !.count = count, !.rows = rows]]
        BY <1>1, <1>2, <2>1
    <3> QED
        BY <3>1
  <2>2. CASE call' = [AfterRun(p, done) EXCEPT ![p].count = count] /\ rows = call[p].rows
    <3>1. call' = [call EXCEPT ![p] = [r EXCEPT !.count = count]]
        BY <1>1, <1>2, <2>2
    <3> QED
        BY <2>2, <3>1
  <2> QED
      BY <1>7, <2>1, <2>2
<1>5. /\ q.kind = r.kind /\ q.tx = r.tx /\ q.conn = r.conn /\ q.open = r.open /\ q.pc = r.pc
      /\ q.ok = r.ok /\ q.own = r.own /\ q.stage = r.stage /\ q.done = r.done
      /\ q.count = count /\ q.rows = rows /\ q.fatal = r.fatal
    BY <1>1, <1>3, <1>4 DEF Call
<1>6. call'[p] = q /\ OnlyCaller(p)
    BY <1>2, <1>4 DEF OnlyCaller
<1> HIDE DEF count
<1> QED
    BY <1>3, <1>5, <1>6 DEF Ran, count

\* A row that is counted now was not written before.
LEMMA RowIsNew ==
    ASSUME IInv, AInv, NEW p \in Callers, NEW row, row = <<p, call[p].count + 1>>
    PROVE  row \notin db /\ row \notin call[p].rows /\ \A c \in Conns : row \notin conns[c].pending
<1>1. row[1] = p /\ row[2] = call[p].count + 1 /\ call[p].count \in Int
    BY RowFacts
<1>2. ~(row[2] <= call[row[1]].count)
    BY <1>1
<1> QED
    BY <1>1, <1>2 DEF AInv, RowsCounted, PendingIsOfHolder

LEMMA RanCounts ==
    ASSUME IInv, AInv, NEW p \in Callers, NEW done, NEW rows, Ran(p, done, rows),
           NEW row, row = <<p, call[p].count + 1>>, rows \subseteq call[p].rows \cup {row},
           UNCHANGED <<cut, lied>>
    PROVE  Counts(p, {row})
<1>1. row[1] = p /\ row[2] = call[p].count + 1 /\ call[p].count \in Int
    BY RowFacts
<1>2. \A old \in call[p].rows : old[1] = p /\ old[2] \in Int /\ old[2] <= call[p].count
    BY RowFacts DEF AInv, RowsCounted
<1> QED
    BY <1>1, <1>2 DEF Ran, Counts

\* The statement that throws before it has written.
LEMMA RunThrowsAtomic ==
    ASSUME IInv, IInv', AInv, NEW p \in Callers, call[p].stage = "run",
           Ran(p, FALSE, call[p].rows), UNCHANGED <<conns, db, cut, lied>>
    PROVE  AInv'
<1>1. call[p].pc = "body"
    BY CallerFacts DEF ShapeOf
<1>2. Transacted(p)' <=> Transacted(p)
    BY DEF Ran, Transacted, Joined
<1>3. call[p].tx => TxOK(p)' /\ (~cut' => UncutTxOK(p)')
  <2>1. TxSame(p)
      BY DEF Ran, TxSame
  <2>2. call'[p].own # None /\ call[p].tx => call[p].rows \cap conns'[call'[p].own].pending = {}
      BY CallerFacts, OwnFacts DEF Ran
  <2> QED
      BY <1>1, <2>1, <2>2, TxUnmoved
<1>4. ~call[p].tx => SingleOK(p)' /\ UncutSingleOK(p)'
  <2> SUFFICES ASSUME ~call[p].tx PROVE SingleOK(p)' /\ UncutSingleOK(p)'
      OBVIOUS
  <2>1. SingleOK(p) /\ ~Joined(p)
      BY SingleFacts
  <2> QED
      BY <1>1, <1>2, <2>1 DEF Ran, SingleOK, UncutSingleOK
<1>5. ~cut => AutoOK(p)'
    BY <1>2 DEF AInv, CallerOK, AutoOK, Ran, Joined
<1>6. CallerOK(p)'
    BY <1>3, <1>4, <1>5 DEF CallerOK, Ran
<1>7. Rests(p)
    BY DEF Ran, Holds, Has, Rests
<1>8. Counts(p, {})
  <2> DEFINE row == <<p, call[p].count + 1>>
  <2>1. Counts(p, {row})
      BY RanCounts
  <2> QED
      BY <2>1 DEF Counts
<1> QED
    BY <1>6, <1>7, <1>8, RestKeeps

\* The statement that has written its row.
LEMMA RunWritesAtomic ==
    ASSUME IInv, IInv', AInv, NEW p \in Callers, NEW done \in BOOLEAN, NEW row \in Rows,
           row = <<p, call[p].count + 1>>, call[p].stage = "run", ~Throws(p),
           Written(StatementConn(p), row), UNCHANGED <<cut, lied>>,
           Ran(p, done, IF call[p].tx /\ ~Joined(p) THEN call[p].rows ELSE call[p].rows \cup {row})
    PROVE  AInv'
<1> DEFINE rows == IF call[p].tx /\ ~Joined(p) THEN call[p].rows ELSE call[p].rows \cup {row}
<1>1. PICK c \in Conns : c = StatementConn(p)
    BY CallerFacts DEF Throws, StatementConn, Joined, Dead, ShapeOf
<1>2. /\ \A e \in Conns \ {c} : conns'[e] = conns[e]
      /\ conns'[c].pooled = conns[c].pooled /\ conns'[c].auto = conns[c].auto
      /\ conns'[c].broken = conns[c].broken
      /\ IF conns[c].auto THEN db' = db \cup {row} /\ conns'[c].pending = conns[c].pending
         ELSE db' = db /\ conns'[c].pending = conns[c].pending \cup {row}
    BY <1>1, WrittenParts
<1>3. row \notin db /\ row \notin call[p].rows /\ \A e \in Conns : row \notin conns[e].pending
    BY RowIsNew
<1>4. /\ ~conns[c].broken /\ Holds(p, c) /\ call[p].pc = "body"
      /\ IF Joined(p) THEN call[p].open /\ c = call[p].conn ELSE c = call[p].own
    BY <1>1, CallerFacts DEF Throws, StatementConn, Dead, Joined, ShapeOf, Holds, Has
<1>5. ~conns[c].pooled
    BY <1>4 DEF IInv, PooledIsFree
<1>6. Ran(p, done, rows)
    OBVIOUS
<1>7. rows \subseteq call[p].rows \cup {row}
    OBVIOUS
<1>8. Works(p, c, {row})
  <2>1. \A d \in Conns : Holds(p, d)' <=> Holds(p, d)
      BY <1>6 DEF Ran, Holds, Has
  <2> QED
      BY <1>2, <1>4, <1>5, <2>1 DEF Works, SameHeld
<1>9. Counts(p, {row})
    BY <1>6, <1>7, RanCounts
<1>10. Transacted(p)' <=> Transacted(p)
    BY DEF Ran, Transacted, Joined
<1>11. ~cut => AutoOK(p)'
  <2>1. ~Joined(p) => conns'[call[p].own].auto = conns[call[p].own].auto
      BY <1>2, <1>4
  <2> QED
      BY <1>10, <2>1 DEF AInv, CallerOK, AutoOK, Ran, Joined
<1>12. ASSUME call[p].tx, Joined(p) PROVE TxOK(p)' /\ (~cut' => UncutTxOK(p)')
  <2>1. TxOK(p) /\ (~cut => UncutTxOK(p)) /\ call'[p].rows = call[p].rows \cup {row}
      BY <1>12 DEF AInv, CallerOK, Ran
  <2>2. call[p].rows \subseteq db \cup conns[c].pending
      BY <1>4, <1>12, <2>1 DEF TxOK, Dead
  <2>3. call'[p].rows \subseteq db' \cup conns'[c].pending
      BY <1>2, <2>1, <2>2
  <2>4. TxOK(p)'
      BY <1>4, <1>12, <2>1, <2>3 DEF TxOK, Ran, Joined
  <2>5. ASSUME ~cut PROVE UncutTxOK(p)'
    <3>1. ~conns[c].auto /\ call[p].rows \cap db = {} /\ call[p].open
        BY <1>4, <1>12, <2>1, <2>5 DEF UncutTxOK
    <3>2. call'[p].rows \cap db' = {} /\ ~conns'[c].auto
        BY <1>2, <1>3, <2>1, <3>1
    <3> QED
        BY <1>4, <1>12, <3>1, <3>2 DEF UncutTxOK, Ran
  <2> QED
      BY <2>4, <2>5
<1>13. ASSUME call[p].tx, ~Joined(p) PROVE TxOK(p)' /\ (~cut' => UncutTxOK(p)')
  <2>1. c = call[p].own /\ call'[p].own = c /\ call'[p].rows = call[p].rows
      BY <1>4, <1>13 DEF Ran
  <2>2. call[p].open => conns'[call[p].conn] = conns[call[p].conn]
      BY <1>2, <1>13, <2>1, CallerFacts, OwnFacts DEF ShapeOf
  <2>3. TxSame(p)
      BY <1>13, <2>1, <2>2 DEF TxSame, Ran
  <2>4. /\ call[p].rows \cap conns'[c].pending = {} /\ db \subseteq db'
        /\ call[p].rows \cap db' = call[p].rows \cap db
    <3>1. call[p].rows \cap conns[c].pending = {}
        BY <1>13, <2>1, OwnFacts
    <3> QED
        BY <1>2, <1>3, <3>1
  <2> QED
      BY <1>4, <1>13, <2>1, <2>3, <2>4, TxUnmoved
<1>14. ASSUME ~call[p].tx PROVE SingleOK(p)' /\ (~cut' => UncutSingleOK(p)')
  <2>1. SingleOK(p) /\ ~Joined(p) /\ c = call[p].own /\ call[p].rows = {}
      BY <1>4, <1>14, SingleFacts DEF SingleOK
  <2>2. /\ call'[p].stage = (IF Transacted(p) THEN "finish" ELSE "close") /\ call'[p].done = done
        /\ call'[p].rows = {row} /\ call'[p].own = c /\ call'[p].pc = "body"
      BY <1>4, <1>14, <2>1 DEF Ran
  <2>3. SingleOK(p)'
      BY <2>1, <2>2, CallerFacts DEF SingleOK
  <2>4. ASSUME ~cut PROVE UncutSingleOK(p)'
    <3>1. conns[c].auto <=> ~Transacted(p)
        BY <2>1, <2>4, CallerFacts, OwnFacts DEF AutoOK
    <3>2. IF Transacted(p) THEN row \notin db' /\ row \in conns'[c].pending ELSE row \in db'
        BY <1>2, <1>3, <3>1
    <3> QED
        BY <1>10, <2>2, <3>2 DEF UncutSingleOK
  <2> QED
      BY <2>3, <2>4
<1>15. CallerOK(p)'
    BY <1>11, <1>12, <1>13, <1>14 DEF CallerOK, Ran
<1> QED
    BY <1>8, <1>9, <1>15, StepKeeps

LEMMA RunAtomic == ASSUME IInv, IInv', AInv, NEW p \in Callers, Run(p) PROVE AInv'
<1> DEFINE row == <<p, call[p].count + 1>>
           rows == IF call[p].tx /\ ~Joined(p) THEN call[p].rows ELSE call[p].rows \cup {row}
<1>1. /\ call[p].stage = "run" /\ call[p].count + 1 <= MaxStatements
      /\ call[p].count \in Nat /\ call[p].rows \subseteq Rows /\ UNCHANGED <<cut, lied>>
    BY CallerFacts, BoundAssumption DEF Run, Call
<1>2. row \in Rows /\ (Joined(p) => call[p].tx)
  <2>1. Joined(p) => call[p].tx
      BY <1>1, SingleFacts
  <2> QED
      BY <1>1, <2>1, BoundAssumption DEF Rows
<1>3. rows \in SUBSET Rows
    BY <1>1, <1>2
<1>4. \/ /\ ~Throws(p) /\ Written(StatementConn(p), row)
         /\ \E done \in BOOLEAN :
               call' = [AfterRun(p, done) EXCEPT ![p].count = call[p].count + 1, ![p].rows = rows]
      \/ /\ call' = [AfterRun(p, FALSE) EXCEPT ![p].count = call[p].count + 1]
         /\ UNCHANGED <<conns, db>>
    BY DEF Run
<1>5. ASSUME ~Throws(p), Written(StatementConn(p), row), NEW done \in BOOLEAN,
             call' = [AfterRun(p, done) EXCEPT ![p].count = call[p].count + 1, ![p].rows = rows]
      PROVE  AInv'
  <2>1. Ran(p, done, rows)
    <3> HIDE DEF rows
    <3> QED
        BY <1>1, <1>2, <1>3, <1>5, RanFields
  <2> QED
      BY <1>1, <1>2, <1>5, <2>1, RunWritesAtomic
<1>6. ASSUME call' = [AfterRun(p, FALSE) EXCEPT ![p].count = call[p].count + 1],
             UNCHANGED <<conns, db>>
      PROVE  AInv'
  <2>1. Ran(p, FALSE, call[p].rows)
      BY <1>1, <1>2, <1>6, RanFields
  <2> QED
      BY <1>1, <1>6, <2>1, RunThrowsAtomic
<1> QED
    BY <1>4, <1>5, <1>6

------------------------------------------------------------------------------

LEMMA BreakAtomic == ASSUME IInv, IInv', AInv, NEW c \in Conns, Break(c) PROVE AInv'
<1>1. /\ conns'[c].broken = TRUE /\ conns'[c].pending = {}
      /\ conns'[c].auto = conns[c].auto /\ conns'[c].pooled = conns[c].pooled
      /\ \A d \in Conns \ {c} : conns'[d] = conns[d]
    BY DEF IInv, TypeOK, Break
<1>2. ~conns[c].pooled /\ ~conns[c].broken /\ UNCHANGED <<db, call, cut, lied>>
    BY DEF Break
<1>3. \A d \in Conns : Abandoned(d) => Abandoned(d)'
    BY <1>1, <1>2 DEF Abandoned, Holds
<1>4. \A d \in Conns : /\ conns'[d].auto = conns[d].auto
                       /\ conns[d].broken => conns'[d].broken
                       /\ conns'[d].broken => conns'[d] = conns[d] \/ conns'[d].pending = {}
                       /\ ~conns'[d].broken => conns'[d] = conns[d]
                       /\ conns'[d].pending = conns[d].pending \/ conns'[d].pending = {}
    BY <1>1
<1>5. ASSUME NEW p \in Callers PROVE CallerOK(p)'
  <2> DEFINE q == call[p]
  <2>1. call'[p] = q /\ ShapeOf(q) /\ CallerOK(p) /\ (Transacted(p)' <=> Transacted(p))
        /\ (q.open => q.conn \in Conns) /\ (q.own # None => q.own \in Conns)
      BY <1>2, CallerFacts DEF AInv, Transacted, Joined, ShapeOf
  <2>2. Dead(p) => Dead(p)'
      BY <1>2, <1>4, <2>1 DEF Dead
  <2> HIDE DEF q
  <2>3. ASSUME q.tx, TxOK(p) PROVE TxOK(p)'
    <3>1. /\ q.pc \in {"get", "off"} => q.rows = {}
          /\ q.pc \in {"get", "off", "body", "commit"} => q.ok
          /\ q.pc = "rollback" => ~q.ok
          /\ q.pc \in {"restore", "close", "over"} /\ q.ok => q.rows \subseteq db
          /\ q.fatal => ~q.ok /\ q.pc \in {"restore", "close", "over"}
        BY <2>3 DEF TxOK, q
    <3>2. q.pc \in {"body", "commit"} /\ ~Dead(p)'
             => q.rows \subseteq db \cup conns'[q.conn].pending
        BY <1>2, <1>4, <2>1, <2>2, <2>3 DEF TxOK, Dead, q
    <3>3. q.own # None => q.rows \cap conns'[q.own].pending = {}
        BY <1>4, <2>1, <2>3 DEF TxOK, q
    <3> QED
        BY <1>2, <2>1, <3>1, <3>2, <3>3 DEF TxOK
  <2>4. ASSUME q.tx, UncutTxOK(p) PROVE UncutTxOK(p)'
      BY <1>2, <1>3, <1>4, <2>1, <2>4 DEF UncutTxOK, ShapeOf, q
  <2>5. ASSUME SingleOK(p) PROVE SingleOK(p)'
      BY <1>2, <2>5 DEF SingleOK
  <2>6. ASSUME SingleOK(p), UncutSingleOK(p) PROVE UncutSingleOK(p)'
      BY <1>2, <1>3, <1>4, <2>1, <2>6 DEF SingleOK, UncutSingleOK, q
  <2>7. ASSUME AutoOK(p) PROVE AutoOK(p)'
      BY <1>2, <1>4, <2>1, <2>7 DEF AutoOK, q
  <2> QED
      BY <1>2, <2>1, <2>3, <2>4, <2>5, <2>6, <2>7 DEF CallerOK, q
<1>6. RowsCounted' /\ PooledIsClean'
    BY <1>1, <1>2 DEF AInv, RowsCounted, PooledIsClean
<1>7. PendingIsOfHolder'
    BY <1>1, <1>2 DEF AInv, PendingIsOfHolder, Holds
<1> QED
    BY <1>5, <1>6, <1>7 DEF AInv

LEMMA InitAInv == Init => AInv
<1> SUFFICES ASSUME Init PROVE AInv
    OBVIOUS
<1>1. \A p \in Callers : /\ call[p].rows = {} /\ call[p].own = None /\ call[p].ok
                         /\ ~call[p].done /\ ~call[p].fatal
                         /\ IF call[p].tx THEN call[p].pc = "get"
                            ELSE call[p].pc = "body" /\ call[p].stage = "get"
  <2>1. PICK kind \in Kinds, singles \in SUBSET Singles :
          call = [p \in Callers |->
                    [kind |-> kind, tx |-> p \notin singles,
                     pc |-> IF p \in singles THEN "body" ELSE "get",
                     stage |-> IF p \in singles THEN "get" ELSE "none",
                     conn |-> None, open |-> FALSE, own |-> None,
                     count |-> 0, rows |-> {}, done |-> FALSE, ok |-> TRUE,
                     fatal |-> FALSE]]
      BY DEF Init
  <2>2. ASSUME NEW p \in Callers, p \in singles
        PROVE  /\ call[p].rows = {} /\ call[p].own = None /\ call[p].ok /\ ~call[p].done
               /\ ~call[p].fatal /\ ~call[p].tx /\ call[p].pc = "body" /\ call[p].stage = "get"
      BY <2>1, <2>2
  <2>3. ASSUME NEW p \in Callers, p \notin singles
        PROVE  /\ call[p].rows = {} /\ call[p].own = None /\ call[p].ok /\ ~call[p].done
               /\ ~call[p].fatal /\ call[p].tx /\ call[p].pc = "get"
      BY <2>1, <2>3
  <2> QED
      BY <2>2, <2>3
<1>2. \A c \in Conns : conns[c].auto /\ ~conns[c].broken /\ conns[c].pending = {}
    BY DEF Init
<1>3. RowsCounted /\ PendingIsOfHolder /\ PooledIsClean
    BY <1>1, <1>2 DEF Init, RowsCounted, PendingIsOfHolder, PooledIsClean
<1>4. ASSUME NEW p \in Callers PROVE CallerOK(p)
    BY <1>1 DEF CallerOK, TxOK, UncutTxOK, SingleOK, UncutSingleOK, AutoOK
<1> QED
    BY <1>3, <1>4 DEF AInv

\* Every step keeps the invariant.
LEMMA NextAInv == IInv /\ AInv /\ [Next]_vars => AInv'
<1> SUFFICES ASSUME IInv, AInv, [Next]_vars PROVE AInv'
    OBVIOUS
<1>1. IInv'
    BY NextIInv
<1>2. ASSUME NEW p \in Callers, Transaction(p) PROVE AInv'
    BY <1>1, <1>2, TxGetAtomic, TxOffAtomic, BodyEndsAtomic, CommitAtomic, RollbackAtomic,
       RestoreAtomic, CloseAtomic DEF Transaction
<1>3. ASSUME NEW p \in Callers, RunStatement(p) PROVE AInv'
    BY <1>1, <1>3, StGetAtomic, StOffAtomic, RunAtomic, FinishAtomic, StRestoreAtomic,
       StCloseAtomic DEF RunStatement
<1>4. CASE UNCHANGED vars
  <2>1. UNCHANGED <<conns, db, call, cut, lied>>
      BY <1>4 DEF vars
  <2>2. RowsCounted' /\ PendingIsOfHolder' /\ PooledIsClean'
      BY <2>1 DEF AInv, RowsCounted, PendingIsOfHolder, PooledIsClean, Holds
  <2>3. ASSUME NEW p \in Callers PROVE CallerOK(p)'
    <3>1. CallerOK(p)
        BY DEF AInv
    <3>2. (TxOK(p)' <=> TxOK(p)) /\ (SingleOK(p)' <=> SingleOK(p))
        BY <2>1 DEF TxOK, SingleOK, Dead
    <3>3. UncutTxOK(p)' <=> UncutTxOK(p)
        BY <2>1 DEF UncutTxOK, Abandoned, Holds
    <3>4. UncutSingleOK(p)' <=> UncutSingleOK(p)
        BY <2>1 DEF UncutSingleOK, Abandoned, Holds, Transacted, Joined
    <3>5. AutoOK(p)' <=> AutoOK(p)
        BY <2>1 DEF AutoOK, Transacted, Joined
    <3> QED
        BY <2>1, <3>1, <3>2, <3>3, <3>4, <3>5 DEF CallerOK
  <2> QED
      BY <2>2, <2>3 DEF AInv
<1> QED
    BY <1>1, <1>2, <1>3, <1>4, StatementAtomic, BreakAtomic DEF Next

LEMMA AlwaysAInv == Spec => [](IInv /\ AInv)
<1>1. Init => IInv /\ AInv
    BY InitIInv, InitAInv
<1>2. IInv /\ AInv /\ [Next]_vars => (IInv /\ AInv)'
    BY NextIInv, NextAInv
<1> QED
    BY <1>1, <1>2, PTL DEF Spec

\* A transaction that returns has committed every row it wrote through its
\* connection.  One that throws has committed none, or its connection broke after
\* the commit; but one that ended with a throwable NonFatal lets pass has committed
\* all of them, or none when its connection broke.  For any number of callers,
\* connections, statements and faults.
THEOREM TransactionsAreAtomic == Spec => []AllOrNothing
<1>1. IInv /\ AInv => AllOrNothing
  <2> SUFFICES ASSUME IInv, AInv, NEW p \in Callers, call[p].tx
               PROVE  LET q == call[p]
                          broke == q.conn # None /\ conns[q.conn].broken IN
                      /\ q.pc = "over" /\ q.ok => q.rows \subseteq db
                      /\ q.pc = "over" /\ ~q.ok /\ ~q.fatal /\ ~cut =>
                            q.rows \cap db = {} \/ broke
                      /\ q.pc = "over" /\ q.fatal /\ ~cut =>
                            q.rows \subseteq db \/ (q.rows \cap db = {} /\ broke)
                      /\ q.pc = "body" /\ ~cut => q.rows \cap db = {}
      BY DEF AllOrNothing
  <2>1. TxOK(p) /\ (~cut => UncutTxOK(p))
      BY DEF AInv, CallerOK
  <2>2. call[p].open => call[p].conn # None
      BY CallerFacts DEF ShapeOf
  <2> QED
      BY <2>1, <2>2 DEF TxOK, UncutTxOK, Abandoned
<1> QED
    BY AlwaysAInv, <1>1, PTL

\* A single statement that returns is committed, and one of the template that
\* throws leaves nothing behind, unless its commit was refused or a connection broke.
THEOREM StatementsAreAtomic == Spec => []SingleStatement
<1>1. IInv /\ AInv => SingleStatement
  <2> SUFFICES ASSUME IInv, AInv, ~cut, NEW p \in Callers, ~call[p].tx, call[p].pc = "over",
                      p \notin lied, \A c \in Conns : ~conns[c].broken
               PROVE  LET q == call[p] IN
                      IF q.ok THEN q.rows # {} /\ q.rows \subseteq db
                      ELSE q.kind = "template" /\ UseTransaction => q.rows \cap db = {}
      BY DEF SingleStatement
  <2>1. UncutSingleOK(p)
      BY DEF AInv, CallerOK
  <2>2. \A c \in Conns : ~Abandoned(c)
      BY DEF Abandoned
  <2> QED
      BY <2>1, <2>2 DEF UncutSingleOK
<1> QED
    BY AlwaysAInv, <1>1, PTL

\* A connection in the pool is as the DataSource made it: auto-commit on, nothing
\* pending, not broken.
THEOREM ConnectionsComeBackClean == Spec => []PooledIsClean
<1>1. IInv /\ AInv => PooledIsClean
    BY DEF AInv
<1> QED
    BY AlwaysAInv, <1>1, PTL

=============================================================================
