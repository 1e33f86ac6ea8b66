-------------------------- MODULE UuidClockProofs --------------------------
(***************************************************************************)
(* Proofs about UuidClock: timestamps are distinct, sort in the order of   *)
(* the calls and not before the clock, and the loop implements the oracle, *)
(* for any number of threads and calls and any behaviour of the clock.     *)
(* UUIDs are as distinct as their timestamps and tell them again, as long  *)
(* as timestamps fit the fields.                                           *)
(***************************************************************************)
EXTENDS UuidClock, FiniteSetTheorems, TLAPS

\* Conversion to ticks keeps the order.
LEMMA TicksKeepOrder ==
    ASSUME NEW a \in Nat, NEW b \in Nat, a <= b
    PROVE  FromUnixTimestamp(a) \in Nat /\ FromUnixTimestamp(a) <= FromUnixTimestamp(b)
<1>1. PICK d \in Nat : b = a + d
    OBVIOUS
<1>2. b * Ticks = a * Ticks + d * Ticks /\ d * Ticks \in Nat /\ a * Ticks \in Nat
    BY <1>1, SizeAssumption
<1> QED
    BY <1>2 DEF FromUnixTimestamp

\* The initial state satisfies the invariant.
LEMMA InitIInv == Init => IInv
<1> SUFFICES ASSUME Init PROVE IInv
    OBVIOUS
<1>1. TypeOK
  <2>1. disturbed \in BOOLEAN
      BY DEF Init
  <2>2. /\ pc \in [Threads -> {"idle", "clock", "get", "update", "done"}]
        /\ {now, last, result, earlier, lowest} \subseteq [Threads -> Nat]
      BY DEF Init
  <2> QED
      BY <2>1, <2>2, BoundAssumption DEF Init, TypeOK
<1>2. TimestampsDistinct
    BY FS_EmptySet DEF Init, TimestampsDistinct
<1>3. FromUnixTimestamp(clock) \in Nat
    BY BoundAssumption, TicksKeepOrder DEF Init
<1> QED
    BY <1>1, <1>2, <1>3
    DEF Init, IInv, BelowLast, ReadInCall, OrderOfCalls, NotBeforeStartOf

\* What a call draws lies above everything drawn before it and not below the
\* clock it has read: the only way the shared state changes.
LEMMA TakeStep ==
    ASSUME IInv, NEW t \in Threads, NEW ts \in Nat,
           pc[t] = "update", ts > lastTimestamp, ts >= now[t],
           Take(t, ts),
           UNCHANGED <<clock, now, last, begun, newest, earlier, lowest, disturbed, setBacks>>
    PROVE  IInv'
<1> USE DEF IInv, TypeOK
<1>1. /\ pc' = [pc EXCEPT ![t] = "done"]
      /\ lastTimestamp' = ts
      /\ result' = [result EXCEPT ![t] = ts]
      /\ given' = given \cup {ts}
      /\ decided' = decided + 1
    BY DEF Take, Goto
<1>2. TypeOK'
  <2>1. disturbed' \in BOOLEAN
      BY Zenon
  <2>2. /\ pc' \in [Threads -> {"idle", "clock", "get", "update", "done"}]
        /\ {now', last', result', earlier', lowest'} \subseteq [Threads -> Nat]
      BY <1>1
  <2>3. given' \subseteq Nat /\ {begun', decided', newest', setBacks'} \subseteq Nat
      BY <1>1
  <2> QED
      BY <1>1, <2>1, <2>2, <2>3
<1>3. TimestampsDistinct'
  <2>1. ts \notin given
      BY DEF BelowLast
  <2>2. IsFiniteSet(given) /\ Cardinality(given) = decided
      BY DEF TimestampsDistinct
  <2>3. IsFiniteSet(given \cup {ts}) /\ Cardinality(given \cup {ts}) = decided + 1
      BY <2>1, <2>2, FS_AddElement
  <2> QED
      BY <1>1, <2>3 DEF TimestampsDistinct
<1>4. BelowLast'
    BY <1>1 DEF BelowLast
<1>5. ReadInCall'
  <2>1. FromUnixTimestamp(clock)' = FromUnixTimestamp(clock)
      BY DEF FromUnixTimestamp
  <2> QED
      BY <1>1, <2>1 DEF ReadInCall
<1>6. OrderOfCalls'
    BY <1>1 DEF OrderOfCalls, BelowLast
<1>7. NotBeforeStartOf'
    BY <1>1 DEF NotBeforeStartOf, ReadInCall
<1> QED
    BY <1>2, <1>3, <1>4, <1>5, <1>6, <1>7

\* Going round the loop changes nothing but the program counter.
LEMMA RetryStep ==
    ASSUME IInv, NEW t \in Threads, Retry(t),
           UNCHANGED <<clock, now, last, begun, newest, earlier, lowest, disturbed, setBacks>>
    PROVE  IInv'
<1>1. FromUnixTimestamp(clock)' = FromUnixTimestamp(clock)
    BY DEF FromUnixTimestamp
<1> QED
    BY <1>1 DEF IInv, TypeOK, Retry, Goto, TimestampsDistinct, BelowLast, ReadInCall,
                OrderOfCalls, NotBeforeStartOf

\* Whatever the update decides on, it takes a greater timestamp or retries.
LEMMA UpdateTakesOrRetries ==
    ASSUME IInv, NEW t \in Threads, Update(t)
    PROVE  \/ Retry(t)
           \/ \E ts \in Nat : ts > lastTimestamp /\ ts >= now[t] /\ Take(t, ts)
<1>1. /\ lastTimestamp \in Nat /\ now[t] \in Nat /\ last[t] \in Nat
      /\ last[t] <= lastTimestamp
    BY DEF IInv, TypeOK, BelowLast, Update
<1>2. CASE now[t] > last[t] /\ CompareAndSet(t, now[t])
    BY <1>1, <1>2 DEF CompareAndSet
<1>3. CASE now[t] <= last[t] /\ IncrementAndGet(t)
  <2>1. lastTimestamp + 1 \in Nat /\ lastTimestamp + 1 > lastTimestamp
        /\ lastTimestamp + 1 >= now[t]
      BY <1>1, <1>3
  <2> QED
      BY <1>3, <2>1 DEF IncrementAndGet
<1>4. CASE now[t] <= last[t] /\ CompareAndSet(t, last[t] + 1)
  <2>1. last[t] + 1 \in Nat /\ last[t] + 1 > last[t] /\ last[t] + 1 >= now[t]
      BY <1>1, <1>4
  <2> QED
      BY <1>4, <2>1 DEF CompareAndSet
<1>5. CASE Retry(t)
    BY <1>5
<1> QED
    BY <1>2, <1>3, <1>4, <1>5 DEF Update

\* Every step keeps the invariant.
LEMMA NextIInv == IInv /\ [Next]_vars => IInv'
<1> SUFFICES ASSUME IInv, [Next]_vars PROVE IInv'
    OBVIOUS
<1> USE DEF locals, history
<1>0. FromUnixTimestamp(clock) \in Nat
    BY TicksKeepOrder DEF IInv, TypeOK
<1>1. ASSUME NEW t \in Threads, Call(t) PROVE IInv'
  <2>1. FromUnixTimestamp(clock)' = FromUnixTimestamp(clock)
      BY <1>1 DEF Call, FromUnixTimestamp
  <2>2. StartOf(clock) = FromUnixTimestamp(clock)
      BY DEF StartOf
  <2> QED
      BY <1>0, <1>1, <2>1, <2>2
      DEF IInv, TypeOK, Call, Goto, TimestampsDistinct, BelowLast, ReadInCall,
          OrderOfCalls, NotBeforeStartOf
<1>2. ASSUME NEW t \in Threads, ReadClock(t) PROVE IInv'
  <2>1. FromUnixTimestamp(clock)' = FromUnixTimestamp(clock)
      BY <1>2 DEF ReadClock, FromUnixTimestamp
  <2> QED
      BY <1>0, <1>2, <2>1
      DEF IInv, TypeOK, ReadClock, Goto, TimestampsDistinct, BelowLast, ReadInCall,
          OrderOfCalls, NotBeforeStartOf
<1>3. ASSUME NEW t \in Threads, ReadLast(t) PROVE IInv'
  <2>1. FromUnixTimestamp(clock)' = FromUnixTimestamp(clock)
      BY <1>3 DEF ReadLast, FromUnixTimestamp
  <2> QED
      BY <1>3, <2>1
      DEF IInv, TypeOK, ReadLast, Goto, TimestampsDistinct, BelowLast, ReadInCall,
          OrderOfCalls, NotBeforeStartOf
<1>4. ASSUME NEW t \in Threads, Update(t) PROVE IInv'
  <2>1. pc[t] = "update"
        /\ UNCHANGED <<clock, now, last, begun, newest, earlier, lowest, disturbed, setBacks>>
      BY <1>4 DEF Update
  <2>2. CASE Retry(t)
      BY <2>1, <2>2, RetryStep
  <2>3. CASE \E ts \in Nat : ts > lastTimestamp /\ ts >= now[t] /\ Take(t, ts)
      BY <2>1, <2>3, TakeStep
  <2> QED
      BY <1>4, <2>2, <2>3, UpdateTakesOrRetries
<1>5. ASSUME NEW t \in Threads, Return(t) PROVE IInv'
  <2>1. FromUnixTimestamp(clock)' = FromUnixTimestamp(clock)
      BY <1>5 DEF Return, FromUnixTimestamp
  <2> QED
      BY <1>5, <2>1
      DEF IInv, TypeOK, Return, Goto, TimestampsDistinct, BelowLast, ReadInCall,
          OrderOfCalls, NotBeforeStartOf
<1>6. CASE Tick
  <2>1. FromUnixTimestamp(clock) <= FromUnixTimestamp(clock)'
        /\ FromUnixTimestamp(clock)' \in Nat
    <3>1. clock \in Nat /\ clock' = clock + 1 /\ clock + 1 \in Nat
        BY <1>6 DEF Tick, IInv, TypeOK
    <3>2. FromUnixTimestamp(clock) <= FromUnixTimestamp(clock + 1)
          /\ FromUnixTimestamp(clock + 1) \in Nat
        BY <3>1, TicksKeepOrder
    <3> QED
        BY <3>1, <3>2 DEF FromUnixTimestamp
  <2> QED
      BY <1>0, <1>6, <2>1
      DEF IInv, TypeOK, Tick, TimestampsDistinct, BelowLast, ReadInCall,
          OrderOfCalls, NotBeforeStartOf
<1>7. CASE SetBack
  <2>1. PICK ms \in 1 .. clock - 1 :
          /\ clock' = ms
          /\ lowest' = [t \in Threads |->
                          IF lowest[t] > StartOf(ms) THEN StartOf(ms) ELSE lowest[t]]
      BY <1>7 DEF SetBack
  <2>2. ms \in Nat
      BY DEF IInv, TypeOK
  <2>3. StartOf(ms) = FromUnixTimestamp(clock)' /\ StartOf(ms) \in Nat
    <3>1. FromUnixTimestamp(ms) \in Nat
        BY <2>2, TicksKeepOrder
    <3> QED
        BY <2>1, <3>1 DEF StartOf, FromUnixTimestamp
  <2>4. /\ lowest' \in [Threads -> Nat]
        /\ \A t \in Threads : lowest'[t] <= lowest[t]
                              /\ lowest'[t] <= FromUnixTimestamp(clock)'
      BY <2>1, <2>3 DEF IInv, TypeOK
  <2>5. UNCHANGED <<lastTimestamp, pc, now, last, result, begun, given, decided,
                    newest, earlier>>
        /\ setBacks' = setBacks + 1 /\ disturbed' = TRUE
      BY <1>7 DEF SetBack
  <2>6. TypeOK'
      BY <2>1, <2>2, <2>4, <2>5 DEF IInv, TypeOK
  <2>7. TimestampsDistinct' /\ BelowLast' /\ OrderOfCalls'
      BY <2>5 DEF IInv, TimestampsDistinct, BelowLast, OrderOfCalls
  <2>8. ReadInCall'
      BY <2>4, <2>5 DEF IInv, TypeOK, ReadInCall
  <2>9. NotBeforeStartOf'
      BY <2>4, <2>5 DEF IInv, TypeOK, NotBeforeStartOf
  <2> QED
      BY <2>6, <2>7, <2>8, <2>9 DEF IInv
<1>8. CASE UNCHANGED vars
  <2>1. FromUnixTimestamp(clock)' = FromUnixTimestamp(clock)
      BY <1>8 DEF vars, FromUnixTimestamp
  <2> QED
      BY <1>8, <2>1
      DEF IInv, TypeOK, vars, TimestampsDistinct, BelowLast, ReadInCall,
          OrderOfCalls, NotBeforeStartOf
<1> QED
    BY <1>1, <1>2, <1>3, <1>4, <1>5, <1>6, <1>7, <1>8 DEF Next, Step

\* The invariant holds throughout.
THEOREM Invariance == Spec => []IInv
<1> QED
    BY InitIInv, NextIInv, PTL DEF Spec

\* No timestamp is given to two calls, under any interleaving of any number of
\* threads and any resetting of the clock.
THEOREM NoDuplicates == Spec => []TimestampsDistinct
<1>1. IInv => TimestampsDistinct
    BY DEF IInv
<1> QED
    BY <1>1, Invariance, PTL

\* A call that begins after another has returned gets a greater timestamp.
THEOREM CallsAreOrdered == Spec => []OrderOfCalls
<1>1. IInv => OrderOfCalls
    BY DEF IInv
<1> QED
    BY <1>1, Invariance, PTL

\* No timestamp is older than every clock value shown during its call.
THEOREM SortsAfterStartOf == Spec => []NotBeforeStartOf
<1>1. IInv => NotBeforeStartOf
    BY DEF IInv
<1> QED
    BY <1>1, Invariance, PTL

\* The compare-and-set loop implements the oracle: each call's timestamp is
\* decided at one instant and exceeds all decided before.
THEOREM ClockImplementsOracle == Spec => Implements
<1>1. Init => Oracle!Init
    BY DEF Init, Oracle!Init, Phase
<1>2. IInv /\ [Next]_vars => [Oracle!Next]_(Oracle!vars)
  <2> SUFFICES ASSUME IInv, [Next]_vars PROVE [Oracle!Next]_(Oracle!vars)
      OBVIOUS
  <2> USE DEF locals, history, Oracle!vars, Phase
  <2>0. pc \in [Threads -> {"idle", "clock", "get", "update", "done"}]
      BY DEF IInv, TypeOK
  <2>1. ASSUME NEW t \in Threads, Call(t) PROVE Oracle!Ask(t)
      BY <2>0, <2>1 DEF Call, Goto, Oracle!Ask
  <2>2. ASSUME NEW t \in Threads, ReadClock(t) \/ ReadLast(t)
        PROVE UNCHANGED <<lastTimestamp, Phase, result>>
      BY <2>0, <2>2 DEF ReadClock, ReadLast, Goto
  <2>3. ASSUME NEW t \in Threads, Update(t)
        PROVE Oracle!Decide(t) \/ UNCHANGED <<lastTimestamp, Phase, result>>
    <3>1. pc[t] = "update"
        BY <2>3 DEF Update
    <3>2. CASE Retry(t)
        BY <2>0, <3>1, <3>2 DEF Retry, Goto
    <3>3. CASE \E ts \in Nat : ts > lastTimestamp /\ ts >= now[t] /\ Take(t, ts)
        BY <2>0, <3>1, <3>3 DEF Take, Goto, Oracle!Decide
    <3> QED
        BY <2>3, <3>2, <3>3, UpdateTakesOrRetries
  <2>4. ASSUME NEW t \in Threads, Return(t) PROVE Oracle!Hear(t)
      BY <2>0, <2>4 DEF Return, Goto, Oracle!Hear
  <2>5. ASSUME Tick \/ SetBack \/ UNCHANGED vars
        PROVE UNCHANGED <<lastTimestamp, Phase, result>>
      BY <2>5 DEF Tick, SetBack, vars
  <2> QED
      BY <2>1, <2>2, <2>3, <2>4, <2>5 DEF Next, Step, Oracle!Next
<1> QED
    BY <1>1, <1>2, Invariance, PTL DEF Spec, Implements, Oracle!Spec

(***************************************************************************)
(* Conversions: quotients and remainders, and the fields of a UUID.        *)
(***************************************************************************)

LEMMA DivFacts ==
    ASSUME NEW n \in Nat, NEW d \in Nat \ {0}
    PROVE  /\ n \div d \in Nat /\ n % d \in Nat /\ n % d < d
           /\ n = d * (n \div d) + (n % d)
OBVIOUS

LEMMA DivUnique ==
    ASSUME NEW q \in Nat, NEW d \in Nat \ {0}, NEW r \in Nat, r < d
    PROVE  (d * q + r) \div d = q /\ (d * q + r) % d = r
OBVIOUS

LEMMA ProductKeepsOrder ==
    ASSUME NEW a \in Nat, NEW b \in Nat, NEW d \in Nat, a <= b
    PROVE  a * d \in Nat /\ b * d \in Nat /\ a * d <= b * d
OBVIOUS

LEMMA ProductPositive ==
    ASSUME NEW a \in Nat \ {0}, NEW b \in Nat \ {0}
    PROVE  a * b \in Nat \ {0}
OBVIOUS

\* A timestamp that fits the fields is the three fields put together.
LEMMA FieldsOf ==
    ASSUME NEW ts \in Nat, ts < LowSize * MidSize * HighSize
    PROVE  \E a \in 0 .. LowSize - 1, b \in 0 .. MidSize - 1, c \in 0 .. HighSize - 1 :
              /\ ts = LowSize * (MidSize * c + b) + a
              /\ ts % LowSize = a /\ (ts \div LowSize) % MidSize = b
              /\ (ts \div (LowSize * MidSize)) % HighSize = c
<1>0. LowSize \in Nat \ {0} /\ MidSize \in Nat \ {0} /\ HighSize \in Nat \ {0}
    BY SizeAssumption
<1>1. PICK m \in Nat, a \in Nat : ts = LowSize * m + a /\ a < LowSize
    BY <1>0, DivFacts
<1>2. PICK c \in Nat, b \in Nat : m = MidSize * c + b /\ b < MidSize
    BY <1>0, DivFacts
<1>3. ts \div LowSize = m /\ ts % LowSize = a
    BY <1>0, <1>1, DivUnique
<1>4. m % MidSize = b
    BY <1>0, <1>2, DivUnique
<1>5. LowSize * MidSize \in Nat \ {0}
    BY <1>0, ProductPositive
<1>6. ts = (LowSize * MidSize) * c + (LowSize * b + a)
  <2>1. ts = LowSize * (MidSize * c + b) + a
      BY <1>1, <1>2
  <2>2. LowSize * (MidSize * c + b) = (LowSize * MidSize) * c + LowSize * b
      BY <1>0
  <2> QED
      BY <2>1, <2>2, <1>0
<1>7. LowSize * b + a \in Nat /\ LowSize * b + a < LowSize * MidSize
  <2>1. b + 1 <= MidSize
      BY <1>0, <1>2
  <2>2. (b + 1) * LowSize <= MidSize * LowSize
      BY <1>0, <2>1, ProductKeepsOrder
  <2>3. (b + 1) * LowSize = LowSize * b + LowSize /\ LowSize * b \in Nat
      BY <1>0
  <2>4. MidSize * LowSize = LowSize * MidSize
      BY <1>0
  <2> QED
      BY <1>0, <1>1, <2>2, <2>3, <2>4
<1>8. ts \div (LowSize * MidSize) = c
    BY <1>5, <1>6, <1>7, DivUnique
<1>9. c < HighSize
  <2>1. SUFFICES ASSUME HighSize <= c PROVE FALSE
      BY <1>0
  <2>2. HighSize * (LowSize * MidSize) <= c * (LowSize * MidSize)
      BY <1>0, <1>5, <2>1, ProductKeepsOrder
  <2>3. /\ HighSize * (LowSize * MidSize) = LowSize * MidSize * HighSize
        /\ c * (LowSize * MidSize) = (LowSize * MidSize) * c
        /\ (LowSize * MidSize) * c \in Nat
      BY <1>0
  <2> QED
      BY <1>0, <1>2, <1>5, <1>6, <1>7, <2>2, <2>3
<1>10. c % HighSize = c
    BY <1>0, <1>9
<1>11. a \in 0 .. LowSize - 1 /\ b \in 0 .. MidSize - 1 /\ c \in 0 .. HighSize - 1
    BY <1>0, <1>1, <1>2, <1>9
<1>12. ts = LowSize * (MidSize * c + b) + a
    BY <1>1, <1>2
<1> QED
    BY <1>3, <1>4, <1>8, <1>10, <1>11, <1>12

\* java.util.UUID.timestamp gives back the timestamp that makeMSB took apart.
THEOREM TimestampComesBack ==
    ASSUME NEW ts \in Nat, ts < LowSize * MidSize * HighSize
    PROVE  TimestampOf(MakeMSB(ts)) = ts
<1>0. LowSize \in Nat \ {0} /\ MidSize \in Nat \ {0} /\ HighSize \in Nat \ {0}
    BY SizeAssumption
<1>1. PICK a \in 0 .. LowSize - 1, b \in 0 .. MidSize - 1, c \in 0 .. HighSize - 1 :
         /\ ts = LowSize * (MidSize * c + b) + a
         /\ ts % LowSize = a /\ (ts \div LowSize) % MidSize = b
         /\ (ts \div (LowSize * MidSize)) % HighSize = c
    BY FieldsOf
<1>2. /\ a \in Nat /\ b \in Nat /\ c \in Nat
      /\ b < MidSize /\ c < HighSize
    BY <1>0, <1>1
<1> DEFINE version == 16 * HighSize
           msb == a * (MidSize * 16 * HighSize) + b * version + HighSize + c
<1>3. MakeMSB(ts) = msb
    BY <1>1 DEF MakeMSB
<1>4. version \in Nat \ {0} /\ MidSize * version \in Nat \ {0}
      /\ MidSize * 16 * HighSize = MidSize * version
    BY <1>0
<1>5. HighSize + c \in Nat /\ HighSize + c < version
    BY <1>0, <1>2
<1>6. a * MidSize + b \in Nat
    BY <1>0, <1>2
<1>7. a * (MidSize * version) = version * (a * MidSize) /\ b * version = version * b
    BY <1>0, <1>2, <1>4
<1>8. msb = version * (a * MidSize + b) + (HighSize + c)
    BY <1>0, <1>2, <1>4, <1>6, <1>7
<1> HIDE DEF version, msb
<1>9. msb \div version = a * MidSize + b
    BY <1>4, <1>5, <1>6, <1>8, DivUnique
<1>10. (a * MidSize + b) % MidSize = b
  <2>1. a * MidSize + b = MidSize * a + b
      BY <1>0, <1>2
  <2> QED
      BY <1>0, <1>2, <2>1, DivUnique
<1>11. msb % HighSize = c
  <2>1. msb = HighSize * (16 * (a * MidSize + b) + 1) + c
    <3>1. version * (a * MidSize + b) = HighSize * (16 * (a * MidSize + b))
        BY <1>0, <1>6 DEF version
    <3>2. HighSize * (16 * (a * MidSize + b) + 1) = HighSize * (16 * (a * MidSize + b)) + HighSize
        BY <1>0, <1>6
    <3> QED
        BY <1>0, <1>2, <1>4, <1>6, <1>8, <3>1, <3>2
  <2>2. 16 * (a * MidSize + b) + 1 \in Nat
      BY <1>6
  <2> QED
      BY <1>0, <1>2, <2>1, <2>2, DivUnique
<1>12. msb \div (MidSize * version) = a
  <2>1. b * version + (HighSize + c) \in Nat /\ b * version + (HighSize + c) < MidSize * version
    <3>1. (b + 1) * version <= MidSize * version
        BY <1>0, <1>2, <1>4, ProductKeepsOrder
    <3>2. (b + 1) * version = b * version + version /\ b * version \in Nat
        BY <1>2, <1>4
    <3> QED
        BY <1>4, <1>5, <3>1, <3>2
  <2>2. a * (MidSize * version) = (MidSize * version) * a
      BY <1>2, <1>4
  <2>3. msb = a * (MidSize * version) + b * version + HighSize + c
      BY <1>4 DEF msb
  <2>4. msb = (MidSize * version) * a + (b * version + (HighSize + c))
      BY <1>0, <1>2, <1>4, <2>1, <2>2, <2>3
  <2> QED
      BY <1>2, <1>4, <2>1, <2>4, DivUnique
<1>13. TimestampOf(msb) = c * (MidSize * LowSize) + b * LowSize + a
    BY <1>4, <1>9, <1>10, <1>11, <1>12 DEF TimestampOf, version
<1>14. c * (MidSize * LowSize) + b * LowSize + a = ts
  <2>1. LowSize * (MidSize * c + b) = c * (MidSize * LowSize) + b * LowSize
      BY <1>0, <1>2
  <2> QED
      BY <1>1, <2>1
<1> QED
    BY <1>3, <1>13, <1>14

\* The lastTimestamp fits the 60 bits of a UUID.
FitsFields == lastTimestamp < LowSize * MidSize * HighSize

\* While timestamps fit the fields, no two UUIDs of timeBased have the same
\* most significant bits.
THEOREM UuidsAreDistinct == Spec => [](FitsFields => UuidsDistinct)
<1>1. IInv => (FitsFields => UuidsDistinct)
  <2> SUFFICES ASSUME IInv, FitsFields PROVE UuidsDistinct
      OBVIOUS
  <2> DEFINE uuids == {MakeMSB(ts) : ts \in given}
             f == [ts \in given |-> MakeMSB(ts)]
  <2>1. \A ts \in given : TimestampOf(MakeMSB(ts)) = ts
    <3> SUFFICES ASSUME NEW ts \in given PROVE TimestampOf(MakeMSB(ts)) = ts
        OBVIOUS
    <3>1. ts \in Nat /\ ts <= lastTimestamp /\ lastTimestamp \in Nat
        BY DEF IInv, TypeOK, BelowLast
    <3>2. LowSize * MidSize * HighSize \in Nat
        BY SizeAssumption
    <3>3. ts < LowSize * MidSize * HighSize
        BY <3>1, <3>2 DEF FitsFields
    <3> QED
        BY <3>1, <3>3, TimestampComesBack
  <2>2. f \in Bijection(given, uuids)
    <3>1. \A x, y \in given : f[x] = f[y] => x = y
        BY <2>1
    <3>2. f \in [given -> uuids]
        OBVIOUS
    <3>3. \A u \in uuids : \E ts \in given : f[ts] = u
        OBVIOUS
    <3> QED
      <4> HIDE DEF f, uuids
      <4> QED
          BY <3>1, <3>2, <3>3 DEF Bijection, Injection, Surjection, IsInjective
  <2>3. ExistsBijection(given, uuids)
      BY <2>2 DEF ExistsBijection
  <2>4. IsFiniteSet(given) /\ Cardinality(given) = decided
      BY DEF IInv, TimestampsDistinct
  <2> QED
      BY <2>3, <2>4, FS_Bijection DEF UuidsDistinct
<1> QED
    BY <1>1, Invariance, PTL

(***************************************************************************)
(* The time a UUID tells.                                                  *)
(***************************************************************************)

\* One call at a time.
OneAtATime == \A t, x \in Threads : pc[t] # "idle" /\ pc[x] # "idle" => t = x

\* No timestamp lies after the millisecond the clock shows.
NotAhead == lastTimestamp <= EndOf(clock)

\* Nor after the millisecond in which the call began that is not decided yet.
CallStarts(t) == pc[t] \in {"clock", "get", "update"} => lastTimestamp < lowest[t] + Ticks

\* The call has read a time that the clock showed.
CallReads(t) == pc[t] \in {"get", "update"} => \E ms \in 0 .. clock : now[t] = StartOf(ms)

\* The timestamp of the call lies in a millisecond the clock showed during it.
CallTells(t) ==
    pc[t] = "done" =>
       \E ms \in 0 .. clock : /\ lowest[t] <= StartOf(ms)
                              /\ StartOf(ms) <= result[t] /\ result[t] <= EndOf(ms)

QInv ==
    ~disturbed =>
       /\ OneAtATime /\ NotAhead
       /\ \A t \in Threads : CallStarts(t) /\ CallReads(t) /\ CallTells(t)

\* The milliseconds divide the timestamps.
LEMMA MillisIs ==
    ASSUME NEW ms \in Nat, NEW ts \in Nat
    PROVE  /\ StartOf(ms) \in Nat /\ EndOf(ms) \in Nat
           /\ EndOf(ms) = StartOf(ms) + Ticks - 1
           /\ MillisOf(ts) \in Nat
           /\ StartOf(ms) <= ts /\ ts <= EndOf(ms) <=> MillisOf(ts) = ms
<1>0. Ticks \in Nat \ {0}
    BY SizeAssumption
<1>1. PICK q \in Nat, r \in Nat : ts = Ticks * q + r /\ r < Ticks
    BY <1>0, DivFacts
<1>2. MillisOf(ts) = q
    BY <1>0, <1>1, DivUnique DEF MillisOf
<1>3. StartOf(ms) = ms * Ticks /\ ms * Ticks \in Nat /\ ms * Ticks = Ticks * ms
    BY <1>0 DEF StartOf, FromUnixTimestamp
<1>4. EndOf(ms) = ms * Ticks + Ticks - 1
  <2>1. (ms + 1) * Ticks = ms * Ticks + Ticks
      BY <1>0
  <2>2. EndOf(ms) = (ms + 1) * Ticks - 1
      BY DEF EndOf, FromUnixTimestamp
  <2> QED
      BY <1>0, <1>3, <2>1, <2>2
<1>5. ASSUME q = ms PROVE StartOf(ms) <= ts /\ ts <= EndOf(ms)
    BY <1>0, <1>1, <1>3, <1>4, <1>5
<1>6. ASSUME StartOf(ms) <= ts, ts <= EndOf(ms) PROVE q = ms
  <2>1. PICK r2 \in Nat : ts = Ticks * ms + r2 /\ r2 < Ticks
    <3>1. ts - Ticks * ms \in Nat /\ ts - Ticks * ms < Ticks
        BY <1>0, <1>3, <1>4, <1>6
    <3> QED
        BY <3>1, <1>3
  <2>2. MillisOf(ts) = ms
      BY <1>0, <2>1, DivUnique DEF MillisOf
  <2> QED
      BY <2>2, <1>2
<1> QED
    BY <1>0, <1>2, <1>3, <1>4, <1>5, <1>6

\* Later milliseconds end later.
LEMMA EndsKeepOrder ==
    ASSUME NEW a \in Nat, NEW b \in Nat, a <= b
    PROVE  /\ StartOf(a) <= StartOf(b) /\ EndOf(a) <= EndOf(b) /\ StartOf(a) <= EndOf(a)
           /\ StartOf(a) \in Nat /\ EndOf(a) \in Nat /\ StartOf(b) \in Nat /\ EndOf(b) \in Nat
<1>1. StartOf(a) <= StartOf(b)
    BY TicksKeepOrder DEF StartOf
<1>2. /\ EndOf(a) = StartOf(a) + Ticks - 1 /\ EndOf(b) = StartOf(b) + Ticks - 1
      /\ {StartOf(a), EndOf(a), StartOf(b), EndOf(b)} \subseteq Nat
    BY MillisIs
<1> QED
    BY <1>1, <1>2, SizeAssumption

\* Undisturbed, a call takes a timestamp of the millisecond it has read.
LEMMA UpdateTells ==
    ASSUME IInv, QInv, ~disturbed, NEW t \in Threads, Update(t)
    PROVE  \/ Retry(t)
           \/ \E ts \in Nat, ms \in 0 .. clock :
                 /\ Take(t, ts) /\ lowest[t] <= StartOf(ms)
                 /\ StartOf(ms) <= ts /\ ts <= EndOf(ms)
<1>1. /\ lastTimestamp \in Nat /\ now[t] \in Nat /\ last[t] \in Nat /\ lowest[t] \in Nat
      /\ last[t] <= lastTimestamp /\ now[t] >= lowest[t] /\ clock \in Nat
    BY DEF IInv, TypeOK, BelowLast, ReadInCall, Update
<1>2. lastTimestamp < lowest[t] + Ticks /\ \E ms \in 0 .. clock : now[t] = StartOf(ms)
    BY DEF QInv, CallStarts, CallReads, Update
<1>3. PICK ms \in 0 .. clock : now[t] = StartOf(ms)
    BY <1>2
<1>4. ms \in Nat /\ Ticks \in Nat \ {0}
    BY <1>1, SizeAssumption
<1>5. EndOf(ms) = StartOf(ms) + Ticks - 1
    BY <1>1, <1>4, MillisIs
<1>6. MillisOf(now[t]) = ms
  <2>1. StartOf(ms) <= now[t] /\ now[t] <= EndOf(ms)
      BY <1>1, <1>3, <1>4, <1>5
  <2> QED
      BY <1>1, <1>4, <2>1, MillisIs
<1>7. CASE now[t] > last[t] /\ CompareAndSet(t, now[t])
    BY <1>1, <1>3, <1>4, <1>5, <1>7 DEF CompareAndSet
<1>8. ASSUME now[t] <= last[t] PROVE MillisOf(last[t]) = ms
  <2>1. StartOf(ms) <= last[t] /\ last[t] <= EndOf(ms)
      BY <1>1, <1>2, <1>3, <1>4, <1>5, <1>8
  <2> QED
      BY <1>1, <1>4, <2>1, MillisIs
<1>9. CASE now[t] <= last[t] /\ ClockWentBack(t)
  <2>1. ms < ms
      BY <1>6, <1>8, <1>9 DEF ClockWentBack
  <2> QED
      BY <1>4, <2>1
<1>10. CASE now[t] <= last[t] /\ CandidateFits(t) /\ CompareAndSet(t, last[t] + 1)
  <2>1. last[t] + 1 \in Nat /\ MillisOf(last[t] + 1) = ms
      BY <1>1, <1>8, <1>10 DEF CandidateFits
  <2>2. StartOf(ms) <= last[t] + 1 /\ last[t] + 1 <= EndOf(ms)
      BY <1>4, <2>1, MillisIs
  <2> QED
      BY <1>1, <1>3, <1>10, <2>1, <2>2 DEF CompareAndSet
<1>11. CASE Retry(t)
    BY <1>11
<1> QED
    BY <1>7, <1>9, <1>10, <1>11 DEF Update

LEMMA InitQInv == Init => QInv
<1> SUFFICES ASSUME Init PROVE QInv
    OBVIOUS
<1>1. lastTimestamp = 0 /\ 0 <= EndOf(clock)
    BY MillisIs, BoundAssumption DEF Init
<1>2. \A t \in Threads : pc[t] = "idle"
    BY DEF Init
<1> QED
    BY <1>1, <1>2 DEF QInv, OneAtATime, NotAhead, CallStarts, CallReads, CallTells

\* A step of the only call under way keeps what is known of the others.
LEMMA OnlyCall ==
    ASSUME QInv, ~disturbed, NEW t \in Threads, pc[t] # "idle",
           \A x \in Threads \ {t} : pc'[x] = pc[x], UNCHANGED clock
    PROVE  /\ OneAtATime'
           /\ \A x \in Threads \ {t} : CallStarts(x)' /\ CallReads(x)' /\ CallTells(x)'
<1>1. \A x \in Threads \ {t} : pc[x] = "idle" /\ pc'[x] = "idle"
    BY DEF QInv, OneAtATime
<1> QED
    BY <1>1 DEF OneAtATime, CallStarts, CallReads, CallTells

LEMMA NextQInv == IInv /\ QInv /\ [Next]_vars => QInv'
<1> SUFFICES ASSUME IInv, QInv, [Next]_vars, ~disturbed' PROVE QInv'
    BY DEF QInv
<1> USE DEF locals, history
<1>0. /\ clock \in Nat /\ lastTimestamp \in Nat
      /\ pc \in [Threads -> {"idle", "clock", "get", "update", "done"}]
      /\ now \in [Threads -> Nat] /\ last \in [Threads -> Nat]
      /\ result \in [Threads -> Nat] /\ lowest \in [Threads -> Nat]
    BY DEF IInv, TypeOK
<1>1. ASSUME NEW t \in Threads, Call(t) PROVE QInv'
  <2>1. ~disturbed /\ \A x \in Threads : pc[x] = "idle"
      BY <1>1 DEF Call
  <2>2. /\ pc'[t] = "clock" /\ \A x \in Threads \ {t} : pc'[x] = "idle"
        /\ lowest'[t] = StartOf(clock) /\ UNCHANGED <<clock, lastTimestamp>>
      BY <1>0, <1>1, <2>1 DEF Call, Goto
  <2>3. lastTimestamp <= EndOf(clock) /\ EndOf(clock) = StartOf(clock) + Ticks - 1
        /\ StartOf(clock) \in Nat
      BY <1>0, <2>1, MillisIs DEF QInv, NotAhead
  <2>4. lastTimestamp < StartOf(clock) + Ticks
      BY <1>0, <2>3, SizeAssumption
  <2>5. OneAtATime'
      BY <2>2 DEF OneAtATime
  <2>6. NotAhead'
    <3>1. EndOf(clock)' = EndOf(clock)
        BY <2>2 DEF EndOf, FromUnixTimestamp
    <3> QED
        BY <2>2, <2>3, <3>1 DEF NotAhead
  <2>7. ASSUME NEW x \in Threads PROVE CallStarts(x)' /\ CallReads(x)' /\ CallTells(x)'
      BY <2>2, <2>4 DEF CallStarts, CallReads, CallTells
  <2> QED
      BY <2>5, <2>6, <2>7 DEF QInv
<1>2. ASSUME NEW t \in Threads, ReadClock(t) PROVE QInv'
  <2>1. ~disturbed /\ pc[t] = "clock" /\ UNCHANGED <<clock, lastTimestamp, lowest>>
      BY <1>2 DEF ReadClock
  <2>2. /\ \A x \in Threads \ {t} : pc'[x] = pc[x]
        /\ pc'[t] = "get" /\ now'[t] = FromUnixTimestamp(clock)
      BY <1>0, <1>2 DEF ReadClock, Goto
  <2>3. CallStarts(t)'
      BY <2>1, <2>2 DEF QInv, CallStarts
  <2>4. now'[t] = StartOf(clock) /\ clock \in 0 .. clock
      BY <1>0, <2>2 DEF StartOf
  <2>5. CallReads(t)' /\ CallTells(t)'
    <3>1. \E ms \in 0 .. clock' : now'[t] = StartOf(ms)
        BY <2>1, <2>4
    <3> QED
        BY <2>2, <3>1 DEF CallReads, CallTells
  <2>6. NotAhead'
    <3>1. EndOf(clock)' = EndOf(clock)
        BY <2>1 DEF EndOf, FromUnixTimestamp
    <3> QED
        BY <2>1, <3>1 DEF QInv, NotAhead
  <2> QED
      BY <2>1, <2>2, <2>3, <2>5, <2>6, OnlyCall DEF QInv
<1>3. ASSUME NEW t \in Threads, ReadLast(t) PROVE QInv'
  <2>1. ~disturbed /\ pc[t] = "get" /\ UNCHANGED <<clock, lastTimestamp, lowest, now>>
      BY <1>3 DEF ReadLast
  <2>2. pc'[t] = "update" /\ \A x \in Threads \ {t} : pc'[x] = pc[x]
      BY <1>0, <1>3 DEF ReadLast, Goto
  <2>3. CallStarts(t)' /\ CallTells(t)'
      BY <2>1, <2>2 DEF QInv, CallStarts, CallTells
  <2>4. CallReads(t)'
    <3>1. \E ms \in 0 .. clock : now[t] = StartOf(ms)
        BY <2>1 DEF QInv, CallReads
    <3> QED
        BY <2>1, <3>1 DEF CallReads
  <2>5. NotAhead'
    <3>1. EndOf(clock)' = EndOf(clock)
        BY <2>1 DEF EndOf, FromUnixTimestamp
    <3> QED
        BY <2>1, <3>1 DEF QInv, NotAhead
  <2> QED
      BY <2>1, <2>2, <2>3, <2>4, <2>5, OnlyCall DEF QInv
<1>4. ASSUME NEW t \in Threads, Update(t) PROVE QInv'
  <2>1. ~disturbed /\ pc[t] = "update" /\ UNCHANGED <<clock, lowest, now>>
      BY <1>4 DEF Update
  <2>2. EndOf(clock)' = EndOf(clock)
      BY <2>1 DEF EndOf, FromUnixTimestamp
  <2>3. CASE Retry(t)
    <3>1. pc'[t] = "clock" /\ lastTimestamp' = lastTimestamp
          /\ \A x \in Threads \ {t} : pc'[x] = pc[x]
        BY <1>0, <2>3 DEF Retry, Goto
    <3>2. CallStarts(t)' /\ CallReads(t)' /\ CallTells(t)'
        BY <2>1, <3>1 DEF QInv, CallStarts, CallReads, CallTells
    <3>3. NotAhead'
        BY <2>1, <2>2, <3>1 DEF QInv, NotAhead
    <3> QED
        BY <2>1, <3>1, <3>2, <3>3, OnlyCall DEF QInv
  <2>4. ASSUME NEW ts \in Nat, NEW ms \in 0 .. clock, Take(t, ts), lowest[t] <= StartOf(ms),
               StartOf(ms) <= ts, ts <= EndOf(ms)
        PROVE  QInv'
    <3>1. /\ pc'[t] = "done" /\ lastTimestamp' = ts /\ result'[t] = ts
          /\ \A x \in Threads \ {t} : pc'[x] = pc[x]
        BY <1>0, <2>4 DEF Take, Goto
    <3>2. \E m \in 0 .. clock' : /\ lowest'[t] <= StartOf(m)
                                 /\ StartOf(m) <= result'[t] /\ result'[t] <= EndOf(m)
        BY <2>1, <2>4, <3>1
    <3>3. CallStarts(t)' /\ CallReads(t)' /\ CallTells(t)'
        BY <3>1, <3>2 DEF CallStarts, CallReads, CallTells
    <3>4. NotAhead'
      <4>1. EndOf(ms) <= EndOf(clock) /\ EndOf(ms) \in Nat /\ EndOf(clock) \in Nat
          BY <1>0, EndsKeepOrder
      <4> QED
          BY <2>2, <2>4, <3>1, <4>1 DEF NotAhead
    <3> QED
        BY <2>1, <3>1, <3>3, <3>4, OnlyCall DEF QInv
  <2> QED
      BY <1>4, <2>1, <2>3, <2>4, UpdateTells
<1>5. ASSUME NEW t \in Threads, Return(t) PROVE QInv'
  <2>1. ~disturbed /\ pc[t] = "done" /\ UNCHANGED <<clock, lastTimestamp>>
      BY <1>5 DEF Return
  <2>2. pc'[t] = "idle" /\ \A x \in Threads \ {t} : pc'[x] = pc[x]
      BY <1>0, <1>5 DEF Return, Goto
  <2>3. CallStarts(t)' /\ CallReads(t)' /\ CallTells(t)'
      BY <2>2 DEF CallStarts, CallReads, CallTells
  <2>4. NotAhead'
    <3>1. EndOf(clock)' = EndOf(clock)
        BY <2>1 DEF EndOf, FromUnixTimestamp
    <3> QED
        BY <2>1, <3>1 DEF QInv, NotAhead
  <2> QED
      BY <2>1, <2>2, <2>3, <2>4, OnlyCall DEF QInv
<1>6. ASSUME clock' \in Nat, clock <= clock', UNCHANGED <<lastTimestamp, locals, history>>
      PROVE  QInv'
  <2>1. ~disturbed /\ 0 .. clock \subseteq 0 .. clock'
      BY <1>0, <1>6
  <2>2. OneAtATime'
      BY <1>6, <2>1 DEF QInv, OneAtATime
  <2>3. NotAhead'
    <3> DEFINE c == clock'
    <3>1. EndOf(clock) <= EndOf(c) /\ EndOf(clock) \in Nat /\ EndOf(c) \in Nat
      <4> HIDE DEF c
      <4> QED
          BY <1>0, <1>6, EndsKeepOrder DEF c
    <3>2. EndOf(clock)' = EndOf(c)
        BY DEF EndOf, FromUnixTimestamp
    <3> QED
        BY <1>0, <1>6, <2>1, <3>1, <3>2 DEF QInv, NotAhead
  <2>4. ASSUME NEW t \in Threads PROVE CallStarts(t)' /\ CallReads(t)' /\ CallTells(t)'
    <3>1. CallStarts(t)'
        BY <1>6, <2>1 DEF QInv, CallStarts
    <3>2. CallReads(t)'
      <4>1. pc[t] \in {"get", "update"} => \E ms \in 0 .. clock : now[t] = StartOf(ms)
          BY <2>1 DEF QInv, CallReads
      <4>2. pc'[t] \in {"get", "update"} => \E ms \in 0 .. clock' : now'[t] = StartOf(ms)
          BY <1>6, <2>1, <4>1
      <4> QED
          BY <4>2 DEF CallReads
    <3>3. CallTells(t)'
      <4>1. pc[t] = "done" =>
               \E ms \in 0 .. clock : /\ lowest[t] <= StartOf(ms)
                                      /\ StartOf(ms) <= result[t] /\ result[t] <= EndOf(ms)
          BY <2>1 DEF QInv, CallTells
      <4>2. pc'[t] = "done" =>
               \E ms \in 0 .. clock' : /\ lowest'[t] <= StartOf(ms)
                                       /\ StartOf(ms) <= result'[t] /\ result'[t] <= EndOf(ms)
          BY <1>6, <2>1, <4>1
      <4> QED
          BY <4>2 DEF CallTells
    <3> QED
        BY <3>1, <3>2, <3>3
  <2> QED
      BY <2>2, <2>3, <2>4 DEF QInv
<1>7. CASE Tick
    BY <1>0, <1>6, <1>7 DEF Tick
<1>8. CASE SetBack
    BY <1>8 DEF SetBack
<1>9. CASE UNCHANGED vars
    BY <1>0, <1>6, <1>9 DEF vars
<1> QED
    BY <1>1, <1>2, <1>3, <1>4, <1>5, <1>7, <1>8, <1>9 DEF Next, Step

\* While timestamps fit the fields: as long as calls do not overlap and the clock
\* is not set back, unixTimestamp of a UUID is a time the clock showed while it
\* was made, and the UUID sorts before endOf(the clock).
THEOREM UuidTellsTheTime == Spec => [](FitsFields => ReportsItsTime)
<1>1. IInv /\ QInv => (FitsFields => ReportsItsTime)
  <2> SUFFICES ASSUME IInv, QInv, FitsFields, ~disturbed, NEW t \in Threads, pc[t] = "done",
                      NEW ms, ms = UnixTimestamp(MakeMSB(result[t]))
               PROVE  lowest[t] <= StartOf(ms) /\ ms <= clock /\ result[t] <= EndOf(clock)
      BY DEF ReportsItsTime
  <2>1. /\ clock \in Nat /\ lastTimestamp \in Nat /\ result[t] \in Nat
        /\ result[t] <= lastTimestamp
      BY DEF IInv, TypeOK, BelowLast
  <2>2. PICK m \in 0 .. clock : /\ lowest[t] <= StartOf(m)
                                /\ StartOf(m) <= result[t] /\ result[t] <= EndOf(m)
      BY DEF QInv, CallTells
  <2>3. ms = MillisOf(result[t])
    <3>1. LowSize * MidSize * HighSize \in Nat
        BY SizeAssumption
    <3>2. result[t] < LowSize * MidSize * HighSize
        BY <2>1, <3>1 DEF FitsFields
    <3>3. TimestampOf(MakeMSB(result[t])) = result[t]
        BY <2>1, <3>2, TimestampComesBack
    <3> QED
        BY <3>3 DEF UnixTimestamp
  <2>4. MillisOf(result[t]) = m
      BY <2>1, <2>2, MillisIs
  <2>5. EndOf(m) <= EndOf(clock) /\ EndOf(m) \in Nat /\ EndOf(clock) \in Nat
      BY <2>1, EndsKeepOrder
  <2> QED
      BY <2>1, <2>2, <2>3, <2>4, <2>5
<1> QED
    BY <1>1, InitQInv, NextQInv, Invariance, PTL DEF Spec

============================================================================
