----------------------------- MODULE UuidClock -----------------------------
(***************************************************************************)
(* UUIDs.timeBased: threads that draw timestamps from the system clock and *)
(* one AtomicLong.  Each read of the clock, each read of lastTimestamp and *)
(* each atomic update is an action of its own.  The system clock counts    *)
(* milliseconds from START_EPOCH; it may stand still and, when an operator *)
(* or a time server sets it, jump back.                                    *)
(***************************************************************************)
EXTENDS Integers, FiniteSets

CONSTANTS
    Threads,
    Ticks,      \* 100 ns intervals in a millisecond, 10000 in the code
    LowSize,    \* values of time_low, 2^32 in the code
    MidSize,    \* values of time_mid, 2^16 in the code
    HighSize,   \* values of time_hi, 2^12 in the code
    FirstClock, \* the clock when the class is loaded
    MaxClock,   \* bound: how far the clock runs
    MaxBack,    \* bound: how often the clock is set back
    MaxCalls    \* bound: how many calls are begun

ASSUME SizeAssumption ==
    /\ Ticks \in Nat \ {0}
    /\ {LowSize, MidSize, HighSize} \subseteq Nat \ {0}
ASSUME BoundAssumption ==
    /\ FirstClock \in Nat \ {0}
    /\ {MaxClock, MaxBack, MaxCalls} \subseteq Nat

VARIABLES
    clock,          \* System.currentTimeMillis()
    lastTimestamp,  \* the AtomicLong
    pc,             \* where each thread is in getCurrentTimestamp
    now,            \* its local variable now
    last,           \* its local variable last
    result,         \* the timestamp it returns
    begun,          \* history: calls begun
    given,          \* history: the timestamps of all calls
    decided,        \* history: calls whose timestamp is decided
    newest,         \* history: the greatest timestamp returned so far
    earlier,        \* history: newest when the call of a thread began
    lowest,         \* history: startOf the lowest clock during a call
    disturbed,      \* history: calls overlapped or the clock was set back
    setBacks        \* bound: how often the clock was set back

locals == <<pc, now, last, result>>
history == <<begun, given, decided, newest, earlier, lowest, disturbed>>
vars == <<clock, lastTimestamp, locals, history, setBacks>>

------------------------------------------------------------------------------
(* Conversions.                                                            *)

FromUnixTimestamp(ms) == ms * Ticks

MillisOf(timestamp) == timestamp \div Ticks

\* Mutant: the middle bits are masked with the width of the high ones.
NarrowMSB(timestamp) ==
    (timestamp % LowSize) * (MidSize * 16 * HighSize)
    + ((timestamp \div LowSize) % (MidSize \div 2)) * (16 * HighSize)
    + HighSize
    + ((timestamp \div (LowSize * MidSize)) % HighSize)

\* time_low, time_mid, version 1, time_hi, from the most significant bit.
MakeMSB(timestamp) ==
    (timestamp % LowSize) * (MidSize * 16 * HighSize)
    + ((timestamp \div LowSize) % MidSize) * (16 * HighSize)
    + HighSize
    + ((timestamp \div (LowSize * MidSize)) % HighSize)

\* java.util.UUID.timestamp: the three fields put together again.
TimestampOf(msb) ==
    (msb % HighSize) * (MidSize * LowSize)
    + ((msb \div (16 * HighSize)) % MidSize) * LowSize
    + (msb \div (MidSize * 16 * HighSize))

\* unixTimestamp of the UUID that carries msb.
UnixTimestamp(msb) == MillisOf(TimestampOf(msb))

\* The timestamps of startOf(ms) and endOf(ms).
StartOf(ms) == FromUnixTimestamp(ms)
EndOf(ms) == FromUnixTimestamp(ms + 1) - 1

------------------------------------------------------------------------------
Init ==
    /\ clock = FirstClock
    /\ lastTimestamp = 0
    /\ pc = [t \in Threads |-> "idle"]
    /\ now = [t \in Threads |-> 0]
    /\ last = [t \in Threads |-> 0]
    /\ result = [t \in Threads |-> 0]
    /\ begun = 0
    /\ given = {}
    /\ decided = 0
    /\ newest = 0
    /\ earlier = [t \in Threads |-> 0]
    /\ lowest = [t \in Threads |-> 0]
    /\ disturbed = FALSE
    /\ setBacks = 0

Goto(t, label) == pc' = [pc EXCEPT ![t] = label]

\* A thread calls timeBased.
Call(t) ==
    /\ pc[t] = "idle"
    /\ begun < MaxCalls
    /\ begun' = begun + 1
    /\ earlier' = [earlier EXCEPT ![t] = newest]
    /\ lowest' = [lowest EXCEPT ![t] = StartOf(clock)]
    /\ disturbed' = (disturbed \/ \E x \in Threads : pc[x] # "idle")
    /\ Goto(t, "clock")
    /\ UNCHANGED <<clock, lastTimestamp, now, last, result, given, decided,
                   newest, setBacks>>

\* Mutant: the clock is read once and remembered.
ReadClockOnce(t) ==
    /\ pc[t] = "clock"
    /\ now' = [now EXCEPT ![t] = IF @ = 0 THEN FromUnixTimestamp(clock) ELSE @]
    /\ Goto(t, "get")
    /\ UNCHANGED <<clock, lastTimestamp, last, result, history, setBacks>>

ReadClock(t) ==
    /\ pc[t] = "clock"
    /\ now' = [now EXCEPT ![t] = FromUnixTimestamp(clock)]
    /\ Goto(t, "get")
    /\ UNCHANGED <<clock, lastTimestamp, last, result, history, setBacks>>

ReadLast(t) ==
    /\ pc[t] = "get"
    /\ last' = [last EXCEPT ![t] = lastTimestamp]
    /\ Goto(t, "update")
    /\ UNCHANGED <<clock, lastTimestamp, now, result, history, setBacks>>

\* lastTimestamp becomes the timestamp of this call.
Take(t, timestamp) ==
    /\ lastTimestamp' = timestamp
    /\ result' = [result EXCEPT ![t] = timestamp]
    /\ given' = given \cup {timestamp}
    /\ decided' = decided + 1
    /\ Goto(t, "done")

\* Mutant: the loop does not read the clock again.
RetryFromLast(t) ==
    /\ Goto(t, "get")
    /\ UNCHANGED <<lastTimestamp, result, given, decided>>

Retry(t) ==
    /\ Goto(t, "clock")
    /\ UNCHANGED <<lastTimestamp, result, given, decided>>

\* Mutant: set instead of compareAndSet.
SetAnyway(t, timestamp) == Take(t, timestamp)

CompareAndSet(t, timestamp) ==
    \/ lastTimestamp = last[t] /\ Take(t, timestamp)
    \/ lastTimestamp # last[t] /\ Retry(t)

\* Mutant: the clock is followed when it went back.
FollowClock(t) == Take(t, now[t])

IncrementAndGet(t) == Take(t, lastTimestamp + 1)

ClockWentBack(t) == MillisOf(now[t]) < MillisOf(last[t])

\* Mutant: no look at the millisecond of the candidate.
NeverFull(t) == TRUE

\* The candidate last + 1 still lies in the millisecond of last.
CandidateFits(t) == MillisOf(last[t] + 1) = MillisOf(last[t])

\* The decision on the two values read and the atomic update it leads to.
Update(t) ==
    /\ pc[t] = "update"
    /\ \/ now[t] > last[t] /\ CompareAndSet(t, now[t])
       \/ /\ now[t] <= last[t]
          /\ \/ ClockWentBack(t) /\ IncrementAndGet(t)
             \/ ~ClockWentBack(t) /\ CandidateFits(t) /\ CompareAndSet(t, last[t] + 1)
             \/ ~ClockWentBack(t) /\ ~CandidateFits(t) /\ Retry(t)
    /\ UNCHANGED <<clock, now, last, begun, newest, earlier, lowest, disturbed, setBacks>>

Return(t) ==
    /\ pc[t] = "done"
    /\ newest' = IF result[t] > newest THEN result[t] ELSE newest
    /\ Goto(t, "idle")
    /\ UNCHANGED <<clock, lastTimestamp, now, last, result, begun, given,
                   decided, earlier, lowest, disturbed, setBacks>>

Tick ==
    /\ clock < MaxClock
    /\ clock' = clock + 1
    /\ UNCHANGED <<lastTimestamp, locals, history, setBacks>>

\* Somebody sets the clock back.
SetBack ==
    /\ setBacks < MaxBack
    /\ setBacks' = setBacks + 1
    /\ disturbed' = TRUE
    /\ \E ms \in 1 .. clock - 1 :
          /\ clock' = ms
          /\ lowest' = [t \in Threads |->
                          IF lowest[t] > StartOf(ms) THEN StartOf(ms) ELSE lowest[t]]
    /\ UNCHANGED <<lastTimestamp, locals, begun, given, decided, newest, earlier>>

Step(t) == ReadClock(t) \/ ReadLast(t) \/ Update(t) \/ Return(t)

Next ==
    \/ \E t \in Threads : Call(t) \/ Step(t)
    \/ Tick
    \/ SetBack

Spec == Init /\ [][Next]_vars

\* Threads are scheduled and the clock runs; nobody has to call or to set it.
FairSpec == Spec /\ WF_vars(Tick) /\ \A t \in Threads : WF_vars(Step(t))

------------------------------------------------------------------------------
(* Properties.                                                             *)

TypeOK ==
    /\ clock \in Nat
    /\ lastTimestamp \in Nat
    /\ pc \in [Threads -> {"idle", "clock", "get", "update", "done"}]
    /\ {now, last, result, earlier, lowest} \subseteq [Threads -> Nat]
    /\ {begun, decided, newest, setBacks} \subseteq Nat
    /\ given \subseteq Nat
    /\ disturbed \in BOOLEAN

\* No two calls get the same timestamp, whichever threads race between the
\* reads and the update and however often the clock is set back.
TimestampsDistinct == IsFiniteSet(given) /\ Cardinality(given) = decided

\* The UUIDs are as different as their timestamps.
UuidsDistinct == Cardinality({MakeMSB(ts) : ts \in given}) = decided

\* A call that begins after another returned gets a greater timestamp, on any
\* thread: timeBased UUIDs sort in the order in which they were asked for.
OrderOfCalls ==
    \A t \in Threads : pc[t] = "done" => result[t] > earlier[t]

\* A UUID sorts after startOf every clock value shown during its call, so a
\* query from startOf(ms) misses none made since ms.
NotBeforeStartOf ==
    \A t \in Threads : pc[t] = "done" => result[t] >= lowest[t]

\* As long as calls do not overlap and the clock is not set back, a UUID sorts
\* before endOf(the clock), and unixTimestamp of it is a time the clock showed
\* while it was made.
ReportsItsTime ==
    \A t \in Threads :
       ~disturbed /\ pc[t] = "done" =>
          LET ms == UnixTimestamp(MakeMSB(result[t])) IN
          lowest[t] <= StartOf(ms) /\ ms <= clock /\ result[t] <= EndOf(clock)

\* Every call returns: a full millisecond passes, and with finitely many calls
\* each thread wins its last race.  Only at the end of the modelled time may a
\* thread wait for a millisecond that does not come.
CallsReturn ==
    \A t \in Threads :
       pc[t] # "idle" ~> pc[t] = "idle" \/ MillisOf(lastTimestamp + 1) > MaxClock

------------------------------------------------------------------------------
(* The abstract specification.                                             *)

Phase ==
    [t \in Threads |->
       IF pc[t] = "idle" THEN "idle" ELSE IF pc[t] = "done" THEN "told" ELSE "waiting"]

Oracle == INSTANCE TimestampOracle
            WITH highest <- lastTimestamp, phase <- Phase, answer <- result

\* The loop of reads and updates implements the oracle.
Implements == Oracle!Spec

------------------------------------------------------------------------------
(* The inductive invariant.                                                *)

\* What was read or given out never exceeds lastTimestamp.
BelowLast ==
    /\ newest <= lastTimestamp
    /\ \A ts \in given : ts <= lastTimestamp
    /\ \A t \in Threads :
          /\ earlier[t] <= lastTimestamp
          /\ result[t] <= lastTimestamp
          /\ pc[t] = "update" => last[t] <= lastTimestamp

\* The clock a call has read is one it could have seen.
ReadInCall ==
    \A t \in Threads :
       /\ lowest[t] <= FromUnixTimestamp(clock)
       /\ pc[t] \in {"get", "update"} => now[t] >= lowest[t]

IInv ==
    /\ TypeOK
    /\ TimestampsDistinct
    /\ BelowLast
    /\ ReadInCall
    /\ OrderOfCalls
    /\ NotBeforeStartOf

============================================================================
