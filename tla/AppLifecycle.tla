---------------------------- MODULE AppLifecycle ----------------------------
(***************************************************************************)
(* The stop hooks of DefaultAppLifecycle and the threads of                *)
(* CommonRoutes.shutdown that run them.  The chain of futures that stop    *)
(* builds begins to run on the global execution context while the loop is  *)
(* still polling, so polling, starting a hook and its completion are       *)
(* separate actions.  One hook is the one of the actor system, which       *)
(* ActorSystemProvider adds when it makes the system.                      *)
(***************************************************************************)
EXTENDS Integers, Sequences, SequencesExt

CONSTANTS
    Threads,    \* calls of CommonRoutes.shutdown, one for each POST /shutdown
    Hooks,      \* stop hooks that components may add
    SystemHook, \* the hook that terminates the actor system
    Throwing,   \* hooks that may throw before they return a future
    Hanging,    \* hooks whose future may never complete
    NoHook,
    MayTimeOut  \* stop may take longer than the 60 seconds that are waited

ASSUME HookAssumption ==
    /\ SystemHook \in Hooks
    /\ Throwing \cup Hanging \subseteq Hooks \ {SystemHook}
    /\ NoHook \notin Hooks
    /\ MayTimeOut \in BOOLEAN

VARIABLES
    hooks,      \* the deque
    status,     \* what has become of each hook
    chain,      \* hooks each stop has polled and not yet started
    current,    \* the hook each stop has started and waits for
    failed,     \* stops whose future has failed
    pc,         \* where each thread is in shutdown
    system,     \* the actor system
    added,      \* history: hooks in the order in which they were added
    inTime,     \* history: hooks added before a stop was called
    starts,     \* history: how often each hook was called
    timedOut    \* history: a wait for stop has timed out

vars == <<hooks, status, chain, current, failed, pc, system, added, inTime, starts,
          timedOut>>

Statuses == {"new", "queued", "chained", "running", "ended", "thrown", "skipped"}

Init ==
    /\ hooks = <<>>
    /\ status = [h \in Hooks |-> "new"]
    /\ chain = [p \in Threads |-> <<>>]
    /\ current = [p \in Threads |-> NoHook]
    /\ failed = {}
    /\ pc = [p \in Threads |-> "idle"]
    /\ system = "absent"
    /\ added = <<>>
    /\ inTime = [p \in Threads |-> {}]
    /\ starts = [h \in Hooks |-> 0]
    /\ timedOut = FALSE

------------------------------------------------------------------------------
(* Components.                                                             *)

\* Mutant: hooks are added at the end.
AddLast(h) == Append(hooks, h)

Push(h) == <<h>> \o hooks

\* A component is made and adds its hook, also while a stop is under way.
AddStopHook(h) ==
    /\ status[h] = "new"
    /\ hooks' = Push(h)
    /\ status' = [status EXCEPT ![h] = "queued"]
    /\ system' = IF h = SystemHook THEN "up" ELSE system
    /\ added' = Append(added, h)
    /\ UNCHANGED <<chain, current, failed, pc, inTime, starts, timedOut>>

------------------------------------------------------------------------------
(* stop.                                                                   *)

\* shutdown calls stop.
Stop(p) ==
    /\ pc[p] = "idle"
    /\ pc' = [pc EXCEPT ![p] = "polling"]
    /\ inTime' = [inTime EXCEPT ![p] = ToSet(added)]
    /\ UNCHANGED <<hooks, status, chain, current, failed, system, added, starts, timedOut>>

\* Mutant: the first hook is looked at and not removed.
Peek(p) ==
    /\ hooks # <<>>
    /\ chain' = [chain EXCEPT ![p] = Append(@, Head(hooks))]
    /\ status' = [status EXCEPT ![Head(hooks)] = "chained"]
    /\ UNCHANGED hooks

\* One round of clearHooks: the next hook is put behind the future of those
\* before it; behind a failed future it will never be called.
Poll(p) ==
    /\ hooks # <<>>
    /\ LET h == Head(hooks) IN
       /\ hooks' = Tail(hooks)
       /\ IF p \in failed
          THEN status' = [status EXCEPT ![h] = "skipped"] /\ UNCHANGED chain
          ELSE /\ status' = [status EXCEPT ![h] = "chained"]
               /\ chain' = [chain EXCEPT ![p] = Append(@, h)]

ClearHooks(p) ==
    /\ pc[p] = "polling"
    /\ \/ Poll(p) /\ UNCHANGED pc
       \/ /\ hooks = <<>>
          /\ pc' = [pc EXCEPT ![p] = "waiting"]
          /\ UNCHANGED <<hooks, status, chain>>
    /\ UNCHANGED <<current, failed, system, added, inTime, starts, timedOut>>

\* Mutant: the next hook is called while the future of the last is open.
ReadyForNext(p) == chain[p] # <<>>

\* flatMap calls the next hook once the future before it has completed.
PreviousCompleted(p) == chain[p] # <<>> /\ current[p] = NoHook

\* A hook is called: it returns a future, or it throws, which fails the future
\* of the stop and passes over the hooks behind it.
StartHook(p) ==
    /\ PreviousCompleted(p)
    /\ LET h == Head(chain[p]) IN
       /\ starts' = [starts EXCEPT ![h] = @ + 1]
       /\ \/ /\ chain' = [chain EXCEPT ![p] = Tail(@)]
             /\ current' = [current EXCEPT ![p] = h]
             /\ status' = [status EXCEPT ![h] = "running"]
             /\ UNCHANGED failed
          \/ /\ h \in Throwing
             /\ chain' = [chain EXCEPT ![p] = <<>>]
             /\ status' = [x \in Hooks |->
                             IF x = h THEN "thrown"
                             ELSE IF x \in ToSet(chain[p]) THEN "skipped"
                             ELSE status[x]]
             /\ failed' = failed \cup {p}
             /\ UNCHANGED current
       /\ system' = IF h = SystemHook /\ system = "up" THEN "terminating" ELSE system
    /\ UNCHANGED <<hooks, pc, added, inTime, timedOut>>

\* Mutant: a hook whose future fails fails the stop.
EndHookUnrecovered(p) ==
    /\ current[p] # NoHook
    /\ current' = [current EXCEPT ![p] = NoHook]
    /\ \/ /\ status' = [status EXCEPT ![current[p]] = "ended"]
          /\ UNCHANGED <<chain, failed>>
       \/ /\ status' = [x \in Hooks |->
                          IF x = current[p] THEN "ended"
                          ELSE IF x \in ToSet(chain[p]) THEN "skipped"
                          ELSE status[x]]
          /\ chain' = [chain EXCEPT ![p] = <<>>]
          /\ failed' = failed \cup {p}
    /\ UNCHANGED <<hooks, pc, system, added, inTime, starts, timedOut>>

\* The future of a hook completes; a failure is logged and recovered from.
EndHook(p) ==
    /\ current[p] # NoHook
    /\ status' = [status EXCEPT ![current[p]] = "ended"]
    /\ current' = [current EXCEPT ![p] = NoHook]
    /\ UNCHANGED <<hooks, chain, failed, pc, system, added, inTime, starts, timedOut>>

\* Mutant: the future of the last hook is not waited for.
ChainStarted(p) ==
    /\ pc[p] \notin {"idle", "polling"}
    /\ p \in failed \/ chain[p] = <<>>

\* The future that stop returned is redeemed.
StopCompleted(p) ==
    /\ pc[p] \notin {"idle", "polling"}
    /\ p \in failed \/ (chain[p] = <<>> /\ current[p] = NoHook)

------------------------------------------------------------------------------
(* shutdown, after the call of stop.                                       *)

Terminated(before) == IF before = "down" THEN "down" ELSE "terminating"

\* Mutant: stop is waited for without a limit.
AwaitForever(p) == StopCompleted(p)

\* Await.result returns, or throws and is caught.
AwaitOver(p) == StopCompleted(p) \/ MayTimeOut

TerminateSystem(p) ==
    /\ pc[p] = "waiting"
    /\ AwaitOver(p)
    /\ system # "absent"
    /\ pc' = [pc EXCEPT ![p] = "terminating"]
    /\ system' = Terminated(system)
    /\ timedOut' = (timedOut \/ ~StopCompleted(p))
    /\ UNCHANGED <<hooks, status, chain, current, failed, added, inTime, starts>>

SystemDown ==
    /\ system = "terminating"
    /\ system' = "down"
    /\ UNCHANGED <<hooks, status, chain, current, failed, pc, added, inTime, starts,
                   timedOut>>

\* The second Await.result returns, or times out.
ShutdownDone(p) ==
    /\ pc[p] = "terminating"
    /\ system = "down" \/ MayTimeOut
    /\ pc' = [pc EXCEPT ![p] = "done"]
    /\ UNCHANGED <<hooks, status, chain, current, failed, system, added, inTime, starts,
                   timedOut>>

Shutdown(p) == ClearHooks(p) \/ TerminateSystem(p) \/ ShutdownDone(p)

\* A request for /shutdown is served only by routes that were made with the
\* actor system.
Next ==
    \/ \E h \in Hooks : AddStopHook(h)
    \/ \E p \in Threads : system # "absent" /\ Stop(p)
    \/ \E p \in Threads : Shutdown(p) \/ StartHook(p) \/ EndHook(p)
    \/ SystemDown

Spec == Init /\ [][Next]_vars

\* Threads and the execution context are scheduled, the actor system ends, and
\* so do the futures of the hooks that do not hang.
FairSpec ==
    /\ Spec
    /\ WF_vars(SystemDown)
    /\ \A p \in Threads :
          /\ WF_vars(Shutdown(p))
          /\ WF_vars(StartHook(p))
          /\ WF_vars(current[p] \notin Hanging /\ EndHook(p))

------------------------------------------------------------------------------
(* Properties.                                                             *)

Order(h) == IndexFirstSubSeq(<<h>>, added)

\* Every hook that was added is in one place: in the deque, in one chain,
\* running for one stop, or finished; and it has been called at most once,
\* whichever stops race for it.
HookInOnePlace ==
    /\ status \in [Hooks -> Statuses]
    /\ IsInjective(hooks)
    /\ ToSet(hooks) = {h \in Hooks : status[h] = "queued"}
    /\ UNION {ToSet(chain[p]) : p \in Threads} = {h \in Hooks : status[h] = "chained"}
    /\ \A p, q \in Threads :
          p # q => ToSet(chain[p]) \cap ToSet(chain[q]) = {}
    /\ \A h \in Hooks :
          starts[h] = IF status[h] \in {"running", "ended", "thrown"} THEN 1 ELSE 0

\* p is the only stop that was ever called.
Alone(p) == \A q \in Threads \ {p} : pc[q] = "idle"

\* Last in, first out: when a single stop calls a hook, every hook that was
\* added after it and before the stop has ended.
LaterHooksFirst ==
    \A p \in Threads : Alone(p) =>
       \A g, h \in inTime[p] :
          Order(g) > Order(h) /\ starts[h] > 0 => status[g] = "ended"

\* No hook of a component made with the actor system is still running, or will
\* be called, once the system is terminating, unless a wait has timed out.
SystemOutlivesUsers ==
    \A p \in Threads : Alone(p) /\ ~timedOut =>
       \A h \in inTime[p] :
          Order(h) > Order(SystemHook) /\ status[h] \in {"queued", "chained", "running"}
             => system = "up"

\* A single stop whose hooks do not throw is redeemed only when all of them
\* have executed.
LoneStopCompletesAfterAll ==
    \A p \in Threads :
       Alone(p) /\ StopCompleted(p) =>
          \/ \A h \in inTime[p] : status[h] = "ended"
          \/ \E h \in Throwing : status[h] = "thrown"

\* A hook whose future fails does not keep the other hooks from being called;
\* only one that throws, or one whose future stays open for ever, does.
EveryHookEnds ==
    \A p \in Threads, h \in Hooks :
       h \in inTime[p] ~>
          \/ status[h] = "ended" \/ \E x \in Hooks : status[x] = "thrown"
          \/ \E q \in Threads : [](current[q] \in Hanging)

\* Also when a hook throws or hangs, the shutdown comes to its end.
ShutdownEnds == \A p \in Threads : pc[p] = "polling" ~> pc[p] = "done"

==============================================================================
