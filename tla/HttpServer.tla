----------------------------- MODULE HttpServer -----------------------------
(***************************************************************************)
(* Processes that run HSAkkaHttpServer.startServer on one host with one    *)
(* configuration: the same pid file and the same ports.  The main thread   *)
(* starts the server, the dispatcher runs the callbacks of the bindings,   *)
(* and when the JVM exits - on a signal, or because a thread called        *)
(* System.exit - it runs the registered shutdown hooks side by side while  *)
(* the other threads go on until it halts.                                 *)
(***************************************************************************)
EXTENDS Integers, FiniteSets

CONSTANTS
    MaxProcesses, \* bound: starts of a server
    Https,      \* server.https-port is configured
    None,       \* there is no pid file
    Empty,      \* the content of a truncated pid file
    Mixed,      \* the content two writers may leave
    MaxFaults   \* bound: file and key store errors, failed deletions, ports others hold

\* Processes have the numbers of the order in which they are started.
Processes == 1 .. MaxProcesses

ASSUME HttpServerAssumption ==
    /\ MaxProcesses \in Nat
    /\ Https \in BOOLEAN
    /\ {None, Empty, Mixed} \cap Processes = {}
    /\ Cardinality({None, Empty, Mixed}) = 3
    /\ MaxFaults \in Nat

VARIABLES
    pidFile,    \* content of the file at pidfile.path
    streams,    \* processes whose output stream is on that file
    jvm,        \* of every process: new, up, exiting, down
    main,       \* where its main thread is in startServer
    binding,    \* its binding of every port
    callback,   \* afterHttpBindingFailure of every port
    hooks,      \* the shutdown hooks it registered
    shutdown,   \* where its hook is in HSAkkaHttpServer.shutdown
    closed,     \* close() was called
    timedOut,   \* history: living processes whose shutdown gave up a wait
    unclean,    \* history: processes killed, stopped before they had registered the hook
                \* that deletes the file, or whose hook could not delete it
    overlapped, \* history: living processes that lived at the same time as another
    faults      \* bound: errors so far

threads == <<main, binding, callback>>
history == <<unclean, overlapped>>
vars == <<pidFile, streams, jvm, threads, hooks, shutdown, closed, timedOut, history, faults>>

Ports == IF Https THEN {"http", "https"} ELSE {"http"}

Init ==
    /\ pidFile = None
    /\ streams = {}
    /\ jvm = [p \in Processes |-> "new"]
    /\ main = [p \in Processes |-> "new"]
    /\ binding = [p \in Processes |-> [q \in Ports |-> "none"]]
    /\ callback = [p \in Processes |-> [q \in Ports |-> "none"]]
    /\ hooks = [p \in Processes |-> {}]
    /\ shutdown = [p \in Processes |-> "none"]
    /\ closed = [p \in Processes |-> FALSE]
    /\ timedOut = {}
    /\ unclean = {}
    /\ overlapped = {}
    /\ faults = 0

Alive(p) == jvm[p] \in {"up", "exiting"}

Accepting(p, q) == Alive(p) /\ binding[p][q] = "bound"

Goto(p, pc) == main' = [main EXCEPT ![p] = pc]

Fault == faults < MaxFaults /\ faults' = faults + 1

------------------------------------------------------------------------------
(* The JVM.                                                                *)

\* System.exit, and what a signal does: the first call starts the hooks that
\* are registered, a later one only blocks its thread.
Exit(p) ==
    /\ jvm' = [jvm EXCEPT ![p] = "exiting"]
    /\ shutdown' = [shutdown EXCEPT ![p] =
                      IF jvm[p] = "up" /\ "server" \in hooks[p] THEN "unbind" ELSE @]
    /\ unclean' = IF jvm[p] = "up" /\ main[p] \in {"open", "write", "pidHook"}
                  THEN unclean \cup {p} ELSE unclean

\* A process is started while others may run.
Start(p) ==
    /\ jvm[p] = "new" /\ \A x \in 1 .. p - 1 : jvm[x] # "new"
    /\ jvm' = [jvm EXCEPT ![p] = "up"]
    /\ Goto(p, "open")
    /\ overlapped' = LET others == {x \in Processes : Alive(x)}
                     IN IF others = {} THEN overlapped ELSE overlapped \cup others \cup {p}
    /\ UNCHANGED <<pidFile, streams, binding, callback, hooks, shutdown, closed, timedOut,
                   unclean, faults>>

Signal(p) ==
    /\ jvm[p] = "up"
    /\ Exit(p)
    /\ UNCHANGED <<pidFile, streams, threads, hooks, closed, timedOut, overlapped, faults>>

\* The process halts: its ports are free, and what it kept in memory is gone.
Halt(p) ==
    /\ jvm' = [jvm EXCEPT ![p] = "down"]
    /\ main' = [main EXCEPT ![p] = "new"]
    /\ binding' = [binding EXCEPT ![p] = [q \in Ports |-> "none"]]
    /\ callback' = [callback EXCEPT ![p] = [q \in Ports |-> "none"]]
    /\ hooks' = [hooks EXCEPT ![p] = {}]
    /\ shutdown' = [shutdown EXCEPT ![p] = "none"]
    /\ closed' = [closed EXCEPT ![p] = FALSE]
    /\ streams' = streams \ {p}
    /\ timedOut' = timedOut \ {p}
    /\ overlapped' = overlapped \ {p}
    /\ UNCHANGED <<pidFile, faults>>

\* All hooks have run: a hook leaves `hooks' when it is done.
Ended(p) ==
    /\ jvm[p] = "exiting"
    /\ hooks[p] = {}
    /\ Halt(p)
    /\ UNCHANGED unclean

Kill(p) ==
    /\ Alive(p)
    /\ Halt(p)
    /\ unclean' = unclean \cup {p}

\* Runtime.addShutdownHook, which throws once the JVM is exiting.
AddShutdownHook(p, hook) == hooks' = [hooks EXCEPT ![p] = @ \cup {hook}]

------------------------------------------------------------------------------
(* The pid file.                                                           *)

\* Mutant: an existing file keeps its content until it is overwritten.
OpenInPlace(p) ==
    /\ pidFile' = IF pidFile = None THEN Empty ELSE pidFile
    /\ streams' = streams \cup {p}

\* newOutputStream with CREATE and TRUNCATE_EXISTING.
OpenStream(p) ==
    /\ pidFile' = Empty
    /\ streams' = streams \cup {p}

\* PidFile.create to the open stream.  Its checks or the open may fail, which
\* writePidfile turns into System.exit.
OpenPidFile(p) ==
    /\ main[p] = "open" /\ Alive(p)
    /\ \/ OpenStream(p) /\ Goto(p, "write") /\ UNCHANGED <<jvm, shutdown, unclean, faults>>
       \/ Fault /\ Exit(p) /\ Goto(p, "blocked") /\ UNCHANGED <<pidFile, streams>>
    /\ UNCHANGED <<binding, callback, hooks, closed, timedOut, overlapped>>

\* What the file can hold after p wrote at its beginning: the rest of a longer
\* number another process wrote may follow.
Contents(p) == IF pidFile = Empty THEN {p} ELSE {p, Mixed}

\* stream.write and close.  The write goes to the file that was opened, also
\* when the path names another one by now, or none.
WritePidFile(p) ==
    /\ main[p] = "write" /\ Alive(p)
    /\ streams' = streams \ {p}
    /\ \/ /\ IF p \in streams THEN pidFile' \in Contents(p) ELSE UNCHANGED pidFile
          /\ Goto(p, "pidHook")
          /\ UNCHANGED <<jvm, shutdown, unclean, faults>>
       \/ Fault /\ Exit(p) /\ Goto(p, "blocked") /\ UNCHANGED pidFile
    /\ UNCHANGED <<binding, callback, hooks, closed, timedOut, overlapped>>

\* deleteOnExit: the hook is registered, or the exception ends in System.exit.
AddPidHook(p) ==
    /\ main[p] = "pidHook" /\ Alive(p)
    /\ \/ /\ jvm[p] = "up"
          /\ AddShutdownHook(p, "pid") /\ Goto(p, "bindHttp")
          /\ UNCHANGED <<jvm, shutdown, unclean>>
       \/ /\ jvm[p] = "exiting"
          /\ Exit(p) /\ Goto(p, "blocked")
          /\ UNCHANGED hooks
    /\ UNCHANGED <<pidFile, streams, binding, callback, closed, timedOut, overlapped, faults>>

\* The hook: Files.deleteIfExists.  Whose file it is, it does not ask.  When it
\* throws an IOException, which ends the thread of the hook, the file stays.
DeletePidFile(p) ==
    /\ jvm[p] = "exiting" /\ "pid" \in hooks[p]
    /\ hooks' = [hooks EXCEPT ![p] = @ \ {"pid"}]
    /\ \/ pidFile' = None /\ streams' = {} /\ UNCHANGED <<unclean, faults>>
       \/ Fault /\ unclean' = unclean \cup {p} /\ UNCHANGED <<pidFile, streams>>
    /\ UNCHANGED <<jvm, threads, shutdown, closed, timedOut, overlapped>>

------------------------------------------------------------------------------
(* startServer after writePidfile.                                         *)

Bind(p, q) == binding' = [binding EXCEPT ![p][q] = "pending"]

BindHttp(p) ==
    /\ main[p] = "bindHttp" /\ Alive(p)
    /\ Bind(p, "http")
    /\ Goto(p, IF Https THEN "bindHttps" ELSE "serverHook")
    /\ UNCHANGED <<pidFile, streams, jvm, callback, hooks, shutdown, closed, timedOut,
                   history, faults>>

\* generateHttps calls System.exit when it cannot read the key store.
BindHttps(p) ==
    /\ main[p] = "bindHttps" /\ Alive(p)
    /\ \/ /\ Bind(p, "https") /\ Goto(p, "serverHook")
          /\ UNCHANGED <<jvm, shutdown, unclean, faults>>
       \/ Fault /\ Exit(p) /\ Goto(p, "blocked") /\ UNCHANGED binding
    /\ UNCHANGED <<pidFile, streams, callback, hooks, closed, timedOut, overlapped>>

\* addShutdownHook throws out of startServer when the JVM is exiting.
AddServerHook(p) ==
    /\ main[p] = "serverHook" /\ Alive(p)
    /\ IF jvm[p] = "up"
       THEN AddShutdownHook(p, "server") /\ Goto(p, "started")
       ELSE Goto(p, "thrown") /\ UNCHANGED hooks
    /\ UNCHANGED <<pidFile, streams, jvm, binding, callback, shutdown, closed, timedOut,
                   history, faults>>

\* Akka answers: the port is bound, or another process has it.
Bound(p, q) ==
    /\ Alive(p) /\ binding[p][q] = "pending"
    /\ \/ /\ \A x \in Processes : ~Accepting(x, q)
          /\ binding' = [binding EXCEPT ![p][q] = "bound"]
          /\ UNCHANGED <<callback, faults>>
       \/ /\ \/ \E x \in Processes : Accepting(x, q) /\ UNCHANGED faults
             \/ Fault
          /\ binding' = [binding EXCEPT ![p][q] = "failed"]
          /\ callback' = [callback EXCEPT ![p][q] = "close"]
    /\ UNCHANGED <<pidFile, streams, jvm, main, hooks, shutdown, closed, timedOut, history>>

\* afterHttpBindingFailure, for both ports: close() ...
CloseAfterFailure(p, q) ==
    /\ Alive(p) /\ callback[p][q] = "close"
    /\ closed' = [closed EXCEPT ![p] = TRUE]
    /\ callback' = [callback EXCEPT ![p][q] = "exit"]
    /\ UNCHANGED <<pidFile, streams, jvm, main, binding, hooks, shutdown, timedOut, history, faults>>

\* Mutant: the failure is logged and the application closed.
StayAfterFailure(p, q) ==
    /\ Alive(p) /\ callback[p][q] = "exit"
    /\ callback' = [callback EXCEPT ![p][q] = "done"]
    /\ UNCHANGED <<pidFile, streams, jvm, main, binding, hooks, shutdown, closed, timedOut,
                   history, faults>>

\* ... and System.exit.
ExitAfterFailure(p, q) ==
    /\ Alive(p) /\ callback[p][q] = "exit"
    /\ Exit(p)
    /\ callback' = [callback EXCEPT ![p][q] = "done"]
    /\ UNCHANGED <<pidFile, streams, main, binding, hooks, closed, timedOut, overlapped, faults>>

------------------------------------------------------------------------------
(* The hook that runs shutdown.                                            *)

\* A binding that succeeded is asked to unbind, and does, or does not answer.
Unbind(p, q) ==
    /\ Alive(p) /\ shutdown[p] # "none"
    /\ binding[p][q] = "bound"
    /\ binding' = [binding EXCEPT ![p][q] = "unbound"]
    /\ UNCHANGED <<pidFile, streams, jvm, main, callback, hooks, shutdown, closed, timedOut,
                   history, faults>>

\* Mutant: only the first future is waited for.
AwaitedHttp == {"http"}

\* The futures shutdown waits for.
Awaited == Ports

\* Await.result of both futures ends with the unbinding, with the exception
\* of a binding that failed, or with a timeout after 60 seconds.
AwaitUnbound(p) ==
    /\ jvm[p] = "exiting" /\ shutdown[p] = "unbind"
    /\ IF \A q \in Awaited : binding[p][q] \in {"unbound", "failed"}
       THEN UNCHANGED timedOut
       ELSE timedOut' = timedOut \cup {p}
    /\ shutdown' = [shutdown EXCEPT ![p] = "close"]
    /\ UNCHANGED <<pidFile, streams, jvm, threads, hooks, closed, history, faults>>

Close(p) ==
    /\ jvm[p] = "exiting" /\ shutdown[p] = "close"
    /\ closed' = [closed EXCEPT ![p] = TRUE]
    /\ shutdown' = [shutdown EXCEPT ![p] = "done"]
    /\ hooks' = [hooks EXCEPT ![p] = @ \ {"server"}]
    /\ UNCHANGED <<pidFile, streams, jvm, threads, timedOut, history, faults>>

------------------------------------------------------------------------------

Main(p) ==
    \/ OpenPidFile(p) \/ WritePidFile(p) \/ AddPidHook(p)
    \/ BindHttp(p) \/ BindHttps(p) \/ AddServerHook(p)

Failure(p) == \E q \in Ports : CloseAfterFailure(p, q) \/ ExitAfterFailure(p, q)

\* Every process was started and has ended.
AllEnded == (\A p \in Processes : jvm[p] = "down") /\ UNCHANGED vars

Next ==
    \/ \E p \in Processes :
          \/ Start(p) \/ Signal(p) \/ Kill(p) \/ Ended(p)
          \/ Main(p) \/ Failure(p)
          \/ DeletePidFile(p) \/ AwaitUnbound(p) \/ Close(p)
          \/ \E q \in Ports : Bound(p, q) \/ Unbind(p, q)
    \/ AllEnded

Spec == Init /\ [][Next]_vars

\* The threads of a process that lives are scheduled, its hooks too, and the
\* waits of the hook time out.  Akka may never answer.
Fairness ==
    \A p \in Processes :
       /\ WF_vars(Main(p))
       /\ WF_vars(Failure(p))
       /\ WF_vars(DeletePidFile(p))
       /\ WF_vars(AwaitUnbound(p))
       /\ WF_vars(Close(p))
       /\ WF_vars(Ended(p))

FairSpec == Spec /\ Fairness
------------------------------------------------------------------------------
(* Properties.                                                             *)

\* A server that has started, and never ran beside another process of this
\* configuration, is named by the pid file until it is stopped - also when an
\* earlier process left its file behind.  (PidFile.create)
LoneServerNamed ==
    \A p \in Processes \ overlapped :
       jvm[p] = "up" /\ main[p] = "started" => pidFile = p

\* A process that has ended is named by the pid file only if it was killed; or it
\* was stopped before it had registered the hook that deletes the file, be it
\* before the writing (its main thread goes on and writes) or after it; or its
\* hook could not delete the file ("with best effort").  However many others
\* started, failed to bind or ended meanwhile.  (PidFile.create, addShutdownHook)
NoStaleName ==
    \A p \in Processes : pidFile = p /\ jvm[p] = "down" => p \in unclean

PidFileTrue == LoneServerNamed /\ NoStaleName

\* No port hands requests to an application that was closed, unless a wait for
\* the unbinding timed out or the other port could not be bound: shutdown
\* closes last, afterHttpBindingFailure closes without unbinding.
OpenWhileServing ==
    \A p \in Processes, q \in Ports :
       Accepting(p, q) /\ closed[p] =>
          \/ p \in timedOut
          \/ \E x \in Ports : binding[p][x] = "failed"

\* A server that is stopped, or one of whose bindings failed, comes to its end:
\* hooks, callbacks and System.exit do not wait for each other for ever.
EveryStopEnds ==
    \A p \in Processes :
       (jvm[p] = "exiting" \/ \E q \in Ports : Alive(p) /\ binding[p][q] = "failed")
          ~> jvm[p] = "down"

TypeOK ==
    /\ pidFile \in Processes \cup {None, Empty, Mixed}
    /\ streams \subseteq Processes
    /\ jvm \in [Processes -> {"new", "up", "exiting", "down"}]
    /\ main \in [Processes -> {"new", "open", "write", "pidHook", "bindHttp", "bindHttps",
                               "serverHook", "started", "thrown", "blocked"}]
    /\ binding \in [Processes -> [Ports -> {"none", "pending", "bound", "failed", "unbound"}]]
    /\ callback \in [Processes -> [Ports -> {"none", "close", "exit", "done"}]]
    /\ hooks \in [Processes -> SUBSET {"pid", "server"}]
    /\ shutdown \in [Processes -> {"none", "unbind", "close", "done"}]
    /\ closed \in [Processes -> BOOLEAN]
    /\ timedOut \cup unclean \cup overlapped \subseteq Processes
    /\ faults \in 0 .. MaxFaults

==============================================================================
