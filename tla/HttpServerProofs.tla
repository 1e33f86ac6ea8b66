-------------------------- MODULE HttpServerProofs --------------------------
(***************************************************************************)
(* Proofs about HttpServer: the pid file is true, for any number of        *)
(* processes and faults and any order of starts, stops and kills.          *)
(***************************************************************************)
EXTENDS HttpServer, TLAPS

PidStates == {"new", "open", "write", "pidHook", "bindHttp", "bindHttps", "serverHook",
              "started", "thrown", "blocked"}

PidTypeOK ==
    /\ jvm \in [Processes -> {"new", "up", "exiting", "down"}]
    /\ main \in [Processes -> PidStates]
    /\ hooks \in [Processes -> SUBSET {"pid", "server"}]

\* Only a living process has hooks.
HooksAreOfLiving == \A p \in Processes : hooks[p] # {} => Alive(p)

\* An exit that comes before the hook is registered is recorded.
InterruptedIsUnclean ==
    \A p \in Processes :
       jvm[p] = "exiting" /\ main[p] \in {"open", "write", "pidHook"} => p \in unclean

\* What the pid file names is about to register its hook, or has, or is unclean.
NamedWillDelete ==
    \A p \in Processes :
       pidFile = p => \/ p \in unclean
                      \/ jvm[p] = "up" /\ main[p] = "pidHook"
                      \/ "pid" \in hooks[p]

\* A process that overlapped no other is the only one that lives.
LoneIsAlone ==
    \A p, x \in Processes : Alive(p) /\ Alive(x) /\ p # x => p \in overlapped

\* What a process that overlapped no other has made of the pid file stays.
LoneKeepsFile ==
    \A p \in Processes \ overlapped :
       jvm[p] = "up" =>
          /\ main[p] = "write" => pidFile = Empty /\ p \in streams
          /\ main[p] \in {"pidHook", "bindHttp", "bindHttps", "serverHook", "started"} => pidFile = p

IInv ==
    /\ PidTypeOK /\ HooksAreOfLiving /\ InterruptedIsUnclean
    /\ NamedWillDelete /\ LoneIsAlone /\ LoneKeepsFile

\* The variables the invariant is about.
pidVars == <<pidFile, streams, jvm, main, hooks, unclean, overlapped>>

------------------------------------------------------------------------------

LEMMA MarksAreNoProcesses ==
    None \notin Processes /\ Empty \notin Processes /\ Mixed \notin Processes
    BY HttpServerAssumption

LEMMA InitIInv == Init => IInv
<1> SUFFICES ASSUME Init PROVE IInv
    OBVIOUS
<1>1. PidTypeOK
    BY DEF Init, PidTypeOK, PidStates
<1>2. HooksAreOfLiving /\ InterruptedIsUnclean /\ LoneIsAlone /\ LoneKeepsFile
    BY DEF Init, Alive, HooksAreOfLiving, InterruptedIsUnclean, LoneIsAlone, LoneKeepsFile
<1>3. NamedWillDelete
    BY MarksAreNoProcesses DEF Init, NamedWillDelete
<1> QED
    BY <1>1, <1>2, <1>3 DEF IInv

\* A process is started.
LEMMA StartKeeps ==
    ASSUME IInv, NEW p \in Processes, Start(p)
    PROVE  IInv'
<1> USE DEF Start, Goto
<1>1. PidTypeOK'
    BY DEF IInv, PidTypeOK, PidStates
<1>2. HooksAreOfLiving'
    BY DEF IInv, PidTypeOK, HooksAreOfLiving, Alive
<1>3. InterruptedIsUnclean'
    BY DEF IInv, PidTypeOK, InterruptedIsUnclean
<1>4. NamedWillDelete'
    BY DEF IInv, PidTypeOK, NamedWillDelete
<1>5. \A x \in Processes \ {p} : Alive(x)' <=> Alive(x)
    BY DEF IInv, PidTypeOK, Alive
<1>6. ASSUME NEW x \in Processes, x # p, Alive(x)
      PROVE  x \in overlapped' /\ p \in overlapped'
    BY <1>6
<1>7. overlapped \subseteq overlapped'
    OBVIOUS
<1>8. LoneIsAlone'
    BY <1>5, <1>6, <1>7 DEF IInv, LoneIsAlone
<1>9. LoneKeepsFile'
    BY <1>7 DEF IInv, PidTypeOK, LoneKeepsFile
<1> QED
    BY <1>1, <1>2, <1>3, <1>4, <1>8, <1>9 DEF IInv

\* A process exits, from whatever it did; its stream may be closed.
LEMMA ExitKeeps ==
    ASSUME IInv, NEW p \in Processes, Alive(p), Exit(p),
           UNCHANGED main \/ Goto(p, "blocked"),
           streams' \in {streams, streams \ {p}},
           UNCHANGED <<pidFile, hooks, overlapped>>
    PROVE  IInv'
<1> USE DEF Exit, Goto, Alive
<1>1. PidTypeOK'
    BY DEF IInv, PidTypeOK, PidStates
<1>2. HooksAreOfLiving'
    BY DEF IInv, PidTypeOK, HooksAreOfLiving
<1>3. InterruptedIsUnclean'
    BY DEF IInv, PidTypeOK, InterruptedIsUnclean
<1>4. NamedWillDelete'
    BY DEF IInv, PidTypeOK, NamedWillDelete
<1>5. LoneIsAlone'
    BY DEF IInv, PidTypeOK, LoneIsAlone
<1>6. LoneKeepsFile'
    BY DEF IInv, PidTypeOK, LoneKeepsFile
<1> QED
    BY <1>1, <1>2, <1>3, <1>4, <1>5, <1>6 DEF IInv

\* A process ends; one that had not deleted its file was recorded.
LEMMA HaltKeeps ==
    ASSUME IInv, NEW p \in Processes, Alive(p), Halt(p),
           unclean \subseteq unclean',
           p \in unclean' \/ (jvm[p] = "exiting" /\ hooks[p] = {})
    PROVE  IInv'
<1> USE DEF Halt, Alive
<1>1. PidTypeOK'
    BY DEF IInv, PidTypeOK, PidStates
<1>2. HooksAreOfLiving'
    BY DEF IInv, PidTypeOK, HooksAreOfLiving
<1>3. InterruptedIsUnclean'
    BY DEF IInv, PidTypeOK, InterruptedIsUnclean
<1>4. NamedWillDelete'
    BY DEF IInv, PidTypeOK, NamedWillDelete
<1>5. LoneIsAlone'
    BY DEF IInv, PidTypeOK, LoneIsAlone
<1>6. LoneKeepsFile'
    BY DEF IInv, PidTypeOK, LoneKeepsFile, LoneIsAlone
<1> QED
    BY <1>1, <1>2, <1>3, <1>4, <1>5, <1>6 DEF IInv

\* The file is truncated, or written, by a process that goes on.
LEMMA FileKeeps ==
    ASSUME IInv, NEW p \in Processes, Alive(p),
           \/ /\ main[p] = "open" /\ OpenStream(p) /\ Goto(p, "write")
           \/ /\ main[p] = "write" /\ Goto(p, "pidHook")
              /\ streams' = streams \ {p}
              /\ IF p \in streams THEN pidFile' \in Contents(p) ELSE UNCHANGED pidFile,
           UNCHANGED <<jvm, hooks, unclean, overlapped>>
    PROVE  IInv'
<1> USE MarksAreNoProcesses DEF OpenStream, Goto, Alive, Contents
<1>1. PidTypeOK'
    BY DEF IInv, PidTypeOK, PidStates
<1>2. HooksAreOfLiving'
    BY DEF IInv, PidTypeOK, HooksAreOfLiving
<1>3. InterruptedIsUnclean'
    BY DEF IInv, PidTypeOK, InterruptedIsUnclean
<1>4. NamedWillDelete'
    BY DEF IInv, PidTypeOK, NamedWillDelete, InterruptedIsUnclean
<1>5. LoneIsAlone'
    BY DEF IInv, PidTypeOK, LoneIsAlone
<1>6. LoneKeepsFile'
    BY DEF IInv, PidTypeOK, LoneKeepsFile, LoneIsAlone
<1> QED
    BY <1>1, <1>2, <1>3, <1>4, <1>5, <1>6 DEF IInv

\* The main thread goes on behind the writing of the file, and may register a
\* hook: the one that deletes the file when it comes from there.
LEMMA MainKeeps ==
    ASSUME IInv, NEW p \in Processes, Alive(p),
           NEW pc \in {"bindHttp", "bindHttps", "serverHook", "started", "thrown"}, Goto(p, pc),
           \/ main[p] \in {"bindHttp", "bindHttps", "serverHook"} /\ UNCHANGED hooks
           \/ main[p] = "serverHook" /\ AddShutdownHook(p, "server")
           \/ main[p] = "pidHook" /\ AddShutdownHook(p, "pid"),
           UNCHANGED <<pidFile, streams, jvm, unclean, overlapped>>
    PROVE  IInv'
<1> USE DEF Goto, Alive, AddShutdownHook
<1>1. PidTypeOK'
    BY DEF IInv, PidTypeOK, PidStates
<1>2. HooksAreOfLiving'
    BY DEF IInv, PidTypeOK, HooksAreOfLiving
<1>3. InterruptedIsUnclean'
    BY DEF IInv, PidTypeOK, InterruptedIsUnclean
<1>4. NamedWillDelete'
    BY DEF IInv, PidTypeOK, NamedWillDelete
<1>5. LoneIsAlone'
    BY DEF IInv, LoneIsAlone
<1>6. LoneKeepsFile'
    BY DEF IInv, PidTypeOK, LoneKeepsFile
<1> QED
    BY <1>1, <1>2, <1>3, <1>4, <1>5, <1>6 DEF IInv

\* A hook has run: the one that deletes the file, or could not, or another.
LEMMA HookKeeps ==
    ASSUME IInv, NEW p \in Processes, jvm[p] = "exiting", NEW hook \in {"pid", "server"},
           hooks' = [hooks EXCEPT ![p] = @ \ {hook}],
           IF hook = "pid"
           THEN \/ pidFile' = None /\ streams' = {} /\ UNCHANGED unclean
                \/ UNCHANGED <<pidFile, streams>> /\ unclean' = unclean \cup {p}
           ELSE UNCHANGED <<pidFile, streams, unclean>>,
           UNCHANGED <<jvm, main, overlapped>>
    PROVE  IInv'
<1> USE MarksAreNoProcesses DEF Alive
<1>1. PidTypeOK'
    BY DEF IInv, PidTypeOK
<1>2. HooksAreOfLiving'
    BY DEF IInv, PidTypeOK, HooksAreOfLiving
<1>3. InterruptedIsUnclean'
    BY DEF IInv, InterruptedIsUnclean
<1>4. NamedWillDelete'
    BY DEF IInv, PidTypeOK, NamedWillDelete
<1>5. LoneIsAlone'
    BY DEF IInv, LoneIsAlone
<1>6. LoneKeepsFile'
    BY DEF IInv, PidTypeOK, LoneKeepsFile, LoneIsAlone
<1> QED
    BY <1>1, <1>2, <1>3, <1>4, <1>5, <1>6 DEF IInv

LEMMA UnchangedKeeps == IInv /\ UNCHANGED pidVars => IInv'
    BY DEF pidVars, IInv, PidTypeOK, HooksAreOfLiving, InterruptedIsUnclean, NamedWillDelete,
           LoneIsAlone, LoneKeepsFile, Alive

\* The steps of the main thread.
LEMMA MainIInv ==
    ASSUME IInv, NEW p \in Processes, Main(p)
    PROVE  IInv'
<1>1. CASE OpenPidFile(p)
    BY <1>1, FileKeeps, ExitKeeps DEF OpenPidFile
<1>2. CASE WritePidFile(p)
    BY <1>2, FileKeeps, ExitKeeps DEF WritePidFile
<1>3. CASE AddPidHook(p)
  <2>1. CASE jvm[p] = "up"
      BY <1>3, <2>1, MainKeeps DEF AddPidHook, history
  <2>2. CASE jvm[p] = "exiting"
      BY <1>3, <2>2, ExitKeeps DEF AddPidHook
  <2> QED
      BY <1>3, <2>1, <2>2 DEF AddPidHook
<1>4. CASE BindHttp(p)
    BY <1>4, MainKeeps DEF BindHttp, history
<1>5. CASE BindHttps(p)
    BY <1>5, MainKeeps, ExitKeeps DEF BindHttps
<1>6. CASE AddServerHook(p)
    BY <1>6, MainKeeps DEF AddServerHook, history
<1> QED
    BY <1>1, <1>2, <1>3, <1>4, <1>5, <1>6 DEF Main

\* Every step keeps the invariant.
LEMMA NextIInv == IInv /\ [Next]_vars => IInv'
<1> SUFFICES ASSUME IInv, [Next]_vars PROVE IInv'
    OBVIOUS
<1> USE DEF threads, history
<1>1. ASSUME NEW p \in Processes, Signal(p) PROVE IInv'
    BY <1>1, ExitKeeps DEF Signal, Alive
<1>2. ASSUME NEW p \in Processes, Kill(p) PROVE IInv'
    BY <1>2, HaltKeeps DEF Kill
<1>3. ASSUME NEW p \in Processes, Ended(p) PROVE IInv'
    BY <1>3, HaltKeeps DEF Ended, Alive
<1>4. ASSUME NEW p \in Processes, Failure(p) PROVE IInv'
  <2>1. ASSUME NEW q \in Ports, CloseAfterFailure(p, q) PROVE IInv'
      BY <2>1, UnchangedKeeps DEF CloseAfterFailure, pidVars
  <2>2. ASSUME NEW q \in Ports, ExitAfterFailure(p, q) PROVE IInv'
      BY <2>2, ExitKeeps DEF ExitAfterFailure
  <2> QED
      BY <1>4, <2>1, <2>2 DEF Failure
<1>5. ASSUME NEW p \in Processes, DeletePidFile(p) PROVE IInv'
    BY <1>5, HookKeeps DEF DeletePidFile
<1>6. ASSUME NEW p \in Processes, AwaitUnbound(p) PROVE IInv'
    BY <1>6, UnchangedKeeps DEF AwaitUnbound, pidVars
<1>7. ASSUME NEW p \in Processes, Close(p) PROVE IInv'
    BY <1>7, HookKeeps DEF Close
<1>8. ASSUME NEW p \in Processes, NEW q \in Ports, Bound(p, q) \/ Unbind(p, q) PROVE IInv'
    BY <1>8, UnchangedKeeps DEF Bound, Unbind, pidVars
<1>9. CASE AllEnded \/ UNCHANGED vars
    BY <1>9, UnchangedKeeps DEF AllEnded, vars, pidVars
<1> QED
    BY <1>1, <1>2, <1>3, <1>4, <1>5, <1>6, <1>7, <1>8, <1>9, StartKeeps, MainIInv DEF Next

\* A process that overlapped no other is named by the pid file while it runs,
\* and one that has ended is named only if it was killed, was stopped before it had
\* registered the hook that deletes the file, or its hook could not delete it.
THEOREM PidFileIsTrue == Spec => []PidFileTrue
<1>1. IInv => PidFileTrue
    BY DEF IInv, NamedWillDelete, HooksAreOfLiving, LoneKeepsFile, Alive,
           PidFileTrue, LoneServerNamed, NoStaleName
<1> QED
    BY InitIInv, NextIInv, <1>1, PTL DEF Spec

------------------------------------------------------------------------------
(* Applications are closed after their ports.                              *)

ServerTypeOK ==
    /\ main \in [Processes -> PidStates]
    /\ binding \in [Processes -> [Ports -> {"none", "pending", "bound", "failed", "unbound"}]]
    /\ callback \in [Processes -> [Ports -> {"none", "close", "exit", "done"}]]
    /\ hooks \in [Processes -> SUBSET {"pid", "server"}]
    /\ shutdown \in [Processes -> {"none", "unbind", "close", "done"}]
    /\ closed \in [Processes -> BOOLEAN]

\* The ports the main thread has not come to are not bound.
BoundInOrder(p) ==
    /\ main[p] \in {"new", "open", "write", "pidHook", "bindHttp"} =>
          \A q \in Ports : binding[p][q] = "none"
    /\ main[p] = "bindHttps" => Https /\ binding[p]["https"] = "none"

\* The hook that runs shutdown is registered by the last step of startServer.
HookIsLast(p) == ("server" \in hooks[p] \/ shutdown[p] # "none") => main[p] = "started"

FailureHasCause(p) == \A q \in Ports : callback[p][q] # "none" => binding[p][q] = "failed"

PortsClosed(p) == p \in timedOut \/ \A q \in Ports : binding[p][q] \in {"unbound", "failed"}

\* shutdown has waited before it closes.
WaitedBeforeClose(p) == shutdown[p] \in {"close", "done"} => PortsClosed(p)

ClosedForCause(p) ==
    closed[p] => PortsClosed(p) \/ \E q \in Ports : binding[p][q] = "failed"

ServerOK(p) ==
    /\ BoundInOrder(p) /\ HookIsLast(p) /\ FailureHasCause(p)
    /\ WaitedBeforeClose(p) /\ ClosedForCause(p)

ServerInv == ServerTypeOK /\ \A p \in Processes : ServerOK(p)

\* Of a process other than p nothing has changed.
OthersSame(p) ==
    \A x \in Processes \ {p} :
       /\ main'[x] = main[x] /\ binding'[x] = binding[x] /\ callback'[x] = callback[x]
       /\ hooks'[x] = hooks[x] /\ shutdown'[x] = shutdown[x] /\ closed'[x] = closed[x]
       /\ x \in timedOut' <=> x \in timedOut

\* It is enough to look at the process that makes the step.
LEMMA OneProcess ==
    ASSUME ServerInv, NEW p \in Processes, OthersSame(p), ServerTypeOK', ServerOK(p)'
    PROVE  ServerInv'
<1>1. ASSUME NEW x \in Processes, x # p PROVE ServerOK(x)'
    BY <1>1 DEF ServerInv, OthersSame, ServerOK, BoundInOrder, HookIsLast, FailureHasCause,
                PortsClosed, WaitedBeforeClose, ClosedForCause
<1> QED
    BY <1>1 DEF ServerInv

LEMMA ServerInit == Init => ServerInv
<1> SUFFICES ASSUME Init PROVE ServerInv
    OBVIOUS
<1>1. ServerTypeOK
    BY DEF Init, ServerTypeOK, PidStates
<1>2. ASSUME NEW p \in Processes PROVE ServerOK(p)
    BY DEF Init, ServerOK, BoundInOrder, HookIsLast, FailureHasCause, PortsClosed,
           WaitedBeforeClose, ClosedForCause
<1> QED
    BY <1>1, <1>2 DEF ServerInv

LEMMA PortNames == "http" \in Ports /\ (Https => "https" \in Ports)
    BY DEF Ports

\* A callback of one port goes on.
CallbackGoes(p, q, s) == callback' = [callback EXCEPT ![p][q] = s]

LEMMA CallbackTyped ==
    ASSUME ServerTypeOK, NEW p \in Processes, NEW q \in Ports,
           NEW s \in {"none", "close", "exit", "done"}, CallbackGoes(p, q, s)
    PROVE  /\ callback' \in [Processes -> [Ports -> {"none", "close", "exit", "done"}]]
           /\ \A x \in Processes \ {p} : callback'[x] = callback[x]
           /\ callback'[p][q] = s
           /\ \A y \in Ports \ {q} : callback'[p][y] = callback[p][y]
    BY DEF ServerTypeOK, CallbackGoes

\* An exit starts the shutdown of a server that has started, and changes
\* nothing else.
LEMMA ServerExit ==
    ASSUME ServerInv, NEW p \in Processes, Exit(p),
           UNCHANGED main \/ (main[p] \in {"open", "write", "pidHook", "bindHttps"} /\ Goto(p, "blocked")),
           UNCHANGED <<binding, hooks, closed, timedOut>>,
           UNCHANGED callback \/ \E q \in Ports : /\ callback[p][q] = "exit"
                                                  /\ callback' = [callback EXCEPT ![p][q] = "done"]
    PROVE  ServerInv'
<1> USE DEF Exit, Goto, ServerInv
<1>1. /\ callback' \in [Processes -> [Ports -> {"none", "close", "exit", "done"}]]
      /\ \A x \in Processes \ {p} : callback'[x] = callback[x]
      /\ \A y \in Ports : callback'[p][y] # "none" => callback[p][y] # "none"
  <2>1. CASE UNCHANGED callback
      BY <2>1 DEF ServerTypeOK
  <2>2. ASSUME NEW q \in Ports, callback[p][q] = "exit", callback' = [callback EXCEPT ![p][q] = "done"]
        PROVE  /\ callback' \in [Processes -> [Ports -> {"none", "close", "exit", "done"}]]
               /\ \A x \in Processes \ {p} : callback'[x] = callback[x]
               /\ \A y \in Ports : callback'[p][y] # "none" => callback[p][y] # "none"
    <3>1. ServerTypeOK /\ CallbackGoes(p, q, "done")
        BY <2>2 DEF CallbackGoes
    <3>2. /\ callback' \in [Processes -> [Ports -> {"none", "close", "exit", "done"}]]
          /\ \A x \in Processes \ {p} : callback'[x] = callback[x]
          /\ callback'[p][q] = "done"
          /\ \A y \in Ports \ {q} : callback'[p][y] = callback[p][y]
        BY <3>1, CallbackTyped
    <3> QED
        BY <3>2, <2>2
  <2> QED
      BY <2>1, <2>2
<1>2. ServerTypeOK'
    BY <1>1 DEF ServerTypeOK, PidStates
<1>3. OthersSame(p)
    BY <1>1 DEF ServerTypeOK, OthersSame
<1>4. BoundInOrder(p)'
    BY DEF ServerTypeOK, ServerOK, BoundInOrder
<1>5. HookIsLast(p)'
    BY DEF ServerTypeOK, ServerOK, HookIsLast
<1>6. FailureHasCause(p)'
    BY <1>1 DEF ServerTypeOK, ServerOK, FailureHasCause
<1>7. WaitedBeforeClose(p)' /\ ClosedForCause(p)'
    BY DEF ServerTypeOK, ServerOK, WaitedBeforeClose, ClosedForCause, PortsClosed
<1> QED
    BY <1>2, <1>3, <1>4, <1>5, <1>6, <1>7, OneProcess DEF ServerOK

LEMMA ServerHalt ==
    ASSUME ServerInv, NEW p \in Processes, Halt(p)
    PROVE  ServerInv'
<1> USE DEF Halt, ServerInv
<1>1. ServerTypeOK'
    BY DEF ServerTypeOK, PidStates
<1>2. OthersSame(p)
    BY DEF ServerTypeOK, OthersSame
<1>3. ServerOK(p)'
    BY DEF ServerTypeOK, ServerOK, BoundInOrder, HookIsLast, FailureHasCause, PortsClosed,
           WaitedBeforeClose, ClosedForCause
<1> QED
    BY <1>1, <1>2, <1>3, OneProcess

\* The main thread goes on to pc, without a binding or a shutdown hook.
LEMMA ServerGoes ==
    ASSUME ServerInv, NEW p \in Processes, NEW pc \in PidStates, Goto(p, pc),
           \/ main[p] \in {"new", "open", "write", "pidHook"} /\ pc \in {"open", "write", "pidHook", "bindHttp"}
           \/ main[p] = "serverHook" /\ pc = "thrown",
           UNCHANGED hooks \/ AddShutdownHook(p, "pid"),
           UNCHANGED <<binding, callback, shutdown, closed, timedOut>>
    PROVE  ServerInv'
<1> USE DEF ServerInv
<1>1. ServerTypeOK'
  <2>1. main' \in [Processes -> PidStates]
      BY DEF Goto, ServerTypeOK
  <2>2. hooks' \in [Processes -> SUBSET {"pid", "server"}]
    <3>1. CASE UNCHANGED hooks
        BY <3>1 DEF ServerTypeOK
    <3>2. CASE AddShutdownHook(p, "pid")
        BY <3>2 DEF AddShutdownHook, ServerTypeOK
    <3> QED
        BY <3>1, <3>2
  <2> QED
      BY <2>1, <2>2 DEF ServerTypeOK
<1> USE DEF Goto, AddShutdownHook
<1>2. OthersSame(p)
    BY DEF ServerTypeOK, OthersSame
<1>3. BoundInOrder(p)'
    BY DEF ServerTypeOK, ServerOK, BoundInOrder
<1>4. HookIsLast(p)'
    BY DEF ServerTypeOK, ServerOK, HookIsLast
<1>5. FailureHasCause(p)' /\ WaitedBeforeClose(p)' /\ ClosedForCause(p)'
    BY DEF ServerTypeOK, ServerOK, FailureHasCause, PortsClosed, WaitedBeforeClose, ClosedForCause
<1> QED
    BY <1>1, <1>2, <1>3, <1>4, <1>5, OneProcess DEF ServerOK

\* A binding changes as the code and Akka let it; other bindings stay.
LEMMA ServerBinds ==
    ASSUME ServerInv, NEW p \in Processes, NEW q \in Ports,
           NEW s \in {"pending", "bound", "failed", "unbound"},
           binding' = [binding EXCEPT ![p][q] = s],
           \/ /\ main[p] = "bindHttp" \/ (main[p] = "bindHttps" /\ q = "https")
              /\ s = "pending" /\ UNCHANGED callback
              /\ \/ main[p] = "bindHttp" /\ q = "http" /\ Https /\ Goto(p, "bindHttps")
                 \/ Goto(p, "serverHook")
           \/ /\ binding[p][q] = "pending" /\ s = "bound" /\ UNCHANGED <<main, callback>>
           \/ /\ binding[p][q] = "pending" /\ s = "failed" /\ UNCHANGED main
              /\ callback' = [callback EXCEPT ![p][q] = "close"]
           \/ /\ binding[p][q] = "bound" /\ s = "unbound" /\ UNCHANGED <<main, callback>>,
           UNCHANGED <<hooks, shutdown, closed, timedOut>>
    PROVE  ServerInv'
<1> USE DEF Goto, ServerInv
<1>1. binding' \in [Processes -> [Ports -> {"none", "pending", "bound", "failed", "unbound"}]]
    BY DEF ServerTypeOK
<1>2. /\ callback' \in [Processes -> [Ports -> {"none", "close", "exit", "done"}]]
      /\ \A x \in Processes \ {p} : callback'[x] = callback[x]
      /\ \A y \in Ports \ {q} : callback'[p][y] = callback[p][y]
  <2>1. CASE UNCHANGED callback
      BY <2>1 DEF ServerTypeOK
  <2>2. CASE callback' = [callback EXCEPT ![p][q] = "close"]
    <3>1. ServerTypeOK /\ CallbackGoes(p, q, "close")
        BY <2>2 DEF CallbackGoes
    <3> QED
        BY <3>1, CallbackTyped
  <2> QED
      BY <2>1, <2>2
<1>3. main' \in [Processes -> PidStates]
    BY DEF ServerTypeOK, PidStates
<1>4. ServerTypeOK'
    BY <1>1, <1>2, <1>3 DEF ServerTypeOK
<1>5. OthersSame(p)
    BY <1>2 DEF ServerTypeOK, OthersSame
<1>6. binding'[p][q] = s /\ \A x \in Ports \ {q} : binding'[p][x] = binding[p][x]
    BY DEF ServerTypeOK
<1>7. BoundInOrder(p)'
  <2>1. main'[p] = main[p] \/ main'[p] \in {"bindHttps", "serverHook"}
      BY DEF ServerTypeOK
  <2>2. CASE s = "pending"
      BY <1>6, <2>1, <2>2, PortNames DEF ServerTypeOK, ServerOK, BoundInOrder
  <2>3. CASE s # "pending"
      BY <1>6, <2>3 DEF ServerTypeOK, ServerOK, BoundInOrder
  <2> QED
      BY <2>2, <2>3
<1>8. HookIsLast(p)'
    BY DEF ServerTypeOK, ServerOK, HookIsLast
<1>9. binding[p][q] \in {"none", "pending", "bound"}
    BY DEF ServerOK, BoundInOrder
<1>10. FailureHasCause(p)'
  <2>1. callback[p][q] = "none"
      BY <1>9 DEF ServerOK, FailureHasCause, ServerTypeOK
  <2>2. s = "failed" \/ callback'[p][q] = "none"
      BY <2>1
  <2>3. ASSUME NEW y \in Ports \ {q}, callback'[p][y] # "none" PROVE binding'[p][y] = "failed"
      BY <2>3, <1>2, <1>6 DEF ServerOK, FailureHasCause
  <2> QED
      BY <2>2, <2>3, <1>6 DEF FailureHasCause
<1>11. PortsClosed(p) => PortsClosed(p)'
    BY <1>6, <1>9 DEF PortsClosed
<1>12. WaitedBeforeClose(p)'
    BY <1>11 DEF ServerOK, WaitedBeforeClose
<1>13. ClosedForCause(p)'
    BY <1>6, <1>9, <1>11 DEF ServerOK, ClosedForCause
<1> QED
    BY <1>4, <1>5, <1>7, <1>8, <1>10, <1>12, <1>13, OneProcess DEF ServerOK

\* The last step of startServer, when the JVM takes the hook.
LEMMA ServerHooked ==
    ASSUME ServerInv, NEW p \in Processes, Goto(p, "started"), AddShutdownHook(p, "server"),
           UNCHANGED <<binding, callback, shutdown, closed, timedOut>>
    PROVE  ServerInv'
<1> USE DEF Goto, AddShutdownHook, ServerInv
<1>1. ServerTypeOK'
    BY DEF ServerTypeOK, PidStates
<1>2. OthersSame(p)
    BY DEF ServerTypeOK, OthersSame
<1>3. BoundInOrder(p)' /\ HookIsLast(p)'
    BY DEF ServerTypeOK, BoundInOrder, HookIsLast
<1>4. FailureHasCause(p)' /\ WaitedBeforeClose(p)' /\ ClosedForCause(p)'
    BY DEF ServerTypeOK, ServerOK, FailureHasCause, PortsClosed, WaitedBeforeClose, ClosedForCause
<1> QED
    BY <1>1, <1>2, <1>3, <1>4, OneProcess DEF ServerOK

\* The callback of a failed binding closes the application.
LEMMA ServerCloseAfterFailure ==
    ASSUME ServerInv, NEW p \in Processes, NEW q \in Ports, CloseAfterFailure(p, q)
    PROVE  ServerInv'
<1> USE DEF CloseAfterFailure, ServerInv
<1>1. ServerTypeOK /\ CallbackGoes(p, q, "exit")
    BY DEF CallbackGoes
<1>2. /\ callback' \in [Processes -> [Ports -> {"none", "close", "exit", "done"}]]
      /\ \A x \in Processes \ {p} : callback'[x] = callback[x]
      /\ \A y \in Ports \ {q} : callback'[p][y] = callback[p][y]
    BY <1>1, CallbackTyped
<1>3. ServerTypeOK'
    BY <1>2 DEF ServerTypeOK
<1>4. OthersSame(p)
    BY <1>2 DEF ServerTypeOK, OthersSame
<1>5. binding[p][q] = "failed"
    BY DEF ServerOK, FailureHasCause
<1>6. FailureHasCause(p)'
    BY <1>2, <1>5 DEF ServerOK, FailureHasCause
<1>7. BoundInOrder(p)' /\ HookIsLast(p)' /\ WaitedBeforeClose(p)'
    BY DEF ServerOK, BoundInOrder, HookIsLast, PortsClosed, WaitedBeforeClose
<1>8. ClosedForCause(p)'
    BY <1>5 DEF ClosedForCause
<1> QED
    BY <1>3, <1>4, <1>6, <1>7, <1>8, OneProcess DEF ServerOK

\* The hook waits for the ports, or gives up.
LEMMA ServerAwait ==
    ASSUME ServerInv, NEW p \in Processes, AwaitUnbound(p)
    PROVE  ServerInv'
<1> USE DEF AwaitUnbound, Awaited, threads, ServerInv
<1>1. ServerTypeOK'
    BY DEF ServerTypeOK
<1>2. OthersSame(p)
    BY DEF ServerTypeOK, OthersSame
<1>3. PortsClosed(p)'
    BY DEF PortsClosed
<1>4. BoundInOrder(p)' /\ FailureHasCause(p)'
    BY DEF ServerOK, BoundInOrder, FailureHasCause
<1>5. HookIsLast(p)'
    BY DEF ServerTypeOK, ServerOK, HookIsLast
<1>6. WaitedBeforeClose(p)' /\ ClosedForCause(p)'
    BY <1>3 DEF WaitedBeforeClose, ClosedForCause
<1> QED
    BY <1>1, <1>2, <1>4, <1>5, <1>6, OneProcess DEF ServerOK

\* The hook closes the application.
LEMMA ServerClose ==
    ASSUME ServerInv, NEW p \in Processes, Close(p)
    PROVE  ServerInv'
<1> USE DEF Close, threads, ServerInv
<1>1. ServerTypeOK'
    BY DEF ServerTypeOK
<1>2. OthersSame(p)
    BY DEF ServerTypeOK, OthersSame
<1>3. PortsClosed(p)'
    BY DEF ServerOK, WaitedBeforeClose, PortsClosed
<1>4. BoundInOrder(p)' /\ FailureHasCause(p)'
    BY DEF ServerOK, BoundInOrder, FailureHasCause
<1>5. HookIsLast(p)'
    BY DEF ServerTypeOK, ServerOK, HookIsLast
<1>6. WaitedBeforeClose(p)' /\ ClosedForCause(p)'
    BY <1>3 DEF WaitedBeforeClose, ClosedForCause
<1> QED
    BY <1>1, <1>2, <1>4, <1>5, <1>6, OneProcess DEF ServerOK

\* The hook that deletes the pid file has run.
LEMMA ServerDelete ==
    ASSUME ServerInv, NEW p \in Processes, DeletePidFile(p)
    PROVE  ServerInv'
<1> USE DEF DeletePidFile, threads, ServerInv
<1>1. ServerTypeOK'
    BY DEF ServerTypeOK
<1>2. OthersSame(p)
    BY DEF ServerTypeOK, OthersSame
<1>3. HookIsLast(p)'
    BY DEF ServerTypeOK, ServerOK, HookIsLast
<1>4. BoundInOrder(p)' /\ FailureHasCause(p)' /\ WaitedBeforeClose(p)' /\ ClosedForCause(p)'
    BY DEF ServerOK, BoundInOrder, FailureHasCause, PortsClosed, WaitedBeforeClose, ClosedForCause
<1> QED
    BY <1>1, <1>2, <1>3, <1>4, OneProcess DEF ServerOK

\* The steps of the main thread.
LEMMA ServerMain ==
    ASSUME ServerInv, NEW p \in Processes, Main(p)
    PROVE  ServerInv'
<1>1. CASE OpenPidFile(p)
    BY <1>1, ServerGoes, ServerExit DEF OpenPidFile, PidStates
<1>2. CASE WritePidFile(p)
    BY <1>2, ServerGoes, ServerExit DEF WritePidFile, PidStates
<1>3. CASE AddPidHook(p)
    BY <1>3, ServerGoes, ServerExit DEF AddPidHook, PidStates
<1>4. CASE BindHttp(p)
    BY <1>4, ServerBinds, PortNames DEF BindHttp, Bind
<1>5. CASE BindHttps(p)
  <2>1. "https" \in Ports
      BY <1>5, PortNames DEF BindHttps, ServerInv, ServerOK, BoundInOrder
  <2> QED
      BY <1>5, <2>1, ServerBinds, ServerExit DEF BindHttps, Bind
<1>6. CASE AddServerHook(p)
    BY <1>6, ServerGoes, ServerHooked DEF AddServerHook, PidStates
<1> QED
    BY <1>1, <1>2, <1>3, <1>4, <1>5, <1>6 DEF Main

\* A process that was not started yet has no main thread.
NewIsIdle == \A p \in Processes : jvm[p] = "new" => main[p] = "new"

LEMMA NewStaysIdle == IInv /\ NewIsIdle /\ [Next]_vars => NewIsIdle'
<1> SUFFICES ASSUME IInv, NewIsIdle, [Next]_vars PROVE NewIsIdle'
    OBVIOUS
<1> USE DEF IInv, PidTypeOK, NewIsIdle, Goto, Exit, Halt, Alive, threads
<1>1. ASSUME NEW p \in Processes, Start(p) \/ Signal(p) PROVE NewIsIdle'
    BY <1>1 DEF Start, Signal
<1>2. ASSUME NEW p \in Processes, Kill(p) \/ Ended(p) PROVE NewIsIdle'
    BY <1>2 DEF Kill, Ended
<1>3. ASSUME NEW p \in Processes, Main(p) PROVE NewIsIdle'
    BY <1>3 DEF Main, OpenPidFile, WritePidFile, AddPidHook, BindHttp, BindHttps, AddServerHook
<1>4. ASSUME NEW p \in Processes, Failure(p) PROVE NewIsIdle'
    BY <1>4 DEF Failure, CloseAfterFailure, ExitAfterFailure
<1>5. ASSUME NEW p \in Processes, DeletePidFile(p) \/ AwaitUnbound(p) \/ Close(p) PROVE NewIsIdle'
    BY <1>5 DEF DeletePidFile, AwaitUnbound, Close
<1>6. ASSUME NEW p \in Processes, NEW q \in Ports, Bound(p, q) \/ Unbind(p, q) PROVE NewIsIdle'
    BY <1>6 DEF Bound, Unbind
<1>7. CASE AllEnded \/ UNCHANGED vars
    BY <1>7 DEF AllEnded, vars
<1> QED
    BY <1>1, <1>2, <1>3, <1>4, <1>5, <1>6, <1>7 DEF Next

\* Every step keeps the invariant.
LEMMA ServerNext == NewIsIdle /\ ServerInv /\ [Next]_vars => ServerInv'
<1> SUFFICES ASSUME NewIsIdle, ServerInv, [Next]_vars PROVE ServerInv'
    OBVIOUS
<1>1. ASSUME NEW p \in Processes, Start(p) PROVE ServerInv'
    BY <1>1, ServerGoes DEF Start, NewIsIdle, PidStates
<1>2. ASSUME NEW p \in Processes, Signal(p) PROVE ServerInv'
    BY <1>2, ServerExit DEF Signal, threads
<1>3. ASSUME NEW p \in Processes, Kill(p) \/ Ended(p) PROVE ServerInv'
    BY <1>3, ServerHalt DEF Kill, Ended
<1>4. ASSUME NEW p \in Processes, Failure(p) PROVE ServerInv'
  <2>1. ASSUME NEW q \in Ports, ExitAfterFailure(p, q) PROVE ServerInv'
      BY <2>1, ServerExit DEF ExitAfterFailure
  <2> QED
      BY <1>4, <2>1, ServerCloseAfterFailure DEF Failure
<1>5. ASSUME NEW p \in Processes, NEW q \in Ports, Bound(p, q) PROVE ServerInv'
    BY <1>5, ServerBinds DEF Bound
<1>6. ASSUME NEW p \in Processes, NEW q \in Ports, Unbind(p, q) PROVE ServerInv'
    BY <1>6, ServerBinds DEF Unbind
<1>7. CASE AllEnded \/ UNCHANGED vars
    BY <1>7 DEF AllEnded, vars, threads, ServerInv, ServerTypeOK, ServerOK, BoundInOrder, HookIsLast,
                FailureHasCause, PortsClosed, WaitedBeforeClose, ClosedForCause
<1> QED
    BY <1>1, <1>2, <1>3, <1>4, <1>5, <1>6, <1>7, ServerMain, ServerDelete, ServerAwait, ServerClose
    DEF Next

\* No port hands requests to an application that was closed, unless a wait for
\* the unbinding timed out or the other port could not be bound.
THEOREM ClosedAfterPorts == Spec => []OpenWhileServing
<1>1. Init => NewIsIdle
    BY DEF Init, NewIsIdle
<1>2. ServerInv => OpenWhileServing
    BY DEF ServerInv, ServerOK, ClosedForCause, PortsClosed, OpenWhileServing, Accepting
<1> QED
    BY InitIInv, NextIInv, <1>1, NewStaysIdle, ServerInit, ServerNext, <1>2, PTL DEF Spec

=============================================================================
