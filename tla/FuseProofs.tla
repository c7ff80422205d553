----------------------------- MODULE FuseProofs -----------------------------
(***************************************************************************)
(* Safety of the FUSE mounts of a session.  Of the session itself: for any *)
(* commands and policy states, and wherever the daemon, a worker, a setup  *)
(* or a stop request fails or is late, mounts, workers, contexts and       *)
(* directories end in the right order.  And of the callbacks of a mount:   *)
(* for every order of threads, renames and changes of policy what a handle *)
(* gives was allowed, and its descriptors are accounted for.               *)
(***************************************************************************)
EXTENDS FuseSession, FuseCallbacks, FiniteSetTheorems, SequenceTheorems, TLAPS

-----------------------------------------------------------------------------
(* Sessions: the inductive invariant, in groups                             *)

Early == {"idle", "start", "base", "mkdir", "made"}
Holds(q, x) == \E k \in 1..Len(q) : q[k] = x
Lines == ({"START", "STOP"} \X Mounts) \cup {<<"SHUTDOWN">>}
Types == TypeOK /\ commands \in Seq(Lines) /\ outputs \in Seq({"STARTED", "STOPPED"} \X Mounts)

\* A context is registered between createContext and the end of its cleanup's
\* verification, and only one that is not being cleaned up has a control socket.
ContextHolds(m) ==
    /\ m \in contexts => pc[m] \in {"mount", "run", "cleaning"}
    /\ pc[m] \in Early => cleanup[m] = "none"
    /\ cleanup[m] \in {"unmount", "stop", "stopping", "killed", "verify"} => m \in contexts
    /\ cleanup[m] \in {"check", "remove", "done"} => m \notin contexts
    /\ pc[m] \in {"mount", "run"} /\ cleanup[m] = "none" => m \in contexts
    /\ pc[m] = "cleaning" => cleanup[m] # "none"
    /\ m \in socket => cleanup[m] = "none"
ContextsHold == \A m \in Mounts : ContextHolds(m)

\* The daemon runs from a successful start on; performClose leaves nothing behind it.
SessionHolds ==
    /\ session = "up" <=> daemon # "none"
    /\ stopping => daemon # "none"
    /\ \A m \in Mounts : pc[m] \notin {"idle", "start", "done"} => session = "up"
    /\ closer # "none" => closing
    /\ closer \notin {"none", "start"} => session # "starting"
    /\ closer \in {"daemon", "exit", "states", "check", "remove", "done"} => contexts = {}
    /\ closer \in {"states", "check", "remove", "done"} => daemon \in {"none", "exited"}
    /\ stopping /\ daemon = "up" => closer = "exit"
DiskHolds ==
    /\ dirs # {} => root
    /\ session # "up" => dirs = {} /\ ~root
    /\ session = "up" /\ closer # "done" => root

\* Nothing lives without the daemon, and STOP comes after START.
DaemonHolds == daemon # "up" => commands = <<>> /\ Workers = {}
Ordered(q, m) == \A j, k \in 1..Len(q) : q[j] = <<"STOP", m>> /\ q[k] = <<"START", m>> => k < j
Over(m) == worker[m] \notin Alive /\ ~Holds(commands, <<"START", m>>)
PipeHolds(m) ==
    /\ Ordered(commands, m)
    /\ pc[m] \in Early => worker[m] = "none" /\ ~Holds(commands, <<"START", m>>) /\ ~Holds(commands, <<"STOP", m>>)
    /\ Holds(outputs, <<"STOPPED", m>>) \/ "stopped" \in flags[m] => Over(m) /\ pc[m] \notin Early
    /\ cleanup[m] \in {"verify", "check", "remove", "done"} => Over(m)
PipesHold == DaemonHolds /\ \A m \in Mounts : PipeHolds(m)

\* The mounts.
MountHolds(m) ==
    /\ m \in kernel => m \in dirs /\ pc[m] \notin Early
    /\ cleanup[m] = "remove" => m \notin kernel
MountsHold == (closer = "remove" => kernel = {}) /\ \A m \in Mounts : MountHolds(m)

\* The published states.
StateHolds(m) ==
    /\ pc[m] = "base" => stateOf[m] \in StateIds /\ states[stateOf[m]] # "none"
    /\ pc[m] \in {"mkdir", "made"} \/ m \in contexts => stateOf[m] \in StateIds /\ states[stateOf[m]] \notin {"none", "creating"}
    /\ m \in contexts /\ (closing \/ Failed(stateOf[m]) \/ daemon = "exited") => m \in aborted
StatesHold == \A m \in Mounts : StateHolds(m)

\* The setups that performClose saw the end of.
SetupsHold ==
    /\ closer \notin {"none", "start", "setups"} /\ "setup" \notin overdue => Settings = {}
    /\ closer = "remove" => "setup" \notin overdue
    /\ closer = "done" /\ "late" \notin overdue /\ ~root => Settings = {}

SessionInv == Types /\ ContextsHold /\ SessionHolds /\ DiskHolds /\ PipesHold /\ MountsHold /\ StatesHold /\ SetupsHold


-----------------------------------------------------------------------------
(* The pipes                                                               *)

LEMMA LineKinds ==
    ASSUME NEW m \in Mounts, NEW n \in Mounts
    PROVE  /\ <<"START", m>> \in Lines /\ <<"STOP", m>> \in Lines /\ <<"SHUTDOWN">> \in Lines
           /\ <<"START", m>> # <<"STOP", n>> /\ <<"START", m>> # <<"SHUTDOWN">> /\ <<"STOP", m>> # <<"SHUTDOWN">>
           /\ (<<"START", m>> = <<"START", n>> => m = n) /\ (<<"STOP", m>> = <<"STOP", n>> => m = n)
<1>1. Len(<<"SHUTDOWN">>) = 1 /\ Len(<<"START", m>>) = 2 /\ Len(<<"STOP", m>>) = 2
  OBVIOUS
<1> QED BY <1>1 DEF Lines

\* An empty pipe, a line more, a line less.
LEMMA EmptyPipe == ASSUME NEW x PROVE ~Holds(<<>>, x)
BY DEF Holds
LEMMA LongerPipe ==
    ASSUME NEW T, NEW q \in Seq(T), NEW y \in T
    PROVE  /\ Append(q, y) \in Seq(T)
           /\ \A x : Holds(Append(q, y), x) <=> Holds(q, x) \/ x = y
<1>1. /\ Append(q, y) \in Seq(T) /\ Len(Append(q, y)) = Len(q) + 1 /\ Len(q) \in Nat
      /\ \A k \in 1..Len(q) : Append(q, y)[k] = q[k]
      /\ Append(q, y)[Len(q) + 1] = y
  BY AppendProperties
<1> QED BY <1>1 DEF Holds
LEMMA ShorterPipe ==
    ASSUME NEW T, NEW q \in Seq(T), q # <<>>
    PROVE  /\ Tail(q) \in Seq(T) /\ Head(q) \in T /\ Holds(q, Head(q))
           /\ \A x : Holds(Tail(q), x) => Holds(q, x)
<1>1. /\ Tail(q) \in Seq(T) /\ Head(q) \in T /\ Len(Tail(q)) = Len(q) - 1 /\ Len(q) \in Nat /\ Len(q) >= 1
      /\ \A k \in 1..Len(Tail(q)) : Tail(q)[k] = q[k + 1]
      /\ Head(q) = q[1]
  BY HeadTailProperties, EmptySeq
<1> QED BY <1>1 DEF Holds

LEMMA EmptyOrdered == ASSUME NEW m PROVE Ordered(<<>>, m)
BY DEF Ordered
LEMMA LongerOrdered ==
    ASSUME NEW q \in Seq(Lines), NEW y \in Lines, NEW m \in Mounts, Ordered(q, m),
           y = <<"START", m>> => ~Holds(q, <<"STOP", m>>)
    PROVE  Ordered(Append(q, y), m)
<1>1. /\ Len(Append(q, y)) = Len(q) + 1 /\ Len(q) \in Nat
      /\ \A k \in 1..Len(q) : Append(q, y)[k] = q[k]
      /\ Append(q, y)[Len(q) + 1] = y
  BY AppendProperties
<1> SUFFICES ASSUME NEW j \in 1..(Len(q) + 1), NEW k \in 1..(Len(q) + 1),
                    Append(q, y)[j] = <<"STOP", m>>, Append(q, y)[k] = <<"START", m>>
             PROVE  k < j
  BY <1>1 DEF Ordered
<1>2. CASE j = Len(q) + 1
  <2>1. k # Len(q) + 1
    BY <1>1, <1>2, LineKinds
  <2> QED BY <1>1, <1>2, <2>1
<1>3. CASE j # Len(q) + 1 /\ k = Len(q) + 1
  <2>1. j \in 1..Len(q) /\ q[j] = <<"STOP", m>> /\ y = <<"START", m>>
    BY <1>1, <1>3
  <2> QED BY <2>1 DEF Holds
<1>4. CASE j # Len(q) + 1 /\ k # Len(q) + 1
  <2>1. j \in 1..Len(q) /\ k \in 1..Len(q) /\ q[j] = <<"STOP", m>> /\ q[k] = <<"START", m>>
    BY <1>1, <1>4
  <2> QED BY <2>1 DEF Ordered
<1> QED BY <1>2, <1>3, <1>4
LEMMA ShorterOrdered ==
    ASSUME NEW q \in Seq(Lines), q # <<>>, NEW m \in Mounts, Ordered(q, m)
    PROVE  /\ Ordered(Tail(q), m)
           /\ Head(q) = <<"STOP", m>> => ~Holds(q, <<"START", m>>)
<1>1. /\ Tail(q) \in Seq(Lines) /\ Len(Tail(q)) = Len(q) - 1 /\ Len(q) \in Nat /\ Len(q) >= 1
      /\ \A k \in 1..Len(Tail(q)) : Tail(q)[k] = q[k + 1]
      /\ Head(q) = q[1]
  BY HeadTailProperties, EmptySeq
<1>2. Ordered(Tail(q), m)
  <2> SUFFICES ASSUME NEW j \in 1..(Len(q) - 1), NEW k \in 1..(Len(q) - 1),
                      Tail(q)[j] = <<"STOP", m>>, Tail(q)[k] = <<"START", m>>
               PROVE  k < j
    BY <1>1 DEF Ordered
  <2>1. /\ j + 1 \in 1..Len(q) /\ k + 1 \in 1..Len(q)
        /\ q[j + 1] = <<"STOP", m>> /\ q[k + 1] = <<"START", m>>
    BY <1>1
  <2>2. k + 1 < j + 1
    BY <2>1 DEF Ordered
  <2> QED BY <2>2
<1>3. ASSUME Head(q) = <<"STOP", m>>, NEW k \in 1..Len(q), q[k] = <<"START", m>> PROVE FALSE
  <2>1. 1 \in 1..Len(q) /\ q[1] = <<"STOP", m>>
    BY <1>1, <1>3
  <2>2. k < 1
    BY <1>3, <2>1 DEF Ordered
  <2> QED BY <1>1, <2>2
<1> QED BY <1>2, <1>3 DEF Holds

\* What a line more or less in a pipe of the session leaves there.
LEMMA CommandSent ==
    ASSUME Types, NEW y \in Lines, commands' = Append(commands, y)
    PROVE  \A x : Holds(commands', x) <=> Holds(commands, x) \/ x = y
<1>1. commands \in Seq(Lines)
  BY DEF Types
<1> QED BY <1>1, LongerPipe
LEMMA CommandRead ==
    ASSUME Types, commands # <<>>, commands' = Tail(commands)
    PROVE  Holds(commands, Head(commands)) /\ \A x : Holds(commands', x) => Holds(commands, x)
<1>1. commands \in Seq(Lines)
  BY DEF Types
<1> QED BY <1>1, ShorterPipe
LEMMA OutputSent ==
    ASSUME Types, NEW m \in Mounts, NEW word \in {"STARTED", "STOPPED"}, outputs' = Append(outputs, <<word, m>>)
    PROVE  \A x : Holds(outputs', x) <=> Holds(outputs, x) \/ x = <<word, m>>
<1>1. outputs \in Seq({"STARTED", "STOPPED"} \X Mounts) /\ <<word, m>> \in {"STARTED", "STOPPED"} \X Mounts
  BY DEF Types
<1> QED BY <1>1, LongerPipe

-----------------------------------------------------------------------------
(* The steps                                                               *)

\* The types.
LEMMA SessionTypes ==
    ASSUME Types, ContextsHold, [Next]_vars
    PROVE  Types'
<1> USE DEF Types, TypeOK, Alive, Workers, ContextsHold, ContextHolds, StateIds, NoState,
           closeVars, contextVars, stopVars, stateVars, pipeVars, diskVars
<1>1. ASSUME NEW m \in Mounts, WithFilesystem(m) PROVE Types'
  BY <1>1 DEF WithFilesystem
<1>2. ASSUME NEW m \in Mounts, CreateContext(m) PROVE Types'
  <2>1. CASE entry' = entry /\ states' = states
    <3>1. stateOf' = stateOf \/ stateOf' = [stateOf EXCEPT ![m] = entry]
      BY <1>2, <2>1 DEF CreateContext
    <3>2. stateOf' \in [Mounts -> {NoState} \cup StateIds]
      BY <3>1
    <3>3. pc' = [pc EXCEPT ![m] = "done"] \/ pc' = [pc EXCEPT ![m] = "base"]
      BY <1>2, <2>1 DEF CreateContext
    <3>4. pc' \in [Mounts -> {"idle", "start", "base", "mkdir", "made", "mount", "run", "cleaning", "done"}]
      BY <3>3
    <3>5. UNCHANGED <<session, closeVars, cleanup, contexts, flags, stopVars, pipeVars, worker, kernel, diskVars>>
      BY <1>2 DEF CreateContext
    <3> QED BY <2>1, <3>2, <3>4, <3>5
  <2>2. ASSUME NEW i \in Fresh, states' = [states EXCEPT ![i] = "creating"], entry' = i,
               stateOf' = [stateOf EXCEPT ![m] = i]
        PROVE  Types'
    <3>1. states'[i] = "creating" /\ states' \in [StateIds -> {"none", "creating", "ready", "failed", "retiring", "removed"}]
      BY <2>2 DEF Fresh
    <3>2. entry' \in {NoState} \cup {j \in StateIds : states'[j] \notin {"none", "removed"}}
      BY <2>2, <3>1 DEF Fresh
    <3>3. stateOf' \in [Mounts -> {NoState} \cup StateIds]
      BY <2>2 DEF Fresh
    <3>4. pc' = [pc EXCEPT ![m] = "done"] \/ pc' = [pc EXCEPT ![m] = "base"]
      BY <1>2 DEF CreateContext
    <3>5. pc' \in [Mounts -> {"idle", "start", "base", "mkdir", "made", "mount", "run", "cleaning", "done"}]
      BY <3>4
    <3>6. UNCHANGED <<session, closeVars, cleanup, contexts, flags, stopVars, pipeVars, worker, kernel, diskVars>>
      BY <1>2 DEF CreateContext
    <3> QED BY <3>1, <3>2, <3>3, <3>5, <3>6
  <2> QED BY <1>2, <2>1, <2>2 DEF CreateContext
<1>3. ASSUME NEW m \in Mounts, StartMkdir(m) PROVE Types'
  BY <1>3 DEF StartMkdir, Available
<1>4. ASSUME NEW m \in Mounts, DirectoryMade(m) PROVE Types'
  BY <1>4 DEF DirectoryMade
<1>5. ASSUME NEW m \in Mounts, Register(m) PROVE Types'
  <2>1. Append(commands, <<"START", m>>) \in Seq(Lines)
    BY LongerPipe, LineKinds
  <2>2. commands' \in Seq(Lines)
    BY <1>5, <2>1 DEF Register, Write, WriteFails
  <2>3. TypeOK'
    <3>1. CASE ~Admissible(m)
      <4>1. /\ pc' = [pc EXCEPT ![m] = "done"] /\ dirs' = dirs \ {m}
            /\ UNCHANGED <<cleanup, contexts, stopVars, stopping, session, closeVars, flags, stateVars, daemon, worker,
                           kernel, root>>
        BY <1>5, <3>1 DEF Register
      <4> QED BY <4>1
    <3>2. CASE Write(<<"START", m>>) /\ contexts' = contexts \cup {m} /\ pc' = [pc EXCEPT ![m] = "mount"]
      BY <1>5, <3>2 DEF Register, Write, WriteFails
    <3>3. CASE WriteFails
      BY <1>5, <3>3 DEF Register, WriteFails, Write, AbortedByWrite
    <3> QED BY <1>5, <3>1, <3>2, <3>3 DEF Register
  <2>4. outputs' = outputs
    BY <1>5 DEF Register
  <2> QED BY <2>2, <2>3, <2>4
<1>6. ASSUME NEW m \in Mounts, Mounted(m) PROVE Types'
  BY <1>6 DEF Mounted
<1>7. ASSUME NEW m \in Mounts, MountFails(m) PROVE Types'
  BY <1>7 DEF MountFails, LeaveRun, EnterCleanup
<1>8. ASSUME NEW m \in Mounts, RunEnds(m) PROVE Types'
  BY <1>8 DEF RunEnds, LeaveRun, EnterCleanup
<1>9. ASSUME NEW m \in Mounts, AbortCommand(m) PROVE Types'
  BY <1>9 DEF AbortCommand
<1>10. ASSUME NEW m \in Mounts, StopWorker(m) PROVE Types'
  <2>1. Append(commands, <<"STOP", m>>) \in Seq(Lines)
    BY LongerPipe, LineKinds
  <2>2. commands' \in Seq(Lines) /\ outputs' = outputs
    BY <1>10, <2>1 DEF StopWorker, Write, WriteFails
  <2>3. TypeOK'
    <3>1. CASE Write(<<"STOP", m>>) /\ cleanup' = [cleanup EXCEPT ![m] = "stopping"] /\ UNCHANGED <<aborted, socket>>
      BY <1>10, <3>1 DEF StopWorker, Write
    <3>2. CASE /\ WriteFails /\ cleanup' = [cleanup EXCEPT ![m] = "verify"]
               /\ aborted' = aborted \cup AbortedByWrite(contexts)
               /\ socket' = socket \ AbortedByWrite(contexts)
      BY <1>10, <3>2 DEF StopWorker, WriteFails, AbortedByWrite
    <3> QED BY <1>10, <3>1, <3>2 DEF StopWorker
  <2> QED BY <2>2, <2>3
<1>11. ASSUME NEW m \in Mounts, StopConfirmed(m) PROVE Types'
  BY <1>11 DEF StopConfirmed
<1>12. ASSUME NEW m \in Mounts, StopTimesOut(m) PROVE Types'
  BY <1>12, EmptySeq DEF StopTimesOut, Terminate, WorkersEnd
<1>13. ASSUME NEW m \in Mounts, CheckMount(m) PROVE Types'
  BY <1>13 DEF CheckMount, Removable
<1>14. ASSUME NEW m \in Mounts, RemoveDirectory(m) PROVE Types'
  BY <1>14 DEF RemoveDirectory
<1>15. ASSUME NEW m \in Mounts, Finish(m) PROVE Types'
  BY <1>15 DEF Finish
<1>16. ASSUME NEW m \in Mounts, Connect(m) PROVE Types'
  <2>1. CASE ~closing /\ m \in contexts /\ cleanup[m] = "none"
    BY <1>16, <2>1 DEF Connect
  <2>2. CASE ~(~closing /\ m \in contexts /\ cleanup[m] = "none")
    <3>1. worker' = [worker EXCEPT ![m] = "dead"] /\ socket' = socket
      BY <1>16, <2>2 DEF Connect
    <3> QED BY <1>16, <3>1 DEF Connect
  <2> QED BY <2>1, <2>2
<1>17. ASSUME NEW m \in Mounts, KernelMount(m) PROVE Types'
  BY <1>17 DEF KernelMount
<1>18. ASSUME NEW m \in Mounts, ReadyReceived(m) PROVE Types'
  BY <1>18 DEF ReadyReceived
<1>19. ASSUME NEW m \in Mounts, WorkerDies(m) PROVE Types'
  BY <1>19 DEF WorkerDies, WorkersEnd
<1>20. ASSUME NEW m \in Mounts, AutoUnmount(m) PROVE Types'
  BY <1>20 DEF AutoUnmount
<1>21. ASSUME NEW m \in Mounts, DaemonStop(m) PROVE Types'
  BY <1>21, LongerPipe, ShorterPipe, LineKinds DEF DaemonStop, WorkersEnd
<1>22. ASSUME NEW m \in Mounts, NEW ok \in BOOLEAN, Unmount(m, ok) PROVE Types'
  BY <1>22 DEF Unmount
<1>23. ASSUME NEW m \in Mounts, NEW ok \in BOOLEAN, Verify(m, ok) PROVE Types'
  <2>1. states' = states \/ (states[stateOf[m]] = "failed" /\ states' = [states EXCEPT ![stateOf[m]] = "retiring"])
    BY <1>23 DEF Verify, Retiring
  <2>2. states' \in [StateIds -> {"none", "creating", "ready", "failed", "retiring", "removed"}]
    BY <2>1
  <2>3. ASSUME NEW i \in StateIds, states[i] \notin {"none", "removed"} PROVE states'[i] \notin {"none", "removed"}
    <3>1. [states EXCEPT ![stateOf[m]] = "retiring"][i] \in {states[i], "retiring"}
      OBVIOUS
    <3>2. CASE states' = states
      BY <2>3, <3>2
    <3>3. CASE states' = [states EXCEPT ![stateOf[m]] = "retiring"]
      <4>1. states'[i] \in {states[i], "retiring"}
        BY <3>1, <3>3
      <4> QED BY <2>3, <4>1
    <3> QED BY <2>1, <3>2, <3>3
  <2>4. entry' \in {NoState} \cup {i \in StateIds : states'[i] \notin {"none", "removed"}}
    BY <1>23, <2>3 DEF Verify
  <2>5. m \notin socket
    BY <1>23 DEF Verify
  <2>6. /\ kernel' = (IF ok THEN kernel \ {m} ELSE kernel) /\ contexts' = contexts \ {m}
        /\ cleanup' = [cleanup EXCEPT ![m] = "check"]
        /\ UNCHANGED <<session, closeVars, pc, flags, stopVars, stateOf, pipeVars, worker, diskVars>>
    BY <1>23 DEF Verify
  <2> QED BY <2>2, <2>4, <2>5, <2>6
<1>24. ASSUME NEW m \in Mounts, NEW ok \in BOOLEAN, DaemonStart(m, ok) PROVE Types'
  BY <1>24, LongerPipe, ShorterPipe, LineKinds DEF DaemonStart
<1>25. ASSUME NEW ok \in BOOLEAN, Initialize(ok) PROVE Types'
  BY <1>25 DEF Initialize
<1>26. ASSUME NEW i \in StateIds, NEW ok \in BOOLEAN, CreateAgentPolicyState(i, ok) PROVE Types'
  BY <1>26 DEF CreateAgentPolicyState
<1>27. ASSUME NEW i \in StateIds, StateFails(i) PROVE Types'
  BY <1>27 DEF StateFails
<1>28. ASSUME NEW i \in StateIds, Retire(i) PROVE Types'
  BY <1>28 DEF Retire
<1>29. CASE DaemonShutdown
  BY <1>29, EmptySeq DEF DaemonShutdown, WorkersEnd
<1>30. CASE DaemonDies
  BY <1>30, EmptySeq DEF DaemonDies, WorkersEnd
<1>31. CASE ExitSeen
  BY <1>31 DEF ExitSeen, FailContexts
<1>32. CASE HandleBrokerOutput
  BY <1>32, LongerPipe, ShorterPipe, LineKinds DEF HandleBrokerOutput
<1>33. CASE BeginShutdown
  BY <1>33 DEF BeginShutdown, Shutdown
<1>34. CASE Close
  BY <1>34 DEF Close, Shutdown
<1>35. CASE StartSettled
  BY <1>35 DEF StartSettled, CloserMoves
<1>36. CASE SetupsSettled
  BY <1>36 DEF SetupsSettled, Settings, CloserMoves
<1>37. CASE SetupsTimeOut
  BY <1>37 DEF SetupsTimeOut, Settings, CloserMoves
<1>38. CASE ContextsFinished
  BY <1>38 DEF ContextsFinished, CloserMoves
<1>39. CASE ContextsTimeOut
  BY <1>39 DEF ContextsTimeOut
<1>40. CASE ForcedFinished
  BY <1>40 DEF ForcedFinished, CloserMoves
<1>41. CASE SendShutdown
  <2>1. Append(commands, <<"SHUTDOWN">>) \in Seq(Lines)
    <3>1. <<"SHUTDOWN">> \in Lines
      BY DEF Lines
    <3> QED BY <3>1, LongerPipe
  <2>2. commands' \in Seq(Lines) /\ outputs' = outputs
    BY <1>41, <2>1 DEF SendShutdown, CloserMoves
  <2>3. TypeOK'
    BY <1>41 DEF SendShutdown, CloserMoves
  <2> QED BY <2>2, <2>3
<1>42. CASE ShutdownTimesOut
  BY <1>42, EmptySeq DEF ShutdownTimesOut, Terminate, WorkersEnd
<1>43. CASE DaemonGone
  BY <1>43 DEF DaemonGone, CloserMoves
<1>44. CASE StatesSettled
  BY <1>44 DEF StatesSettled, BaseSetups
<1>45. CASE StatesTimeOut
  BY <1>45 DEF StatesTimeOut, BaseSetups, CloserMoves
<1>46. CASE CheckSession
  BY <1>46 DEF CheckSession, DirectoryFree, CloserMoves
<1>47. CASE RemoveSession
  BY <1>47 DEF RemoveSession
<1>48. CASE LateRemoval
  BY <1>48 DEF LateRemoval, BaseSetups
<1>49. CASE UNCHANGED vars
  BY <1>49 DEF vars
<1> HIDE DEF Types
<1> QED BY <1>1, <1>2, <1>3, <1>4, <1>5, <1>6, <1>7, <1>8, <1>9, <1>10, <1>11, <1>12, <1>13, <1>14, <1>15, <1>16,
           <1>17, <1>18, <1>19, <1>20, <1>21, <1>22, <1>23, <1>24, <1>25, <1>26, <1>27, <1>28, <1>29, <1>30, <1>31,
           <1>32, <1>33, <1>34, <1>35, <1>36, <1>37, <1>38, <1>39, <1>40, <1>41, <1>42, <1>43, <1>44, <1>45, <1>46,
           <1>47, <1>48, <1>49
       DEF Next, CommandStep, CleanupStep, WorkerStep, DaemonStep, CloseStep

\* A context is registered, cleaned up and dropped in that order.
LEMMA SessionContexts ==
    ASSUME Types, ContextsHold, [Next]_vars
    PROVE  ContextsHold'
<1> USE DEF Types, TypeOK, ContextsHold, ContextHolds, Early,
           closeVars, contextVars, stopVars, stateVars, pipeVars, diskVars
<1>1. ASSUME NEW m \in Mounts, WithFilesystem(m) PROVE ContextsHold'
  BY <1>1 DEF WithFilesystem
<1>2. ASSUME NEW m \in Mounts, CreateContext(m) PROVE ContextsHold'
  BY <1>2 DEF CreateContext, Available, Fresh
<1>3. ASSUME NEW m \in Mounts, StartMkdir(m) PROVE ContextsHold'
  BY <1>3 DEF StartMkdir, Available
<1>4. ASSUME NEW m \in Mounts, DirectoryMade(m) PROVE ContextsHold'
  BY <1>4 DEF DirectoryMade
<1>5. ASSUME NEW m \in Mounts, Register(m) PROVE ContextsHold'
  BY <1>5 DEF Register, Available, Admissible, Write, WriteFails, Writable, AbortedByWrite
<1>6. ASSUME NEW m \in Mounts, Mounted(m) PROVE ContextsHold'
  BY <1>6 DEF Mounted
<1>7. ASSUME NEW m \in Mounts, MountFails(m) PROVE ContextsHold'
  BY <1>7 DEF MountFails, LeaveRun, EnterCleanup
<1>8. ASSUME NEW m \in Mounts, RunEnds(m) PROVE ContextsHold'
  BY <1>8 DEF RunEnds, LeaveRun, EnterCleanup
<1>9. ASSUME NEW m \in Mounts, AbortCommand(m) PROVE ContextsHold'
  BY <1>9 DEF AbortCommand
<1>10. ASSUME NEW m \in Mounts, StopWorker(m) PROVE ContextsHold'
  BY <1>10 DEF StopWorker, Write, WriteFails, Writable, AbortedByWrite
<1>11. ASSUME NEW m \in Mounts, StopConfirmed(m) PROVE ContextsHold'
  BY <1>11 DEF StopConfirmed
<1>12. ASSUME NEW m \in Mounts, StopTimesOut(m) PROVE ContextsHold'
  BY <1>12 DEF StopTimesOut, Terminate, WorkersEnd
<1>13. ASSUME NEW m \in Mounts, CheckMount(m) PROVE ContextsHold'
  BY <1>13 DEF CheckMount, Removable
<1>14. ASSUME NEW m \in Mounts, RemoveDirectory(m) PROVE ContextsHold'
  BY <1>14 DEF RemoveDirectory
<1>15. ASSUME NEW m \in Mounts, Finish(m) PROVE ContextsHold'
  BY <1>15 DEF Finish
<1>16. ASSUME NEW m \in Mounts, Connect(m) PROVE ContextsHold'
  BY <1>16 DEF Connect
<1>17. ASSUME NEW m \in Mounts, KernelMount(m) PROVE ContextsHold'
  BY <1>17 DEF KernelMount
<1>18. ASSUME NEW m \in Mounts, ReadyReceived(m) PROVE ContextsHold'
  BY <1>18 DEF ReadyReceived
<1>19. ASSUME NEW m \in Mounts, WorkerDies(m) PROVE ContextsHold'
  BY <1>19 DEF WorkerDies, WorkersEnd
<1>20. ASSUME NEW m \in Mounts, AutoUnmount(m) PROVE ContextsHold'
  BY <1>20 DEF AutoUnmount
<1>21. ASSUME NEW m \in Mounts, DaemonStop(m) PROVE ContextsHold'
  BY <1>21 DEF DaemonStop, WorkersEnd
<1>22. ASSUME NEW m \in Mounts, NEW ok \in BOOLEAN, Unmount(m, ok) PROVE ContextsHold'
  BY <1>22 DEF Unmount
<1>23. ASSUME NEW m \in Mounts, NEW ok \in BOOLEAN, Verify(m, ok) PROVE ContextsHold'
  BY <1>23 DEF Verify, Retiring
<1>24. ASSUME NEW m \in Mounts, NEW ok \in BOOLEAN, DaemonStart(m, ok) PROVE ContextsHold'
  BY <1>24 DEF DaemonStart
<1>25. ASSUME NEW ok \in BOOLEAN, Initialize(ok) PROVE ContextsHold'
  BY <1>25 DEF Initialize
<1>26. ASSUME NEW i \in StateIds, NEW ok \in BOOLEAN, CreateAgentPolicyState(i, ok) PROVE ContextsHold'
  BY <1>26 DEF CreateAgentPolicyState
<1>27. ASSUME NEW i \in StateIds, StateFails(i) PROVE ContextsHold'
  BY <1>27 DEF StateFails
<1>28. ASSUME NEW i \in StateIds, Retire(i) PROVE ContextsHold'
  BY <1>28 DEF Retire
<1>29. CASE DaemonShutdown
  BY <1>29 DEF DaemonShutdown, WorkersEnd
<1>30. CASE DaemonDies
  BY <1>30 DEF DaemonDies, WorkersEnd
<1>31. CASE ExitSeen
  BY <1>31 DEF ExitSeen, FailContexts
<1>32. CASE HandleBrokerOutput
  BY <1>32 DEF HandleBrokerOutput
<1>33. CASE BeginShutdown
  BY <1>33 DEF BeginShutdown, Shutdown
<1>34. CASE Close
  BY <1>34 DEF Close, Shutdown
<1>35. CASE StartSettled
  BY <1>35 DEF StartSettled, CloserMoves
<1>36. CASE SetupsSettled
  BY <1>36 DEF SetupsSettled, Settings, CloserMoves
<1>37. CASE SetupsTimeOut
  BY <1>37 DEF SetupsTimeOut, Settings, CloserMoves
<1>38. CASE ContextsFinished
  BY <1>38 DEF ContextsFinished, CloserMoves
<1>39. CASE ContextsTimeOut
  BY <1>39 DEF ContextsTimeOut
<1>40. CASE ForcedFinished
  BY <1>40 DEF ForcedFinished, CloserMoves
<1>41. CASE SendShutdown
  BY <1>41 DEF SendShutdown, CloserMoves
<1>42. CASE ShutdownTimesOut
  BY <1>42 DEF ShutdownTimesOut, Terminate, WorkersEnd
<1>43. CASE DaemonGone
  BY <1>43 DEF DaemonGone, CloserMoves
<1>44. CASE StatesSettled
  BY <1>44 DEF StatesSettled, BaseSetups
<1>45. CASE StatesTimeOut
  BY <1>45 DEF StatesTimeOut, BaseSetups, CloserMoves
<1>46. CASE CheckSession
  BY <1>46 DEF CheckSession, DirectoryFree, CloserMoves
<1>47. CASE RemoveSession
  BY <1>47 DEF RemoveSession
<1>48. CASE LateRemoval
  BY <1>48 DEF LateRemoval, BaseSetups
<1>49. CASE UNCHANGED vars
  BY <1>49 DEF vars
<1> HIDE DEF ContextsHold
<1> QED BY <1>1, <1>2, <1>3, <1>4, <1>5, <1>6, <1>7, <1>8, <1>9, <1>10, <1>11, <1>12, <1>13, <1>14, <1>15, <1>16,
           <1>17, <1>18, <1>19, <1>20, <1>21, <1>22, <1>23, <1>24, <1>25, <1>26, <1>27, <1>28, <1>29, <1>30, <1>31,
           <1>32, <1>33, <1>34, <1>35, <1>36, <1>37, <1>38, <1>39, <1>40, <1>41, <1>42, <1>43, <1>44, <1>45, <1>46,
           <1>47, <1>48, <1>49
       DEF Next, CommandStep, CleanupStep, WorkerStep, DaemonStep, CloseStep

\* The daemon and performClose.
LEMMA SessionDaemon ==
    ASSUME Types, ContextsHold, SessionHolds, [Next]_vars
    PROVE  SessionHolds'
<1> USE DEF Types, TypeOK, ContextsHold, ContextHolds, SessionHolds, Early,
           closeVars, contextVars, stopVars, stateVars, pipeVars, diskVars
<1>1. ASSUME NEW m \in Mounts, WithFilesystem(m) PROVE SessionHolds'
  BY <1>1 DEF WithFilesystem
<1>2. ASSUME NEW m \in Mounts, CreateContext(m) PROVE SessionHolds'
  BY <1>2 DEF CreateContext, Available, Fresh
<1>3. ASSUME NEW m \in Mounts, StartMkdir(m) PROVE SessionHolds'
  BY <1>3 DEF StartMkdir, Available
<1>4. ASSUME NEW m \in Mounts, DirectoryMade(m) PROVE SessionHolds'
  BY <1>4 DEF DirectoryMade
<1>5. ASSUME NEW m \in Mounts, Register(m) PROVE SessionHolds'
  BY <1>5 DEF Register, Available, Admissible, Write, WriteFails, Writable, AbortedByWrite
<1>6. ASSUME NEW m \in Mounts, Mounted(m) PROVE SessionHolds'
  BY <1>6 DEF Mounted
<1>7. ASSUME NEW m \in Mounts, MountFails(m) PROVE SessionHolds'
  BY <1>7 DEF MountFails, LeaveRun, EnterCleanup
<1>8. ASSUME NEW m \in Mounts, RunEnds(m) PROVE SessionHolds'
  BY <1>8 DEF RunEnds, LeaveRun, EnterCleanup
<1>9. ASSUME NEW m \in Mounts, AbortCommand(m) PROVE SessionHolds'
  BY <1>9 DEF AbortCommand
<1>10. ASSUME NEW m \in Mounts, StopWorker(m) PROVE SessionHolds'
  BY <1>10 DEF StopWorker, Write, WriteFails, Writable, AbortedByWrite
<1>11. ASSUME NEW m \in Mounts, StopConfirmed(m) PROVE SessionHolds'
  BY <1>11 DEF StopConfirmed
<1>12. ASSUME NEW m \in Mounts, StopTimesOut(m) PROVE SessionHolds'
  BY <1>12 DEF StopTimesOut, Terminate, WorkersEnd
<1>13. ASSUME NEW m \in Mounts, CheckMount(m) PROVE SessionHolds'
  BY <1>13 DEF CheckMount, Removable
<1>14. ASSUME NEW m \in Mounts, RemoveDirectory(m) PROVE SessionHolds'
  BY <1>14 DEF RemoveDirectory
<1>15. ASSUME NEW m \in Mounts, Finish(m) PROVE SessionHolds'
  BY <1>15 DEF Finish
<1>16. ASSUME NEW m \in Mounts, Connect(m) PROVE SessionHolds'
  BY <1>16 DEF Connect
<1>17. ASSUME NEW m \in Mounts, KernelMount(m) PROVE SessionHolds'
  BY <1>17 DEF KernelMount
<1>18. ASSUME NEW m \in Mounts, ReadyReceived(m) PROVE SessionHolds'
  BY <1>18 DEF ReadyReceived
<1>19. ASSUME NEW m \in Mounts, WorkerDies(m) PROVE SessionHolds'
  BY <1>19 DEF WorkerDies, WorkersEnd
<1>20. ASSUME NEW m \in Mounts, AutoUnmount(m) PROVE SessionHolds'
  BY <1>20 DEF AutoUnmount
<1>21. ASSUME NEW m \in Mounts, DaemonStop(m) PROVE SessionHolds'
  BY <1>21 DEF DaemonStop, WorkersEnd
<1>22. ASSUME NEW m \in Mounts, NEW ok \in BOOLEAN, Unmount(m, ok) PROVE SessionHolds'
  BY <1>22 DEF Unmount
<1>23. ASSUME NEW m \in Mounts, NEW ok \in BOOLEAN, Verify(m, ok) PROVE SessionHolds'
  BY <1>23 DEF Verify, Retiring
<1>24. ASSUME NEW m \in Mounts, NEW ok \in BOOLEAN, DaemonStart(m, ok) PROVE SessionHolds'
  BY <1>24 DEF DaemonStart
<1>25. ASSUME NEW ok \in BOOLEAN, Initialize(ok) PROVE SessionHolds'
  BY <1>25 DEF Initialize
<1>26. ASSUME NEW i \in StateIds, NEW ok \in BOOLEAN, CreateAgentPolicyState(i, ok) PROVE SessionHolds'
  BY <1>26 DEF CreateAgentPolicyState
<1>27. ASSUME NEW i \in StateIds, StateFails(i) PROVE SessionHolds'
  BY <1>27 DEF StateFails
<1>28. ASSUME NEW i \in StateIds, Retire(i) PROVE SessionHolds'
  BY <1>28 DEF Retire
<1>29. CASE DaemonShutdown
  BY <1>29 DEF DaemonShutdown, WorkersEnd
<1>30. CASE DaemonDies
  BY <1>30 DEF DaemonDies, WorkersEnd
<1>31. CASE ExitSeen
  BY <1>31 DEF ExitSeen, FailContexts
<1>32. CASE HandleBrokerOutput
  BY <1>32 DEF HandleBrokerOutput
<1>33. CASE BeginShutdown
  BY <1>33 DEF BeginShutdown, Shutdown
<1>34. CASE Close
  BY <1>34 DEF Close, Shutdown
<1>35. CASE StartSettled
  BY <1>35 DEF StartSettled, CloserMoves
<1>36. CASE SetupsSettled
  BY <1>36 DEF SetupsSettled, Settings, CloserMoves
<1>37. CASE SetupsTimeOut
  BY <1>37 DEF SetupsTimeOut, Settings, CloserMoves
<1>38. CASE ContextsFinished
  BY <1>38 DEF ContextsFinished, CloserMoves
<1>39. CASE ContextsTimeOut
  BY <1>39 DEF ContextsTimeOut
<1>40. CASE ForcedFinished
  BY <1>40 DEF ForcedFinished, CloserMoves
<1>41. CASE SendShutdown
  BY <1>41 DEF SendShutdown, CloserMoves
<1>42. CASE ShutdownTimesOut
  BY <1>42 DEF ShutdownTimesOut, Terminate, WorkersEnd
<1>43. CASE DaemonGone
  BY <1>43 DEF DaemonGone, CloserMoves
<1>44. CASE StatesSettled
  BY <1>44 DEF StatesSettled, BaseSetups
<1>45. CASE StatesTimeOut
  BY <1>45 DEF StatesTimeOut, BaseSetups, CloserMoves
<1>46. CASE CheckSession
  BY <1>46 DEF CheckSession, DirectoryFree, CloserMoves
<1>47. CASE RemoveSession
  BY <1>47 DEF RemoveSession
<1>48. CASE LateRemoval
  BY <1>48 DEF LateRemoval, BaseSetups
<1>49. CASE UNCHANGED vars
  BY <1>49 DEF vars
<1> HIDE DEF SessionHolds
<1> QED BY <1>1, <1>2, <1>3, <1>4, <1>5, <1>6, <1>7, <1>8, <1>9, <1>10, <1>11, <1>12, <1>13, <1>14, <1>15, <1>16,
           <1>17, <1>18, <1>19, <1>20, <1>21, <1>22, <1>23, <1>24, <1>25, <1>26, <1>27, <1>28, <1>29, <1>30, <1>31,
           <1>32, <1>33, <1>34, <1>35, <1>36, <1>37, <1>38, <1>39, <1>40, <1>41, <1>42, <1>43, <1>44, <1>45, <1>46,
           <1>47, <1>48, <1>49
       DEF Next, CommandStep, CleanupStep, WorkerStep, DaemonStep, CloseStep

\* The directories.
LEMMA SessionDisk ==
    ASSUME Types, SessionHolds, DiskHolds, [Next]_vars
    PROVE  DiskHolds'
<1> USE DEF Types, TypeOK, SessionHolds, DiskHolds,
           closeVars, contextVars, stopVars, stateVars, pipeVars, diskVars
<1>1. ASSUME NEW m \in Mounts, WithFilesystem(m) PROVE DiskHolds'
  BY <1>1 DEF WithFilesystem
<1>2. ASSUME NEW m \in Mounts, CreateContext(m) PROVE DiskHolds'
  BY <1>2 DEF CreateContext, Available, Fresh
<1>3. ASSUME NEW m \in Mounts, StartMkdir(m) PROVE DiskHolds'
  BY <1>3 DEF StartMkdir, Available
<1>4. ASSUME NEW m \in Mounts, DirectoryMade(m) PROVE DiskHolds'
  BY <1>4 DEF DirectoryMade
<1>5. ASSUME NEW m \in Mounts, Register(m) PROVE DiskHolds'
  BY <1>5 DEF Register, Available, Admissible, Write, WriteFails, Writable, AbortedByWrite
<1>6. ASSUME NEW m \in Mounts, Mounted(m) PROVE DiskHolds'
  BY <1>6 DEF Mounted
<1>7. ASSUME NEW m \in Mounts, MountFails(m) PROVE DiskHolds'
  BY <1>7 DEF MountFails, LeaveRun, EnterCleanup
<1>8. ASSUME NEW m \in Mounts, RunEnds(m) PROVE DiskHolds'
  BY <1>8 DEF RunEnds, LeaveRun, EnterCleanup
<1>9. ASSUME NEW m \in Mounts, AbortCommand(m) PROVE DiskHolds'
  BY <1>9 DEF AbortCommand
<1>10. ASSUME NEW m \in Mounts, StopWorker(m) PROVE DiskHolds'
  BY <1>10 DEF StopWorker, Write, WriteFails, Writable, AbortedByWrite
<1>11. ASSUME NEW m \in Mounts, StopConfirmed(m) PROVE DiskHolds'
  BY <1>11 DEF StopConfirmed
<1>12. ASSUME NEW m \in Mounts, StopTimesOut(m) PROVE DiskHolds'
  BY <1>12 DEF StopTimesOut, Terminate, WorkersEnd
<1>13. ASSUME NEW m \in Mounts, CheckMount(m) PROVE DiskHolds'
  BY <1>13 DEF CheckMount, Removable
<1>14. ASSUME NEW m \in Mounts, RemoveDirectory(m) PROVE DiskHolds'
  BY <1>14 DEF RemoveDirectory
<1>15. ASSUME NEW m \in Mounts, Finish(m) PROVE DiskHolds'
  BY <1>15 DEF Finish
<1>16. ASSUME NEW m \in Mounts, Connect(m) PROVE DiskHolds'
  BY <1>16 DEF Connect
<1>17. ASSUME NEW m \in Mounts, KernelMount(m) PROVE DiskHolds'
  BY <1>17 DEF KernelMount
<1>18. ASSUME NEW m \in Mounts, ReadyReceived(m) PROVE DiskHolds'
  BY <1>18 DEF ReadyReceived
<1>19. ASSUME NEW m \in Mounts, WorkerDies(m) PROVE DiskHolds'
  BY <1>19 DEF WorkerDies, WorkersEnd
<1>20. ASSUME NEW m \in Mounts, AutoUnmount(m) PROVE DiskHolds'
  BY <1>20 DEF AutoUnmount
<1>21. ASSUME NEW m \in Mounts, DaemonStop(m) PROVE DiskHolds'
  BY <1>21 DEF DaemonStop, WorkersEnd
<1>22. ASSUME NEW m \in Mounts, NEW ok \in BOOLEAN, Unmount(m, ok) PROVE DiskHolds'
  BY <1>22 DEF Unmount
<1>23. ASSUME NEW m \in Mounts, NEW ok \in BOOLEAN, Verify(m, ok) PROVE DiskHolds'
  BY <1>23 DEF Verify, Retiring
<1>24. ASSUME NEW m \in Mounts, NEW ok \in BOOLEAN, DaemonStart(m, ok) PROVE DiskHolds'
  BY <1>24 DEF DaemonStart
<1>25. ASSUME NEW ok \in BOOLEAN, Initialize(ok) PROVE DiskHolds'
  BY <1>25 DEF Initialize
<1>26. ASSUME NEW i \in StateIds, NEW ok \in BOOLEAN, CreateAgentPolicyState(i, ok) PROVE DiskHolds'
  BY <1>26 DEF CreateAgentPolicyState
<1>27. ASSUME NEW i \in StateIds, StateFails(i) PROVE DiskHolds'
  BY <1>27 DEF StateFails
<1>28. ASSUME NEW i \in StateIds, Retire(i) PROVE DiskHolds'
  BY <1>28 DEF Retire
<1>29. CASE DaemonShutdown
  BY <1>29 DEF DaemonShutdown, WorkersEnd
<1>30. CASE DaemonDies
  BY <1>30 DEF DaemonDies, WorkersEnd
<1>31. CASE ExitSeen
  BY <1>31 DEF ExitSeen, FailContexts
<1>32. CASE HandleBrokerOutput
  BY <1>32 DEF HandleBrokerOutput
<1>33. CASE BeginShutdown
  BY <1>33 DEF BeginShutdown, Shutdown
<1>34. CASE Close
  BY <1>34 DEF Close, Shutdown
<1>35. CASE StartSettled
  BY <1>35 DEF StartSettled, CloserMoves
<1>36. CASE SetupsSettled
  BY <1>36 DEF SetupsSettled, Settings, CloserMoves
<1>37. CASE SetupsTimeOut
  BY <1>37 DEF SetupsTimeOut, Settings, CloserMoves
<1>38. CASE ContextsFinished
  BY <1>38 DEF ContextsFinished, CloserMoves
<1>39. CASE ContextsTimeOut
  BY <1>39 DEF ContextsTimeOut
<1>40. CASE ForcedFinished
  BY <1>40 DEF ForcedFinished, CloserMoves
<1>41. CASE SendShutdown
  BY <1>41 DEF SendShutdown, CloserMoves
<1>42. CASE ShutdownTimesOut
  BY <1>42 DEF ShutdownTimesOut, Terminate, WorkersEnd
<1>43. CASE DaemonGone
  BY <1>43 DEF DaemonGone, CloserMoves
<1>44. CASE StatesSettled
  BY <1>44 DEF StatesSettled, BaseSetups
<1>45. CASE StatesTimeOut
  BY <1>45 DEF StatesTimeOut, BaseSetups, CloserMoves
<1>46. CASE CheckSession
  BY <1>46 DEF CheckSession, DirectoryFree, CloserMoves
<1>47. CASE RemoveSession
  BY <1>47 DEF RemoveSession
<1>48. CASE LateRemoval
  BY <1>48 DEF LateRemoval, BaseSetups
<1>49. CASE UNCHANGED vars
  BY <1>49 DEF vars
<1> HIDE DEF DiskHolds
<1> QED BY <1>1, <1>2, <1>3, <1>4, <1>5, <1>6, <1>7, <1>8, <1>9, <1>10, <1>11, <1>12, <1>13, <1>14, <1>15, <1>16,
           <1>17, <1>18, <1>19, <1>20, <1>21, <1>22, <1>23, <1>24, <1>25, <1>26, <1>27, <1>28, <1>29, <1>30, <1>31,
           <1>32, <1>33, <1>34, <1>35, <1>36, <1>37, <1>38, <1>39, <1>40, <1>41, <1>42, <1>43, <1>44, <1>45, <1>46,
           <1>47, <1>48, <1>49
       DEF Next, CommandStep, CleanupStep, WorkerStep, DaemonStep, CloseStep

\* The published states.
LEMMA SessionStates ==
    ASSUME Types, ContextsHold, SessionHolds, StatesHold, [Next]_vars
    PROVE  StatesHold'
<1> USE DEF Types, TypeOK, ContextsHold, ContextHolds, SessionHolds, StatesHold, StateHolds, Failed, Early,
           closeVars, contextVars, stopVars, stateVars, pipeVars, diskVars
<1>1. ASSUME NEW m \in Mounts, WithFilesystem(m) PROVE StatesHold'
  BY <1>1 DEF WithFilesystem
<1>2. ASSUME NEW m \in Mounts, CreateContext(m) PROVE StatesHold'
  BY <1>2 DEF CreateContext, Available, Fresh
<1>3. ASSUME NEW m \in Mounts, StartMkdir(m) PROVE StatesHold'
  BY <1>3 DEF StartMkdir, Available
<1>4. ASSUME NEW m \in Mounts, DirectoryMade(m) PROVE StatesHold'
  BY <1>4 DEF DirectoryMade
<1>5. ASSUME NEW m \in Mounts, Register(m) PROVE StatesHold'
  BY <1>5 DEF Register, Available, Admissible, Write, WriteFails, Writable, AbortedByWrite
<1>6. ASSUME NEW m \in Mounts, Mounted(m) PROVE StatesHold'
  BY <1>6 DEF Mounted
<1>7. ASSUME NEW m \in Mounts, MountFails(m) PROVE StatesHold'
  BY <1>7 DEF MountFails, LeaveRun, EnterCleanup
<1>8. ASSUME NEW m \in Mounts, RunEnds(m) PROVE StatesHold'
  BY <1>8 DEF RunEnds, LeaveRun, EnterCleanup
<1>9. ASSUME NEW m \in Mounts, AbortCommand(m) PROVE StatesHold'
  BY <1>9 DEF AbortCommand
<1>10. ASSUME NEW m \in Mounts, StopWorker(m) PROVE StatesHold'
  BY <1>10 DEF StopWorker, Write, WriteFails, Writable, AbortedByWrite
<1>11. ASSUME NEW m \in Mounts, StopConfirmed(m) PROVE StatesHold'
  BY <1>11 DEF StopConfirmed
<1>12. ASSUME NEW m \in Mounts, StopTimesOut(m) PROVE StatesHold'
  BY <1>12 DEF StopTimesOut, Terminate, WorkersEnd
<1>13. ASSUME NEW m \in Mounts, CheckMount(m) PROVE StatesHold'
  BY <1>13 DEF CheckMount, Removable
<1>14. ASSUME NEW m \in Mounts, RemoveDirectory(m) PROVE StatesHold'
  BY <1>14 DEF RemoveDirectory
<1>15. ASSUME NEW m \in Mounts, Finish(m) PROVE StatesHold'
  BY <1>15 DEF Finish
<1>16. ASSUME NEW m \in Mounts, Connect(m) PROVE StatesHold'
  BY <1>16 DEF Connect
<1>17. ASSUME NEW m \in Mounts, KernelMount(m) PROVE StatesHold'
  BY <1>17 DEF KernelMount
<1>18. ASSUME NEW m \in Mounts, ReadyReceived(m) PROVE StatesHold'
  BY <1>18 DEF ReadyReceived
<1>19. ASSUME NEW m \in Mounts, WorkerDies(m) PROVE StatesHold'
  BY <1>19 DEF WorkerDies, WorkersEnd
<1>20. ASSUME NEW m \in Mounts, AutoUnmount(m) PROVE StatesHold'
  BY <1>20 DEF AutoUnmount
<1>21. ASSUME NEW m \in Mounts, DaemonStop(m) PROVE StatesHold'
  BY <1>21 DEF DaemonStop, WorkersEnd
<1>22. ASSUME NEW m \in Mounts, NEW ok \in BOOLEAN, Unmount(m, ok) PROVE StatesHold'
  BY <1>22 DEF Unmount
<1>23. ASSUME NEW m \in Mounts, NEW ok \in BOOLEAN, Verify(m, ok) PROVE StatesHold'
  BY <1>23 DEF Verify, Retiring
<1>24. ASSUME NEW m \in Mounts, NEW ok \in BOOLEAN, DaemonStart(m, ok) PROVE StatesHold'
  BY <1>24 DEF DaemonStart
<1>25. ASSUME NEW ok \in BOOLEAN, Initialize(ok) PROVE StatesHold'
  BY <1>25 DEF Initialize
<1>26. ASSUME NEW i \in StateIds, NEW ok \in BOOLEAN, CreateAgentPolicyState(i, ok) PROVE StatesHold'
  BY <1>26 DEF CreateAgentPolicyState
<1>27. ASSUME NEW i \in StateIds, StateFails(i) PROVE StatesHold'
  BY <1>27 DEF StateFails
<1>28. ASSUME NEW i \in StateIds, Retire(i) PROVE StatesHold'
  BY <1>28 DEF Retire
<1>29. CASE DaemonShutdown
  BY <1>29 DEF DaemonShutdown, WorkersEnd
<1>30. CASE DaemonDies
  BY <1>30 DEF DaemonDies, WorkersEnd
<1>31. CASE ExitSeen
  BY <1>31 DEF ExitSeen, FailContexts
<1>32. CASE HandleBrokerOutput
  BY <1>32 DEF HandleBrokerOutput
<1>33. CASE BeginShutdown
  BY <1>33 DEF BeginShutdown, Shutdown
<1>34. CASE Close
  BY <1>34 DEF Close, Shutdown
<1>35. CASE StartSettled
  BY <1>35 DEF StartSettled, CloserMoves
<1>36. CASE SetupsSettled
  BY <1>36 DEF SetupsSettled, Settings, CloserMoves
<1>37. CASE SetupsTimeOut
  BY <1>37 DEF SetupsTimeOut, Settings, CloserMoves
<1>38. CASE ContextsFinished
  BY <1>38 DEF ContextsFinished, CloserMoves
<1>39. CASE ContextsTimeOut
  BY <1>39 DEF ContextsTimeOut
<1>40. CASE ForcedFinished
  BY <1>40 DEF ForcedFinished, CloserMoves
<1>41. CASE SendShutdown
  BY <1>41 DEF SendShutdown, CloserMoves
<1>42. CASE ShutdownTimesOut
  BY <1>42 DEF ShutdownTimesOut, Terminate, WorkersEnd
<1>43. CASE DaemonGone
  BY <1>43 DEF DaemonGone, CloserMoves
<1>44. CASE StatesSettled
  BY <1>44 DEF StatesSettled, BaseSetups
<1>45. CASE StatesTimeOut
  BY <1>45 DEF StatesTimeOut, BaseSetups, CloserMoves
<1>46. CASE CheckSession
  BY <1>46 DEF CheckSession, DirectoryFree, CloserMoves
<1>47. CASE RemoveSession
  BY <1>47 DEF RemoveSession
<1>48. CASE LateRemoval
  BY <1>48 DEF LateRemoval, BaseSetups
<1>49. CASE UNCHANGED vars
  BY <1>49 DEF vars
<1> HIDE DEF StatesHold
<1> QED BY <1>1, <1>2, <1>3, <1>4, <1>5, <1>6, <1>7, <1>8, <1>9, <1>10, <1>11, <1>12, <1>13, <1>14, <1>15, <1>16,
           <1>17, <1>18, <1>19, <1>20, <1>21, <1>22, <1>23, <1>24, <1>25, <1>26, <1>27, <1>28, <1>29, <1>30, <1>31,
           <1>32, <1>33, <1>34, <1>35, <1>36, <1>37, <1>38, <1>39, <1>40, <1>41, <1>42, <1>43, <1>44, <1>45, <1>46,
           <1>47, <1>48, <1>49
       DEF Next, CommandStep, CleanupStep, WorkerStep, DaemonStep, CloseStep

\* The setups.
LEMMA SessionSetups ==
    ASSUME Types, SessionHolds, DiskHolds, SetupsHold, [Next]_vars
    PROVE  SetupsHold'
<1> USE DEF Types, TypeOK, SessionHolds, DiskHolds, SetupsHold, Settings,
           closeVars, contextVars, stopVars, stateVars, pipeVars, diskVars
<1>1. ASSUME NEW m \in Mounts, WithFilesystem(m) PROVE SetupsHold'
  BY <1>1 DEF WithFilesystem
<1>2. ASSUME NEW m \in Mounts, CreateContext(m) PROVE SetupsHold'
  BY <1>2 DEF CreateContext, Available, Fresh
<1>3. ASSUME NEW m \in Mounts, StartMkdir(m) PROVE SetupsHold'
  BY <1>3 DEF StartMkdir, Available
<1>4. ASSUME NEW m \in Mounts, DirectoryMade(m) PROVE SetupsHold'
  BY <1>4 DEF DirectoryMade
<1>5. ASSUME NEW m \in Mounts, Register(m) PROVE SetupsHold'
  BY <1>5 DEF Register, Available, Admissible, Write, WriteFails, Writable, AbortedByWrite
<1>6. ASSUME NEW m \in Mounts, Mounted(m) PROVE SetupsHold'
  BY <1>6 DEF Mounted
<1>7. ASSUME NEW m \in Mounts, MountFails(m) PROVE SetupsHold'
  BY <1>7 DEF MountFails, LeaveRun, EnterCleanup
<1>8. ASSUME NEW m \in Mounts, RunEnds(m) PROVE SetupsHold'
  BY <1>8 DEF RunEnds, LeaveRun, EnterCleanup
<1>9. ASSUME NEW m \in Mounts, AbortCommand(m) PROVE SetupsHold'
  BY <1>9 DEF AbortCommand
<1>10. ASSUME NEW m \in Mounts, StopWorker(m) PROVE SetupsHold'
  BY <1>10 DEF StopWorker, Write, WriteFails, Writable, AbortedByWrite
<1>11. ASSUME NEW m \in Mounts, StopConfirmed(m) PROVE SetupsHold'
  BY <1>11 DEF StopConfirmed
<1>12. ASSUME NEW m \in Mounts, StopTimesOut(m) PROVE SetupsHold'
  BY <1>12 DEF StopTimesOut, Terminate, WorkersEnd
<1>13. ASSUME NEW m \in Mounts, CheckMount(m) PROVE SetupsHold'
  BY <1>13 DEF CheckMount, Removable
<1>14. ASSUME NEW m \in Mounts, RemoveDirectory(m) PROVE SetupsHold'
  BY <1>14 DEF RemoveDirectory
<1>15. ASSUME NEW m \in Mounts, Finish(m) PROVE SetupsHold'
  BY <1>15 DEF Finish
<1>16. ASSUME NEW m \in Mounts, Connect(m) PROVE SetupsHold'
  BY <1>16 DEF Connect
<1>17. ASSUME NEW m \in Mounts, KernelMount(m) PROVE SetupsHold'
  BY <1>17 DEF KernelMount
<1>18. ASSUME NEW m \in Mounts, ReadyReceived(m) PROVE SetupsHold'
  BY <1>18 DEF ReadyReceived
<1>19. ASSUME NEW m \in Mounts, WorkerDies(m) PROVE SetupsHold'
  BY <1>19 DEF WorkerDies, WorkersEnd
<1>20. ASSUME NEW m \in Mounts, AutoUnmount(m) PROVE SetupsHold'
  BY <1>20 DEF AutoUnmount
<1>21. ASSUME NEW m \in Mounts, DaemonStop(m) PROVE SetupsHold'
  BY <1>21 DEF DaemonStop, WorkersEnd
<1>22. ASSUME NEW m \in Mounts, NEW ok \in BOOLEAN, Unmount(m, ok) PROVE SetupsHold'
  BY <1>22 DEF Unmount
<1>23. ASSUME NEW m \in Mounts, NEW ok \in BOOLEAN, Verify(m, ok) PROVE SetupsHold'
  BY <1>23 DEF Verify, Retiring
<1>24. ASSUME NEW m \in Mounts, NEW ok \in BOOLEAN, DaemonStart(m, ok) PROVE SetupsHold'
  BY <1>24 DEF DaemonStart
<1>25. ASSUME NEW ok \in BOOLEAN, Initialize(ok) PROVE SetupsHold'
  BY <1>25 DEF Initialize
<1>26. ASSUME NEW i \in StateIds, NEW ok \in BOOLEAN, CreateAgentPolicyState(i, ok) PROVE SetupsHold'
  BY <1>26 DEF CreateAgentPolicyState
<1>27. ASSUME NEW i \in StateIds, StateFails(i) PROVE SetupsHold'
  BY <1>27 DEF StateFails
<1>28. ASSUME NEW i \in StateIds, Retire(i) PROVE SetupsHold'
  BY <1>28 DEF Retire
<1>29. CASE DaemonShutdown
  BY <1>29 DEF DaemonShutdown, WorkersEnd
<1>30. CASE DaemonDies
  BY <1>30 DEF DaemonDies, WorkersEnd
<1>31. CASE ExitSeen
  BY <1>31 DEF ExitSeen, FailContexts
<1>32. CASE HandleBrokerOutput
  BY <1>32 DEF HandleBrokerOutput
<1>33. CASE BeginShutdown
  BY <1>33 DEF BeginShutdown, Shutdown
<1>34. CASE Close
  BY <1>34 DEF Close, Shutdown
<1>35. CASE StartSettled
  BY <1>35 DEF StartSettled, CloserMoves
<1>36. CASE SetupsSettled
  BY <1>36 DEF SetupsSettled, Settings, CloserMoves
<1>37. CASE SetupsTimeOut
  BY <1>37 DEF SetupsTimeOut, Settings, CloserMoves
<1>38. CASE ContextsFinished
  BY <1>38 DEF ContextsFinished, CloserMoves
<1>39. CASE ContextsTimeOut
  BY <1>39 DEF ContextsTimeOut
<1>40. CASE ForcedFinished
  BY <1>40 DEF ForcedFinished, CloserMoves
<1>41. CASE SendShutdown
  BY <1>41 DEF SendShutdown, CloserMoves
<1>42. CASE ShutdownTimesOut
  BY <1>42 DEF ShutdownTimesOut, Terminate, WorkersEnd
<1>43. CASE DaemonGone
  BY <1>43 DEF DaemonGone, CloserMoves
<1>44. CASE StatesSettled
  BY <1>44 DEF StatesSettled, BaseSetups
<1>45. CASE StatesTimeOut
  BY <1>45 DEF StatesTimeOut, BaseSetups, CloserMoves
<1>46. CASE CheckSession
  BY <1>46 DEF CheckSession, DirectoryFree, CloserMoves
<1>47. CASE RemoveSession
  BY <1>47 DEF RemoveSession
<1>48. CASE LateRemoval
  BY <1>48 DEF LateRemoval, BaseSetups
<1>49. CASE UNCHANGED vars
  BY <1>49 DEF vars
<1> HIDE DEF SetupsHold
<1> QED BY <1>1, <1>2, <1>3, <1>4, <1>5, <1>6, <1>7, <1>8, <1>9, <1>10, <1>11, <1>12, <1>13, <1>14, <1>15, <1>16,
           <1>17, <1>18, <1>19, <1>20, <1>21, <1>22, <1>23, <1>24, <1>25, <1>26, <1>27, <1>28, <1>29, <1>30, <1>31,
           <1>32, <1>33, <1>34, <1>35, <1>36, <1>37, <1>38, <1>39, <1>40, <1>41, <1>42, <1>43, <1>44, <1>45, <1>46,
           <1>47, <1>48, <1>49
       DEF Next, CommandStep, CleanupStep, WorkerStep, DaemonStep, CloseStep

\* The mounts.
LEMMA SessionMounts ==
    ASSUME Types, ContextsHold, SessionHolds, PipesHold, MountsHold, [Next]_vars
    PROVE  MountsHold'
<1> USE DEF Types, TypeOK, ContextsHold, ContextHolds, SessionHolds, PipesHold, DaemonHolds, PipeHolds, Over, MountsHold, MountHolds, Workers, Alive, Early,
           closeVars, contextVars, stopVars, stateVars, pipeVars, diskVars
<1>1. ASSUME NEW m \in Mounts, WithFilesystem(m) PROVE MountsHold'
  BY <1>1 DEF WithFilesystem
<1>2. ASSUME NEW m \in Mounts, CreateContext(m) PROVE MountsHold'
  BY <1>2 DEF CreateContext, Available, Fresh
<1>3. ASSUME NEW m \in Mounts, StartMkdir(m) PROVE MountsHold'
  BY <1>3 DEF StartMkdir, Available
<1>4. ASSUME NEW m \in Mounts, DirectoryMade(m) PROVE MountsHold'
  BY <1>4 DEF DirectoryMade
<1>5. ASSUME NEW m \in Mounts, Register(m) PROVE MountsHold'
  BY <1>5 DEF Register, Available, Admissible, Write, WriteFails, Writable, AbortedByWrite
<1>6. ASSUME NEW m \in Mounts, Mounted(m) PROVE MountsHold'
  BY <1>6 DEF Mounted
<1>7. ASSUME NEW m \in Mounts, MountFails(m) PROVE MountsHold'
  BY <1>7 DEF MountFails, LeaveRun, EnterCleanup
<1>8. ASSUME NEW m \in Mounts, RunEnds(m) PROVE MountsHold'
  BY <1>8 DEF RunEnds, LeaveRun, EnterCleanup
<1>9. ASSUME NEW m \in Mounts, AbortCommand(m) PROVE MountsHold'
  BY <1>9 DEF AbortCommand
<1>10. ASSUME NEW m \in Mounts, StopWorker(m) PROVE MountsHold'
  BY <1>10 DEF StopWorker, Write, WriteFails, Writable, AbortedByWrite
<1>11. ASSUME NEW m \in Mounts, StopConfirmed(m) PROVE MountsHold'
  BY <1>11 DEF StopConfirmed
<1>12. ASSUME NEW m \in Mounts, StopTimesOut(m) PROVE MountsHold'
  BY <1>12 DEF StopTimesOut, Terminate, WorkersEnd
<1>13. ASSUME NEW m \in Mounts, CheckMount(m) PROVE MountsHold'
  BY <1>13 DEF CheckMount, Removable
<1>14. ASSUME NEW m \in Mounts, RemoveDirectory(m) PROVE MountsHold'
  BY <1>14 DEF RemoveDirectory
<1>15. ASSUME NEW m \in Mounts, Finish(m) PROVE MountsHold'
  BY <1>15 DEF Finish
<1>16. ASSUME NEW m \in Mounts, Connect(m) PROVE MountsHold'
  BY <1>16 DEF Connect
<1>17. ASSUME NEW m \in Mounts, KernelMount(m) PROVE MountsHold'
  <2>1. worker[m] = "connected" /\ m \in dirs /\ kernel' = kernel \cup {m} /\ UNCHANGED <<dirs, closer, pc, cleanup>>
    BY <1>17 DEF KernelMount
  <2>2. daemon = "up" /\ pc[m] \notin Early /\ cleanup[m] # "remove"
    BY <2>1
  <2>3. closer # "remove"
    BY <2>2
  <2> QED BY <2>1, <2>2, <2>3
<1>18. ASSUME NEW m \in Mounts, ReadyReceived(m) PROVE MountsHold'
  BY <1>18 DEF ReadyReceived
<1>19. ASSUME NEW m \in Mounts, WorkerDies(m) PROVE MountsHold'
  BY <1>19 DEF WorkerDies, WorkersEnd
<1>20. ASSUME NEW m \in Mounts, AutoUnmount(m) PROVE MountsHold'
  BY <1>20 DEF AutoUnmount
<1>21. ASSUME NEW m \in Mounts, DaemonStop(m) PROVE MountsHold'
  BY <1>21 DEF DaemonStop, WorkersEnd
<1>22. ASSUME NEW m \in Mounts, NEW ok \in BOOLEAN, Unmount(m, ok) PROVE MountsHold'
  BY <1>22 DEF Unmount
<1>23. ASSUME NEW m \in Mounts, NEW ok \in BOOLEAN, Verify(m, ok) PROVE MountsHold'
  BY <1>23 DEF Verify, Retiring
<1>24. ASSUME NEW m \in Mounts, NEW ok \in BOOLEAN, DaemonStart(m, ok) PROVE MountsHold'
  BY <1>24 DEF DaemonStart
<1>25. ASSUME NEW ok \in BOOLEAN, Initialize(ok) PROVE MountsHold'
  BY <1>25 DEF Initialize
<1>26. ASSUME NEW i \in StateIds, NEW ok \in BOOLEAN, CreateAgentPolicyState(i, ok) PROVE MountsHold'
  BY <1>26 DEF CreateAgentPolicyState
<1>27. ASSUME NEW i \in StateIds, StateFails(i) PROVE MountsHold'
  BY <1>27 DEF StateFails
<1>28. ASSUME NEW i \in StateIds, Retire(i) PROVE MountsHold'
  BY <1>28 DEF Retire
<1>29. CASE DaemonShutdown
  BY <1>29 DEF DaemonShutdown, WorkersEnd
<1>30. CASE DaemonDies
  BY <1>30 DEF DaemonDies, WorkersEnd
<1>31. CASE ExitSeen
  BY <1>31 DEF ExitSeen, FailContexts
<1>32. CASE HandleBrokerOutput
  BY <1>32 DEF HandleBrokerOutput
<1>33. CASE BeginShutdown
  BY <1>33 DEF BeginShutdown, Shutdown
<1>34. CASE Close
  BY <1>34 DEF Close, Shutdown
<1>35. CASE StartSettled
  BY <1>35 DEF StartSettled, CloserMoves
<1>36. CASE SetupsSettled
  BY <1>36 DEF SetupsSettled, Settings, CloserMoves
<1>37. CASE SetupsTimeOut
  BY <1>37 DEF SetupsTimeOut, Settings, CloserMoves
<1>38. CASE ContextsFinished
  BY <1>38 DEF ContextsFinished, CloserMoves
<1>39. CASE ContextsTimeOut
  BY <1>39 DEF ContextsTimeOut
<1>40. CASE ForcedFinished
  BY <1>40 DEF ForcedFinished, CloserMoves
<1>41. CASE SendShutdown
  BY <1>41 DEF SendShutdown, CloserMoves
<1>42. CASE ShutdownTimesOut
  BY <1>42 DEF ShutdownTimesOut, Terminate, WorkersEnd
<1>43. CASE DaemonGone
  BY <1>43 DEF DaemonGone, CloserMoves
<1>44. CASE StatesSettled
  BY <1>44 DEF StatesSettled, BaseSetups
<1>45. CASE StatesTimeOut
  BY <1>45 DEF StatesTimeOut, BaseSetups, CloserMoves
<1>46. CASE CheckSession
  BY <1>46 DEF CheckSession, DirectoryFree, CloserMoves
<1>47. CASE RemoveSession
  BY <1>47 DEF RemoveSession
<1>48. CASE LateRemoval
  BY <1>48 DEF LateRemoval, BaseSetups
<1>49. CASE UNCHANGED vars
  BY <1>49 DEF vars
<1> HIDE DEF MountsHold
<1> QED BY <1>1, <1>2, <1>3, <1>4, <1>5, <1>6, <1>7, <1>8, <1>9, <1>10, <1>11, <1>12, <1>13, <1>14, <1>15, <1>16,
           <1>17, <1>18, <1>19, <1>20, <1>21, <1>22, <1>23, <1>24, <1>25, <1>26, <1>27, <1>28, <1>29, <1>30, <1>31,
           <1>32, <1>33, <1>34, <1>35, <1>36, <1>37, <1>38, <1>39, <1>40, <1>41, <1>42, <1>43, <1>44, <1>45, <1>46,
           <1>47, <1>48, <1>49
       DEF Next, CommandStep, CleanupStep, WorkerStep, DaemonStep, CloseStep

\* The pipes.
LEMMA SessionPipes ==
    ASSUME Types, ContextsHold, SessionHolds, PipesHold, [Next]_vars
    PROVE  PipesHold'
<1> USE DEF Types, TypeOK, ContextsHold, ContextHolds, SessionHolds, PipesHold, DaemonHolds, PipeHolds, Over, Workers, Alive, Early,
           closeVars, contextVars, stopVars, stateVars, pipeVars, diskVars
<1>1. ASSUME NEW m \in Mounts, WithFilesystem(m) PROVE PipesHold'
  BY <1>1 DEF WithFilesystem
<1>2. ASSUME NEW m \in Mounts, CreateContext(m) PROVE PipesHold'
  BY <1>2 DEF CreateContext, Available, Fresh
<1>3. ASSUME NEW m \in Mounts, StartMkdir(m) PROVE PipesHold'
  BY <1>3 DEF StartMkdir, Available
<1>4. ASSUME NEW m \in Mounts, DirectoryMade(m) PROVE PipesHold'
  BY <1>4 DEF DirectoryMade
<1>5. ASSUME NEW m \in Mounts, Register(m) PROVE PipesHold'
  <2>1. CASE Write(<<"START", m>>) /\ pc' = [pc EXCEPT ![m] = "mount"] /\ UNCHANGED <<cleanup, stopVars>>
    <3>1. commands' = Append(commands, <<"START", m>>) /\ daemon = "up" /\ pc[m] = "made"
      BY <1>5, <2>1 DEF Register, Write, Writable
    <3>2. \A x : Holds(commands', x) <=> Holds(commands, x) \/ x = <<"START", m>>
      BY <3>1, CommandSent, LineKinds
    <3>3. ASSUME NEW n \in Mounts PROVE Ordered(commands', n)
      <4>1. Ordered(commands, n) /\ (<<"START", m>> = <<"START", n>> => ~Holds(commands, <<"STOP", n>>))
        BY <3>1, LineKinds
      <4>2. <<"START", m>> \in Lines
        BY LineKinds
      <4> QED BY <3>1, <4>1, <4>2, LongerOrdered
    <3>4. /\ UNCHANGED <<worker, outputs, flags, cleanup, daemon>> /\ pc' = [pc EXCEPT ![m] = "mount"]
      BY <1>5, <2>1 DEF Register
    <3>5. ASSUME NEW n \in Mounts PROVE PipeHolds(n)'
      <4>1. CASE n = m
        <5>1. cleanup[m] = "none" /\ "stopped" \notin flags[m] /\ ~Holds(outputs, <<"STOPPED", m>>)
          BY <3>1
        <5> QED BY <3>3, <3>4, <4>1, <5>1
      <4>2. CASE n # m
        <5>1. pc'[n] = pc[n] /\ (Holds(commands', <<"START", n>>) <=> Holds(commands, <<"START", n>>))
              /\ (Holds(commands', <<"STOP", n>>) <=> Holds(commands, <<"STOP", n>>))
          BY <3>2, <3>4, <4>2, LineKinds
        <5> QED BY <3>3, <3>4, <5>1
      <4> QED BY <4>1, <4>2
    <3> QED BY <3>1, <3>4, <3>5
  <2>2. CASE UNCHANGED commands /\ ~Admissible(m)
    BY <1>5, <2>2 DEF Register
  <2>3. CASE WriteFails /\ cleanup' = [cleanup EXCEPT ![m] = "stop"] /\ pc' = [pc EXCEPT ![m] = "cleaning"]
    BY <1>5, <2>3 DEF Register, WriteFails
  <2> QED BY <1>5, <2>1, <2>2, <2>3 DEF Register
<1>6. ASSUME NEW m \in Mounts, Mounted(m) PROVE PipesHold'
  BY <1>6 DEF Mounted
<1>7. ASSUME NEW m \in Mounts, MountFails(m) PROVE PipesHold'
  BY <1>7 DEF MountFails, LeaveRun, EnterCleanup
<1>8. ASSUME NEW m \in Mounts, RunEnds(m) PROVE PipesHold'
  BY <1>8 DEF RunEnds, LeaveRun, EnterCleanup
<1>9. ASSUME NEW m \in Mounts, AbortCommand(m) PROVE PipesHold'
  BY <1>9 DEF AbortCommand
<1>10. ASSUME NEW m \in Mounts, StopWorker(m) PROVE PipesHold'
  <2>1. CASE Write(<<"STOP", m>>) /\ cleanup' = [cleanup EXCEPT ![m] = "stopping"]
    <3>1. commands' = Append(commands, <<"STOP", m>>) /\ daemon = "up" /\ cleanup[m] = "stop"
      BY <1>10, <2>1 DEF StopWorker, Write, Writable
    <3>2. \A x : Holds(commands', x) <=> Holds(commands, x) \/ x = <<"STOP", m>>
      BY <3>1, CommandSent, LineKinds
    <3>3. ASSUME NEW n \in Mounts PROVE Ordered(commands', n)
      <4>1. Ordered(commands, n) /\ <<"STOP", m>> # <<"START", n>> /\ <<"STOP", m>> \in Lines
        BY LineKinds
      <4> QED BY <3>1, <4>1, LongerOrdered
    <3>4. UNCHANGED <<worker, outputs, flags, pc, daemon>>
      BY <1>10 DEF StopWorker
    <3>5. ASSUME NEW n \in Mounts PROVE PipeHolds(n)'
      <4>0. Holds(commands', <<"START", n>>) <=> Holds(commands, <<"START", n>>)
        BY <3>2, LineKinds
      <4>1. CASE n = m
        <5>1. cleanup'[m] = "stopping" /\ pc[m] \notin Early
          BY <2>1, <3>1
        <5> QED BY <3>3, <3>4, <4>0, <4>1, <5>1
      <4>2. CASE n # m
        <5>1. cleanup'[n] = cleanup[n] /\ (Holds(commands', <<"STOP", n>>) <=> Holds(commands, <<"STOP", n>>))
          BY <2>1, <3>2, <4>2, LineKinds
        <5> QED BY <3>3, <3>4, <4>0, <5>1
      <4> QED BY <4>1, <4>2
    <3> QED BY <3>1, <3>4, <3>5
  <2>2. CASE WriteFails /\ cleanup' = [cleanup EXCEPT ![m] = "verify"]
    <3>1. m \in contexts /\ commands' = commands
      BY <1>10, <2>2 DEF StopWorker, WriteFails
    <3>2. daemon # "up"
      BY <2>2, <3>1 DEF WriteFails, Writable
    <3>3. Over(m)
      BY <3>2, EmptyPipe
    <3>4. /\ UNCHANGED <<worker, outputs, flags, pc, daemon, commands>>
      BY <1>10, <3>1 DEF StopWorker
    <3>5. ASSUME NEW n \in Mounts PROVE PipeHolds(n)'
      <4>1. CASE n = m
        <5>1. Ordered(commands', m)
          BY <3>1
        <5>2. cleanup'[m] = "verify" /\ pc[m] \notin Early
          BY <1>10, <2>2 DEF StopWorker
        <5> QED BY <3>3, <3>4, <4>1, <5>1, <5>2
      <4>2. CASE n # m
        <5>1. cleanup'[n] = cleanup[n]
          BY <2>2, <4>2
        <5> QED BY <3>4, <5>1
      <4> QED BY <4>1, <4>2
    <3> QED BY <3>2, <3>4, <3>5
  <2> QED BY <1>10, <2>1, <2>2 DEF StopWorker
<1>11. ASSUME NEW m \in Mounts, StopConfirmed(m) PROVE PipesHold'
  BY <1>11, EmptyPipe, EmptyOrdered DEF StopConfirmed
<1>12. ASSUME NEW m \in Mounts, StopTimesOut(m) PROVE PipesHold'
  BY <1>12, EmptyPipe, EmptyOrdered DEF StopTimesOut, Terminate, WorkersEnd
<1>13. ASSUME NEW m \in Mounts, CheckMount(m) PROVE PipesHold'
  BY <1>13 DEF CheckMount, Removable
<1>14. ASSUME NEW m \in Mounts, RemoveDirectory(m) PROVE PipesHold'
  BY <1>14 DEF RemoveDirectory
<1>15. ASSUME NEW m \in Mounts, Finish(m) PROVE PipesHold'
  BY <1>15 DEF Finish
<1>16. ASSUME NEW m \in Mounts, Connect(m) PROVE PipesHold'
  BY <1>16 DEF Connect
<1>17. ASSUME NEW m \in Mounts, KernelMount(m) PROVE PipesHold'
  BY <1>17 DEF KernelMount
<1>18. ASSUME NEW m \in Mounts, ReadyReceived(m) PROVE PipesHold'
  BY <1>18 DEF ReadyReceived
<1>19. ASSUME NEW m \in Mounts, WorkerDies(m) PROVE PipesHold'
  BY <1>19 DEF WorkerDies, WorkersEnd
<1>20. ASSUME NEW m \in Mounts, AutoUnmount(m) PROVE PipesHold'
  BY <1>20 DEF AutoUnmount
<1>21. ASSUME NEW m \in Mounts, DaemonStop(m) PROVE PipesHold'
  <2>1. /\ commands # <<>> /\ Head(commands) = <<"STOP", m>> /\ commands' = Tail(commands) /\ daemon = "up"
        /\ outputs' = Append(outputs, <<"STOPPED", m>>) /\ UNCHANGED <<pc, cleanup, flags, daemon>>
        /\ worker' = [n \in Mounts |-> IF n \in {m} \cap Workers THEN "dead" ELSE worker[n]]
    BY <1>21 DEF DaemonStop, WorkersEnd
  <2>2. \A x : Holds(commands', x) => Holds(commands, x)
    BY <2>1, CommandRead
  <2>3. Holds(commands, <<"STOP", m>>) /\ ~Holds(commands, <<"START", m>>) /\ pc[m] \notin Early
    <3>0. Holds(commands, Head(commands))
      BY <2>1, CommandRead
    <3>1. Holds(commands, <<"STOP", m>>)
      BY <2>1, <3>0
    <3>2. ~Holds(commands, <<"START", m>>)
      BY <2>1, ShorterOrdered
    <3> QED BY <3>1, <3>2
  <2>4. \A x : Holds(outputs', x) <=> Holds(outputs, x) \/ x = <<"STOPPED", m>>
    BY <2>1, OutputSent
  <2>5. ASSUME NEW n \in Mounts PROVE PipeHolds(n)'
    <3>1. Ordered(commands', n)
      BY <2>1, ShorterOrdered
    <3>2. CASE n = m
      <4>1. worker'[m] \notin Alive /\ ~Holds(commands', <<"START", m>>) /\ pc'[m] \notin Early
        BY <2>1, <2>2, <2>3
      <4> QED BY <3>1, <3>2, <4>1
    <3>3. CASE n # m
      <4>1. worker'[n] = worker[n] /\ (Holds(outputs', <<"STOPPED", n>>) => Holds(outputs, <<"STOPPED", n>>))
        BY <2>1, <2>4, <3>3
      <4> QED BY <2>1, <2>2, <3>1, <4>1
    <3> QED BY <3>2, <3>3
  <2> QED BY <2>1, <2>5
<1>22. ASSUME NEW m \in Mounts, NEW ok \in BOOLEAN, Unmount(m, ok) PROVE PipesHold'
  BY <1>22 DEF Unmount
<1>23. ASSUME NEW m \in Mounts, NEW ok \in BOOLEAN, Verify(m, ok) PROVE PipesHold'
  BY <1>23 DEF Verify, Retiring
<1>24. ASSUME NEW m \in Mounts, NEW ok \in BOOLEAN, DaemonStart(m, ok) PROVE PipesHold'
  <2>1. /\ commands # <<>> /\ Head(commands) = <<"START", m>> /\ commands' = Tail(commands) /\ daemon = "up"
        /\ outputs' = IF ok THEN Append(outputs, <<"STARTED", m>>) ELSE outputs
        /\ UNCHANGED <<pc, cleanup, flags, daemon>>
        /\ worker' = IF ok THEN [worker EXCEPT ![m] = "forked"] ELSE worker
    BY <1>24 DEF DaemonStart
  <2>2. \A x : Holds(commands', x) => Holds(commands, x)
    BY <2>1, CommandRead
  <2>3. Holds(commands, <<"START", m>>) /\ pc[m] \notin Early
    <3>0. Holds(commands, Head(commands))
      BY <2>1, CommandRead
    <3>1. Holds(commands, <<"START", m>>)
      BY <2>1, <3>0
    <3> QED BY <3>1
  <2>4. ASSUME NEW n \in Mounts PROVE Holds(outputs', <<"STOPPED", n>>) <=> Holds(outputs, <<"STOPPED", n>>)
    <3>1. CASE ok
      <4>1. \A x : Holds(outputs', x) <=> Holds(outputs, x) \/ x = <<"STARTED", m>>
        BY <2>1, <3>1, OutputSent
      <4> QED BY <2>1, <3>1, <4>1
    <3>2. CASE ~ok
      BY <2>1, <3>2
    <3> QED BY <3>1, <3>2
  <2>5. ASSUME NEW n \in Mounts PROVE PipeHolds(n)'
    <3>1. Ordered(commands', n)
      BY <2>1, ShorterOrdered
    <3>2. CASE n = m
      <4>1. /\ ~Holds(outputs, <<"STOPPED", m>>) /\ "stopped" \notin flags[m]
            /\ cleanup[m] \notin {"verify", "check", "remove", "done"}
        BY <2>3
      <4> QED BY <2>1, <2>3, <2>4, <3>1, <3>2, <4>1
    <3>3. CASE n # m
      <4>1. worker'[n] = worker[n]
        BY <2>1, <3>3
      <4> QED BY <2>1, <2>2, <2>4, <3>1, <4>1
    <3> QED BY <3>2, <3>3
  <2> QED BY <2>1, <2>5
<1>25. ASSUME NEW ok \in BOOLEAN, Initialize(ok) PROVE PipesHold'
  BY <1>25 DEF Initialize
<1>26. ASSUME NEW i \in StateIds, NEW ok \in BOOLEAN, CreateAgentPolicyState(i, ok) PROVE PipesHold'
  BY <1>26 DEF CreateAgentPolicyState
<1>27. ASSUME NEW i \in StateIds, StateFails(i) PROVE PipesHold'
  BY <1>27 DEF StateFails
<1>28. ASSUME NEW i \in StateIds, Retire(i) PROVE PipesHold'
  BY <1>28 DEF Retire
<1>29. CASE DaemonShutdown
  BY <1>29, EmptyPipe, EmptyOrdered DEF DaemonShutdown, WorkersEnd
<1>30. CASE DaemonDies
  BY <1>30, EmptyPipe, EmptyOrdered DEF DaemonDies, WorkersEnd
<1>31. CASE ExitSeen
  BY <1>31 DEF ExitSeen, FailContexts
<1>32. CASE HandleBrokerOutput
  BY <1>32, ShorterPipe, ShorterOrdered, LineKinds DEF HandleBrokerOutput
<1>33. CASE BeginShutdown
  BY <1>33 DEF BeginShutdown, Shutdown
<1>34. CASE Close
  BY <1>34 DEF Close, Shutdown
<1>35. CASE StartSettled
  BY <1>35 DEF StartSettled, CloserMoves
<1>36. CASE SetupsSettled
  BY <1>36 DEF SetupsSettled, Settings, CloserMoves
<1>37. CASE SetupsTimeOut
  BY <1>37 DEF SetupsTimeOut, Settings, CloserMoves
<1>38. CASE ContextsFinished
  BY <1>38 DEF ContextsFinished, CloserMoves
<1>39. CASE ContextsTimeOut
  BY <1>39 DEF ContextsTimeOut
<1>40. CASE ForcedFinished
  BY <1>40 DEF ForcedFinished, CloserMoves
<1>41. CASE SendShutdown
  BY <1>41, LongerPipe, LongerOrdered, LineKinds DEF SendShutdown, CloserMoves
<1>42. CASE ShutdownTimesOut
  BY <1>42, EmptyPipe, EmptyOrdered DEF ShutdownTimesOut, Terminate, WorkersEnd
<1>43. CASE DaemonGone
  BY <1>43 DEF DaemonGone, CloserMoves
<1>44. CASE StatesSettled
  BY <1>44 DEF StatesSettled, BaseSetups
<1>45. CASE StatesTimeOut
  BY <1>45 DEF StatesTimeOut, BaseSetups, CloserMoves
<1>46. CASE CheckSession
  BY <1>46 DEF CheckSession, DirectoryFree, CloserMoves
<1>47. CASE RemoveSession
  BY <1>47 DEF RemoveSession
<1>48. CASE LateRemoval
  BY <1>48 DEF LateRemoval, BaseSetups
<1>49. CASE UNCHANGED vars
  BY <1>49 DEF vars
<1> HIDE DEF PipesHold
<1> QED BY <1>1, <1>2, <1>3, <1>4, <1>5, <1>6, <1>7, <1>8, <1>9, <1>10, <1>11, <1>12, <1>13, <1>14, <1>15, <1>16,
           <1>17, <1>18, <1>19, <1>20, <1>21, <1>22, <1>23, <1>24, <1>25, <1>26, <1>27, <1>28, <1>29, <1>30, <1>31,
           <1>32, <1>33, <1>34, <1>35, <1>36, <1>37, <1>38, <1>39, <1>40, <1>41, <1>42, <1>43, <1>44, <1>45, <1>46,
           <1>47, <1>48, <1>49
       DEF Next, CommandStep, CleanupStep, WorkerStep, DaemonStep, CloseStep


\* The initial states.
LEMMA SessionStart == ASSUME Init PROVE SessionInv
<1> USE DEF Init
<1>1. Types
  BY EmptySeq DEF Types, TypeOK, Alive, StateIds, NoState
<1>2. ContextsHold /\ SessionHolds /\ DiskHolds
  BY DEF ContextsHold, ContextHolds, SessionHolds, DiskHolds, Early
<1>3. PipesHold
  BY EmptyPipe, EmptyOrdered DEF PipesHold, DaemonHolds, PipeHolds, Over, Workers, Alive
<1>4. MountsHold /\ StatesHold /\ SetupsHold
  BY DEF MountsHold, MountHolds, StatesHold, StateHolds, SetupsHold, Settings
<1> QED BY <1>1, <1>2, <1>3, <1>4 DEF SessionInv

LEMMA SessionStep == ASSUME SessionInv, [Next]_vars PROVE SessionInv'
BY SessionTypes, SessionContexts, SessionDaemon, SessionDisk, SessionPipes, SessionMounts, SessionStates,
   SessionSetups DEF SessionInv

\* What the invariant says of the states.
LEMMA SessionSafeNow ==
    ASSUME SessionInv PROVE TypeOK /\ MountsKeepTheirDirectory /\ NoOrphanWorker /\ FailsClosed
<1> USE DEF SessionInv
<1>1. TypeOK
  BY DEF Types
<1>2. MountsKeepTheirDirectory
  BY <1>1 DEF MountsKeepTheirDirectory, MountsHold, MountHolds, DiskHolds, TypeOK
<1>3. NoOrphanWorker
  <2>1. commands \in Seq(Lines) /\ DOMAIN commands = 1..Len(commands)
    BY DEF Types
  <2>2. ASSUME NEW m \in Mounts, cleanup[m] \in {"verify", "check", "remove", "done"}
        PROVE  m \notin Workers /\ \A k \in DOMAIN commands : commands[k] # <<"START", m>>
    <3>1. Over(m)
      BY <2>2 DEF PipesHold, PipeHolds
    <3> QED BY <2>1, <3>1 DEF Over, Holds, Workers
  <2>3. closer = "done" => Workers = {} /\ contexts = {} /\ daemon \in {"none", "exited"}
    BY DEF SessionHolds, PipesHold, DaemonHolds
  <2> QED BY <2>2, <2>3 DEF NoOrphanWorker
<1>4. FailsClosed
  BY <1>1 DEF FailsClosed, StatesHold, StateHolds, TypeOK
<1> QED BY <1>1, <1>2, <1>3, <1>4

\* Only the mkdir of a setup and the start of the session make the directory.
LEMMA DirectoryStaysAway ==
    ASSUME SessionInv, [Next]_vars, closer = "done", "late" \notin overdue, ~root
    PROVE  ~root'
<1>1. Settings = {} /\ session # "starting"
  BY DEF SessionInv, SetupsHold, SessionHolds
<1> SUFFICES ASSUME root' # root PROVE FALSE
  OBVIOUS
<1>2. root = FALSE
  BY DEF SessionInv, Types, TypeOK
<1> USE DEF closeVars, contextVars, stopVars, stateVars, pipeVars, diskVars
<1>3. ASSUME NEW m \in Mounts, CommandStep(m) PROVE FALSE
  <2>1. ~DirectoryMade(m)
    BY <1>1 DEF DirectoryMade, Settings
  <2> QED BY <1>3, <2>1 DEF CommandStep, WithFilesystem, CreateContext, StartMkdir, Register, Mounted, MountFails, RunEnds,
                            AbortCommand
<1>4. ASSUME NEW m \in Mounts, CleanupStep(m) PROVE FALSE
  BY <1>4 DEF CleanupStep, Unmount, Verify, StopWorker, StopConfirmed, StopTimesOut, CheckMount, RemoveDirectory, Finish
<1>5. ASSUME NEW m \in Mounts, WorkerStep(m) PROVE FALSE
  BY <1>5 DEF WorkerStep, Connect, KernelMount, ReadyReceived, WorkerDies, AutoUnmount
<1>6. ASSUME NEW ok \in BOOLEAN, Initialize(ok) \/ \E i \in StateIds : CreateAgentPolicyState(i, ok) PROVE FALSE
  BY <1>1, <1>6 DEF Initialize, CreateAgentPolicyState
<1>7. ASSUME NEW i \in StateIds, StateFails(i) \/ Retire(i) PROVE FALSE
  BY <1>7 DEF StateFails, Retire
<1>8. CASE DaemonStep \/ ExitSeen \/ HandleBrokerOutput
  BY <1>8 DEF DaemonStep, DaemonStop, DaemonStart, DaemonShutdown, DaemonDies, ExitSeen, HandleBrokerOutput
<1>9. CASE BeginShutdown \/ Close \/ CloseStep
  BY <1>9 DEF BeginShutdown, Close, CloseStep, CloserMoves, StartSettled, SetupsSettled, SetupsTimeOut, ContextsFinished,
              ContextsTimeOut, ForcedFinished, SendShutdown, ShutdownTimesOut, DaemonGone, StatesSettled, StatesTimeOut,
              CheckSession, RemoveSession
<1>10. CASE LateRemoval
  BY <1>2, <1>10 DEF LateRemoval
<1>11. CASE UNCHANGED vars
  BY <1>11 DEF vars
<1> QED BY <1>3, <1>4, <1>5, <1>6, <1>7, <1>8, <1>9, <1>10, <1>11 DEF Next

\* Mounts, workers, contexts and directories of a session end in the right order,
\* for any number of commands and policy states: a live mount keeps its
\* directories, a worker whose stop is over can neither live nor be started, a
\* context that must not go on is aborted, and a session directory that
\* performClose removed stays away.
THEOREM SessionSafeTheorem == Spec => SessionSafe
<1>1. Spec => []SessionInv
  BY SessionStart, SessionStep, PTL DEF Spec
<1>2. ASSUME SessionInv, [Next]_vars
      PROVE  [closer = "done" /\ "late" \notin overdue /\ ~root => ~root']_vars
  BY <1>2, DirectoryStaysAway
<1> QED BY <1>1, <1>2, SessionSafeNow, PTL DEF Spec, SessionSafe, RemovedForGood

-----------------------------------------------------------------------------
(* Callbacks on handles                                                    *)

CallbackSpec == CallbackInit /\ [][CallbackNext]_callbackVars

CallSteps == {"idle", "entered", "locked", "asking", "decided", "opened", "granted", "resolved",
              "listing", "failing"}
Calls == [op : {"none", "open", "opendir", "read", "write", "readdir"}, name : Names \cup {None},
          access : Accesses, at : CallSteps, evaluated : Shown \cup {None}, restart : BOOLEAN,
          fd : Real \cup {None}]
OpenFiles == [inode : Real, name : Names, started : BOOLEAN]
OpenFolders == [inode : Real \cup {None}, name : Names, started : BOOLEAN]

CallbackTypeOK ==
    /\ tree \in [Real -> Real] /\ target \in Real
    /\ table \in [Shown \X Accesses -> Decisions]
    /\ call \in [Threads -> Calls]
    /\ file \in OpenFiles \cup {Closed} /\ folder \in OpenFolders \cup {Closed}
    /\ descriptors \in Int
    /\ witness \in [Threads -> SUBSET Real]

\* What holds of the callback of a thread at each of its steps: the handle it uses
\* is open, it holds the mutexes it has taken, what it evaluated is allowed until
\* it lets go of the policy, and a descriptor it opened was allowed meanwhile.
CallOK(t) ==
    /\ In(t, "idle") => call[t].op = "none"
    /\ ~In(t, "idle") => call[t].name \in Names
    /\ call[t].op \in Accesses => file # Closed
    /\ call[t].op = "readdir" => folder # Closed
    /\ call[t].at \in {"asking", "decided", "opened"} => policyMutex = t /\ call[t].evaluated \in Shown
    /\ call[t].at \in {"decided", "opened"} => table[<<call[t].evaluated, call[t].access>>] = "allow"
    /\ In(t, "resolved") => call[t].evaluated \in Shown
    /\ call[t].at \in {"locked", "opened", "listing", "failing"} => call[t].op = "readdir"
    /\ call[t].op = "readdir" => In(t, "entered") \/ folderMutex = t
    /\ call[t].fd # None <=> call[t].op = "readdir" /\ call[t].at \in {"opened", "granted"}
    /\ call[t].fd # None => call[t].fd \in witness[t]
    /\ In(t, "granted") /\ call[t].op \in Accesses => file.inode \in witness[t]
    /\ In(t, "listing") => folder.inode \in witness[t]

CallbackInv == CallbackTypeOK /\ (\A t \in Threads : CallOK(t)) /\ DescriptorsOwned

-----------------------------------------------------------------------------
\* What a step of another thread or process leaves a callback in the middle of.
Untouched(u) ==
    /\ call'[u] = call[u]
    /\ policyMutex = u => policyMutex' = u /\ \A e \in Shown \X Accesses : table[e] = "allow" => table'[e] = "allow"
    /\ call[u].op \in Accesses => file' = file
    /\ call[u].op = "readdir" => /\ folder' # Closed
                                 /\ folderMutex = u => folderMutex' = u /\ folder' = folder

Held(x) == IF x = None THEN 0 ELSE 1

\* What a step of the callback of t has to show.
Sound(t) ==
    /\ CallbackTypeOK' /\ CallOK(t)' /\ \A u \in Threads \ {t} : Untouched(u)
    /\ descriptors' - Held(folder'.inode) - Held(call'[t].fd) = descriptors - Held(folder.inode) - Held(call[t].fd)

\* During a callback the witness only grows.
LEMMA WitnessGrows ==
    ASSUME CallbackTypeOK, NEW t \in Threads, Watch, call'[t].at # "idle"
    PROVE  witness[t] \subseteq witness'[t] /\ AllowedInodes(tree', table', call'[t].access) \subseteq witness'[t]
BY DEF Watch, CallbackTypeOK

\* What is at a path allowed now is in the witness of the callback.
LEMMA AllowedIsWitnessed ==
    ASSUME CallbackTypeOK, NEW t \in Threads, Watch, call'[t].at # "idle", NEW p \in Shown,
           table'[<<p, call'[t].access>>] = "allow"
    PROVE  tree'[p] \in witness'[t]
<1>1. tree'[p] \in AllowedInodes(tree', table', call'[t].access)
  BY DEF AllowedInodes
<1> QED BY <1>1, WitnessGrows

LEMMA WitnessTyped ==
    ASSUME Watch, tree' \in [Real -> Real]
    PROVE  witness' \in [Threads -> SUBSET Real] \/ ~(witness \in [Threads -> SUBSET Real])
<1> SUFFICES ASSUME witness \in [Threads -> SUBSET Real] PROVE witness' \in [Threads -> SUBSET Real]
  OBVIOUS
<1>1. \A a : AllowedInodes(tree', table', a) \subseteq Real
  BY DEF AllowedInodes, Shown
<1> QED BY <1>1 DEF Watch

LEMMA UntouchedKeeps ==
    ASSUME CallbackTypeOK, NEW u \in Threads, CallOK(u), Untouched(u), Watch
    PROVE  CallOK(u)'
<1>1. call'[u] = call[u] /\ (~In(u, "idle") => witness[u] \subseteq witness'[u])
  BY WitnessGrows DEF Untouched, In
<1>2. call[u] \in Calls
  BY DEF CallbackTypeOK
<1>3. call[u].evaluated \in Shown => <<call[u].evaluated, call[u].access>> \in Shown \X Accesses
  BY <1>2 DEF Calls
<1>4. call[u].at \in {"decided", "opened"} => table'[<<call[u].evaluated, call[u].access>>] = "allow"
  BY <1>3 DEF CallOK, Untouched
<1>5. call[u].fd # None => call[u].fd \in witness'[u]
  BY <1>1 DEF CallOK, In
<1>6. call[u].at = "granted" /\ call[u].op \in Accesses => file'.inode \in witness'[u]
  BY <1>1 DEF CallOK, In, Untouched
<1>7. call[u].at = "listing" => folder'.inode \in witness'[u]
  BY <1>1 DEF CallOK, In, Untouched
<1>8. /\ call[u].op \in Accesses => file' # Closed
      /\ call[u].op = "readdir" => folder' # Closed
      /\ call[u].at \in {"asking", "decided", "opened"} => policyMutex' = u
      /\ call[u].op = "readdir" => call[u].at = "entered" \/ folderMutex' = u
  BY DEF CallOK, In, Untouched
<1> QED BY <1>1, <1>4, <1>5, <1>6, <1>7, <1>8 DEF CallOK, In

\* The descriptors callbacks hold, when the call of one thread changes.
LEMMA HoldersCounted ==
    ASSUME CallbackTypeOK, NEW t \in Threads, \A u \in Threads \ {t} : call'[u] = call[u]
    PROVE  /\ Cardinality({u \in Threads : call'[u].fd # None}) - Held(call'[t].fd)
                = Cardinality({u \in Threads : call[u].fd # None}) - Held(call[t].fd)
           /\ Cardinality({u \in Threads : call[u].fd # None}) \in Nat
           /\ Cardinality({u \in Threads : call'[u].fd # None}) \in Nat
<1> DEFINE old == {u \in Threads : call[u].fd # None}
           new == {u \in Threads : call'[u].fd # None}
           rest == {u \in Threads \ {t} : call[u].fd # None}
<1>1. IsFiniteSet(rest) /\ t \notin rest
  BY CallbackAssumption, FS_Subset
<1>2. Cardinality(rest) \in Nat /\ Cardinality(rest \cup {t}) = Cardinality(rest) + 1
  BY <1>1, FS_CardinalityType, FS_AddElement
<1>3. old = (IF call[t].fd = None THEN rest ELSE rest \cup {t}) /\ new = (IF call'[t].fd = None THEN rest ELSE rest \cup {t})
  OBVIOUS
<1> HIDE DEF old, new, rest
<1>4. Cardinality(old) = Cardinality(rest) + Held(call[t].fd) /\ Cardinality(new) = Cardinality(rest) + Held(call'[t].fd)
  BY <1>2, <1>3 DEF Held
<1>5. Held(call[t].fd) \in Nat /\ Held(call'[t].fd) \in Nat
  BY DEF Held
<1>6. Cardinality(old) \in Nat /\ Cardinality(new) \in Nat /\ Cardinality(new) - Held(call'[t].fd) = Cardinality(old) - Held(call[t].fd)
  BY <1>2, <1>4, <1>5
<1> QED BY <1>6 DEF old, new

LEMMA SoundKeeps ==
    ASSUME CallbackInv, NEW t \in Threads, Sound(t), Watch
    PROVE  CallbackInv'
<1>1. CallbackTypeOK /\ CallbackTypeOK' /\ \A u \in Threads : CallOK(u)
  BY DEF CallbackInv, Sound
<1>2. \A u \in Threads : CallOK(u)'
  BY <1>1, UntouchedKeeps DEF Sound
<1>3. DescriptorsOwned'
  <2> DEFINE a == Cardinality({u \in Threads : call[u].fd # None})
             b == Cardinality({u \in Threads : call'[u].fd # None})
  <2>1. a \in Nat /\ b \in Nat /\ b - Held(call'[t].fd) = a - Held(call[t].fd)
    BY <1>1, HoldersCounted DEF Sound, Untouched
  <2>2. descriptors = Held(folder.inode) + a /\ descriptors \in Int /\ descriptors' \in Int
    BY <1>1 DEF CallbackInv, CallbackTypeOK, DescriptorsOwned, Held
  <2>3. /\ Held(folder.inode) \in Nat /\ Held(folder'.inode) \in Nat
        /\ Held(call[t].fd) \in Nat /\ Held(call'[t].fd) \in Nat
    BY DEF Held
  <2>4. descriptors' - Held(folder'.inode) - Held(call'[t].fd) = descriptors - Held(folder.inode) - Held(call[t].fd)
    BY DEF Sound
  <2> HIDE DEF a, b
  <2> DEFINE d == descriptors
             d1 == descriptors'
             f == Held(folder.inode)
             f1 == Held(folder'.inode)
             h == Held(call[t].fd)
             h1 == Held(call'[t].fd)
  <2>5. /\ f \in Nat /\ f1 \in Nat /\ h \in Nat /\ h1 \in Nat /\ a \in Nat /\ b \in Nat /\ d \in Int /\ d1 \in Int
        /\ d = f + a /\ b - h1 = a - h /\ d1 - f1 - h1 = d - f - h
    BY <2>1, <2>2, <2>3, <2>4
  <2> HIDE DEF d, d1, f, f1, h, h1
  <2>6. d1 = f1 + b
    BY <2>5
  <2> QED BY <2>6 DEF DescriptorsOwned, Held, b, d1, f1
<1> QED BY <1>1, <1>2, <1>3 DEF CallbackInv

-----------------------------------------------------------------------------
\* The call of t is replaced by c and the others are left alone.
LEMMA CallReplaced ==
    ASSUME CallbackTypeOK, NEW t \in Threads, NEW c, c \in Calls, call' = [call EXCEPT ![t] = c]
    PROVE  call' \in [Threads -> Calls] /\ call'[t] = c /\ \A u \in Threads \ {t} : call'[u] = call[u]
BY DEF CallbackTypeOK

LEMMA IdleCallTyped == IdleCall \in Calls /\ IdleCall.at = "idle" /\ IdleCall.op = "none" /\ IdleCall.fd = None
BY DEF IdleCall, Calls, CallSteps, Accesses

\* An idle thread has nothing to account for.
LEMMA IdleIsOK ==
    ASSUME NEW t \in Threads, call'[t] = IdleCall
    PROVE  CallOK(t)'
BY IdleCallTyped DEF CallOK, In, Accesses

\* A callback ends: it lets go of what it held, or leaves the handle's mutex poisoned.
Ends(t) ==
    /\ call' = [call EXCEPT ![t] = IdleCall]
    /\ policyMutex' = Unlocked(policyMutex, t)
    /\ folderMutex' \in {folderMutex, Unlocked(folderMutex, t)}
    /\ descriptors' = descriptors - Held(call[t].fd)

\* A callback that ends with the handles as they are.
LEMMA EndSound ==
    ASSUME CallbackInv, NEW t \in Threads, Ends(t), Watch, UNCHANGED <<file, folder>>, HostRest,
           table' \in [Shown \X Accesses -> Decisions],
           policyMutex # t => table' = table
    PROVE  Sound(t)
<1>0. CallbackTypeOK /\ \A u \in Threads : CallOK(u)
  BY DEF CallbackInv
<1>1. call' \in [Threads -> Calls] /\ call'[t] = IdleCall /\ \A u \in Threads \ {t} : call'[u] = call[u]
  BY <1>0, CallReplaced, IdleCallTyped DEF Ends
<1>2. witness' \in [Threads -> SUBSET Real] /\ tree' = tree /\ target' = target
  BY <1>0, WitnessTyped DEF HostRest, CallbackTypeOK
<1>3. descriptors' \in Int /\ descriptors' = descriptors - Held(call[t].fd) /\ descriptors \in Int
  BY <1>0 DEF Ends, Held, CallbackTypeOK
<1>4. CallbackTypeOK'
  BY <1>0, <1>1, <1>2, <1>3 DEF CallbackTypeOK
<1>5. CallOK(t)'
  BY <1>1, IdleIsOK
<1>6. ASSUME NEW u \in Threads \ {t} PROVE Untouched(u)
  <2>1. CallOK(u) /\ u # t /\ call'[u] = call[u]
    BY <1>0, <1>1
  <2>2. policyMutex = u => policyMutex' = u /\ table' = table
    BY <2>1 DEF Ends, Unlocked
  <2>3. folderMutex = u => folderMutex' = u
    BY <2>1 DEF Ends, Unlocked
  <2> QED BY <2>1, <2>2, <2>3 DEF Untouched, CallOK
<1>7. Held(call'[t].fd) = 0
  BY <1>1, IdleCallTyped DEF Held
<1>8. Held(folder.inode) \in Nat /\ Held(call[t].fd) \in Nat /\ folder' = folder
  BY DEF Held
<1>9. descriptors' - Held(folder'.inode) - Held(call'[t].fd) = descriptors - Held(folder.inode) - Held(call[t].fd)
  BY <1>3, <1>7, <1>8
<1> QED BY <1>4, <1>5, <1>6, <1>9 DEF Sound

LEMMA ReturnSound ==
    ASSUME CallbackInv, NEW t \in Threads, Returned(t), Watch, UNCHANGED <<file, folder>>, HostRest,
           table' \in [Shown \X Accesses -> Decisions],
           policyMutex # t => table' = table
    PROVE  Sound(t)
<1>1. Ends(t)
  BY DEF Returned, Ends, Held
<1> QED BY <1>1, EndSound

\* A callback that goes on without touching the handles: what its next step needs.
LEMMA AdvanceSound ==
    ASSUME CallbackInv, NEW t \in Threads, NEW c \in Calls, call' = [call EXCEPT ![t] = c], Watch,
           UNCHANGED <<file, folder>>, HostRest, table' \in [Shown \X Accesses -> Decisions],
           policyMutex # t => table' = table,
           \A e \in Shown \X Accesses : table[e] = "allow" => table'[e] = "allow",
           \A u \in Threads \ {t} : policyMutex = u => policyMutex' = u,
           \A u \in Threads \ {t} : folderMutex = u => folderMutex' = u,
           descriptors' = descriptors - Held(call[t].fd) + Held(c.fd),
           CallOK(t)'
    PROVE  Sound(t)
<1>0. CallbackTypeOK /\ \A u \in Threads : CallOK(u)
  BY DEF CallbackInv
<1>1. call' \in [Threads -> Calls] /\ call'[t] = c /\ \A u \in Threads \ {t} : call'[u] = call[u]
  BY <1>0, CallReplaced
<1>2. witness' \in [Threads -> SUBSET Real] /\ tree' = tree /\ target' = target
  BY <1>0, WitnessTyped DEF HostRest, CallbackTypeOK
<1>3. Held(folder.inode) \in Nat /\ Held(call[t].fd) \in Nat /\ Held(c.fd) \in Nat /\ folder' = folder /\ descriptors \in Int
  BY <1>0 DEF Held, CallbackTypeOK
<1>4. CallbackTypeOK'
  BY <1>0, <1>1, <1>2, <1>3 DEF CallbackTypeOK
<1>5. ASSUME NEW u \in Threads \ {t} PROVE Untouched(u)
  <2>1. CallOK(u) /\ u # t /\ call'[u] = call[u]
    BY <1>0, <1>1
  <2> QED BY <2>1 DEF Untouched, CallOK
<1>6. descriptors' - Held(folder'.inode) - Held(call'[t].fd) = descriptors - Held(folder.inode) - Held(call[t].fd)
  BY <1>1, <1>3
<1> QED BY <1>4, <1>5, <1>6 DEF Sound

-----------------------------------------------------------------------------
\* A callback begins.
LEMMA EnterSound ==
    ASSUME CallbackInv, NEW t \in Threads, Watch,
           EnterOpen(t) \/ EnterOpendir(t) \/ EnterData(t) \/ EnterReaddir(t)
    PROVE  Sound(t)
<1>0. CallbackTypeOK /\ CallOK(t)
  BY DEF CallbackInv
<1>1. PICK op \in {"open", "opendir", "read", "write", "readdir"}, name \in Names, access \in Accesses, restart \in BOOLEAN :
        /\ Enter(t, op, name, access, restart)
        /\ op \in Accesses => file # Closed
        /\ op = "readdir" => folder # Closed
  <2>1. CASE EnterOpen(t)
    BY <2>1 DEF EnterOpen, Accesses
  <2>2. CASE EnterOpendir(t)
    BY <2>2 DEF EnterOpendir, Accesses
  <2>3. CASE EnterData(t)
    BY <1>0, <2>3 DEF EnterData, Accesses, CallbackTypeOK, OpenFiles
  <2>4. CASE EnterReaddir(t)
    BY <1>0, <2>4 DEF EnterReaddir, Accesses, CallbackTypeOK, OpenFolders
  <2> QED BY <2>1, <2>2, <2>3, <2>4
<1> DEFINE c == [IdleCall EXCEPT !.op = op, !.name = name, !.access = access,
                    !.restart = restart, !.at = IF op = "opendir" THEN "granted" ELSE "entered"]
<1>2. /\ c \in Calls /\ c.at = (IF op = "opendir" THEN "granted" ELSE "entered") /\ c.op = op /\ c.name = name /\ c.fd = None
  BY DEF IdleCall, Calls, CallSteps, Accesses
<1>3. call[t].at = "idle" /\ call' = [call EXCEPT ![t] = c]
  BY <1>1 DEF Enter, In
<1> HIDE DEF c
<1>4. call'[t] = c
  BY <1>0, <1>2, <1>3, CallReplaced
<1>5. call[t].fd = None
  BY <1>0, <1>3 DEF CallOK
<1>6. /\ UNCHANGED <<table, policyMutex, folderMutex, descriptors, file, folder>> /\ HostRest
  BY <1>1 DEF Enter, Handles
<1>7. CallOK(t)'
  BY <1>1, <1>2, <1>4, <1>6 DEF CallOK, In, Accesses
<1>8. descriptors' = descriptors - Held(call[t].fd) + Held(c.fd)
  BY <1>0, <1>2, <1>5, <1>6 DEF Held, CallbackTypeOK
<1>9. table' \in [Shown \X Accesses -> Decisions] /\ table' = table
  BY <1>0, <1>6 DEF CallbackTypeOK
<1> QED BY <1>2, <1>3, <1>6, <1>7, <1>8, <1>9, AdvanceSound

\* readdir takes its handle's mutex, or finds it poisoned.
LEMMA LockSound ==
    ASSUME CallbackInv, NEW t \in Threads, Watch, LockFolder(t) \/ FolderPoisoned(t)
    PROVE  Sound(t)
<1>0. CallbackTypeOK /\ CallOK(t) /\ table \in [Shown \X Accesses -> Decisions] /\ call[t] \in Calls
  BY DEF CallbackInv, CallbackTypeOK
<1>1. CASE LockFolder(t)
  <2> DEFINE c == [call[t] EXCEPT !.at = "locked"]
  <2>1. c \in Calls /\ c.at = "locked" /\ c.op = call[t].op /\ c.name = call[t].name /\ c.fd = call[t].fd
    BY <1>0 DEF Calls, CallSteps
  <2>2. call' = [call EXCEPT ![t] = c]
    BY <1>1 DEF LockFolder, Step
  <2> HIDE DEF c
  <2>3. call'[t] = c
    BY <1>0, <2>1, <2>2, CallReplaced
  <2>4. /\ call[t].at = "entered" /\ call[t].op = "readdir" /\ folderMutex = None /\ folderMutex' = t
        /\ UNCHANGED <<table, policyMutex, descriptors, file, folder>> /\ HostRest
    BY <1>1 DEF LockFolder, In, Handles
  <2>5. c.fd = None /\ folder' # Closed /\ c.name \in Names
    BY <1>0, <2>1, <2>4 DEF CallOK, In
  <2>6. CallOK(t)'
    BY <2>1, <2>3, <2>4, <2>5 DEF CallOK, In, Accesses
  <2>7. descriptors' = descriptors - Held(call[t].fd) + Held(c.fd)
    BY <1>0, <2>1, <2>4, <2>5 DEF Held, CallbackTypeOK
  <2>8. \A u \in Threads \ {t} : folderMutex = u => folderMutex' = u
    BY <2>4, CallbackAssumption
  <2> QED BY <1>0, <2>1, <2>2, <2>4, <2>6, <2>7, <2>8, AdvanceSound
<1>2. CASE FolderPoisoned(t)
  BY <1>0, <1>2, ReturnSound DEF FolderPoisoned, Handles
<1> QED BY <1>1, <1>2

\* A visible name resolves to a visible path.
LEMMA ResolvedVisible ==
    ASSUME CallbackTypeOK, NEW name \in Names, Resolved(name) # None
    PROVE  Resolved(name) \in Shown
BY DEF Resolved, Realpath, CallbackTypeOK, Names, Shown

\* authorize: a path that is not denied is evaluated under the policy's mutex.
LEMMA AuthorizeSound ==
    ASSUME CallbackInv, NEW t \in Threads, Watch, Authorize(t)
    PROVE  Sound(t)
<1>0. CallbackTypeOK /\ CallOK(t) /\ table \in [Shown \X Accesses -> Decisions] /\ call[t] \in Calls
  BY DEF CallbackInv, CallbackTypeOK
<1>1. CASE Returned(t)
  BY <1>0, <1>1, ReturnSound DEF Authorize, Handles
<1>2. CASE ~Returned(t)
  <2> DEFINE path == Resolved(call[t].name)
             next == IF table[<<path, call[t].access>>] = "ask" THEN "asking" ELSE "decided"
             c == [call[t] EXCEPT !.evaluated = path, !.at = next]
  <2>1. /\ call[t].at = (IF call[t].op = "readdir" THEN "locked" ELSE "entered") /\ policyMutex = None /\ policyMutex' = t
        /\ path # None /\ table[<<path, call[t].access>>] # "deny" /\ call' = [call EXCEPT ![t] = c]
        /\ UNCHANGED <<table, folderMutex, descriptors, file, folder>> /\ HostRest
    BY <1>2 DEF Authorize, In, Handles
  <2>2. path \in Shown /\ call[t].access \in Accesses /\ call[t].name \in Names
    <3>1. call[t].name \in Names /\ call[t].access \in Accesses
      BY <1>0, <2>1 DEF CallOK, In, Calls
    <3> QED BY <1>0, <2>1, <3>1, ResolvedVisible
  <2>3. table[<<path, call[t].access>>] \in {"allow", "ask"}
    <3>1. <<path, call[t].access>> \in Shown \X Accesses
      BY <2>2
    <3> QED BY <1>0, <2>1, <3>1 DEF Decisions
  <2> HIDE DEF path
  <2>4. /\ c \in Calls /\ c.at = next /\ c.evaluated = path /\ c.op = call[t].op /\ c.name = call[t].name
        /\ c.fd = call[t].fd /\ c.access = call[t].access
    BY <1>0, <2>2 DEF Calls, CallSteps
  <2>5. next \in {"asking", "decided"} /\ (next = "decided" => table[<<path, call[t].access>>] = "allow")
    BY <2>3
  <2> HIDE DEF c, next
  <2>6. call'[t] = c
    BY <1>0, <2>1, <2>4, CallReplaced
  <2>7. /\ c.fd = None /\ (c.op \in Accesses => file' # Closed)
        /\ (c.op = "readdir" => folder' # Closed /\ folderMutex' = t)
    BY <1>0, <2>1, <2>4 DEF CallOK, In
  <2>8. CallOK(t)'
    BY <2>1, <2>2, <2>4, <2>5, <2>6, <2>7 DEF CallOK, In
  <2>9. descriptors' = descriptors - Held(call[t].fd) + Held(c.fd)
    BY <1>0, <2>1, <2>4, <2>7 DEF Held, CallbackTypeOK
  <2>10. \A u \in Threads \ {t} : policyMutex = u => policyMutex' = u
    BY <2>1, CallbackAssumption
  <2> QED BY <1>0, <2>1, <2>4, <2>8, <2>9, <2>10, AdvanceSound
<1> QED BY <1>1, <1>2

\* The answer goes into the policy whether or not the name still resolves as it did.
LEMMA AnswerSound ==
    ASSUME CallbackInv, NEW t \in Threads, Watch, NEW yes \in BOOLEAN, Answer(t, yes)
    PROVE  Sound(t)
<1>0. CallbackTypeOK /\ CallOK(t) /\ table \in [Shown \X Accesses -> Decisions] /\ call[t] \in Calls
  BY DEF CallbackInv, CallbackTypeOK
<1> DEFINE e == <<call[t].evaluated, call[t].access>>
<1>1. /\ call[t].at = "asking" /\ policyMutex = t /\ e \in Shown \X Accesses
      /\ UNCHANGED <<file, folder>> /\ HostRest
  BY <1>0 DEF Answer, In, CallOK, Handles, Calls
<1>2. table' \in [Shown \X Accesses -> Decisions] /\ (yes => table'[e] = "allow")
      /\ \A x \in Shown \X Accesses : table[x] = "allow" => table'[x] = "allow"
  BY <1>0, <1>1 DEF Answer, Decisions
<1>3. CASE Returned(t)
  BY <1>1, <1>2, <1>3, ReturnSound
<1>4. CASE ~Returned(t)
  <2> DEFINE c == [call[t] EXCEPT !.at = "decided"]
  <2>1. yes /\ call' = [call EXCEPT ![t] = c] /\ UNCHANGED <<policyMutex, folderMutex, descriptors>>
    BY <1>4 DEF Answer, Step
  <2>2. /\ c \in Calls /\ c.at = "decided" /\ c.evaluated = call[t].evaluated /\ c.op = call[t].op /\ c.name = call[t].name
        /\ c.fd = call[t].fd /\ c.access = call[t].access
    BY <1>0 DEF Calls, CallSteps
  <2> HIDE DEF c
  <2>3. call'[t] = c
    BY <1>0, <2>1, <2>2, CallReplaced
  <2>4. CallOK(t)'
    BY <1>0, <1>1, <1>2, <2>1, <2>2, <2>3 DEF CallOK, In
  <2>5. descriptors' = descriptors - Held(call[t].fd) + Held(c.fd)
    BY <1>0, <2>1, <2>2 DEF Held, CallbackTypeOK
  <2> QED BY <1>1, <1>2, <2>1, <2>2, <2>4, <2>5, AdvanceSound
<1> QED BY <1>3, <1>4

\* A step that is granted lets go of the policy.
LEMMA GrantedSound ==
    ASSUME CallbackInv, NEW t \in Threads, Watch, GrantHandle(t) \/ VerifyDirectory(t)
    PROVE  Sound(t)
<1>0. CallbackTypeOK /\ CallOK(t) /\ table \in [Shown \X Accesses -> Decisions] /\ call[t] \in Calls
  BY DEF CallbackInv, CallbackTypeOK
<1>1. CASE Returned(t)
  BY <1>0, <1>1, ReturnSound DEF GrantHandle, VerifyDirectory, Handles
<1>2. CASE ~Returned(t)
  <2> DEFINE c == [call[t] EXCEPT !.at = "granted"]
  <2>1. /\ call[t].at \in {"decided", "opened"} /\ (call[t].at = "decided" => call[t].op # "readdir" /\ Retained(t))
        /\ call' = [call EXCEPT ![t] = c] /\ policyMutex' = None
        /\ UNCHANGED <<table, folderMutex, descriptors, file, folder>> /\ HostRest
    BY <1>2 DEF GrantHandle, VerifyDirectory, Step, In, Handles
  <2>2. /\ c \in Calls /\ c.at = "granted" /\ c.op = call[t].op /\ c.name = call[t].name
        /\ c.fd = call[t].fd /\ c.access = call[t].access
    BY <1>0 DEF Calls, CallSteps
  <2> HIDE DEF c
  <2>3. call'[t] = c
    BY <1>0, <2>1, <2>2, CallReplaced
  <2>4. policyMutex = t /\ call[t].evaluated \in Shown /\ table'[<<call[t].evaluated, call'[t].access>>] = "allow"
    BY <1>0, <2>1, <2>2, <2>3 DEF CallOK
  <2>5. tree'[call[t].evaluated] \in witness'[t] /\ witness[t] \subseteq witness'[t]
    BY <1>0, <2>2, <2>3, <2>4, AllowedIsWitnessed, WitnessGrows
  <2>6. c.op \in Accesses => file'.inode \in witness'[t]
    BY <1>0, <2>1, <2>2, <2>5 DEF Retained, HostRest, CallOK, Accesses
  <2>7. /\ c.fd # None <=> c.op = "readdir" /\ c.at \in {"opened", "granted"}
        /\ c.fd # None => c.fd \in witness'[t]
    BY <1>0, <2>1, <2>2, <2>5 DEF CallOK
  <2>8. /\ c.name \in Names /\ (c.op \in Accesses => file' # Closed) /\ (c.op = "readdir" => folder' # Closed /\ folderMutex' = t)
    BY <1>0, <2>1, <2>2 DEF CallOK, In
  <2>9. CallOK(t)'
    BY <2>2, <2>3, <2>6, <2>7, <2>8 DEF CallOK, In
  <2>10. descriptors' = descriptors - Held(call[t].fd) + Held(c.fd)
    BY <1>0, <2>1, <2>2 DEF Held, CallbackTypeOK
  <2>11. \A u \in Threads \ {t} : policyMutex = u => policyMutex' = u
    BY <2>4
  <2> QED BY <1>0, <2>1, <2>2, <2>9, <2>10, <2>11, AdvanceSound
<1> QED BY <1>1, <1>2

\* A step that opens a handle, or replaces what is behind the one it has locked.
LEMMA HandleSound ==
    ASSUME CallbackInv, NEW t \in Threads, NEW c \in Calls, call' = [call EXCEPT ![t] = c], Watch, HostRest,
           file' \in OpenFiles \cup {Closed}, folder' \in OpenFolders \cup {Closed},
           file = Closed \/ file' = file,
           folder = Closed \/ folder' = folder \/ (folderMutex = t /\ folder' # Closed),
           UNCHANGED <<table, policyMutex, folderMutex>>,
           descriptors' = descriptors - Held(folder.inode) - Held(call[t].fd) + Held(folder'.inode) + Held(c.fd),
           CallOK(t)'
    PROVE  Sound(t)
<1>0. CallbackTypeOK /\ \A u \in Threads : CallOK(u)
  BY DEF CallbackInv
<1>1. call' \in [Threads -> Calls] /\ call'[t] = c /\ \A u \in Threads \ {t} : call'[u] = call[u]
  BY <1>0, CallReplaced
<1>2. witness' \in [Threads -> SUBSET Real] /\ tree' = tree /\ target' = target
  BY <1>0, WitnessTyped DEF HostRest, CallbackTypeOK
<1>3. /\ Held(folder.inode) \in Nat /\ Held(folder'.inode) \in Nat /\ Held(call[t].fd) \in Nat /\ Held(c.fd) \in Nat
      /\ descriptors \in Int
  BY <1>0 DEF Held, CallbackTypeOK
<1>4. descriptors' \in Int /\ descriptors' - Held(folder'.inode) - Held(c.fd) = descriptors - Held(folder.inode) - Held(call[t].fd)
  BY <1>3
<1>5. CallbackTypeOK'
  BY <1>0, <1>1, <1>2, <1>4 DEF CallbackTypeOK
<1>6. ASSUME NEW u \in Threads \ {t} PROVE Untouched(u)
  <2>1. CallOK(u) /\ u # t /\ call'[u] = call[u]
    BY <1>0, <1>1
  <2> QED BY <2>1 DEF Untouched, CallOK
<1> QED BY <1>1, <1>4, <1>5, <1>6 DEF Sound

LEMMA OpenDirectorySound ==
    ASSUME CallbackInv, NEW t \in Threads, Watch, OpenDirectory(t)
    PROVE  Sound(t)
<1>0. CallbackTypeOK /\ CallOK(t) /\ table \in [Shown \X Accesses -> Decisions] /\ call[t] \in Calls
  BY DEF CallbackInv, CallbackTypeOK
<1> DEFINE p == call[t].evaluated
           c == [call[t] EXCEPT !.at = "opened", !.fd = tree[p]]
<1>1. /\ call[t].at = "decided" /\ call[t].op = "readdir" /\ call' = [call EXCEPT ![t] = c] /\ descriptors' = descriptors + 1
      /\ UNCHANGED <<table, policyMutex, folderMutex, file, folder>> /\ HostRest
  BY DEF OpenDirectory, In, Handles
<1>2. p \in Shown /\ tree[p] \in Real /\ tree[p] # None /\ policyMutex = t /\ table[<<p, call[t].access>>] = "allow"
  BY <1>0, <1>1, CallbackAssumption DEF CallOK, CallbackTypeOK, Shown, Names
<1>3. /\ c \in Calls /\ c.at = "opened" /\ c.op = "readdir" /\ c.name = call[t].name /\ c.fd = tree[p]
      /\ c.access = call[t].access /\ c.evaluated = p
  BY <1>0, <1>1, <1>2 DEF Calls, CallSteps
<1> HIDE DEF c
<1>4. call'[t] = c
  BY <1>0, <1>1, <1>3, CallReplaced
<1>5. tree'[p] \in witness'[t] /\ tree' = tree
  <2>1. table'[<<p, call'[t].access>>] = "allow" /\ call'[t].at # "idle"
    BY <1>1, <1>2, <1>3, <1>4
  <2> QED BY <1>0, <1>1, <1>2, <2>1, AllowedIsWitnessed DEF HostRest
<1>6. call[t].fd = None /\ c.name \in Names /\ folder' # Closed /\ folderMutex' = t
  BY <1>0, <1>1, <1>3 DEF CallOK, In
<1>7. CallOK(t)'
  BY <1>1, <1>2, <1>3, <1>4, <1>5, <1>6 DEF CallOK, In, Accesses
<1>8. descriptors' = descriptors - Held(call[t].fd) + Held(c.fd)
  BY <1>0, <1>1, <1>2, <1>3, <1>6 DEF Held, CallbackTypeOK
<1> QED BY <1>0, <1>1, <1>3, <1>7, <1>8, AdvanceSound

\* open and opendir: the name is resolved again, and what is there then is opened.
LEMMA OpenSound ==
    ASSUME CallbackInv, NEW t \in Threads, Watch, Resolve(t) \/ Open(t)
    PROVE  Sound(t)
<1>0. CallbackTypeOK /\ CallOK(t) /\ table \in [Shown \X Accesses -> Decisions] /\ call[t] \in Calls
  BY DEF CallbackInv, CallbackTypeOK
<1>1. CASE Resolve(t) /\ Returned(t)
  BY <1>0, <1>1, ReturnSound DEF Resolve, Handles
<1>2. CASE Resolve(t) /\ ~Returned(t)
  <2> DEFINE p == Resolved(call[t].name)
             c == [call[t] EXCEPT !.at = "resolved", !.evaluated = p]
  <2>1. /\ call[t].at = "granted" /\ call[t].op \in {"open", "opendir"} /\ call' = [call EXCEPT ![t] = c] /\ p # None
        /\ UNCHANGED <<table, policyMutex, folderMutex, descriptors, file, folder>> /\ HostRest
    BY <1>2 DEF Resolve, In, Handles
  <2>2. p \in Shown /\ call[t].name \in Names /\ call[t].fd = None
    <3>1. call[t].name \in Names /\ call[t].fd = None
      BY <1>0, <2>1 DEF CallOK, In
    <3> QED BY <1>0, <2>1, <3>1, ResolvedVisible
  <2> HIDE DEF p
  <2>3. c \in Calls /\ c.at = "resolved" /\ c.op = call[t].op /\ c.name = call[t].name /\ c.fd = None /\ c.evaluated = p
    BY <1>0, <2>2 DEF Calls, CallSteps
  <2> HIDE DEF c
  <2>4. call'[t] = c
    BY <1>0, <2>1, <2>3, CallReplaced
  <2>5. CallOK(t)'
    BY <2>1, <2>2, <2>3, <2>4 DEF CallOK, In, Accesses
  <2>6. descriptors' = descriptors - Held(call[t].fd) + Held(c.fd)
    BY <1>0, <2>1, <2>2, <2>3 DEF Held, CallbackTypeOK
  <2> QED BY <1>0, <2>1, <2>3, <2>5, <2>6, AdvanceSound
<1>3. CASE Open(t)
  <2> DEFINE handle == [inode |-> tree[call[t].evaluated], name |-> call[t].name, started |-> FALSE]
  <2>1. /\ call[t].at = "resolved" /\ call[t].evaluated \in Real /\ call[t].name \in Names /\ call[t].fd = None
    BY <1>0, <1>3 DEF Open, In, CallOK, Shown
  <2>2. handle \in OpenFiles /\ handle \in OpenFolders /\ handle.inode # None
    BY <1>0, <2>1, CallbackAssumption DEF OpenFiles, OpenFolders, CallbackTypeOK, Names
  <2>3. /\ call' = [call EXCEPT ![t] = IdleCall] /\ UNCHANGED <<table, policyMutex, folderMutex>> /\ HostRest
        /\ \/ file = Closed /\ file' = handle /\ UNCHANGED <<folder, descriptors>>
           \/ folder = Closed /\ folder' = handle /\ descriptors' = descriptors + 1 /\ file' = file
           \/ UNCHANGED <<file, folder, descriptors>>
    BY <1>3 DEF Open
  <2> HIDE DEF handle
  <2>4. file' \in OpenFiles \cup {Closed} /\ folder' \in OpenFolders \cup {Closed}
    BY <1>0, <2>2, <2>3 DEF CallbackTypeOK
  <2>5. call'[t] = IdleCall
    BY <1>0, <2>3, CallReplaced, IdleCallTyped
  <2>6. CallOK(t)'
    BY <2>5, IdleIsOK
  <2>7. descriptors' = descriptors - Held(folder.inode) - Held(call[t].fd) + Held(folder'.inode) + Held(IdleCall.fd)
    <3>1. descriptors \in Int /\ Held(call[t].fd) = 0 /\ Held(IdleCall.fd) = 0 /\ Held(folder.inode) \in Nat
      BY <1>0, <2>1, IdleCallTyped DEF Held, CallbackTypeOK
    <3>2. CASE UNCHANGED <<folder, descriptors>>
      BY <3>1, <3>2
    <3>3. CASE folder = Closed /\ folder' = handle /\ descriptors' = descriptors + 1
      <4>1. Held(folder.inode) = 0 /\ Held(folder'.inode) = 1
        BY <2>2, <3>3 DEF Held, Closed
      <4> QED BY <3>1, <3>3, <4>1
    <3> QED BY <2>3, <3>2, <3>3
  <2>8. /\ file = Closed \/ file' = file
        /\ folder = Closed \/ folder' = folder
    BY <2>3
  <2> QED BY <2>3, <2>4, <2>6, <2>7, <2>8, IdleCallTyped, HandleSound
<1> QED BY <1>1, <1>2, <1>3

\* read_directory: the handle is given the authorised descriptor, loses its own, or
\* goes on as it is.
LEMMA EnumerateSound ==
    ASSUME CallbackInv, NEW t \in Threads, Watch, Enumerate(t)
    PROVE  Sound(t)
<1>0. CallbackTypeOK /\ CallOK(t) /\ table \in [Shown \X Accesses -> Decisions] /\ call[t] \in Calls
  BY DEF CallbackInv, CallbackTypeOK
<1>1. /\ call[t].at = "granted" /\ call[t].op = "readdir" /\ UNCHANGED <<table, file>> /\ HostRest
  BY DEF Enumerate, In
<1>2. /\ call[t].fd # None /\ call[t].fd \in witness[t] /\ call[t].fd \in Real /\ call[t].name \in Names
      /\ folderMutex = t /\ folder # Closed /\ folder \in OpenFolders
  BY <1>0, <1>1 DEF CallOK, In, CallbackTypeOK, Calls
<1>3. CASE Returned(t) /\ UNCHANGED folder
  BY <1>0, <1>1, <1>3, ReturnSound
<1>4. ASSUME NEW step \in {"listing", "failing"}, folder.inode # None,
             call' = [call EXCEPT ![t].at = step, ![t].fd = None], UNCHANGED <<policyMutex, folderMutex>>,
             folder' \in OpenFolders, step = "listing" => folder'.inode = call[t].fd,
             descriptors' = descriptors - 2 + Held(folder'.inode)
      PROVE  Sound(t)
  <2> DEFINE c == [call[t] EXCEPT !.at = step, !.fd = None]
  <2>1. c \in Calls /\ c.at = step /\ c.op = "readdir" /\ c.name = call[t].name /\ c.fd = None
    BY <1>0, <1>1, <1>4 DEF Calls, CallSteps
  <2>2. call' = [call EXCEPT ![t] = c]
    BY <1>4
  <2> HIDE DEF c
  <2>3. call'[t] = c
    BY <1>0, <2>1, <2>2, CallReplaced
  <2>4. witness[t] \subseteq witness'[t]
    BY <1>0, <1>4, <2>1, <2>3, WitnessGrows
  <2>5. folder' # Closed
    BY <1>4, CallbackAssumption DEF OpenFolders, Closed
  <2>6. CallOK(t)'
    BY <1>2, <1>4, <2>1, <2>3, <2>4, <2>5 DEF CallOK, In, Accesses
  <2>7. descriptors' = descriptors - Held(folder.inode) - Held(call[t].fd) + Held(folder'.inode) + Held(c.fd)
    <3>1. Held(folder.inode) = 1 /\ Held(call[t].fd) = 1 /\ Held(c.fd) = 0 /\ Held(folder'.inode) \in Nat /\ descriptors \in Int
      BY <1>0, <1>2, <1>4, <2>1 DEF Held, CallbackTypeOK
    <3> QED BY <1>4, <3>1
  <2>8. file' \in OpenFiles \cup {Closed} /\ file' = file
    BY <1>0, <1>1 DEF CallbackTypeOK
  <2> QED BY <1>1, <1>2, <1>4, <2>1, <2>2, <2>5, <2>6, <2>7, <2>8, HandleSound
<1>5. CASE /\ folder.inode # None /\ folder' = [folder EXCEPT !.inode = call[t].fd, !.started = TRUE]
           /\ call' = [call EXCEPT ![t].at = "listing", ![t].fd = None] /\ descriptors' = descriptors - 1
           /\ UNCHANGED <<policyMutex, folderMutex>>
  <2>1. folder' \in OpenFolders /\ folder'.inode = call[t].fd
    BY <1>2, <1>5 DEF OpenFolders
  <2>2. descriptors' = descriptors - 2 + Held(folder'.inode)
    BY <1>0, <1>2, <1>5, <2>1 DEF Held, CallbackTypeOK
  <2> QED BY <1>4, <1>5, <2>1, <2>2
<1>6. CASE /\ folder.inode # None /\ folder' = [folder EXCEPT !.inode = None]
           /\ call' = [call EXCEPT ![t].at = "failing", ![t].fd = None] /\ descriptors' = descriptors - 2
           /\ UNCHANGED <<policyMutex, folderMutex>>
  <2>1. folder' \in OpenFolders /\ folder'.inode = None
    BY <1>2, <1>6 DEF OpenFolders
  <2>2. descriptors' = descriptors - 2 + Held(folder'.inode)
    BY <1>0, <1>6, <2>1 DEF Held, CallbackTypeOK
  <2> QED BY <1>4, <1>6, <2>1, <2>2
<1>7. CASE /\ folder.inode # None /\ folder' = folder /\ Continues(t)
           /\ call' = [call EXCEPT ![t].at = "listing", ![t].fd = None] /\ descriptors' = descriptors - 1
           /\ UNCHANGED <<policyMutex, folderMutex>>
  <2>1. folder' \in OpenFolders /\ folder'.inode = call[t].fd
    BY <1>2, <1>7 DEF Continues
  <2>2. descriptors' = descriptors - 2 + Held(folder'.inode)
    BY <1>0, <1>2, <1>7, <2>1 DEF Held, CallbackTypeOK
  <2> QED BY <1>4, <1>7, <2>1, <2>2
<1> QED BY <1>3, <1>5, <1>6, <1>7 DEF Enumerate

\* The data or the listing is handed over, or the callback panics.
LEMMA FinishSound ==
    ASSUME CallbackInv, NEW t \in Threads, Watch, Data(t) \/ Listed(t) \/ Panic(t)
    PROVE  Sound(t)
<1>0. CallbackTypeOK /\ table \in [Shown \X Accesses -> Decisions]
  BY DEF CallbackInv, CallbackTypeOK
<1>1. CASE Data(t) \/ Listed(t)
  BY <1>0, <1>1, ReturnSound DEF Data, Listed, Handles
<1>2. CASE Panic(t)
  <2>1. Ends(t)
    BY <1>2 DEF Panic, Ends, Held
  <2> QED BY <1>0, <1>2, <2>1, EndSound DEF Panic, Handles
<1> QED BY <1>1, <1>2

-----------------------------------------------------------------------------
\* A step of nobody's callback leaves every callback in the middle untouched.
LEMMA OutsideKeeps ==
    ASSUME CallbackInv, CallbackTypeOK', Watch, \A u \in Threads : Untouched(u), UNCHANGED call,
           descriptors' - Held(folder'.inode) = descriptors - Held(folder.inode)
    PROVE  CallbackInv'
<1>0. CallbackTypeOK /\ \A u \in Threads : CallOK(u)
  BY DEF CallbackInv
<1>1. \A u \in Threads : CallOK(u)'
  BY <1>0, UntouchedKeeps
<1>2. DescriptorsOwned'
  <2> DEFINE a == Cardinality({u \in Threads : call[u].fd # None})
             f == Held(folder.inode)
             f1 == Held(folder'.inode)
             d == descriptors
             d1 == descriptors'
  <2>1. a \in Nat
    <3>1. IsFiniteSet({u \in Threads : call[u].fd # None})
      BY CallbackAssumption, FS_Subset
    <3> QED BY <3>1, FS_CardinalityType
  <2>2. d = f + a /\ d \in Int /\ d1 \in Int /\ f \in Nat /\ f1 \in Nat /\ d1 - f1 = d - f
    BY <1>0 DEF CallbackInv, CallbackTypeOK, DescriptorsOwned, Held
  <2> HIDE DEF a, f, f1, d, d1
  <2>3. d1 = f1 + a
    BY <2>1, <2>2
  <2> QED BY <2>3 DEF DescriptorsOwned, Held, a, f1, d1
<1> QED BY <1>1, <1>2 DEF CallbackInv

LEMMA ReleaseKeeps ==
    ASSUME CallbackInv, Watch, Release \/ Releasedir
    PROVE  CallbackInv'
<1>0. CallbackTypeOK /\ \A u \in Threads : CallOK(u)
  BY DEF CallbackInv
<1>1. witness' \in [Threads -> SUBSET Real] /\ tree' = tree /\ target' = target /\ UNCHANGED <<table, call, policyMutex>>
  BY <1>0, WitnessTyped DEF Release, Releasedir, HostRest, CallbackTypeOK
<1>2. descriptors' \in Int /\ descriptors' - Held(folder'.inode) = descriptors - Held(folder.inode)
  BY <1>0 DEF Release, Releasedir, Held, Closed, CallbackTypeOK
<1>3. CallbackTypeOK'
  BY <1>0, <1>1, <1>2 DEF CallbackTypeOK, Release, Releasedir
<1>4. ASSUME NEW u \in Threads PROVE Untouched(u)
  <2>1. CASE Release
    BY <1>0, <1>1, <2>1 DEF Release, Uses, Untouched, CallOK, Accesses
  <2>2. CASE Releasedir
    BY <1>0, <1>1, <2>2 DEF Releasedir, Uses, Untouched, CallOK
  <2> QED BY <2>1, <2>2
<1> QED BY <1>1, <1>2, <1>3, <1>4, OutsideKeeps

\* Renames, and a refresh that waits for the policy's mutex.
LEMMA OthersKeep ==
    ASSUME CallbackInv, Watch, Rename \/ Refresh
    PROVE  CallbackInv'
<1>0. CallbackTypeOK /\ \A u \in Threads : CallOK(u)
  BY DEF CallbackInv
<1>1. /\ UNCHANGED <<call, file, folder, policyMutex, folderMutex, descriptors>>
      /\ table' = table \/ policyMutex = None
  BY DEF Rename, Refresh
<1>2. tree' \in [Real -> Real] /\ target' \in Real
  BY <1>0 DEF Rename, Refresh, CallbackTypeOK
<1>3. table' \in [Shown \X Accesses -> Decisions]
  BY <1>0 DEF Rename, Refresh, CallbackTypeOK, Decisions
<1>4. CallbackTypeOK'
  BY <1>0, <1>1, <1>2, <1>3, WitnessTyped DEF CallbackTypeOK
<1>5. ASSUME NEW u \in Threads PROVE Untouched(u)
  BY <1>0, <1>1, CallbackAssumption DEF Untouched, CallOK
<1> QED BY <1>1, <1>4, <1>5, OutsideKeeps

LEMMA CallbackInitInv == CallbackInit => CallbackInv
<1> SUFFICES ASSUME CallbackInit PROVE CallbackInv
  OBVIOUS
<1>1. CallbackTypeOK
  <2>1. tree \in [Real -> Real] /\ target \in Real /\ descriptors \in Int
    BY DEF CallbackInit
  <2>2. table \in [Shown \X Accesses -> Decisions]
    BY CallbackAssumption DEF CallbackInit
  <2>3. call \in [Threads -> Calls]
    BY IdleCallTyped DEF CallbackInit
  <2>4. witness \in [Threads -> SUBSET Real]
    BY DEF CallbackInit
  <2>5. file = Closed /\ folder = Closed
    BY DEF CallbackInit
  <2> QED BY <2>1, <2>2, <2>3, <2>4, <2>5 DEF CallbackTypeOK
<1>2. \A t \in Threads : call[t] = IdleCall
  BY DEF CallbackInit
<1>3. \A t \in Threads : CallOK(t)
  BY <1>2, IdleCallTyped DEF CallOK, In, Accesses
<1>4. {t \in Threads : call[t].fd # None} = {}
  BY <1>2, IdleCallTyped
<1>5. DescriptorsOwned
  <2>1. descriptors = 0 /\ folder.inode = None
    BY DEF CallbackInit, Closed
  <2>2. Cardinality({t \in Threads : call[t].fd # None}) = 0
    BY <1>4, FS_EmptySet
  <2> QED BY <2>1, <2>2 DEF DescriptorsOwned
<1> QED BY <1>1, <1>3, <1>5 DEF CallbackInv

LEMMA CallbackInvStep == CallbackInv /\ [CallbackNext]_callbackVars => CallbackInv'
<1> SUFFICES ASSUME CallbackInv, [CallbackNext]_callbackVars PROVE CallbackInv'
  OBVIOUS
<1>1. ASSUME NEW t \in Threads, CallbackStep(t), Watch PROVE CallbackInv'
  <2>1. Sound(t)
    BY <1>1, EnterSound, LockSound, AuthorizeSound, AnswerSound, GrantedSound, OpenDirectorySound, OpenSound,
       EnumerateSound, FinishSound DEF CallbackStep
  <2> QED BY <1>1, <2>1, SoundKeeps
<1>2. CASE CallbackNext
  BY <1>1, <1>2, ReleaseKeeps, OthersKeep DEF CallbackNext
<1>3. CASE UNCHANGED callbackVars
  BY <1>3 DEF callbackVars, CallbackInv, CallbackTypeOK, CallOK, DescriptorsOwned, In
<1> QED BY <1>2, <1>3

\* For any threads, paths, policies, renames and refreshes: what a callback reads,
\* writes or lists through a handle was allowed at some moment of that callback, and
\* every directory descriptor is owned (callbacks.rs:196-392, fuse.rs:177-207).
THEOREM HandlesSoundTheorem == CallbackSpec => []HandlesSound
<1>1. CallbackInv => HandlesSound
  BY DEF CallbackInv, CallOK, HandlesSound, DataIsAuthorised
<1> QED BY <1>1, CallbackInitInv, CallbackInvStep, PTL DEF CallbackSpec
=============================================================================
