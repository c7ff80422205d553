------------------------------ MODULE FuseSession ------------------------------
(***************************************************************************)
(* The session broker of the native FUSE mounts (NativeFuseSessionBroker): *)
(* one daemon that forks a worker per command; the mounts of the commands, *)
(* set up, started and cleaned up while the daemon or a worker dies, a     *)
(* stop request times out, the published policy state of the agent fails,  *)
(* or the session closes.                                                  *)
(*                                                                         *)
(* The daemon (fuse/broker.rs) reads its stdin in order and may be slow or *)
(* stuck for ever.  The kernel's mount table, fusermount3 and the          *)
(* auto-unmount helper are external.                                       *)
(***************************************************************************)
EXTENDS Integers, Sequences

CONSTANTS
    Mounts,         \* commands of one agent that ask for a mount, each once
    MaxStates       \* bound: published policy states of the agent

ASSUME StatesAssumption == MaxStates \in Nat \ {0}

VARIABLES
    session,        \* startPromise: "idle", "starting", "up", "failed"
    closing,        \* beginShutdown was called
    closer,         \* where performClose is
    overdue,        \* what performClose stopped waiting for: "setup", "base", and
                    \* "late" when the latter was removed after all
    pc,             \* where withFilesystem of each command is
    cleanup,        \* where performContextCleanup of each context is
    contexts,       \* registered contexts
    aborted,        \* commands whose signal or decisionController is aborted
    flags,          \* started, ready, mounted and stopped of each context
    socket,         \* contexts whose control socket is open
    stateOf,        \* policy state each command uses
    states,         \* the agent's published policy states
    entry,          \* agentPolicyStates: the agent's state, 0 for none
    daemon,         \* "none", "up", "dead", and "exited" once Node saw it
    stopping,       \* ManagedChildProcess.stopping of the daemon
    commands,       \* the daemon's stdin
    outputs,        \* the daemon's stdout
    worker,         \* worker process of each mount
    kernel,         \* mounts in the kernel's table
    root,           \* the session directory exists
    dirs            \* mount directories that exist

closeVars == <<closing, closer, overdue>>
contextVars == <<pc, cleanup, contexts, flags>>
stopVars == <<aborted, socket>>
stateVars == <<stateOf, states, entry>>
pipeVars == <<daemon, stopping, commands, outputs>>
diskVars == <<root, dirs>>
vars == <<session, closeVars, contextVars, stopVars, stateVars, pipeVars, worker, kernel, diskVars>>

NoState == 0
StateIds == 1..MaxStates
Alive == {"forked", "connected", "mounted"}
Workers == {m \in Mounts : worker[m] \in Alive}

TypeOK ==
    /\ session \in {"idle", "starting", "up", "failed"}
    /\ {closing, stopping, root} \subseteq BOOLEAN
    /\ closer \in {"none", "start", "setups", "contexts", "forced", "daemon", "exit", "states", "check",
                   "remove", "done"}
    /\ overdue \subseteq {"setup", "base", "late"}
    /\ pc \in [Mounts -> {"idle", "start", "base", "mkdir", "made", "mount", "run", "cleaning", "done"}]
    /\ cleanup \in [Mounts -> {"none", "unmount", "stop", "stopping", "killed", "verify", "check",
                               "remove", "done"}]
    /\ contexts \subseteq Mounts /\ aborted \subseteq Mounts
    /\ socket \subseteq contexts
    /\ flags \in [Mounts -> SUBSET {"started", "ready", "mounted", "stopped"}]
    /\ stateOf \in [Mounts -> {NoState} \cup StateIds]
    /\ states \in [StateIds -> {"none", "creating", "ready", "failed", "retiring", "removed"}]
    /\ entry \in {NoState} \cup {i \in StateIds : states[i] \notin {"none", "removed"}}
    /\ daemon \in {"none", "up", "dead", "exited"}
    /\ worker \in [Mounts -> {"none", "dead"} \cup Alive]
    /\ kernel \subseteq Mounts /\ dirs \subseteq Mounts

Init ==
    /\ session = "idle" /\ closing = FALSE /\ closer = "none" /\ overdue = {}
    /\ pc = [m \in Mounts |-> "idle"]
    /\ cleanup = [m \in Mounts |-> "none"]
    /\ contexts = {} /\ aborted = {} /\ socket = {}
    /\ flags = [m \in Mounts |-> {}]
    /\ stateOf = [m \in Mounts |-> NoState]
    /\ states = [i \in StateIds |-> "none"]
    /\ entry = NoState
    /\ daemon = "none" /\ stopping = FALSE
    /\ commands = <<>> /\ outputs = <<>>
    /\ worker = [m \in Mounts |-> "none"]
    /\ kernel = {} /\ root = FALSE /\ dirs = {}

-----------------------------------------------------------------------------
(* What several handlers do.                                               *)

\* failContexts
FailContexts == aborted' = aborted \cup contexts /\ socket' = {}

\* Processes end: their control sockets close, and a context that is neither
\* being cleaned up nor part of a closing session is aborted.
WorkersEnd(gone) ==
    /\ worker' = [m \in Mounts |-> IF m \in gone \cap Workers THEN "dead" ELSE worker[m]]
    /\ socket' = socket \ gone
    /\ aborted' = aborted \cup {m \in gone \cap socket : cleanup[m] = "none" /\ ~closing}

\* ManagedChildProcess.write of a command to the daemon.  Once the daemon stops
\* or is known to be gone it only throws; the first write to a pipe nobody reads
\* any more is handleFailure, which fails every context.
Writable == daemon = "up" /\ ~stopping
Write(command) == Writable /\ commands' = Append(commands, command) /\ UNCHANGED stopping
WriteFails == ~Writable /\ stopping' = (stopping \/ daemon = "dead") /\ UNCHANGED commands
AbortedByWrite(all) == IF daemon = "dead" /\ ~stopping THEN all ELSE {}

\* The synchronous part of performContextCleanup, which a context enters once.
EnterCleanup(m) ==
    cleanup' = IF cleanup[m] # "none" THEN cleanup
               ELSE [cleanup EXCEPT ![m] = IF "mounted" \in flags[m] THEN "unmount" ELSE "stop"]

\* withFilesystem leaves its run, for whatever reason, and cleans up.
LeaveRun(m) ==
    /\ pc' = [pc EXCEPT ![m] = "cleaning"]
    /\ EnterCleanup(m)
    /\ aborted' = aborted \cup {m}
    /\ socket' = socket \ {m}

-----------------------------------------------------------------------------
(* Setting up a mount.                                                     *)

\* assertAvailable
Available(m) == ~closing /\ m \notin aborted

\* withFilesystem and start: the first command starts the session.
WithFilesystem(m) ==
    /\ pc[m] = "idle" /\ ~closing
    /\ pc' = [pc EXCEPT ![m] = "start"]
    /\ session' = IF session = "idle" THEN "starting" ELSE session
    /\ UNCHANGED <<closeVars, cleanup, contexts, flags, stopVars, stateVars, pipeVars, worker, kernel,
                   diskVars>>

\* initialize: directory, socket and daemon, or none of them; a failed start is
\* never tried again.
Initialize(ok) ==
    /\ session = "starting"
    /\ session' = IF ok THEN "up" ELSE "failed"
    /\ daemon' = IF ok THEN "up" ELSE "none"
    /\ root' = ok
    /\ UNCHANGED <<closeVars, contextVars, stopVars, stateVars, stopping, commands, outputs, worker,
                   kernel, dirs>>

\* createContext up to the await of agentPolicyState: the agent's state is
\* shared, and a command that finds none creates one.
Fresh == {i \in StateIds : states[i] = "none"}
CreateContext(m) ==
    /\ pc[m] = "start" /\ session \in {"up", "failed"}
    /\ \/ /\ session = "failed" \/ ~Available(m)
          /\ pc' = [pc EXCEPT ![m] = "done"]
          /\ UNCHANGED stateVars
       \/ /\ session = "up" /\ Available(m) /\ entry # NoState
          /\ pc' = [pc EXCEPT ![m] = "base"]
          /\ stateOf' = [stateOf EXCEPT ![m] = entry]
          /\ UNCHANGED <<states, entry>>
       \/ /\ session = "up" /\ Available(m) /\ entry = NoState
          /\ \E i \in Fresh :
                /\ \A j \in Fresh : i <= j
                /\ states' = [states EXCEPT ![i] = "creating"]
                /\ entry' = i
                /\ stateOf' = [stateOf EXCEPT ![m] = i]
          /\ pc' = [pc EXCEPT ![m] = "base"]
    /\ UNCHANGED <<session, closeVars, cleanup, contexts, flags, stopVars, pipeVars, worker, kernel,
                   diskVars>>

\* createAgentPolicyState: the snapshot is published, or all is undone, at the
\* latest because the session closes, and the map entry is dropped.
CreateAgentPolicyState(i, ok) ==
    /\ states[i] = "creating"
    /\ ok => ~closing
    /\ states' = [states EXCEPT ![i] = IF ok THEN "ready" ELSE "removed"]
    /\ entry' = IF ~ok /\ entry = i THEN NoState ELSE entry
    /\ UNCHANGED <<session, closeVars, contextVars, stopVars, stateOf, pipeVars, worker, kernel, diskVars>>

\* createContext after that await, up to the mkdir.
Failed(i) == states[i] \in {"failed", "retiring", "removed"}
StartMkdir(m) ==
    /\ pc[m] = "base" /\ states[stateOf[m]] # "creating"
    /\ pc' = [pc EXCEPT ![m] = IF Available(m) /\ ~Failed(stateOf[m]) THEN "mkdir" ELSE "done"]
    /\ UNCHANGED <<session, closeVars, cleanup, contexts, flags, stopVars, stateVars, pipeVars, worker,
                   kernel, diskVars>>

\* mkdir is recursive: it also makes the session directory.
DirectoryMade(m) ==
    /\ pc[m] = "mkdir"
    /\ pc' = [pc EXCEPT ![m] = "made"]
    /\ dirs' = dirs \cup {m} /\ root' = TRUE
    /\ UNCHANGED <<session, closeVars, cleanup, contexts, flags, stopVars, stateVars, pipeVars, worker,
                   kernel>>

\* createContext looks again at everything that may have changed, registers the
\* context, and startMount sends START.
Admissible(m) == Available(m) /\ ~Failed(stateOf[m])
Register(m) ==
    /\ pc[m] = "made"
    /\ \/ /\ ~Admissible(m)
          /\ pc' = [pc EXCEPT ![m] = "done"]
          /\ dirs' = dirs \ {m}
          /\ UNCHANGED <<cleanup, contexts, stopVars, stopping, commands>>
       \/ /\ Admissible(m)
          /\ contexts' = contexts \cup {m}
          /\ \/ /\ Write(<<"START", m>>)
                /\ pc' = [pc EXCEPT ![m] = "mount"]
                /\ UNCHANGED <<cleanup, stopVars>>
             \/ /\ WriteFails
                /\ pc' = [pc EXCEPT ![m] = "cleaning"]
                /\ cleanup' = [cleanup EXCEPT ![m] = "stop"]
                /\ aborted' = aborted \cup {m} \cup AbortedByWrite(contexts)
                /\ socket' = socket \ AbortedByWrite(contexts)
          /\ UNCHANGED dirs
    /\ UNCHANGED <<session, closeVars, flags, stateVars, daemon, outputs, worker, kernel, root>>

\* The race of startMount is won by started and ready ...
Mounted(m) ==
    /\ pc[m] = "mount" /\ m \notin aborted /\ {"started", "ready"} \subseteq flags[m]
    /\ flags' = [flags EXCEPT ![m] = @ \cup {"mounted"}]
    /\ pc' = [pc EXCEPT ![m] = "run"]
    /\ UNCHANGED <<session, closeVars, cleanup, contexts, stopVars, stateVars, pipeVars, worker, kernel,
                   diskVars>>
\* ... or by an abort, the exit of the daemon or the timeout of ten seconds.
MountFails(m) ==
    /\ pc[m] = "mount"
    /\ LeaveRun(m)
    /\ UNCHANGED <<session, closeVars, contexts, flags, stateVars, pipeVars, worker, kernel, diskVars>>
\* The command ends.
RunEnds(m) ==
    /\ pc[m] = "run"
    /\ LeaveRun(m)
    /\ UNCHANGED <<session, closeVars, contexts, flags, stateVars, pipeVars, worker, kernel, diskVars>>

\* The caller's signal.
AbortCommand(m) ==
    /\ pc[m] \notin {"idle", "done"} /\ m \notin aborted
    /\ aborted' = aborted \cup {m}
    /\ UNCHANGED <<session, closeVars, contextVars, socket, stateVars, pipeVars, worker, kernel, diskVars>>

-----------------------------------------------------------------------------
(* Cleaning up a mount: performContextCleanup.                             *)

\* The first fusermount3 -u; a busy mount stays.
Unmount(m, ok) ==
    /\ cleanup[m] = "unmount"
    /\ cleanup' = [cleanup EXCEPT ![m] = "stop"]
    /\ kernel' = IF ok THEN kernel \ {m} ELSE kernel
    /\ UNCHANGED <<session, closeVars, pc, contexts, flags, stopVars, stateVars, pipeVars, worker, diskVars>>

\* stopMountWorker sends STOP ...
StopWorker(m) ==
    /\ cleanup[m] = "stop"
    /\ \/ /\ Write(<<"STOP", m>>)
          /\ cleanup' = [cleanup EXCEPT ![m] = "stopping"]
          /\ UNCHANGED stopVars
       \/ /\ WriteFails
          /\ cleanup' = [cleanup EXCEPT ![m] = "verify"]
          /\ aborted' = aborted \cup AbortedByWrite(contexts)
          /\ socket' = socket \ AbortedByWrite(contexts)
    /\ UNCHANGED <<session, closeVars, pc, contexts, flags, stateVars, daemon, outputs, worker, kernel,
                   diskVars>>
\* ... waits for STOPPED or for the daemon's exit ...
StopConfirmed(m) ==
    /\ \/ cleanup[m] = "stopping" /\ ("stopped" \in flags[m] \/ daemon = "exited")
       \/ cleanup[m] = "killed" /\ daemon = "exited"
    /\ cleanup' = [cleanup EXCEPT ![m] = "verify"]
    /\ UNCHANGED <<session, closeVars, pc, contexts, flags, stopVars, stateVars, pipeVars, worker, kernel,
                   diskVars>>

\* terminate: SIGKILL to the daemon's process group, every worker included.
Terminate ==
    /\ stopping' = TRUE
    /\ daemon' = IF daemon = "up" THEN "dead" ELSE daemon
    /\ commands' = <<>>
    /\ WorkersEnd(Mounts)

\* ... and after five seconds without either kills the whole daemon.
StopTimesOut(m) ==
    /\ cleanup[m] = "stopping"
    /\ cleanup' = [cleanup EXCEPT ![m] = "killed"]
    /\ Terminate
    /\ UNCHANGED <<session, closeVars, pc, contexts, flags, stateVars, outputs, kernel, diskVars>>

\* A mount that is still there is unmounted once more; then the context is
\* dropped, and a failed policy state nobody uses any more starts to retire.
Retiring(i, users) ==
    IF states[i] = "failed" /\ \A n \in users : stateOf[n] # i
    THEN [states EXCEPT ![i] = "retiring"] ELSE states
Verify(m, ok) ==
    /\ cleanup[m] = "verify"
    /\ kernel' = IF ok THEN kernel \ {m} ELSE kernel
    /\ contexts' = contexts \ {m}
    /\ states' = Retiring(stateOf[m], contexts \ {m})
    /\ cleanup' = [cleanup EXCEPT ![m] = "check"]
    /\ UNCHANGED <<session, closeVars, pc, flags, stopVars, stateOf, entry, pipeVars, worker, diskVars>>

\* Defect: the mount table is not consulted.
RemovableAlways(m) == TRUE

\* The directory goes only when nothing is mounted at or below it.
Removable(m) == m \notin kernel
CheckMount(m) ==
    /\ cleanup[m] = "check" /\ states[stateOf[m]] # "retiring"
    /\ cleanup' = [cleanup EXCEPT ![m] = IF Removable(m) THEN "remove" ELSE "done"]
    /\ UNCHANGED <<session, closeVars, pc, contexts, flags, stopVars, stateVars, pipeVars, worker, kernel,
                   diskVars>>
RemoveDirectory(m) ==
    /\ cleanup[m] = "remove"
    /\ dirs' = dirs \ {m}
    /\ cleanup' = [cleanup EXCEPT ![m] = "done"]
    /\ UNCHANGED <<session, closeVars, pc, contexts, flags, stopVars, stateVars, pipeVars, worker, kernel,
                   root>>
Finish(m) ==
    /\ pc[m] = "cleaning" /\ cleanup[m] = "done"
    /\ pc' = [pc EXCEPT ![m] = "done"]
    /\ UNCHANGED <<session, closeVars, cleanup, contexts, flags, stopVars, stateVars, pipeVars, worker,
                   kernel, diskVars>>

-----------------------------------------------------------------------------
(* The published policy state of the agent.                                *)

\* A snapshot cannot be published, or the policy base closes: failAgentContexts
\* and retireAgentPolicyStateIfUnused.
StateFails(i) ==
    /\ states[i] = "ready"
    /\ LET users == {m \in contexts : stateOf[m] = i}
       IN  /\ states' = [states EXCEPT ![i] = IF users = {} THEN "retiring" ELSE "failed"]
           /\ aborted' = aborted \cup users
           /\ socket' = socket \ users
    /\ UNCHANGED <<session, closeVars, contextVars, stateOf, entry, pipeVars, worker, kernel, diskVars>>

Retire(i) ==
    /\ states[i] = "retiring"
    /\ states' = [states EXCEPT ![i] = "removed"]
    /\ entry' = IF entry = i THEN NoState ELSE entry
    /\ UNCHANGED <<session, closeVars, contextVars, stopVars, stateOf, pipeVars, worker, kernel, diskVars>>

-----------------------------------------------------------------------------
(* The daemon, its workers and the control connections.                    *)

\* Broker.run takes the next line: spawn may fail to fork; stop kills and reaps
\* the worker, if there is one, and always answers; SHUTDOWN stops them all.
DaemonStart(m, ok) ==
    /\ daemon = "up" /\ commands # <<>> /\ Head(commands) = <<"START", m>>
    /\ commands' = Tail(commands)
    /\ worker' = IF ok THEN [worker EXCEPT ![m] = "forked"] ELSE worker
    /\ outputs' = IF ok THEN Append(outputs, <<"STARTED", m>>) ELSE outputs
    /\ UNCHANGED <<session, closeVars, contextVars, stopVars, stateVars, daemon, stopping, kernel, diskVars>>
DaemonStop(m) ==
    /\ daemon = "up" /\ commands # <<>> /\ Head(commands) = <<"STOP", m>>
    /\ commands' = Tail(commands)
    /\ WorkersEnd({m})
    /\ outputs' = Append(outputs, <<"STOPPED", m>>)
    /\ UNCHANGED <<session, closeVars, contextVars, stateVars, daemon, stopping, kernel, diskVars>>
DaemonShutdown ==
    /\ daemon = "up" /\ commands # <<>> /\ Head(commands) = <<"SHUTDOWN">>
    /\ daemon' = "dead"
    /\ commands' = <<>>
    /\ WorkersEnd(Mounts)
    /\ UNCHANGED <<session, closeVars, contextVars, stateVars, stopping, outputs, kernel, diskVars>>

\* The daemon dies; PR_SET_PDEATHSIG takes its workers along.
DaemonDies ==
    /\ daemon = "up"
    /\ daemon' = "dead"
    /\ commands' = <<>>
    /\ WorkersEnd(Mounts)
    /\ UNCHANGED <<session, closeVars, contextVars, stateVars, stopping, outputs, kernel, diskVars>>

\* Node's close event, after the last line of output.
ExitSeen ==
    /\ daemon = "dead" /\ outputs = <<>>
    /\ daemon' = "exited"
    /\ IF closing THEN UNCHANGED stopVars ELSE FailContexts
    /\ UNCHANGED <<session, closeVars, contextVars, stateVars, stopping, commands, outputs, worker, kernel,
                   diskVars>>

\* handleBrokerOutput: lines for a context that is gone are ignored.
HandleBrokerOutput ==
    /\ outputs # <<>>
    /\ outputs' = Tail(outputs)
    /\ LET line == Head(outputs)
           flag == IF line[1] = "STARTED" THEN "started" ELSE "stopped"
       IN  flags' = IF line[2] \in contexts THEN [flags EXCEPT ![line[2]] = @ \cup {flag}] ELSE flags
    /\ UNCHANGED <<session, closeVars, pc, cleanup, contexts, stopVars, stateVars, daemon, stopping,
                   commands, worker, kernel, diskVars>>

\* connect_controller and acceptConnection: a worker whose context is unknown,
\* inactive or part of a closing session is refused and exits.
Connect(m) ==
    /\ worker[m] = "forked"
    /\ IF ~closing /\ m \in contexts /\ cleanup[m] = "none"
       THEN worker' = [worker EXCEPT ![m] = "connected"] /\ socket' = socket \cup {m}
       ELSE worker' = [worker EXCEPT ![m] = "dead"] /\ UNCHANGED socket
    /\ UNCHANGED <<session, closeVars, contextVars, aborted, stateVars, pipeVars, kernel, diskVars>>

\* run_filesystem mounts, even when the control socket has been closed since.
KernelMount(m) ==
    /\ worker[m] = "connected" /\ m \in dirs
    /\ worker' = [worker EXCEPT ![m] = "mounted"]
    /\ kernel' = kernel \cup {m}
    /\ UNCHANGED <<session, closeVars, contextVars, stopVars, stateVars, pipeVars, diskVars>>

\* markNativeReady and markSnapshotSynchronized
ReadyReceived(m) ==
    /\ worker[m] = "mounted" /\ m \in socket /\ "ready" \notin flags[m]
    /\ flags' = [flags EXCEPT ![m] = @ \cup {"ready"}]
    /\ UNCHANGED <<session, closeVars, pc, cleanup, contexts, stopVars, stateVars, pipeVars, worker, kernel,
                   diskVars>>

\* A worker fails, crashes, or ends because it was unmounted.
WorkerDies(m) ==
    /\ m \in Workers
    /\ WorkersEnd({m})
    /\ UNCHANGED <<session, closeVars, contextVars, stateVars, pipeVars, kernel, diskVars>>

\* The helper of auto_unmount; it may fail for ever.
AutoUnmount(m) ==
    /\ m \in kernel /\ worker[m] = "dead"
    /\ kernel' = kernel \ {m}
    /\ UNCHANGED <<session, closeVars, contextVars, stopVars, stateVars, pipeVars, worker, diskVars>>
-----------------------------------------------------------------------------
(* Closing the session: beginShutdown and performClose.                    *)

\* beginShutdown aborts the registered contexts, the first time only.
Shutdown == /\ closing' = TRUE
            /\ aborted' = IF closing THEN aborted ELSE aborted \cup contexts
BeginShutdown ==
    /\ ~closing /\ Shutdown
    /\ UNCHANGED <<session, closer, overdue, contextVars, socket, stateVars, pipeVars, worker, kernel,
                   diskVars>>
Close ==
    /\ closer = "none" /\ Shutdown
    /\ closer' = "start"
    /\ UNCHANGED <<session, overdue, contextVars, socket, stateVars, pipeVars, worker, kernel, diskVars>>

\* performClose goes from one wait to the next.
CloserMoves(from, to) ==
    /\ closer = from /\ closer' = to
    /\ UNCHANGED <<session, closing, contextVars, stopVars, stateOf, states, outputs, kernel, dirs>>
Settings == {m \in Mounts : pc[m] \in {"base", "mkdir", "made"}}
StartSettled ==
    /\ session # "starting" /\ CloserMoves("start", "setups")
    /\ UNCHANGED <<overdue, entry, daemon, stopping, commands, worker, root>>
SetupsSettled ==
    /\ Settings = {} /\ CloserMoves("setups", "contexts")
    /\ UNCHANGED <<overdue, entry, daemon, stopping, commands, worker, root>>
SetupsTimeOut ==
    /\ Settings # {} /\ CloserMoves("setups", "contexts")
    /\ overdue' = overdue \cup {"setup"}
    /\ UNCHANGED <<entry, daemon, stopping, commands, worker, root>>
ContextsFinished ==
    /\ contexts = {} /\ CloserMoves("contexts", "daemon")
    /\ UNCHANGED <<overdue, entry, daemon, stopping, commands, worker, root>>

\* Commands that do not return in five seconds are cleaned up under their feet.
ContextsTimeOut ==
    /\ contexts # {} /\ closer = "contexts"
    /\ closer' = "forced"
    /\ cleanup' = [m \in Mounts |-> IF m \notin contexts \/ cleanup[m] # "none" THEN cleanup[m]
                                    ELSE IF "mounted" \in flags[m] THEN "unmount" ELSE "stop"]
    /\ aborted' = aborted \cup contexts
    /\ socket' = {}
    /\ UNCHANGED <<session, closing, overdue, pc, contexts, flags, stateVars, pipeVars, worker, kernel,
                   diskVars>>

ForcedFinished ==
    /\ \A m \in Mounts : cleanup[m] \in {"none", "done"}
    /\ CloserMoves("forced", "contexts")
    /\ UNCHANGED <<overdue, entry, daemon, stopping, commands, worker, root>>

\* SHUTDOWN, which a dead daemon never reads.
SendShutdown ==
    /\ CloserMoves("daemon", IF daemon = "none" THEN "states" ELSE "exit")
    /\ stopping' = (stopping \/ daemon # "none")
    /\ commands' = IF daemon = "up" THEN Append(commands, <<"SHUTDOWN">>) ELSE commands
    /\ UNCHANGED <<overdue, entry, daemon, worker, root>>

ShutdownTimesOut ==
    /\ closer = "exit" /\ daemon = "up"
    /\ Terminate
    /\ UNCHANGED <<session, closeVars, contextVars, stateVars, outputs, kernel, diskVars>>
DaemonGone ==
    /\ daemon = "exited" /\ CloserMoves("exit", "states")
    /\ UNCHANGED <<overdue, entry, daemon, stopping, commands, worker, root>>

\* The policy states settle and are forgotten ...
BaseSetups == {i \in StateIds : states[i] = "creating"}
StatesSettled ==
    /\ BaseSetups = {} /\ closer = "states"
    /\ closer' = "check"
    /\ entry' = NoState
    /\ states' = [i \in StateIds |-> IF states[i] = "ready" THEN "removed" ELSE states[i]]
    /\ UNCHANGED <<session, closing, overdue, contextVars, stopVars, stateOf, pipeVars, worker, kernel,
                   diskVars>>
\* ... or one does not settle in time, and a later callback removes the session
\* directory instead.
StatesTimeOut ==
    /\ BaseSetups # {} /\ CloserMoves("states", "done")
    /\ overdue' = overdue \cup {"base"}
    /\ UNCHANGED <<entry, daemon, stopping, commands, worker, root>>
LateRemoval ==
    /\ closer = "done" /\ "base" \in overdue /\ BaseSetups = {}
    /\ overdue' = (overdue \ {"base"}) \cup {"late"}
    /\ entry' = NoState
    /\ IF kernel = {} THEN root' = FALSE /\ dirs' = {} ELSE UNCHANGED diskVars
    /\ UNCHANGED <<session, closing, closer, contextVars, stopVars, stateOf, states, pipeVars, worker,
                   kernel>>

\* The session directory goes only when every setup is over and nothing is
\* mounted below it.
DirectoryFree == "setup" \notin overdue /\ kernel = {}
CheckSession ==
    /\ CloserMoves("check", IF root /\ DirectoryFree THEN "remove" ELSE "done")
    /\ UNCHANGED <<overdue, entry, daemon, stopping, commands, worker, root>>
RemoveSession ==
    /\ closer = "remove" /\ closer' = "done"
    /\ root' = FALSE /\ dirs' = {}
    /\ UNCHANGED <<session, closing, overdue, contextVars, stopVars, stateVars, pipeVars, worker, kernel>>

-----------------------------------------------------------------------------
CommandStep(m) ==
    \/ WithFilesystem(m) \/ CreateContext(m) \/ StartMkdir(m) \/ DirectoryMade(m) \/ Register(m)
    \/ Mounted(m) \/ MountFails(m) \/ RunEnds(m) \/ AbortCommand(m)
CleanupStep(m) ==
    \/ \E ok \in BOOLEAN : Unmount(m, ok) \/ Verify(m, ok)
    \/ StopWorker(m) \/ StopConfirmed(m) \/ StopTimesOut(m)
    \/ CheckMount(m) \/ RemoveDirectory(m) \/ Finish(m)
WorkerStep(m) ==
    \/ Connect(m) \/ KernelMount(m) \/ ReadyReceived(m) \/ WorkerDies(m) \/ AutoUnmount(m)
DaemonStep ==
    \/ \E m \in Mounts : DaemonStop(m) \/ \E ok \in BOOLEAN : DaemonStart(m, ok)
    \/ DaemonShutdown \/ DaemonDies
CloseStep ==
    \/ StartSettled \/ SetupsSettled \/ SetupsTimeOut
    \/ ContextsFinished \/ ContextsTimeOut \/ ForcedFinished
    \/ SendShutdown \/ ShutdownTimesOut \/ DaemonGone
    \/ StatesSettled \/ StatesTimeOut \/ CheckSession \/ RemoveSession
Next ==
    \/ \E m \in Mounts : CommandStep(m) \/ CleanupStep(m) \/ WorkerStep(m)
    \/ \E ok \in BOOLEAN : Initialize(ok) \/ \E i \in StateIds : CreateAgentPolicyState(i, ok)
    \/ \E i \in StateIds : StateFails(i) \/ Retire(i)
    \/ DaemonStep \/ ExitSeen \/ HandleBrokerOutput
    \/ BeginShutdown \/ Close \/ CloseStep \/ LateRemoval

Spec == Init /\ [][Next]_vars

\* Node's event loop goes on: it takes events, runs timers and gets an answer
\* from the unmount helper and from the directory calls of a start, of a cleanup
\* and of a retirement.  Nothing is assumed of the commands, of the directory
\* calls of a setup, of the daemon or of the workers; a killed daemon is reaped.
Fairness ==
    /\ WF_vars(\E ok \in BOOLEAN : Initialize(ok))
    /\ \A m \in Mounts : WF_vars(CleanupStep(m))
    /\ \A i \in StateIds : WF_vars(Retire(i))
    /\ WF_vars(ExitSeen) /\ WF_vars(HandleBrokerOutput)
    /\ WF_vars(CloseStep)
FairSpec == Spec /\ Fairness

-----------------------------------------------------------------------------
(* Properties.                                                             *)

\* No directory is removed below a live mount: a mount in the kernel's table
\* still has its mount directory and the session directory, whatever failed on
\* the way (performContextCleanup and performClose refuse to remove).
MountsKeepTheirDirectory == kernel \subseteq dirs /\ (kernel # {} => root)

\* Once stopMountWorker is over, the worker is gone and no START for it is left
\* in the daemon's pipe, so it cannot mount behind the cleanup's back.  When
\* performClose is over, that holds of every worker and of the daemon, and nobody
\* is registered.
NoOrphanWorker ==
    /\ \A m \in Mounts : cleanup[m] \in {"verify", "check", "remove", "done"} =>
          /\ m \notin Workers
          /\ \A k \in DOMAIN commands : commands[k] # <<"START", m>>
    /\ closer = "done" => Workers = {} /\ contexts = {} /\ daemon \in {"none", "exited"}

\* A command does not run on unmediated: when its policy state failed, the
\* session closes or the daemon has exited, every registered context is aborted
\* (failAgentContexts, beginShutdown, failContexts).
FailsClosed ==
    \A m \in contexts : closing \/ Failed(stateOf[m]) \/ daemon = "exited" => m \in aborted

\* The session directory that performClose removed is not brought back by a
\* recursive mkdir that ends later.  (The callback of StatesTimeOut does not look
\* for unfinished setups; what it removes can come back.)
RemovedForGood ==
    [][closer = "done" /\ "late" \notin overdue /\ ~root => ~root']_vars

\* close() ends although commands do not return, setups hang and the daemon and
\* its workers never answer.
CloseTerminates == (closer # "none") ~> (closer = "done")

\* Mounts, workers, contexts and directories end in the right order.
SessionSafe ==
    /\ [](TypeOK /\ MountsKeepTheirDirectory /\ NoOrphanWorker /\ FailsClosed)
    /\ RemovedForGood
=============================================================================
