--------------------------- MODULE NetworkSandbox ---------------------------
(* One run of a command in the network sandbox (NetworkSandbox.ts): what is *)
(* prepared, the processes that are started, the steps that must be done    *)
(* before the worker is unblocked, and the ways a run ends: exit, abort,    *)
(* timeout, the failure of a helper or a service.                           *)
(*                                                                          *)
(* A child (ManagedChildProcess.ts) runs, is killed (SIGKILL sent, not yet  *)
(* closed), has exited by itself, or is gone: its close event was handled.  *)
(* A namespace command is part of its step: it has no state of its own.     *)
EXTENDS Naturals, Sequences, SequencesExt

VARIABLES
    phase,      \* what run() awaits
    proc,       \* the children of the runner
    done,       \* setup steps that are completed
    unblocked,  \* the byte was written to the block pipe
    services,   \* what prepareRuntimeFiles has opened
    cause,      \* {"signal", "aborted", "timedOut", "fatal"}: flags that are set
    outcome     \* how run() returns or throws

sandboxVars == <<phase, proc, done, unblocked, services, cause, outcome>>

Helpers == {"ingress", "queue", "slirp"}
Children == Helpers \cup {"outer", "bus"}
\* Mutant: the queue helper is never started.
SetupStepsLate == <<"status", "topology", "rules", "ingress", "gateway", "slirp", "ipv6", "unblock">>
\* The order of run(), from the status record of bubblewrap to the readiness of IPv6.
SetupSteps == <<"status", "topology", "rules", "ingress", "gateway", "queue", "slirp", "ipv6", "unblock">>
PrepareSteps == <<"directory", "ipc", "trust", "listeners">>
Protections == {"status", "topology", "rules", "ingress", "gateway", "queue", "slirp", "ipv6"}

NextOf(order, s) == order[SelectInSeq(order, LAMBDA x : x = s) + 1]
Stopping == phase \in {"cleanup", "settled"}
workerRuns == unblocked /\ proc["outer"] = "running"

SandboxInit ==
    /\ phase = "directory" /\ proc = [k \in Children |-> "none"]
    /\ done = {} /\ unblocked = FALSE /\ services = {} /\ outcome = "none"
    /\ cause = {}

-----------------------------------------------------------------------------
(* Ending a run.                                                           *)

\* terminate() reaches the children that exist now; the proxy of the session bus
\* is a resource that cleanup() closes.
Killed(children, ks) == [k \in Children |-> IF k \in ks /\ children[k] = "running" THEN "killed" ELSE children[k]]
Terminated(children) == Killed(children, Children \ {"bus"})

\* run() throws or returns: an abort goes before a timeout, a timeout before an
\* error; then cleanup() sets stopping and terminates once more.
Outcome(result) ==
    CASE cause \cap {"signal", "aborted"} # {} -> "aborted"
      [] cause \cap {"signal", "aborted"} = {} /\ "timedOut" \in cause -> "timeout"
      [] cause \cap {"signal", "aborted", "timedOut"} = {} /\ "fatal" \in cause -> "error"
      [] OTHER -> result

CleanupKills(children) == Terminated(children)

Leave(result) ==
    /\ phase' = "cleanup" /\ outcome' = Outcome(result)
    /\ proc' = CleanupKills(proc)

\* fail(): the first error counts, none once the run is stopping.
Fails == ~Stopping /\ "fatal" \notin cause
Fail(children) ==
    IF Fails THEN cause' = cause \cup {"fatal"} /\ proc' = Terminated(children)
    ELSE proc' = children /\ UNCHANGED cause

-----------------------------------------------------------------------------
(* Preparation.  No cancellation is installed yet: an abort is only noted.  *)

\* The directory, the trust files and the two listeners.
Opened(s) == CASE s = "directory" -> {"directory"} [] s = "trust" -> {} [] s = "listeners" -> {"dns", "broker"}

\* startOuterProcess and installCancellation follow without an await; a signal
\* that was aborted meanwhile terminates the process at once.
StartOuter ==
    /\ phase' = Head(SetupSteps)
    /\ LET started == [proc EXCEPT !["outer"] = "running"] IN
       IF "signal" \in cause
       THEN cause' = cause \cup {"aborted"} /\ proc' = Terminated(started)
       ELSE proc' = started /\ UNCHANGED cause
    /\ UNCHANGED outcome

Prepare(s) ==
    /\ phase = s /\ s # "ipc" /\ services' = services \cup Opened(s)
    /\ IF s # Last(PrepareSteps)
       THEN phase' = NextOf(PrepareSteps, s) /\ UNCHANGED <<proc, cause, outcome>>
       ELSE IF "fatal" \in cause THEN Leave("error") /\ UNCHANGED cause ELSE StartOuter
    /\ UNCHANGED <<done, unblocked>>

\* One of several files or listeners fails; what was opened stays for cleanup().
PrepareFails(s) ==
    /\ phase = s /\ s # "ipc"
    /\ \E open \in SUBSET Opened(s) : open # Opened(s) /\ services' = services \cup open
    /\ Leave("error") /\ UNCHANGED <<done, unblocked, cause>>

\* The proxy of the session bus is started when it is configured and can be.
SpawnBus ==
    /\ phase = "ipc"
    /\ \/ phase' = "bus" /\ proc' = [proc EXCEPT !["bus"] = "running"]
       \/ phase' = NextOf(PrepareSteps, "ipc") /\ UNCHANGED proc
    /\ UNCHANGED <<done, unblocked, services, cause, outcome>>

\* It says that it is ready before it exits, and its socket is there.
BusReady ==
    /\ phase = "bus" /\ proc["bus"] = "running"
    /\ phase' = NextOf(PrepareSteps, "ipc") /\ services' = services \cup {"bus"}
    /\ UNCHANGED <<proc, done, unblocked, cause, outcome>>

\* Otherwise it is killed and reported, and the command runs without it.
BusFails ==
    /\ phase = "bus" /\ phase' = NextOf(PrepareSteps, "ipc")
    /\ proc' = Killed(proc, {"bus"})
    /\ UNCHANGED <<done, unblocked, services, cause, outcome>>

-----------------------------------------------------------------------------
(* Setup.                                                                  *)

\* completeSetupStep and waitForBubblewrapStatus race the step with the exit of
\* the worker; startSlirp and waitForIpv6Ready do not.
Raced == {"status", "topology", "rules", "ingress", "gateway", "queue"}

\* A helper is started when its step is reached.
Reached(s) == IF s \in Helpers THEN [proc EXCEPT ![s] = "running"] ELSE proc

\* What each step waits for: a command works as long as the namespaces exist, a
\* helper must say that it is ready.
RunNamespaceCommand == proc["outer"] # "gone"
WaitForBubblewrapStatus == proc["outer"] # "gone"
ConfigureNamespaceTopology == RunNamespaceCommand
RunWorkerNft == RunNamespaceCommand
StartTcpIngress == proc["ingress"] = "running"
ConfigureGateway == RunNamespaceCommand
StartQueueHelper == proc["queue"] = "running"
StartSlirp == proc["slirp"] = "running"
WaitForIpv6Ready == RunNamespaceCommand

CanComplete == [status |-> WaitForBubblewrapStatus, topology |-> ConfigureNamespaceTopology, rules |-> RunWorkerNft,
                ingress |-> StartTcpIngress, gateway |-> ConfigureGateway, queue |-> StartQueueHelper,
                slirp |-> StartSlirp, ipv6 |-> WaitForIpv6Ready, unblock |-> FALSE]
CompleteStep(s) ==
    /\ phase = s /\ CanComplete[s]
    /\ done' = done \cup {s} /\ phase' = NextOf(SetupSteps, s)
    /\ proc' = Reached(NextOf(SetupSteps, s))
    /\ UNCHANGED <<unblocked, services, cause, outcome>>

\* A command ends with an error, slirp before it is ready.  The ready promise of
\* the other two helpers is rejected by failHelper only (HelperClosed).
StepFails(s) ==
    /\ phase = s /\ s \notin {"ingress", "queue", "unblock"}
    /\ s = "slirp" => proc["slirp"] = "gone"
    /\ Leave("error") /\ UNCHANGED <<done, unblocked, services, cause>>

RaceLost == phase \in Raced /\ proc["outer"] = "gone" /\ Leave("error") /\ UNCHANGED <<done, unblocked, services, cause>>

\* unblockWorker: the write is refused once the process was terminated, and
\* fails when it has exited.
UnblockWorker ==
    /\ phase = "unblock"
    /\ IF proc["outer"] = "running"
       THEN unblocked' = TRUE /\ phase' = "exit" /\ UNCHANGED <<proc, cause, outcome>>
       ELSE /\ Leave("error") /\ UNCHANGED unblocked
            /\ cause' = IF proc["outer"] = "exited" THEN cause \cup {"fatal"} ELSE cause
    /\ UNCHANGED <<done, services>>

-----------------------------------------------------------------------------
(* Processes and services.                                                 *)

\* A process ends, by itself or by the signal; its close event comes later.
ProcessEnds(k) ==
    /\ proc[k] = "running" \/ proc[k] = "killed"
    /\ proc' = [proc EXCEPT ![k] = IF @ = "running" THEN "exited" ELSE "gone"]
    /\ UNCHANGED <<phase, done, unblocked, services, cause, outcome>>

\* The close event of a child that was not killed: a helper that ends while the
\* run goes on fails it, and rejects the readiness that is awaited.
Expected == Stopping \/ cause \cap {"aborted", "timedOut"} # {}
HelperClosed(k) ==
    /\ proc[k] = "exited"
    /\ LET closed == [proc EXCEPT ![k] = "gone"] IN
       IF (k \in Helpers /\ ~Expected) \/ (k = "bus" /\ "bus" \in services /\ ~Stopping)
       THEN IF phase = k
            THEN /\ phase' = "cleanup" /\ proc' = CleanupKills(closed) /\ outcome' = "error"
                 /\ cause' = IF Fails THEN cause \cup {"fatal"} ELSE cause
            ELSE Fail(closed) /\ UNCHANGED <<phase, outcome>>
       ELSE proc' = closed /\ UNCHANGED <<phase, cause, outcome>>
    /\ UNCHANGED <<done, unblocked, services>>

\* A listener or the queue protocol reports a fatal error.
ServiceFails ==
    /\ services \cap {"dns", "broker"} # {} /\ Fails /\ Fail(proc)
    /\ UNCHANGED <<phase, done, unblocked, services, outcome>>

\* The caller aborts; onAbort runs when it is installed.
Abort ==
    /\ "signal" \notin cause /\ phase # "settled"
    /\ LET installed == phase \in Range(SetupSteps) \cup {"exit"} IN
       /\ cause' = cause \cup {"signal"} \cup (IF installed THEN {"aborted"} ELSE {})
       /\ proc' = IF installed THEN Terminated(proc) ELSE proc
    /\ UNCHANGED <<phase, done, unblocked, services, outcome>>

\* The timer of installCancellation; cleanup() disposes it.
Timeout ==
    /\ phase \in Range(SetupSteps) \cup {"exit"} /\ "timedOut" \notin cause
    /\ cause' = cause \cup {"timedOut"} /\ proc' = Terminated(proc)
    /\ UNCHANGED <<phase, done, unblocked, services, outcome>>

WorkerExit ==
    /\ phase = "exit" /\ proc["outer"] = "gone" /\ Leave("ok")
    /\ UNCHANGED <<done, unblocked, services, cause>>

\* cleanup() waits for the worker to close and for the services, the bus proxy
\* being killed when it does not end in time; it waits for a helper one second at
\* most.  The directory is removed last.
Cleanup ==
    /\ phase = "cleanup" /\ proc["outer"] \in {"none", "gone"}
    /\ services' = {} /\ phase' = "settled" /\ proc' = Killed(proc, {"bus"})
    /\ UNCHANGED <<done, unblocked, cause, outcome>>

-----------------------------------------------------------------------------
SetupStep(s) == CompleteStep(s) \/ StepFails(s)
RunnerStep ==
    \/ \E s \in Range(PrepareSteps) : Prepare(s) \/ PrepareFails(s)
    \/ SpawnBus \/ BusReady \/ BusFails
    \/ \E s \in Range(SetupSteps) : SetupStep(s)
    \/ RaceLost \/ UnblockWorker \/ WorkerExit \/ Cleanup

SandboxNext ==
    \/ RunnerStep \/ ServiceFails \/ Abort \/ Timeout
    \/ \E k \in Children : ProcessEnds(k) \/ HelperClosed(k)

-----------------------------------------------------------------------------
(* Properties.                                                             *)

\* The worker executes only behind complete rules, with every step of run() done
\* and no abort, timeout or failure seen: whatever ends the run also ends the
\* worker, even when it comes between two steps (unblockWorker, terminate).
WorkerRunsProtected ==
    workerRuns => /\ Protections \subseteq done
                  /\ cause \cap {"aborted", "timedOut", "fatal"} = {}

\* A run that has settled leaves nothing behind and tells the truth: no child
\* still runs, no service is open, the worker is gone, and success means that the
\* worker ran to its end, with no abort, timeout or failure before the run ended.
NothingLeftBehind ==
    phase = "settled" =>
        /\ services = {} /\ proc["outer"] \in {"none", "gone"}
        /\ \A k \in Children : proc[k] # "running"
        /\ outcome = "ok" => unblocked /\ cause \cap {"timedOut", "fatal", "aborted"} = {}
        /\ "aborted" \in cause => outcome = "aborted"

\* An abort, a timeout, a failure or the end of a helper ends every run, at
\* whatever step it comes.
RunSettles == (cause # {} \/ \E k \in Helpers \cup {"outer"} : proc[k] = "exited") ~> phase = "settled"

\* A worker runs only protected, and its run ends clean.
RunContained == WorkerRunsProtected /\ NothingLeftBehind
=============================================================================
