----------------------------- MODULE FuseRunner -----------------------------
(***************************************************************************)
(* One sandboxed command on a mount of its own: the temporary directory,   *)
(* the policy snapshot, the daemon and its readiness, the worker with its  *)
(* timeout, and the cleanup that must neither hang nor reach through the   *)
(* mount.  From policy/path/native/native-fuse-runner.ts (the branch       *)
(* without a session broker) and NativeFuseMountState.ts.                  *)
(*                                                                         *)
(* The daemon, the kernel's mount table and fusermount3 are external: the  *)
(* daemon may mount late, hang or die and leave its mount behind; an       *)
(* unmount may fail or be killed half way.                                 *)
(***************************************************************************)
EXTENDS Naturals

VARIABLES runner,    \* where the run stands, its flag and its errors
          fuseDaemon,\* "none", "starting", "mounted", "serving", "exited"
          doomed,    \* SIGKILL was sent to the daemon's group
          synced,    \* the once-only snapshot was sent to the daemon
          inTable,   \* the mountpoint is in the kernel's mount table
          worker,    \* "none", "running", "killed", "exited"
          stopSignal,\* the run's own abort signal
          workdir    \* the temporary directory: "none", "made", "removed"
runnerVars == <<runner, fuseDaemon, doomed, synced, inTable, worker, stopSignal, workdir>>

RunnerInit ==
    /\ runner = [at |-> "realpath", mounted |-> FALSE, timedOut |-> FALSE, runError |-> FALSE,
                 unmountError |-> FALSE, removalError |-> FALSE, outcome |-> "none"]
    /\ fuseDaemon = "none" /\ doomed = FALSE /\ synced = FALSE /\ inTable = FALSE
    /\ worker = "none" /\ stopSignal = FALSE /\ workdir = "none"

Alive == fuseDaemon \in {"starting", "mounted", "serving"}
At(step) == runner.at = step
Go(step) == runner' = [runner EXCEPT !.at = step]
Outcome(o) == runner' = [runner EXCEPT !.at = "done", !.outcome = o]
Threw(r) == [r EXCEPT !.runError = TRUE, !.at = "leave"]
Throw == runner' = Threw(runner)

HostUnchanged == UNCHANGED <<fuseDaemon, doomed, inTable>>
Rest == UNCHANGED <<fuseDaemon, doomed, synced, inTable, worker, stopSignal, workdir>>

(***************************************************************************)
(* Setting up: an await per step, and a look at the signal after each.     *)
(***************************************************************************)
\* Before the temporary directory there is nothing to clean up.
ResolveCwd ==
    /\ At("realpath")
    /\ (stopSignal /\ Outcome("threw")) \/ (~stopSignal /\ Go("mkdtemp")) \/ Outcome("threw")
    /\ Rest

MakeDirectory ==
    /\ At("mkdtemp")
    /\ \/ stopSignal /\ Outcome("threw") /\ UNCHANGED workdir
       \/ ~stopSignal /\ Go("mkdir") /\ workdir' = "made"
       \/ Outcome("threw") /\ UNCHANGED workdir
    /\ UNCHANGED <<synced, worker, stopSignal>> /\ HostUnchanged

\* Each step of the try block goes on, or throws: on its own or for the signal.
Setup(step, next) ==
    /\ At(step)
    /\ (~stopSignal /\ Go(next)) \/ Throw
    /\ Rest

SpawnDaemon ==
    /\ At("spawn")
    /\ \/ ~stopSignal /\ Go("sync") /\ fuseDaemon' = "starting"
       \/ Throw /\ UNCHANGED fuseDaemon
    /\ UNCHANGED <<doomed, synced, inTable, worker, stopSignal, workdir>>

SendSnapshot ==
    /\ At("sync")
    /\ \/ ~stopSignal /\ Go("ready") /\ synced' = TRUE
       \/ Throw /\ synced' \in {synced, TRUE}
    /\ UNCHANGED <<worker, stopSignal, workdir>> /\ HostUnchanged

\* waitForReady: the byte, the signal, the daemon's exit and a timer race.
WaitForReady ==
    /\ At("ready")
    /\ \/ fuseDaemon = "serving" /\ runner' = [runner EXCEPT !.at = "run", !.mounted = TRUE]
       \/ Throw
    /\ Rest

\* A snapshot that cannot be published, a broken control stream or the caller.
StopRun ==
    /\ ~stopSignal /\ runner.outcome = "none"
    /\ stopSignal' = TRUE
    /\ worker' = IF worker = "running" THEN "killed" ELSE worker
    /\ UNCHANGED <<runner, synced, workdir>> /\ HostUnchanged

(***************************************************************************)
(* The worker.                                                             *)
(***************************************************************************)
SpawnWorker ==
    /\ At("run")
    /\ \/ ~stopSignal /\ Go("running") /\ worker' = "running"
       \/ Throw /\ UNCHANGED worker
    /\ UNCHANGED <<synced, stopSignal, workdir>> /\ HostUnchanged

WorkerTimesOut ==
    /\ At("running") /\ worker = "running" /\ ~runner.timedOut
    /\ runner' = [runner EXCEPT !.timedOut = TRUE]
    /\ worker' = "killed"
    /\ UNCHANGED <<synced, stopSignal, workdir>> /\ HostUnchanged

WorkerReturns ==
    /\ At("running") /\ worker = "exited"
    /\ IF stopSignal \/ runner.timedOut THEN Throw ELSE Throw \/ Go("leave")
    /\ Rest

(***************************************************************************)
(* The cleanup.                                                            *)
(***************************************************************************)
Leave ==
    /\ At("leave")
    /\ Go(IF runner.mounted THEN "unmount" ELSE "stop")
    /\ stopSignal' = TRUE
    /\ UNCHANGED <<synced, worker, workdir>> /\ HostUnchanged

\* fusermount3 -u: it unmounts, it fails, or it is killed after its timeout.
Unmounted(step, next) ==
    /\ At(step)
    /\ \/ inTable /\ inTable' = FALSE /\ runner' = [runner EXCEPT !.at = next, !.unmountError = FALSE]
       \/ /\ inTable' \in {inTable, FALSE}
          /\ runner' = [runner EXCEPT !.at = next, !.unmountError = TRUE]
    /\ UNCHANGED <<fuseDaemon, doomed, synced, worker, stopSignal, workdir>>
Unmount == Unmounted("unmount", "stop")
UnmountAgain == Unmounted("again", "verify")

\* stopDaemon: it settles by itself, or it is killed after the timeout.
DaemonSettled ==
    /\ At("stop") \/ At("killing")
    /\ ~Alive /\ Go("check")
    /\ Rest

StopTimesOut ==
    /\ At("stop") /\ Alive
    /\ Go("killing") /\ doomed' = TRUE
    /\ UNCHANGED <<fuseDaemon, synced, inTable, worker, stopSignal, workdir>>

\* The table may be unreadable; what it says of the mountpoint decides.
CheckMounted ==
    /\ At("check")
    /\ \/ runner' = [runner EXCEPT !.at = "verify", !.removalError = TRUE]
       \/ inTable /\ Go("again")
       \/ ~inTable /\ runner' = [runner EXCEPT !.at = "verify", !.unmountError = FALSE]
    /\ Rest

\* Mutant: a run that never became ready has nothing mounted.
FreeUnlessReady == ~runner.mounted \/ ~inTable
Free == ~inTable

\* A mount that is there, or cannot be ruled out, keeps the directory.
VerifyRemovable ==
    /\ At("verify")
    /\ \/ Free /\ Go("remove")
       \/ ~Free /\ runner' = [runner EXCEPT !.at = "settle", !.unmountError = TRUE]
       \/ runner' = [runner EXCEPT !.at = "settle", !.unmountError = TRUE, !.removalError = TRUE]
    /\ Rest

RemoveDirectory ==
    /\ At("remove")
    /\ \/ Go("settle") /\ workdir' = "removed"
       \/ runner' = [runner EXCEPT !.at = "settle", !.removalError = TRUE] /\ UNCHANGED workdir
    /\ UNCHANGED <<synced, worker, stopSignal>> /\ HostUnchanged

Settle ==
    /\ At("settle")
    /\ Outcome(IF runner.runError \/ runner.unmountError \/ runner.removalError THEN "threw" ELSE "returned")
    /\ Rest

(***************************************************************************)
(* Outside.                                                                *)
(***************************************************************************)
DaemonMounts ==
    /\ fuseDaemon = "starting" /\ synced
    /\ fuseDaemon' = "mounted" /\ inTable' = TRUE
    /\ UNCHANGED <<runner, doomed, synced, worker, stopSignal, workdir>>

DaemonReady ==
    /\ fuseDaemon = "mounted"
    /\ fuseDaemon' = "serving"
    /\ UNCHANGED <<runner, doomed, synced, inTable, worker, stopSignal, workdir>>

DaemonExits ==
    /\ Alive
    /\ fuseDaemon' = "exited"
    /\ UNCHANGED <<runner, doomed, synced, inTable, worker, stopSignal, workdir>>

HelperUnmounts ==
    /\ fuseDaemon = "exited" /\ inTable
    /\ inTable' = FALSE
    /\ UNCHANGED <<runner, fuseDaemon, doomed, synced, worker, stopSignal, workdir>>

WorkerExits ==
    /\ worker \in {"running", "killed"}
    /\ worker' = "exited"
    /\ UNCHANGED <<runner, synced, stopSignal, workdir>> /\ HostUnchanged

RunnerStep ==
    \/ ResolveCwd \/ MakeDirectory \/ Setup("mkdir", "publish") \/ Setup("publish", "spawn") \/ SpawnDaemon
    \/ SendSnapshot \/ WaitForReady \/ SpawnWorker \/ WorkerReturns \/ Leave
    \/ Unmount \/ DaemonSettled \/ StopTimesOut \/ CheckMounted \/ UnmountAgain
    \/ VerifyRemovable \/ RemoveDirectory \/ Settle

RunnerNext ==
    \/ RunnerStep \/ StopRun \/ WorkerTimesOut
    \/ DaemonMounts \/ DaemonReady \/ DaemonExits \/ HelperUnmounts \/ WorkerExits

\* The directory is removed recursively only once its mount is out of the kernel's
\* table for good: the mount shows the host's root, so that removal would reach the
\* host's files.  And a run that has ended leaves no daemon and no worker, and never
\* reports success over a mount or a directory it could not remove
\* (native-fuse-runner.ts:143-214).  The daemon may mount after the run has given
\* up on it, and its mount outlives it.
RemovalIsSafe ==
    /\ (At("remove") \/ workdir = "removed") => ~inTable /\ ~Alive
    /\ runner.outcome # "none" => ~Alive /\ worker \in {"none", "exited"}
    /\ runner.outcome = "returned" => ~inTable /\ workdir = "removed"

\* An aborted run ends, although the daemon may never mount, never answer and
\* never exit by itself (native-fuse-runner.ts:262-353).
RunnerEnds == stopSignal ~> runner.outcome # "none"
=============================================================================
