---------------------------- MODULE MCBackground ----------------------------
(* Small instances of work that goes on beside a session: synchronising the *)
(* saved configuration, the walk that finds session files, and a command on *)
(* a mount of its own.  `focus' chooses the part that moves, the others     *)
(* keep their initial states.                                               *)
EXTENDS ConfigSync, ArchiveDiscovery, FuseRunner

VARIABLE focus

\* A collection with one directory of two session files.
MCSeeds == <<"root">>
MCInitially == [root |-> <<"sub">>, sub |-> <<"f1", "f2">>]

MCInit ==
    /\ focus \in {"config", "discovery", "runner"}
    /\ ConfigInit /\ (focus # "config" => item = "file" /\ local = {} /\ server.revision = 0)
    /\ IF focus = "discovery" THEN DiscoveryInit ELSE DiscoveryStart(TRUE)
    /\ RunnerInit

\* Two saves, or one on top of what other devices did.
Synchronisation == ConfigNext /\ (saves' = saves \/ saves + server.revision <= 1)

MCNext ==
    /\ UNCHANGED focus
    /\ \/ focus = "config" /\ Synchronisation /\ UNCHANGED <<discoveryVars, runnerVars>>
       \/ focus = "discovery" /\ DiscoveryNext /\ UNCHANGED <<configVars, runnerVars>>
       \/ focus = "runner" /\ RunnerNext /\ UNCHANGED <<configVars, discoveryVars>>

\* A pass that has begun goes on, the user logs in again, and sessions start
\* passes; the archive worker and the runner go on.
Syncs(A) == focus = "config" /\ A
MCFairness ==
    /\ WF_configVars(Syncs(PassStep)) /\ WF_configVars(Syncs(Reconnect))
    /\ WF_configVars(Syncs(AbandonPass /\ ~connected)) /\ WF_configVars(Syncs(StartPass("sync")))
    /\ DiscoveryFairness
    /\ WF_runnerVars(focus = "runner" /\ RunnerStep)
    /\ WF_runnerVars(doomed /\ DaemonExits) /\ WF_runnerVars(worker = "killed" /\ WorkerExits)

MCSpec == MCInit /\ [][MCNext]_<<focus, configVars, discoveryVars, runnerVars>> /\ MCFairness

\* Configurations converge, the walk comes to its end and an aborted run ends.
WorkEnds == Converges /\ DiscoveryEnds /\ RunnerEnds
=============================================================================
