---------------------------- MODULE FuseCallbacks ----------------------------
(***************************************************************************)
(* The filesystem callbacks of the native worker against a host tree that  *)
(* changes under them: how a name is resolved, checked against the hidden  *)
(* directory and authorised, and how an operation on an open handle makes  *)
(* sure that the handle is still what was authorised.  From                *)
(* native/rust/src/fuse/callbacks.rs, fuse/path.rs and State::authorize in *)
(* fuse.rs.  How the policy reaches the worker is NativeFilesystemPolicy;  *)
(* here it is a table that a refresh may change.                           *)
(*                                                                         *)
(* libfuse calls back on several threads; one policy mutex is held for a   *)
(* whole authorisation, a question to the user included, and one mutex     *)
(* guards each directory handle.  Other processes rename at any moment.    *)
(***************************************************************************)
EXTENDS Naturals, FiniteSets

CONSTANTS Threads, None,
          Real,          \* real paths, the hidden one included
          Hidden,        \* the worker's own directory
          Link,          \* a symbolic link to one of them
          Tables,        \* policies to start from: [Shown \X Accesses -> Decisions]
          MaxRenames, MaxRefreshes

VARIABLES tree,          \* real path -> inode
          target,        \* where the link points
          table,         \* the worker's policy: "allow", "deny" or "ask"
          call,          \* the callback of each thread
          file, folder,  \* the open file and the open directory
          policyMutex, folderMutex, panicked,
          descriptors,   \* open directory descriptors
          changed,       \* renames and policy changes so far
          witness        \* inodes that were at an allowed path during the callback
callbackVars == <<tree, target, table, call, file, folder, policyMutex, folderMutex,
                  panicked, descriptors, changed, witness>>

Accesses == {"read", "write"}
Shown == Real \ {Hidden}
Names == Real \union {Link}
Decisions == {"allow", "deny", "ask"}

\* None is no thread, path or name; a policy decides on every visible path.
ASSUME CallbackAssumption ==
    /\ IsFiniteSet(Threads) /\ None \notin Threads \union Names
    /\ Hidden \in Real /\ Link \notin Real
    /\ Tables \subseteq [Shown \X Accesses -> Decisions]

IdleCall == [op |-> "none", name |-> None, access |-> "read", at |-> "idle",
         evaluated |-> None, restart |-> FALSE, fd |-> None]
Closed == [inode |-> None, name |-> None, started |-> FALSE]

CallbackInit ==
    /\ tree = [p \in Real |-> p]
    /\ target \in Real
    /\ table \in Tables
    /\ call = [t \in Threads |-> IdleCall]
    /\ file = Closed /\ folder = Closed
    /\ policyMutex = None /\ folderMutex = None /\ panicked = FALSE
    /\ descriptors = 0
    /\ changed = [renames |-> 0, policy |-> 0]
    /\ witness = [t \in Threads |-> {}]

(***************************************************************************)
(* path.rs: a hidden path does not exist, whether it is named or a link    *)
(* leads to it.                                                            *)
(***************************************************************************)
Realpath(name) == IF name = Link THEN target ELSE name
Resolved(name) == IF name = Hidden \/ Realpath(name) = Hidden THEN None ELSE Realpath(name)

(***************************************************************************)
(* Callbacks.                                                              *)
(***************************************************************************)
In(t, step) == call[t].at = step
Step(t, step) == call' = [call EXCEPT ![t].at = step]
Uses(t, handle) == call[t].op \in (IF handle = "file" THEN {"read", "write"} ELSE {"readdir"})
Unlocked(mutex, t) == IF mutex = t THEN None ELSE mutex

\* A callback returns: its guards and the descriptor it still holds are dropped.
Returned(t) ==
    /\ call' = [call EXCEPT ![t] = IdleCall]
    /\ policyMutex' = Unlocked(policyMutex, t)
    /\ folderMutex' = Unlocked(folderMutex, t)
    /\ descriptors' = descriptors - (IF call[t].fd = None THEN 0 ELSE 1)

HostRest == UNCHANGED <<tree, target, changed>>
Handles == UNCHANGED <<file, folder>>

\* boundary: nothing starts once a callback has panicked.
Enter(t, op, name, access, restart) ==
    /\ In(t, "idle") /\ ~panicked
    /\ call' = [call EXCEPT ![t] = [IdleCall EXCEPT !.op = op, !.name = name, !.access = access,
                                    !.restart = restart, !.at = IF op = "opendir" THEN "granted" ELSE "entered"]]
    /\ UNCHANGED <<table, policyMutex, folderMutex, panicked, descriptors>> /\ HostRest /\ Handles

EnterOpen(t) == \E name \in Names, access \in Accesses :
                    file = Closed /\ Enter(t, "open", name, access, FALSE)
EnterOpendir(t) == \E name \in Names : folder = Closed /\ Enter(t, "opendir", name, "read", FALSE)
EnterData(t) == \E access \in Accesses : file # Closed /\ Enter(t, access, file.name, access, FALSE)
EnterReaddir(t) == \E restart \in BOOLEAN :
                       folder # Closed /\ Enter(t, "readdir", folder.name, "read", restart)

\* The kernel releases a handle when no callback uses it; a panic does not prevent it.
Release ==
    /\ file # Closed /\ \A t \in Threads : ~Uses(t, "file")
    /\ file' = Closed
    /\ UNCHANGED <<table, call, folder, policyMutex, folderMutex, panicked, descriptors>> /\ HostRest

Releasedir ==
    /\ folder # Closed /\ \A t \in Threads : ~Uses(t, "folder")
    /\ folder' = Closed
    /\ descriptors' = descriptors - (IF folder.inode = None THEN 0 ELSE 1)
    /\ folderMutex' = None
    /\ UNCHANGED <<table, call, file, policyMutex, panicked>> /\ HostRest

\* readdir holds its handle's mutex before it asks for the policy's.
LockFolder(t) ==
    /\ In(t, "entered") /\ call[t].op = "readdir" /\ folderMutex = None
    /\ Step(t, "locked") /\ folderMutex' = t
    /\ UNCHANGED <<table, policyMutex, panicked, descriptors>> /\ HostRest /\ Handles

\* The guard of a callback that panicked leaves the handle's mutex poisoned.
FolderPoisoned(t) ==
    /\ In(t, "entered") /\ call[t].op = "readdir"
    /\ folderMutex # None /\ call[folderMutex].at = "idle"
    /\ Returned(t)
    /\ UNCHANGED <<table, panicked>> /\ HostRest /\ Handles

\* authorize: the path is evaluated as it resolves now.
Authorize(t) ==
    LET path == Resolved(call[t].name) IN
    /\ In(t, IF call[t].op = "readdir" THEN "locked" ELSE "entered")
    /\ policyMutex = None
    /\ IF panicked \/ path = None \/ (path # None /\ table[<<path, call[t].access>>] = "deny")
       THEN Returned(t)
       ELSE /\ policyMutex' = t
            /\ call' = [call EXCEPT ![t].evaluated = path,
                          ![t].at = IF table[<<path, call[t].access>>] = "ask" THEN "asking" ELSE "decided"]
            /\ UNCHANGED <<folderMutex, descriptors>>
    /\ UNCHANGED <<table, panicked>> /\ HostRest /\ Handles

\* The user's answer, which may come late: the name must still resolve to the path
\* that was asked about.
Answer(t, yes) ==
    /\ In(t, "asking")
    /\ IF yes THEN table' = [table EXCEPT ![<<call[t].evaluated, call[t].access>>] = "allow"]
       ELSE UNCHANGED table
    /\ IF yes /\ Resolved(call[t].name) = call[t].evaluated
       THEN Step(t, "decided") /\ UNCHANGED <<policyMutex, folderMutex, descriptors>>
       ELSE Returned(t)
    /\ UNCHANGED panicked /\ HostRest /\ Handles

\* Mutant: an open handle needs no further check once its path is allowed.
RetainedAnyway(t) == TRUE
Retained(t) == call[t].op \in Accesses => file.inode = tree[call[t].evaluated]

\* An operation on a handle is granted if the handle is what the path denotes now.
GrantHandle(t) ==
    /\ In(t, "decided") /\ call[t].op # "readdir"
    /\ IF Retained(t)
       THEN /\ Step(t, "granted") /\ policyMutex' = None
            /\ UNCHANGED <<folderMutex, descriptors>>
       ELSE Returned(t)
    /\ UNCHANGED <<table, panicked>> /\ HostRest /\ Handles

OpenDirectory(t) ==
    /\ In(t, "decided") /\ call[t].op = "readdir"
    /\ call' = [call EXCEPT ![t].at = "opened", ![t].fd = tree[call[t].evaluated]]
    /\ descriptors' = descriptors + 1
    /\ UNCHANGED <<table, policyMutex, folderMutex, panicked>> /\ HostRest /\ Handles

\* The descriptor's own path, from /proc, must be the evaluated one.
VerifyDirectory(t) ==
    /\ In(t, "opened")
    /\ IF tree[call[t].evaluated] = call[t].fd
       THEN /\ Step(t, "granted") /\ policyMutex' = None
            /\ UNCHANGED <<folderMutex, descriptors>>
       ELSE Returned(t)
    /\ UNCHANGED <<table, panicked>> /\ HostRest /\ Handles

\* open and opendir resolve the name again and open what is there by then.
Resolve(t) ==
    /\ In(t, "granted") /\ call[t].op \in {"open", "opendir"}
    /\ IF Resolved(call[t].name) = None THEN Returned(t)
       ELSE /\ call' = [call EXCEPT ![t].at = "resolved", ![t].evaluated = Resolved(call[t].name)]
            /\ UNCHANGED <<policyMutex, folderMutex, descriptors>>
    /\ UNCHANGED <<table, panicked>> /\ HostRest /\ Handles

Open(t) ==
    LET handle == [inode |-> tree[call[t].evaluated], name |-> call[t].name, started |-> FALSE] IN
    /\ In(t, "resolved")
    /\ call' = [call EXCEPT ![t] = IdleCall]
    /\ \/ /\ call[t].op = "open" /\ file = Closed
          /\ file' = handle /\ UNCHANGED <<folder, descriptors>>
       \/ /\ call[t].op = "opendir" /\ folder = Closed
          /\ folder' = handle /\ descriptors' = descriptors + 1 /\ UNCHANGED file
       \/ UNCHANGED <<file, folder, descriptors>>
    /\ UNCHANGED <<table, policyMutex, folderMutex, panicked>> /\ HostRest

\* pread, pwrite, ftruncate on the handle.
Data(t) ==
    /\ In(t, "granted") /\ call[t].op \in Accesses
    /\ Returned(t)
    /\ UNCHANGED <<table, panicked>> /\ HostRest /\ Handles

Continues(t) == folder.inode = call[t].fd
Restarts(t) == ~folder.started \/ (call[t].restart /\ ~Continues(t))

\* read_directory: the listing starts over on the authorised descriptor, or goes on
\* if the handle is the same directory.
Enumerate(t) ==
    /\ In(t, "granted") /\ call[t].op = "readdir"
    /\ \/ /\ folder.inode = None /\ Returned(t) /\ UNCHANGED folder
       \/ /\ folder.inode # None /\ Restarts(t)
          /\ \/ /\ folder' = [folder EXCEPT !.inode = call[t].fd, !.started = TRUE]
                /\ call' = [call EXCEPT ![t].at = "listing", ![t].fd = None]
                /\ descriptors' = descriptors - 1
             \/ /\ folder' = [folder EXCEPT !.inode = None]       \* closedir failed
                /\ call' = [call EXCEPT ![t].at = "failing", ![t].fd = None]
                /\ descriptors' = descriptors - 2
          /\ UNCHANGED <<policyMutex, folderMutex>>
       \/ /\ folder.inode # None /\ ~Restarts(t)
          /\ IF Continues(t)
             THEN /\ call' = [call EXCEPT ![t].at = "listing", ![t].fd = None]
                  /\ descriptors' = descriptors - 1
                  /\ UNCHANGED <<policyMutex, folderMutex>>
             ELSE Returned(t)
          /\ UNCHANGED folder
    /\ UNCHANGED <<table, file, panicked>> /\ HostRest

Listed(t) ==
    /\ In(t, "listing") \/ In(t, "failing")
    /\ Returned(t)
    /\ UNCHANGED <<table, panicked>> /\ HostRest /\ Handles

\* catch_callback: the panic is caught and the mount is poisoned.  The guards it
\* unwinds poison their mutexes, which nothing but a release enters again.
Panic(t) ==
    /\ call[t].at # "idle" /\ ~panicked
    /\ panicked' = TRUE
    /\ call' = [call EXCEPT ![t] = IdleCall]
    /\ descriptors' = descriptors - (IF call[t].fd = None THEN 0 ELSE 1)
    /\ policyMutex' = Unlocked(policyMutex, t)
    /\ UNCHANGED <<table, folderMutex>> /\ HostRest /\ Handles

(***************************************************************************)
(* Other processes, and a refresh of the policy between authorisations.    *)
(***************************************************************************)
Rename ==
    /\ changed.renames < MaxRenames
    /\ \/ \E p, q \in Real : p # q /\ tree' = [tree EXCEPT ![p] = tree[q], ![q] = tree[p]] /\ UNCHANGED target
       \/ \E p \in Real \ {target} : target' = p /\ UNCHANGED tree
    /\ changed' = [changed EXCEPT !.renames = @ + 1]
    /\ UNCHANGED <<table, call, file, folder, policyMutex, folderMutex, panicked, descriptors>>

Refresh ==
    /\ changed.policy < MaxRefreshes /\ policyMutex = None
    /\ \E e \in DOMAIN table, v \in {"allow", "deny"} : table[e] # v /\ table' = [table EXCEPT ![e] = v]
    /\ changed' = [changed EXCEPT !.policy = @ + 1]
    /\ UNCHANGED <<tree, target, call, file, folder, policyMutex, folderMutex, panicked, descriptors>>

AllowedInodes(tr, tb, access) == {tr[p] : p \in {q \in Shown : tb[<<q, access>>] = "allow"}}

Watch == witness' = [t \in Threads |-> IF call'[t].at = "idle" THEN {}
                                       ELSE witness[t] \union AllowedInodes(tree', table', call'[t].access)]

CallbackStep(t) ==
    \/ EnterOpen(t) \/ EnterOpendir(t) \/ EnterData(t) \/ EnterReaddir(t)
    \/ LockFolder(t) \/ FolderPoisoned(t) \/ Authorize(t) \/ Answer(t, TRUE) \/ Answer(t, FALSE)
    \/ GrantHandle(t) \/ OpenDirectory(t) \/ VerifyDirectory(t)
    \/ Resolve(t) \/ Open(t) \/ Data(t) \/ Enumerate(t) \/ Listed(t) \/ Panic(t)

CallbackNext ==
    /\ (\E t \in Threads : CallbackStep(t)) \/ Release \/ Releasedir \/ Rename \/ Refresh
    /\ Watch

\* What a callback reads, writes or lists through a handle was, at some moment of
\* that very callback, at a path the policy allows for that access - although the
\* handle may have been opened on something else, because open resolves the name
\* again, and renames go on between every two steps (callbacks.rs:196-320,
\* 345-392; fuse.rs:177-207).
DataIsAuthorised ==
    \A t \in Threads :
        /\ In(t, "granted") /\ call[t].op \in Accesses => file.inode \in witness[t]
        /\ In(t, "listing") => folder.inode \in witness[t]

\* Every directory descriptor belongs to the handle or to a callback that has not
\* returned, on the paths that replace a handle's directory, fail to, or unwind:
\* none leaks and none is closed twice (callbacks.rs:345-384).
DescriptorsOwned ==
    descriptors = (IF folder.inode = None THEN 0 ELSE 1) + Cardinality({t \in Threads : call[t].fd # None})

\* Handles give what the policy allows, and their descriptors are accounted for.
HandlesSound == DataIsAuthorised /\ DescriptorsOwned
=============================================================================
