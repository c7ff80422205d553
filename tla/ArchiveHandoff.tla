--------------------------- MODULE ArchiveHandoff ---------------------------
(***************************************************************************)
(* The handoff between Pi sessions and the detached archive worker:        *)
(* src/src/server/ArchiveInbox.ts, ArchiveLock.ts, ArchiveWorker.ts,       *)
(* ArchiveBackground.ts and the transitions of ServerConfig.ts.            *)
(*                                                                         *)
(* A departing session writes a descriptor into the inbox and launches a   *)
(* worker; a configuration change writes a control event, commits, and     *)
(* launches a worker.  Workers elect one of them by a kernel lock.  The    *)
(* elected worker imports descriptors into its journal, acknowledges them, *)
(* works, and leaves when nothing is left, while others keep publishing    *)
(* and launching workers that lose the election and leave at once.  A      *)
(* worker or a session may die at any step; the kernel releases its locks. *)
(*                                                                         *)
(* An imported scope is captured, which frees its place in the journal,    *)
(* and what the capture found new is uploaded; a piece of work that fails  *)
(* is deferred.  The uploads themselves are the subject of ArchiveUpload.  *)
(***************************************************************************)
EXTENDS Integers, FiniteSets

CONSTANTS
    Descriptors,  \* departures, each with its own enqueue identity
    Admins,       \* login, logout and wakeup transitions
    Corrupt,      \* descriptors that do not decode when the worker reads them
    MaxActive,    \* scopes the journal admits (1024)
    MaxInbox,     \* descriptors the inbox admits (1024)
    MaxCrashes    \* bound on the processes that die

Producers == Descriptors \cup Admins
None == "none"

ASSUME ProducersAssumption ==
    /\ IsFiniteSet(Producers) /\ Descriptors \cap Admins = {}
    /\ Corrupt \subseteq Descriptors /\ None \notin Producers /\ "config" \notin Producers
ASSUME BoundsAssumption ==
    MaxActive \in Nat \ {0} /\ MaxInbox \in Nat \ {0} /\ MaxCrashes \in Nat

VARIABLES
    inbox,      \* descriptor files in the inbox directory
    control,    \* the transition whose token is in control.json, or None
    inboxLock,  \* the transition holding inbox.lock between its two writes
    gen,        \* the configured connection: None, or who saved it
    pinned,     \* the connection a descriptor was published under
    scopes,     \* the journal: imported descriptors and their state
    bound,      \* imported descriptors whose destination has a binding
    prod,       \* where each producer is
    lock,       \* the worker holding worker.lock
    pc,         \* where each worker is; a producer's worker has its name
    seen,       \* what a worker read: generation, control, identities left to
                \* import, retained identities, and two flags
    owed,       \* history: what the worker launched last must not overlook
    crashes     \* how many processes died

diskVars == <<inbox, control, inboxLock, gen, pinned>>
workVars == <<scopes, bound>>
vars == <<diskVars, workVars, prod, lock, pc, seen, owed, crashes>>

Unread == [gen |-> None, control |-> None, todo |-> {}, at |-> None, retained |-> {},
           retry |-> FALSE, eligible |-> FALSE]

-----------------------------------------------------------------------------
(* The journal                                                             *)

Active     == {d \in Descriptors : scopes[d] = "ready"}
Unfinished == {d \in Descriptors : scopes[d] \in {"ready", "captured"}}
Imported   == {d \in Descriptors : scopes[d] # "absent"}
Full       == Cardinality(Active) >= MaxActive

\* inspect(): unfinished work the present connection may do.  An unbound
\* destination belongs to the connection it was published under.
Eligible == {d \in Unfinished : gen # None /\ (d \in bound \/ pinned[d] = gen)}

-----------------------------------------------------------------------------
(* Producers                                                               *)

\* enqueue() reads the connection before it publishes.
Depart(d) ==
    /\ d \in Descriptors /\ prod[d] = "idle" /\ gen # None
    /\ prod' = [prod EXCEPT ![d] = "departing"]
    /\ pinned' = [pinned EXCEPT ![d] = gen]
    /\ UNCHANGED <<inbox, control, inboxLock, gen, workVars, lock, pc, seen, owed, crashes>>

\* inbox.lock is free for the taking.
InboxFreeAlways == TRUE                                                 \* mutant
InboxFree == inboxLock = None

\* publish(), under inbox.lock; refused when the inbox is full.
Publish(d) ==
    /\ d \in Descriptors /\ prod[d] = "departing" /\ InboxFree
    /\ \/ /\ Cardinality(inbox) < MaxInbox
          /\ inbox' = inbox \cup {d}
          /\ prod' = [prod EXCEPT ![d] = "published"]
       \/ /\ Cardinality(inbox) >= MaxInbox
          /\ prod' = [prod EXCEPT ![d] = "gone"]
          /\ UNCHANGED inbox
    /\ UNCHANGED <<control, inboxLock, gen, pinned, workVars, lock, pc, seen, owed, crashes>>

\* configurationTransition(): the event is on disk before the commit, and the
\* lock is held until the commit is done.
Announce(a) ==
    /\ a \in Admins /\ prod[a] = "idle" /\ InboxFree
    /\ control' = a /\ inboxLock' = a
    /\ prod' = [prod EXCEPT ![a] = "committing"]
    /\ owed' = owed \ {"config"}
    /\ UNCHANGED <<inbox, gen, pinned, workVars, lock, pc, seen, crashes>>

\* save(), logout() or signal() commits.
Commit(a) ==
    /\ prod[a] = "committing"
    /\ gen' \in {a, None, gen}
    /\ inboxLock' = None
    /\ prod' = [prod EXCEPT ![a] = "published"]
    /\ UNCHANGED <<inbox, control, pinned, workVars, lock, pc, seen, owed, crashes>>

\* launch(): the new worker owes everything that is on disk by now.
Launch(p) ==
    /\ prod[p] = "published"
    /\ prod' = [prod EXCEPT ![p] = "gone"]
    /\ pc' = [pc EXCEPT ![p] = "start"]
    /\ owed' = owed \cup inbox \cup {x \in {"config"} : inboxLock = None}
    /\ UNCHANGED <<diskVars, workVars, lock, seen, crashes>>

\* The producer dies, gives up (the lock is busy) or cannot spawn its worker.
Abandon(p) ==
    /\ prod[p] \in {"departing", "committing", "published"}
    /\ crashes < MaxCrashes /\ crashes' = crashes + 1
    /\ prod' = [prod EXCEPT ![p] = "gone"]
    /\ inboxLock' = IF inboxLock = p THEN None ELSE inboxLock
    /\ UNCHANGED <<inbox, control, gen, pinned, workVars, lock, pc, seen, owed>>

-----------------------------------------------------------------------------
(* ArchiveWorker.run()                                                     *)

Goto(w, l)    == pc' = [pc EXCEPT ![w] = l]
Note(w, note) == seen' = [seen EXCEPT ![w] = note]

\* The election: nonblocking, so a loser leaves.
Wins == lock = None

Start(w) ==
    /\ pc[w] = "start"
    /\ \/ Wins /\ lock' = w /\ Goto(w, "top")
       \/ ~Wins /\ lock' = lock /\ Goto(w, "done")
    /\ UNCHANGED <<diskVars, workVars, prod, seen, owed, crashes>>

ReadGeneration(w) ==
    /\ pc[w] = "top" /\ Goto(w, "control")
    /\ Note(w, [Unread EXCEPT !.gen = gen])
    /\ UNCHANGED <<diskVars, workVars, prod, lock, owed, crashes>>

ReadControl(w) ==
    /\ pc[w] = "control" /\ Goto(w, "ids")
    /\ Note(w, [seen[w] EXCEPT !.control = control])
    /\ UNCHANGED <<diskVars, workVars, prod, lock, owed, crashes>>

ReadIds(w) ==
    /\ pc[w] = "ids" /\ Goto(w, "import")
    /\ Note(w, [seen[w] EXCEPT !.todo = inbox])
    /\ UNCHANGED <<diskVars, workVars, prod, lock, owed, crashes>>

\* import(): idempotent, and refused when the journal is full.
Admits(d)     == d \in Imported \/ ~Full
Import(d) == scopes' = [scopes EXCEPT ![d] = IF @ = "absent" THEN "ready" ELSE @]

ImportOne(w, d) ==
    /\ pc[w] = "import" /\ d \in seen[w].todo
    /\ LET rest == [seen[w] EXCEPT !.todo = @ \ {d}] IN
       \/ /\ d \notin Corrupt /\ Admits(d)
          /\ Import(d)
          /\ Note(w, [rest EXCEPT !.at = d]) /\ Goto(w, "acknowledge")
       \/ /\ d \in Corrupt \/ ~Admits(d)
          /\ Note(w, [rest EXCEPT !.retained = @ \cup {d}])
          /\ UNCHANGED <<scopes, pc>>
    /\ UNCHANGED <<diskVars, bound, prod, lock, owed, crashes>>

\* acknowledge(): under inbox.lock; a busy lock is retried after the step.
Acknowledge(w) ==
    /\ pc[w] = "acknowledge" /\ InboxFree
    /\ inbox' = inbox \ {seen[w].at}
    /\ Note(w, [seen[w] EXCEPT !.at = None]) /\ Goto(w, "import")
    /\ UNCHANGED <<control, inboxLock, gen, pinned, workVars, prod, lock, owed, crashes>>

AcknowledgeBusy(w) ==
    /\ pc[w] = "acknowledge"
    /\ Note(w, [seen[w] EXCEPT !.at = None, !.retry = TRUE]) /\ Goto(w, "import")
    /\ UNCHANGED <<diskVars, workVars, prod, lock, owed, crashes>>

\* engine.step(): one piece of eligible work is done or deferred.  A capture may
\* leave nothing to upload: the source is lost, invalid, excluded or covered.
Work(w) ==
    /\ pc[w] = "import" /\ seen[w].todo = {}
    /\ Goto(w, "worked")
    /\ \/ Eligible = {} /\ UNCHANGED workVars
       \/ \E d \in Eligible : /\ bound' = bound \cup {d}
                             /\ UNCHANGED scopes
       \/ \E d \in Eligible, s \in {"captured", "done"} :
            /\ scopes[d] = "captured" => s = "done" /\ d \in bound
            /\ scopes' = [scopes EXCEPT ![d] = s]
            /\ UNCHANGED bound
    /\ UNCHANGED <<diskVars, prod, lock, seen, owed, crashes>>

\* The schedule engine.step() returns: inspect(), after its awaits.
InspectStep(w) ==
    /\ pc[w] = "worked" /\ Goto(w, "ackControl")
    /\ Note(w, [seen[w] EXCEPT !.eligible = (Eligible # {})])
    /\ UNCHANGED <<diskVars, workVars, prod, lock, owed, crashes>>

\* acknowledgeControl(): only the event that was read is removed.
Same(w) == control = seen[w].control

AcknowledgeControl(w) ==
    /\ pc[w] = "ackControl" /\ Goto(w, "decide")
    /\ \/ seen[w].control = None /\ UNCHANGED <<control, seen>>
       \/ /\ seen[w].control # None /\ InboxFree
          /\ control' = IF Same(w) THEN None ELSE control
          /\ UNCHANGED seen
       \/ /\ seen[w].control # None
          /\ Note(w, [seen[w] EXCEPT !.retry = TRUE])
          /\ UNCHANGED control
    /\ UNCHANGED <<inbox, inboxLock, gen, pinned, workVars, prod, lock, owed, crashes>>

\* More to do: sleep and go round.
Continue(w) ==
    /\ pc[w] = "decide" /\ (seen[w].eligible \/ seen[w].retry)
    /\ Goto(w, "top")
    /\ UNCHANGED <<diskVars, workVars, prod, lock, seen, owed, crashes>>

\* Nothing to do: close, release, and only then look once more.
AfterRelease == "recheck"
LeaveAtOnce  == "done"                                                  \* mutant
Released     == AfterRelease

Release(w) ==
    /\ pc[w] = "decide" /\ ~seen[w].eligible /\ ~seen[w].retry
    /\ lock' = None /\ Goto(w, Released)
    /\ UNCHANGED <<diskVars, workVars, prod, seen, owed, crashes>>

Changed(w) == inbox # seen[w].retained \/ control # None \/ gen # seen[w].gen

Recheck(w) ==
    /\ pc[w] = "recheck" /\ Goto(w, "remaining")
    /\ Note(w, [seen[w] EXCEPT !.retry = Changed(w)])
    /\ UNCHANGED <<diskVars, workVars, prod, lock, owed, crashes>>

Remaining(w) ==
    /\ pc[w] = "remaining"
    /\ Goto(w, IF seen[w].retry \/ Eligible # {} THEN "start" ELSE "done")
    /\ UNCHANGED <<diskVars, workVars, prod, lock, seen, owed, crashes>>

\* The worker dies or throws: nothing it was launched for is owed any more, a
\* later wakeup resumes it.
Crash(w) ==
    /\ pc[w] \notin {"none", "done"} /\ crashes < MaxCrashes
    /\ crashes' = crashes + 1
    /\ Goto(w, "done")
    /\ lock' = IF lock = w THEN None ELSE lock
    /\ owed' = {}
    /\ UNCHANGED <<diskVars, workVars, prod, seen>>

-----------------------------------------------------------------------------
Init ==
    /\ inbox = {} /\ control = None /\ inboxLock = None
    /\ gen \in {None} \cup Admins
    /\ pinned = [d \in Descriptors |-> None]
    /\ scopes = [d \in Descriptors |-> "absent"]
    /\ bound = {}
    /\ prod = [p \in Producers |-> "idle"]
    /\ lock = None
    /\ pc = [w \in Producers |-> "none"]
    /\ seen = [w \in Producers |-> Unread]
    /\ owed = {} /\ crashes = 0

ProducerStep(p) == Depart(p) \/ Publish(p) \/ Announce(p) \/ Commit(p) \/ Launch(p) \/ Abandon(p)

WorkerStep(w) ==
    \/ Start(w) \/ ReadGeneration(w) \/ ReadControl(w) \/ ReadIds(w)
    \/ \E d \in Descriptors : ImportOne(w, d)
    \/ Acknowledge(w) \/ AcknowledgeBusy(w)
    \/ Work(w) \/ InspectStep(w) \/ AcknowledgeControl(w)
    \/ Continue(w) \/ Release(w) \/ Recheck(w) \/ Remaining(w)

Next == \/ \E p \in Producers : ProducerStep(p)
        \/ \E w \in Producers : WorkerStep(w)
        \/ \E w \in Producers : Crash(w)

Spec == Init /\ [][Next]_vars

-----------------------------------------------------------------------------
(* Properties                                                              *)

Notes == [gen : Admins \cup {None}, control : Admins \cup {None}, todo : SUBSET Descriptors,
          at : Descriptors \cup {None}, retained : SUBSET Descriptors,
          retry : BOOLEAN, eligible : BOOLEAN]

\* Every variable has its type, and the journal stays within its admission.
TypeOK ==
    /\ inbox \subseteq Descriptors
    /\ control \in Admins \cup {None} /\ inboxLock \in Admins \cup {None}
    /\ gen \in Admins \cup {None}
    /\ pinned \in [Descriptors -> Admins \cup {None}]
    /\ scopes \in [Descriptors -> {"absent", "ready", "captured", "done"}]
    /\ bound \subseteq Descriptors
    /\ prod \in [Producers -> {"idle", "departing", "committing", "published", "gone"}]
    /\ lock \in Producers \cup {None}
    /\ pc \in [Producers -> {"none", "start", "top", "control", "ids", "import", "acknowledge",
                             "worked", "ackControl", "decide", "recheck", "remaining", "done"}]
    /\ seen \in [Producers -> Notes]
    /\ owed \subseteq Descriptors \cup {"config"}
    /\ crashes \in 0 .. MaxCrashes
    /\ Cardinality(Active) <= MaxActive

\* At most one worker is between its election and its release, and it holds the
\* lock: only it writes the journal and removes files of the inbox.
Elected == {"top", "control", "ids", "import", "acknowledge", "worked", "ackControl", "decide"}
OneWriter == \A w \in Producers : pc[w] \in Elected => lock = w

\* A published descriptor is in the inbox until the journal has it, whoever
\* dies in between.
NoDescriptorLost ==
    \A d \in Descriptors :
        (prod[d] = "published" \/ pc[d] # "none") => d \in inbox \cup Imported

\* When every worker has left, none of them overlooked what was on disk at a
\* launch that no crash undid: a descriptor is left behind only if a worker saw
\* and retained it, and no event or work of the present connection is.
AllLeft == \A w \in Producers : pc[w] \in {"none", "done"}
NoLostWakeup ==
    AllLeft => /\ \A d \in owed \cap inbox : \E w \in Producers : d \in seen[w].retained
               /\ "config" \in owed => control = None /\ Eligible = {}

\* "It may exit only when no eligible unfinished work remains": a descriptor that
\* the journal has room for is not left behind.
NoneLeftBehind ==
    AllLeft => \A d \in owed \cap inbox : d \in Corrupt \/ ~Admits(d)

\* An event is removed only once its transition has committed, so a worker
\* that acknowledged it has the new connection before it leaves.
EventCoversCommit ==
    [][(control # None /\ control' = None) => prod[control] # "committing"]_vars

\* One writer at a time, no descriptor lost on the way and no wake-up missed.
HandoffConsistent == TypeOK /\ OneWriter /\ NoDescriptorLost /\ NoLostWakeup
=============================================================================
