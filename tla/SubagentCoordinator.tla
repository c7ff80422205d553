------------------------ MODULE SubagentCoordinator ------------------------
(***************************************************************************)
(* The lifecycle of retained child-agent conversations kept by             *)
(* src/src/subagents/SubagentCoordinator.ts.                               *)
(*                                                                         *)
(* The coordinator runs on one JavaScript thread, so an action is a        *)
(* stretch of code between two awaits.  What interleaves is everything     *)
(* that runs across an await: the turns of the jobs (executeTurn), calls   *)
(* of message() waiting for session.steer(), calls of stop() waiting for   *)
(* a turn to unwind, close(), the turn timeout, and the `.finally` of a    *)
(* turn, which runs some microtasks after the turn published its result.   *)
(*                                                                         *)
(* Wording (latestLine, output, error, timestamps) is left out.  The child *)
(* session and the policy principal registry are external: what they       *)
(* answer is a nondeterministic choice.                                    *)
(***************************************************************************)
EXTENDS Integers, Sequences, FiniteSets

CONSTANTS
    Jobs,            \* identifiers spawn() can hand out, each used once
    Messages,        \* calls of message(), each made once
    Stoppers,        \* calls of stop(), each made once
    Grants,          \* sets of mechanisms a spawn request may ask for
    None,            \* no parent: spawned from the root agent
    MaxConcurrency,  \* options.maxConcurrency
    MaxDepth,        \* options.maxDepth
    MaxJobs,         \* options.maxJobs
    Flaky            \* jobs whose removePolicyPrincipal call may throw

ASSUME JobsAssumption ==
    /\ IsFiniteSet(Jobs) /\ None \notin Jobs /\ Flaky \subseteq Jobs
ASSUME LimitsAssumption ==
    /\ MaxConcurrency \in Nat \ {0} /\ MaxDepth \in Nat /\ MaxJobs \in Nat \ {0}

VARIABLES
    status,          \* job.status; "unborn" before spawn, "evicted" after removal
    parent,          \* job.parentId
    depth,           \* job.depth
    mech,            \* job.capabilities.mechanisms()
    released,        \* jobs with principalReleased
    queue,           \* this.queue
    activeCount,     \* this.activeCount
    closePhase,      \* "open"; "closing" and "closed" both have this.closed
    closeWait,       \* running jobs whose stopOne() close() still awaits
    pc,              \* where the job's current executeTurn is suspended
    session,         \* jobs that hold a child session
    aborted,         \* jobs whose turn's controller is aborted, its wait scope closed
    stopRequested,   \* jobs with job.stopRequested
    timedOut,        \* jobs with job.timedOut
    abort,           \* job.abortPromise
    settling,        \* finished turns of a job whose .finally has not run
    pendingSteering, \* job.pendingSteering
    steering,        \* messages the turn itself hands to session.steer()
    queuedTasks,     \* job.queuedTasks
    msg,             \* the state of each message() call
    target,          \* the job a message was sent to
    stop             \* the state of each stop() call

treeVars  == <<parent, depth, mech>>
turnVars  == <<pc, session, aborted, stopRequested, timedOut, abort>>
inboxVars == <<pendingSteering, steering, queuedTasks>>
msgVars   == <<msg, target>>
closeVars == <<closePhase, closeWait>>
vars == <<status, treeVars, released, queue, activeCount, closeVars, turnVars,
          settling, inboxVars, msgVars, stop>>

-----------------------------------------------------------------------------
\* SubagentJobStatus, with the two states outside this.jobs.
Terminal == {"failed", "cancelled", "timed_out"}
Statuses == {"unborn", "queued", "running", "idle", "evicted"} \cup Terminal

Closed   == closePhase # "open"
InMap(j) == status[j] \notin {"unborn", "evicted"}

\* The walk of isDescendant() along the parent pointers kept in this.jobs.
IsDescendant(j, a) ==
    LET up[k \in 0..MaxDepth] ==
            IF k = 0 THEN parent[j]
            ELSE IF up[k-1] # None /\ InMap(up[k-1]) THEN parent[up[k-1]] ELSE None
    IN  parent[j] = a \/ \E k \in 1..MaxDepth : up[k] = a

Descendants(a) == {j \in Jobs : InMap(j) /\ IsDescendant(j, a)}

-----------------------------------------------------------------------------
\* Mutant: the children of a job are not looked at.
ReleasableUnordered(st, bad) == {j \in Jobs : st[j] \in Terminal} \ (released \cup bad)

(***************************************************************************)
(* releaseTerminalPrincipals(): bottom-up passes over the terminal jobs; a *)
(* job is released once none of its children in this.jobs is retained.     *)
(* The passes end at the largest set closed that way; a removal that       *)
(* throws (`bad') retains its job and with it every ancestor.              *)
(***************************************************************************)
Releasable(st, bad) ==
    LET candidates == {j \in Jobs : st[j] \in Terminal} \ (released \cup bad)
        ready(S)   == \A p \in S, c \in Jobs :
                        (/\ parent[c] = p
                         /\ st[c] \notin {"unborn", "evicted"}
                         /\ c \notin released) => c \in S
    IN  UNION {S \in SUBSET candidates : ready(S)}

ReleaseTerminalPrincipals(st) ==
    \E bad \in SUBSET Flaky : released' = released \cup Releasable(st, bad)

-----------------------------------------------------------------------------
\* disposeSession() on every job of S.
DisposeSessionKeepsIt(S) == session                                  \* mutant
DisposeSession(S) == session \ S

(***************************************************************************)
(* pump(): while open and below the limit, shift the queue; skip a job     *)
(* that is no longer queued, start a turn for one that is.  q, st and ac   *)
(* are the queue, the statuses and the active count when pump() is called; *)
(* `fresh' are the jobs promoteFollowUp() has just reset.                  *)
(***************************************************************************)
\* Mutant: the entry's status is not looked at.
StartedAny(q, st, k) == {j \in Jobs : \E i \in 1..k : q[i] = j}
StartedIn(q, st, k) == {j \in Jobs : st[j] = "queued" /\ \E i \in 1..k : q[i] = j}

PumpStops(q, st, ac, k) ==
    \/ Closed
    \/ ac + Cardinality(StartedIn(q, st, k)) >= MaxConcurrency
    \/ k = Len(q)

\* pump() leaves its loop after k entries.
PumpEndsAt(q, st, ac, k) ==
    PumpStops(q, st, ac, k) /\ \A i \in 0..(k-1) : ~PumpStops(q, st, ac, i)

\* The synchronous start of executeTurn() for every job among the first k of the
\* queue that pump() starts: up to sessionFactory.create() for a first turn, up
\* to the prompt for a retained conversation.
StartTurns(q, st, ac, fresh, k) ==
    LET started == StartedIn(q, st, k)
        resumed == started \cap session
    IN  /\ queue' = SubSeq(q, k + 1, Len(q))
        /\ activeCount' = ac + Cardinality(started)
        /\ status' = [j \in Jobs |-> IF j \in started THEN "running" ELSE st[j]]
        /\ pc' = [j \in Jobs |-> IF j \in resumed THEN "prompting"
                                 ELSE IF j \in started THEN "creating" ELSE pc[j]]
        /\ aborted' = aborted \ started
        /\ stopRequested' = stopRequested \ (started \cup fresh)
        /\ timedOut' = timedOut \ (started \cup fresh)
        /\ abort' = [j \in Jobs |-> IF j \in started THEN "none" ELSE abort[j]]
        /\ steering' = [j \in Jobs |-> IF j \in resumed THEN pendingSteering[j]
                                                        ELSE steering[j]]
        /\ pendingSteering' = [j \in Jobs |-> IF j \in resumed THEN <<>>
                                                               ELSE pendingSteering[j]]
        /\ UNCHANGED session

Pump(q, st, ac, fresh) ==
    \E k \in 0..Len(q) : PumpEndsAt(q, st, ac, k) /\ StartTurns(q, st, ac, fresh, k)

\* requestAbort(): close the wait scope, abort the controller and, once, the
\* session if there is one.
AbortsStarted(S) ==
    [j \in Jobs |-> IF j \in S /\ j \in session /\ abort[j] = "none"
                    THEN "pending" ELSE abort[j]]
RequestAbort(S) == aborted' = aborted \cup S /\ abort' = AbortsStarted(S)

-----------------------------------------------------------------------------
(* spawn()                                                                 *)

\* evictTerminalJobs(): at the limit, one released terminal job without
\* descendants makes room; otherwise spawn() throws and nothing changes.
Evictable == {j \in Jobs : /\ status[j] \in Terminal
                           /\ j \in released
                           /\ Descendants(j) = {}}
Evictions == IF Cardinality({j \in Jobs : InMap(j)}) < MaxJobs
             THEN {{}} ELSE {{j} : j \in Evictable}

\* validateNestedSpawn() and the depth limit.  The delegation context of a job
\* exists while its prompt runs, and registerPolicyPrincipal() needs the
\* parent's principal.
MaySpawn(p, ms) ==
    \/ p = None
    \/ /\ p \in Jobs /\ status[p] = "running" /\ pc[p] = "prompting"
       /\ depth[p] < MaxDepth
       /\ "delegate" \in mech[p]
       /\ ms \subseteq mech[p]
       /\ p \notin released

Spawn(j, p, ms) ==
    /\ ~Closed
    /\ status[j] = "unborn"
    /\ MaySpawn(p, ms)
    /\ parent' = [parent EXCEPT ![j] = p]
    /\ depth' = [depth EXCEPT ![j] = IF p = None THEN 0 ELSE depth[p] + 1]
    /\ mech' = [mech EXCEPT ![j] = ms]
    /\ \E gone \in Evictions :
         Pump(Append(queue, j),
              [x \in Jobs |-> IF x \in gone THEN "evicted"
                              ELSE IF x = j THEN "queued" ELSE status[x]],
              activeCount, {})
    /\ UNCHANGED <<released, closeVars, settling, queuedTasks, msgVars, stop>>

-----------------------------------------------------------------------------
(* executeTurn()                                                           *)

\* The throw of an aborted or failed turn: the catch block first awaits the
\* abort promise as it stands.
CaughtWaits(j) == "aborting"                        \* mutant: awaits an abort nobody requested
Caught(j) == IF abort'[j] = "pending" THEN "aborting" ELSE "failing"

\* sessionFactory.create() resolves.  A turn aborted meanwhile aborts the new
\* session and throws; otherwise the prompt starts and the messages that
\* waited for the session are handed to session.steer().
SessionCreated(j) ==
    /\ pc[j] = "creating"
    /\ session' = session \cup {j}
    /\ \/ /\ j \in aborted
          /\ abort' = [abort EXCEPT ![j] = "pending"]
          /\ pc' = [pc EXCEPT ![j] = "aborting"]
          /\ UNCHANGED <<pendingSteering, steering>>
       \/ /\ j \notin aborted
          /\ pc' = [pc EXCEPT ![j] = "prompting"]
          /\ steering' = [steering EXCEPT ![j] = pendingSteering[j]]
          /\ pendingSteering' = [pendingSteering EXCEPT ![j] = <<>>]
          /\ UNCHANGED abort
    /\ UNCHANGED <<status, treeVars, released, queue, activeCount, closeVars, aborted,
                   stopRequested, timedOut, settling, queuedTasks, msgVars, stop>>

\* Promise.all over the steering calls resolves.  `declined' lists, in order,
\* the positions the session did not accept: they become follow-ups.
SteeringSettled(j, declined) ==
    /\ pc[j] = "prompting" /\ steering[j] # <<>>
    /\ \A a, b \in DOMAIN declined : a < b => declined[a] < declined[b]
    /\ queuedTasks' = [queuedTasks EXCEPT ![j] =
                         @ \o [i \in 1..Len(declined) |-> steering[j][declined[i]]]]
    /\ msg' = [m \in Messages |->
                 IF \E i \in 1..Len(steering[j]) :
                      steering[j][i] = m /\ \A a \in DOMAIN declined : declined[a] # i
                 THEN "accepted" ELSE msg[m]]
    /\ steering' = [steering EXCEPT ![j] = <<>>]
    /\ UNCHANGED <<status, treeVars, released, queue, activeCount, closeVars,
                   turnVars, settling, pendingSteering, target, stop>>

\* create(), one of the steering calls or the prompt rejects, or the prompt
\* resolves for an aborted turn.
TurnFails(j) ==
    /\ pc[j] \in {"creating", "prompting"}
    /\ UNCHANGED abort
    /\ pc' = [pc EXCEPT ![j] = Caught(j)]
    /\ steering' = [steering EXCEPT ![j] = <<>>]
    /\ UNCHANGED <<status, treeVars, released, queue, activeCount, closeVars, session,
                   aborted, stopRequested, timedOut, settling, pendingSteering,
                   queuedTasks, msgVars, stop>>

\* The turn's timeout: its timer is disposed when the wait scope closes.
TurnTimesOut(j) ==
    /\ pc[j] \in {"creating", "prompting"}
    /\ j \notin aborted
    /\ timedOut' = timedOut \cup {j}
    /\ RequestAbort({j})
    /\ UNCHANGED <<status, treeVars, released, queue, activeCount, closeVars, pc, session,
                   stopRequested, settling, inboxVars, msgVars, stop>>

\* session.abort() settles; a rejection is recorded and swallowed.
AbortSettles(j) ==
    /\ abort[j] = "pending"
    /\ abort' = [abort EXCEPT ![j] = "done"]
    /\ UNCHANGED <<status, treeVars, released, queue, activeCount, closeVars, pc, session,
                   aborted, stopRequested, timedOut, settling, inboxVars, msgVars, stop>>

\* The prompt resolved and the turn was not aborted.
PromptResolvedUnchecked(j) == pc[j] = "prompting" /\ steering[j] = <<>>       \* mutant
PromptResolved(j) == pc[j] = "prompting" /\ steering[j] = <<>> /\ j \notin aborted

\* The oldest follow-up is promoted and the job queued again, or the job becomes
\* idle.  The finally block keeps the session.
TurnCompletes(j) ==
    /\ PromptResolved(j)
    /\ pc' = [pc EXCEPT ![j] = "none"]
    /\ settling' = [settling EXCEPT ![j] = @ + 1]
    /\ \/ /\ queuedTasks[j] = <<>>
          /\ status' = [status EXCEPT ![j] = "idle"]
          /\ UNCHANGED <<queue, stopRequested, timedOut, queuedTasks, msg>>
       \/ /\ queuedTasks[j] # <<>>
          /\ queuedTasks' = [queuedTasks EXCEPT ![j] = Tail(@)]
          /\ msg' = [msg EXCEPT ![Head(queuedTasks[j])] = "task"]
          /\ status' = [status EXCEPT ![j] = "queued"]
          /\ stopRequested' = stopRequested \ {j}
          /\ timedOut' = timedOut \ {j}
          /\ queue' = Append(queue, j)
    /\ ReleaseTerminalPrincipals(status')
    /\ UNCHANGED <<treeVars, activeCount, closeVars, session, aborted, abort,
                   pendingSteering, steering, target, stop>>

\* The same, but the finally block throws: handleUnexpectedTurnFailure() fails
\* a job that was queued again, leaving its entry in the queue, and disposes
\* the session of an idle one.
TurnFinalizationFails(j) ==
    /\ PromptResolved(j)
    /\ pc' = [pc EXCEPT ![j] = "none"]
    /\ settling' = [settling EXCEPT ![j] = @ + 1]
    /\ session' = DisposeSession({j})
    /\ \/ /\ queuedTasks[j] = <<>>
          /\ status' = [status EXCEPT ![j] = "idle"]
          /\ UNCHANGED <<queue, stopRequested, timedOut, queuedTasks, msg>>
       \/ /\ queuedTasks[j] # <<>>
          /\ queuedTasks' = [queuedTasks EXCEPT ![j] = Tail(@)]
          /\ msg' = [msg EXCEPT ![Head(queuedTasks[j])] = "task"]
          /\ status' = [status EXCEPT ![j] = "failed"]
          /\ stopRequested' = stopRequested \ {j}
          /\ timedOut' = timedOut \ {j}
          /\ queue' = Append(queue, j)
    /\ ReleaseTerminalPrincipals(status')
    /\ UNCHANGED <<treeVars, activeCount, closeVars, aborted, abort,
                   pendingSteering, steering, target, stop>>

\* The catch block resumes after the abort promise and the finally block
\* disposes the session.
TurnUnwinds(j) ==
    /\ \/ pc[j] = "failing"
       \/ pc[j] = "aborting" /\ abort[j] = "done"
    /\ status' = [status EXCEPT ![j] =
                    IF j \in timedOut THEN "timed_out"
                    ELSE IF j \in stopRequested \cup aborted THEN "cancelled"
                    ELSE "failed"]
    /\ pc' = [pc EXCEPT ![j] = "none"]
    /\ settling' = [settling EXCEPT ![j] = @ + 1]
    /\ session' = DisposeSession({j})
    /\ pendingSteering' = [pendingSteering EXCEPT ![j] = <<>>]
    /\ queuedTasks' = [queuedTasks EXCEPT ![j] = <<>>]
    /\ ReleaseTerminalPrincipals(status')
    /\ UNCHANGED <<treeVars, queue, activeCount, closeVars, aborted, stopRequested,
                   timedOut, abort, steering, msgVars, stop>>

FreedSlots == activeCount - 1

\* The .finally of a finished turn frees its slot and pumps the queue.
TurnFinally(j) ==
    /\ settling[j] > 0
    /\ settling' = [settling EXCEPT ![j] = @ - 1]
    /\ Pump(queue, status, FreedSlots, {})
    /\ UNCHANGED <<treeVars, released, closeVars, queuedTasks, msgVars, stop>>

-----------------------------------------------------------------------------
(* message()                                                               *)

\* Mutant: after the await the job is still taken to be running.
DeliverStale(m, j) ==
    /\ msg' = [msg EXCEPT ![m] = "held"]
    /\ queuedTasks' = [queuedTasks EXCEPT ![j] = Append(@, m)]
    /\ UNCHANGED <<status, queue, activeCount, turnVars, pendingSteering, steering>>

\* What message() does with a message no steering call took: an idle job is
\* promoted and pumped, an active one keeps it for later, a terminal one
\* makes the call throw.
Deliver(m, j) ==
    \/ /\ status[j] = "idle"
       /\ msg' = [msg EXCEPT ![m] = "task"]
       /\ Pump(Append(queue, j), [status EXCEPT ![j] = "queued"], activeCount, {j})
       /\ UNCHANGED queuedTasks
    \/ /\ status[j] \in {"queued", "running"}
       /\ msg' = [msg EXCEPT ![m] = "held"]
       /\ queuedTasks' = [queuedTasks EXCEPT ![j] = Append(@, m)]
       /\ UNCHANGED <<status, queue, activeCount, turnVars, pendingSteering, steering>>
    \/ /\ status[j] \notin {"idle", "queued", "running"}
       /\ msg' = [msg EXCEPT ![m] = "refused"]
       /\ UNCHANGED <<status, queue, activeCount, turnVars, inboxVars>>

Message(m, j) ==
    /\ ~Closed
    /\ msg[m] = "unsent" /\ InMap(j)
    /\ target' = [target EXCEPT ![m] = j]
    /\ \/ /\ status[j] = "running" /\ j \notin session
          /\ pendingSteering' = [pendingSteering EXCEPT ![j] = Append(@, m)]
          /\ msg' = [msg EXCEPT ![m] = "held"]
          /\ UNCHANGED <<status, queue, activeCount, turnVars, steering, queuedTasks>>
       \/ /\ status[j] = "running" /\ j \in session
          /\ msg' = [msg EXCEPT ![m] = "steering"]
          /\ UNCHANGED <<status, queue, activeCount, turnVars, inboxVars>>
       \/ /\ status[j] # "running"
          /\ Deliver(m, j)
    /\ UNCHANGED <<treeVars, released, closeVars, settling, stop>>

\* session.steer() answers true: the session has the message.
SteerAccepted(m) ==
    /\ msg[m] = "steering"
    /\ msg' = [msg EXCEPT ![m] = "accepted"]
    /\ UNCHANGED <<status, treeVars, released, queue, activeCount, closeVars, turnVars,
                   settling, inboxVars, target, stop>>

\* session.steer() answers false: the job's status is read again.
SteerDeclined(m) ==
    /\ msg[m] = "steering"
    /\ Deliver(m, target[m])
    /\ UNCHANGED <<treeVars, released, closeVars, settling, target, stop>>

\* session.steer() rejects and message() with it.
SteerRejected(m) ==
    /\ msg[m] = "steering"
    /\ msg' = [msg EXCEPT ![m] = "refused"]
    /\ UNCHANGED <<status, treeVars, released, queue, activeCount, closeVars, turnVars,
                   settling, inboxVars, target, stop>>

-----------------------------------------------------------------------------
(* stop() and close()                                                      *)

\* The queue without job j, at most one entry of which it holds.
Dequeue(j) ==
    IF \E i \in 1..Len(queue) : queue[i] = j
    THEN LET i == CHOOSE i \in 1..Len(queue) : queue[i] = j
         IN  SubSeq(queue, 1, i - 1) \o SubSeq(queue, i + 1, Len(queue))
    ELSE queue

\* stopOne() on every job of S: a queued or idle job is cancelled at once, a
\* running one is asked to unwind.
StopOne(S) ==
    LET now  == {j \in S : status[j] \in {"queued", "idle"}}
        live == {j \in S : status[j] = "running"}
    IN  /\ status' = [j \in Jobs |-> IF j \in now THEN "cancelled" ELSE status[j]]
        /\ stopRequested' = stopRequested \cup now \cup live
        /\ pendingSteering' = [j \in Jobs |-> IF j \in now THEN <<>> ELSE pendingSteering[j]]
        /\ queuedTasks' = [j \in Jobs |-> IF j \in now THEN <<>> ELSE queuedTasks[j]]
        /\ session' = DisposeSession(now)
        /\ RequestAbort(live)
        /\ UNCHANGED <<treeVars, activeCount, pc, timedOut, settling, steering, msgVars>>

\* `await abortPromise; await runPromise' of stopOne().
UnwoundAborted(j) == abort[j] # "pending"         \* mutant: the turn is not awaited
Unwound(j) == pc[j] = "none" /\ settling[j] = 0 /\ abort[j] # "pending"

\* The next victim of stop(): descendants deepest first, the root last.
Deepest(S) == {j \in S : \A x \in S : depth[x] <= depth[j]}

StopStep(s, victims, root, todo) ==
    \E j \in Deepest(todo) :
        /\ StopOne({j})
        /\ queue' = IF status[j] = "queued" THEN Dequeue(j) ELSE queue
        /\ stop' = [stop EXCEPT ![s] =
                      [phase |-> IF status[j] = "running" THEN "waiting" ELSE "next",
                       root |-> root, victims |-> victims, todo |-> todo \ {j}, at |-> j]]
        /\ IF status[j] \in {"queued", "idle"}
           THEN ReleaseTerminalPrincipals(status') ELSE UNCHANGED released
        /\ UNCHANGED closeVars

StopCalled(s, j) ==
    /\ stop[s].phase = "idle" /\ InMap(j)
    /\ LET victims == Descendants(j) \cup {j} IN StopStep(s, victims, j, victims)

StopNext(s) ==
    /\ stop[s].phase = "next" /\ stop[s].todo # {}
    /\ StopStep(s, stop[s].victims, stop[s].root, stop[s].todo)

StopUnwound(s) ==
    /\ stop[s].phase = "waiting" /\ Unwound(stop[s].at)
    /\ stop' = [stop EXCEPT ![s].phase = "next"]
    /\ UNCHANGED <<status, treeVars, released, queue, activeCount, closeVars, turnVars,
                   settling, inboxVars, msgVars>>

StopReturns(s) ==
    /\ stop[s].phase = "next" /\ stop[s].todo = {}
    /\ stop' = [stop EXCEPT ![s].phase = "done"]
    /\ ReleaseTerminalPrincipals(status)
    /\ UNCHANGED <<status, treeVars, queue, activeCount, closeVars, turnVars, settling,
                   inboxVars, msgVars>>

\* close().  Every queued job leaves the queue here and pump() no longer reads
\* it, so the splice that empties it is not kept for CloseReturns.
Close ==
    /\ closePhase = "open"
    /\ closePhase' = "closing"
    /\ StopOne({j \in Jobs : InMap(j)})
    /\ queue' = <<>>
    /\ closeWait' = {j \in Jobs : status[j] = "running"}
    /\ IF \E j \in Jobs : status[j] \in {"queued", "idle"}
       THEN ReleaseTerminalPrincipals(status') ELSE UNCHANGED released
    /\ UNCHANGED stop

CloseReturns ==
    /\ closePhase = "closing" /\ \A j \in closeWait : Unwound(j)
    /\ closePhase' = "closed"
    /\ closeWait' = {}
    /\ ReleaseTerminalPrincipals(status)
    /\ UNCHANGED <<status, treeVars, queue, activeCount, turnVars, settling, inboxVars,
                   msgVars, stop>>

-----------------------------------------------------------------------------
Init ==
    /\ status = [j \in Jobs |-> "unborn"]
    /\ parent = [j \in Jobs |-> None]
    /\ depth = [j \in Jobs |-> 0]
    /\ mech = [j \in Jobs |-> {}]
    /\ released = {}
    /\ queue = <<>>
    /\ activeCount = 0
    /\ closePhase = "open" /\ closeWait = {}
    /\ pc = [j \in Jobs |-> "none"]
    /\ session = {} /\ aborted = {} /\ stopRequested = {} /\ timedOut = {}
    /\ abort = [j \in Jobs |-> "none"]
    /\ settling = [j \in Jobs |-> 0]
    /\ pendingSteering = [j \in Jobs |-> <<>>]
    /\ steering = [j \in Jobs |-> <<>>]
    /\ queuedTasks = [j \in Jobs |-> <<>>]
    /\ msg = [m \in Messages |-> "unsent"]
    /\ target = [m \in Messages |-> None]
    /\ stop = [s \in Stoppers |-> [phase |-> "idle", root |-> None, victims |-> {},
                                 todo |-> {}, at |-> None]]

TurnStep(j) ==
    \/ SessionCreated(j)
    \/ \E n \in 0..Len(steering[j]) :
         \E declined \in [1..n -> 1..Len(steering[j])] : SteeringSettled(j, declined)
    \/ TurnFails(j)
    \/ TurnTimesOut(j)
    \/ AbortSettles(j)
    \/ TurnCompletes(j)
    \/ TurnFinalizationFails(j)
    \/ TurnUnwinds(j)
    \/ TurnFinally(j)

MessageStep(m) ==
    \/ \E j \in Jobs : Message(m, j)
    \/ SteerAccepted(m)
    \/ SteerDeclined(m)
    \/ SteerRejected(m)

StopCallStep(s) ==
    \/ \E j \in Jobs : StopCalled(s, j)
    \/ StopNext(s)
    \/ StopUnwound(s)
    \/ StopReturns(s)

Next ==
    \/ \E j \in Jobs, p \in Jobs \cup {None}, ms \in Grants : Spawn(j, p, ms)
    \/ \E j \in Jobs : TurnStep(j)
    \/ \E m \in Messages : MessageStep(m)
    \/ \E s \in Stoppers : StopCallStep(s)
    \/ Close
    \/ CloseReturns

Spec == Init /\ [][Next]_vars

\* What the event loop, the timers and an abortable session guarantee: timers
\* fire, an aborted session settles its calls, continuations run.  Nothing is
\* assumed of a prompt beyond its timeout, of steering beyond its answer.
Fairness ==
    /\ \A j \in Jobs : /\ WF_vars(TurnTimesOut(j))
                       /\ WF_vars(j \in aborted /\ TurnFails(j))
                       /\ WF_vars(AbortSettles(j))
                       /\ WF_vars(TurnUnwinds(j))
                       /\ WF_vars(TurnFinally(j))
    /\ \A s \in Stoppers : /\ WF_vars(StopNext(s))
                           /\ WF_vars(StopUnwound(s))
                           /\ WF_vars(StopReturns(s))
    /\ WF_vars(CloseReturns)

FairSpec == Spec /\ Fairness

-----------------------------------------------------------------------------
(* Properties                                                              *)

Phases == {"none", "creating", "prompting", "failing", "aborting"}
MessageStates == {"unsent", "steering", "held", "task", "accepted", "refused"}
StopCalls == [phase : {"idle", "next", "waiting", "done"}, root : Jobs \cup {None},
              victims : SUBSET Jobs, todo : SUBSET Jobs, at : Jobs \cup {None}]

\* Every variable has its type; the active count never exceeds maxConcurrency.
TypeOK ==
    /\ status \in [Jobs -> Statuses]
    /\ parent \in [Jobs -> Jobs \cup {None}]
    /\ depth \in [Jobs -> 0..MaxDepth]
    /\ mech \in [Jobs -> Grants \cup {{}}]
    /\ released \subseteq Jobs
    /\ queue \in Seq(Jobs)
    /\ activeCount \in Int /\ activeCount <= MaxConcurrency
    /\ closePhase \in {"open", "closing", "closed"}
    /\ closeWait \subseteq Jobs
    /\ pc \in [Jobs -> Phases]
    /\ session \subseteq Jobs /\ aborted \subseteq Jobs
    /\ stopRequested \subseteq Jobs /\ timedOut \subseteq Jobs
    /\ abort \in [Jobs -> {"none", "pending", "done"}]
    /\ settling \in [Jobs -> Nat]
    /\ pendingSteering \in [Jobs -> Seq(Messages)]
    /\ steering \in [Jobs -> Seq(Messages)]
    /\ queuedTasks \in [Jobs -> Seq(Messages)]
    /\ msg \in [Messages -> MessageStates]
    /\ target \in [Messages -> Jobs \cup {None}]
    /\ stop \in [Stoppers -> StopCalls]

Occurrences(q, x) == {i \in 1..Len(q) : q[i] = x}
Gone(j) == status[j] \in Terminal \cup {"evicted"}

\* A queued job is in the queue exactly once, and an entry is a queued job or
\* one whose turn finalization failed, which pump() skips: follow-ups promoted
\* by a finishing turn, by message() and by spawn(), and removals by stop(),
\* neither duplicate nor lose a job.
QueueExact ==
    /\ \A j \in Jobs : status[j] = "queued" => Cardinality(Occurrences(queue, j)) = 1
    /\ \A i \in 1..Len(queue) : status[queue[i]] \in {"queued", "failed", "evicted"}

\* Every slot is held by a running turn or by a finished one whose .finally is
\* outstanding, although a job promoted again may start its next turn first.
SlotsAccounted ==
    LET fin[S \in SUBSET Jobs] ==
            IF S = {} THEN 0 ELSE LET j == CHOOSE x \in S : TRUE
                                  IN  settling[j] + fin[S \ {j}]
    IN  /\ \A j \in Jobs : (status[j] = "running") <=> (pc[j] # "none")
        /\ activeCount = Cardinality({j \in Jobs : status[j] = "running"}) + fin[Jobs]

\* The queue and the slots agree with the status of the jobs.
Accounting == QueueExact /\ SlotsAccounted

\* A conversation that ended holds no child session, whichever of stop(),
\* timeout, failure or a late sessionFactory.create() ended it.
NoSessionLeak ==
    \A j \in session : status[j] \in {"queued", "running", "idle"}

\* A message the coordinator kept is, until its job ends, in exactly one of the
\* job's inboxes, and the job is one that will look there: none is stranded by
\* a turn that ended while session.steer() was awaited.
FollowUpsHeld ==
    \A m \in Messages :
        LET j == target[m] IN
        (msg[m] = "held" /\ ~Gone(j)) =>
            /\ status[j] \in {"queued", "running"}
            /\ \/ pc[j] \in {"failing", "aborting"}
               \/ Cardinality(Occurrences(pendingSteering[j], m))
                    + Cardinality(Occurrences(steering[j], m))
                    + Cardinality(Occurrences(queuedTasks[j], m)) = 1

\* A job that is not over has its policy principal, and so has its parent: the
\* registry never sees a principal removed before its children.
PrincipalTree ==
    \A j \in Jobs : InMap(j) =>
        /\ j \in released => status[j] \in Terminal
        /\ (j \notin released /\ parent[j] # None)
              => InMap(parent[j]) /\ parent[j] \notin released

\* stop() works deepest first: a victim it has moved past has ended, and when
\* it returns the job and every descendant it found have ended.
StopOrder ==
    \A s \in Stoppers :
        /\ \A v \in stop[s].victims \ (stop[s].todo \cup {stop[s].at}) : Gone(v)
        /\ stop[s].phase \in {"next", "done"} => Gone(stop[s].at)
        /\ stop[s].phase = "done" => stop[s].todo = {} /\ Gone(stop[s].root)

\* After close() returned no conversation is left, no session is open, and a
\* principal that is not released had its own or a child's removal throw.
CloseComplete ==
    closePhase = "closed" =>
        /\ \A j \in Jobs : InMap(j) => status[j] \in Terminal
        /\ session = {}
        /\ \A j \in Jobs : (InMap(j) /\ j \notin released)
              => \/ j \in Flaky
                 \/ \E k \in Jobs : InMap(k) /\ parent[k] = j /\ k \notin released

\* A finished conversation stays finished: no late promotion, queue entry or
\* message revives it.
TerminalFinal ==
    [][\A j \in Jobs : Gone(j) => status'[j] \in {status[j], "evicted"}]_vars

\* A turn that was asked to stop, or timed out, does not end as a success that
\* keeps the conversation or starts its next follow-up.
StopRequestHonoured ==
    [][\A j \in Jobs : (status[j] = "running" /\ j \in stopRequested \cup timedOut)
          => status'[j] \in {"running"} \cup Terminal]_vars

\* Documented for subagent_stop (docs/subagents.md): it stops the job and its
\* descendants.  A descendant spawned while stop() awaits another one is missed.
StopQuietsSubtree ==
    \A s \in Stoppers : stop[s].phase = "done"
        => \A d \in Descendants(stop[s].root) : status[d] \in Terminal

\* Every queued job eventually leaves the queue, no completion forgetting to pump,
\* and stop() and close() return.
Progress ==
    /\ \A j \in Jobs : status[j] = "queued" ~> status[j] # "queued"
    /\ \A s \in Stoppers : stop[s].phase # "idle" ~> stop[s].phase = "done"
    /\ closePhase = "closing" ~> closePhase = "closed"

\* The bookkeeping of the tree is consistent: queue, slots, the progress of every
\* stop() and what close() leaves.
TreeConsistent == TypeOK /\ Accounting /\ StopOrder /\ CloseComplete
=============================================================================
