----------------------- MODULE NativeFilesystemPolicy -----------------------
(***************************************************************************)
(* One mounted command under the native filesystem policy: the agent's     *)
(* policy base and its snapshot file, the tool call's view with its ONCE   *)
(* grants, the bridge that answers the mount over one control socket, and  *)
(* the native process, whose FUSE threads authorize every file operation   *)
(* against the two snapshots they hold (fuse.rs, fuse/control.rs).         *)
(*                                                                         *)
(* A target is a resolved path with an access type.  A snapshot is its     *)
(* revision: BaseAt and OnceAt give the rules the JavaScript side gave to  *)
(* that revision.  Frames of the socket are records; splitting them into   *)
(* bytes, and the resolution of paths, are left out.                       *)
(***************************************************************************)
EXTENDS Integers, Sequences, FiniteSets

CONSTANTS
    Targets,        \* resolved paths with an access type
    Threads,        \* FUSE threads of the mount
    MaxBase,        \* bound: base revisions after the first
    MaxRequests,    \* bound: misses the native process asks about
    MaxPending      \* bound: frames from the native process not yet handled

ASSUME BoundsAssumption ==
    MaxBase \in Nat /\ MaxRequests \in Nat \ {0} /\ MaxPending \in Nat \ {0}

VARIABLES
    baseLog,        \* rules of every base revision, revision 0 first
    file,           \* base revision in the agent's snapshot file
    baseClosed,     \* NativeFilesystemPolicyBase.closed
    onceEngine,     \* ONCE grants of the tool call (PolicyEngine)
    onceLog,        \* rules of every ONCE revision of the view
    viewClosed,     \* NativeFilesystemPolicyView.closed
    evals,          \* view.evaluate calls, by request
    aborted,        \* the mount's decision signal
    open,           \* the socket: neither destroyed nor closed by the bridge
    inbox,          \* requestQueue: misses and denials not yet taken up
    current,        \* the miss resolveMiss is working on
    publications,   \* snapshotPublishQueue
    published,      \* lastPublishedOnceRevision
    synchronized,   \* synchronizedOnceRevision, -1 for undefined
    up, down,       \* frames in the socket, by direction
    native,         \* Policy of the native process and its start-up phase
    lock,           \* thread that holds the native policy mutex
    op,             \* the file operation of each thread
    cause           \* what disturbed the mount: "abort" and "fault"

baseVars == <<baseLog, file, baseClosed>>
viewVars == <<onceEngine, onceLog, viewClosed, evals>>
bridgeVars == <<aborted, open, inbox, current, publications, published, synchronized>>
nativeVars == <<native, lock, op>>
vars == <<baseVars, viewVars, bridgeVars, up, down, nativeVars, cause>>

Decisions == {"allow", "deny", "none"}
Rules == [Targets -> Decisions]
Requests == 1..MaxRequests
NoThread == "none"
Nobody == 0

ASSUME MountAssumption == Targets # {} /\ IsFiniteSet(Threads) /\ NoThread \notin Threads

baseRevision == Len(baseLog) - 1
onceRevision == Len(onceLog) - 1
BaseAt(r) == baseLog[r + 1]
OnceAt(r) == onceLog[r + 1]

\* Policy::evaluate: the base snapshot decides before the ONCE snapshot.
Lookup(b, o, x) == IF BaseAt(b)[x] # "none" THEN BaseAt(b)[x] ELSE OnceAt(o)[x]

\* What PolicyRuntime.evaluate finds without asking: its own policies, then ONCE.
Known(x) == IF BaseAt(baseRevision)[x] # "none" THEN BaseAt(baseRevision)[x] ELSE onceEngine[x]

NoEval == [phase |-> "none", target |-> CHOOSE x \in Targets : TRUE, result |-> "none",
           at |-> 0, base |-> 0, once |-> 0]
NoMiss == [req |-> Nobody, phase |-> "idle", base |-> 0, once |-> 0, decision |-> "deny"]
NoOp == [phase |-> "idle", target |-> CHOOSE x \in Targets : TRUE, begun |-> 0,
         req |-> Nobody, base |-> 0, once |-> 0]

TypeOK ==
    /\ baseLog \in Seq(Rules) /\ Len(baseLog) \in 1..(MaxBase + 1)
    /\ file \in 0..baseRevision
    /\ onceEngine \in Rules
    /\ onceLog \in Seq(Rules) /\ onceLog # <<>>
    /\ {baseClosed, viewClosed, aborted, open} \subseteq BOOLEAN
    /\ evals \in [Requests -> [phase : {"none", "asking", "answered", "publishing", "done", "failed"},
                               target : Targets, result : Decisions,
                               at : Nat, base : Nat, once : Nat]]
    /\ current \in [req : 0..MaxRequests, phase : {"idle", "evaluating", "publish", "resolve"},
                    base : Nat, once : Nat, decision : {"allow", "deny"}]
    /\ published \in Int /\ synchronized \in Int
    /\ native \in [phase : {"load", "initial", "ready", "serving", "exited"},
                   base : Nat, once : Nat, next : 0..MaxRequests, failed : BOOLEAN]
    /\ lock \in Threads \cup {NoThread}
    /\ op \in [Threads -> [phase : {"idle", "locking", "lookup", "await", "allowed", "denied"},
                           target : Targets, begun : Nat, req : 0..MaxRequests,
                           base : Nat, once : Nat]]
    /\ cause \subseteq {"abort", "fault"}

Init ==
    /\ baseLog \in {<<r>> : r \in Rules}
    /\ file = 0
    /\ baseClosed = FALSE
    /\ onceEngine = [x \in Targets |-> "none"]
    /\ onceLog = <<onceEngine>>
    /\ viewClosed = FALSE
    /\ evals = [r \in Requests |-> NoEval]
    /\ aborted = FALSE
    /\ open = TRUE
    /\ inbox = <<>>
    /\ current = NoMiss
    /\ publications = <<>>
    /\ published = -1
    /\ synchronized = -1
    /\ up = <<>>
    /\ down = <<>>
    /\ native = [phase |-> "load", base |-> 0, once |-> 0, next |-> 0, failed |-> FALSE]
    /\ lock = NoThread
    /\ op = [t \in Threads |-> NoOp]
    /\ cause = {}

-----------------------------------------------------------------------------
(* The policy base and the snapshot file.                                  *)

\* reportError, and failAgentContexts: both streams are destroyed and the
\* mount's decisions are aborted.
Destroyed == open' = FALSE /\ aborted' = TRUE

\* The mount is disturbed from outside.
Fault == cause' = cause \cup {"fault"}

\* policyStateChanged with publishAgentPolicySnapshot as its listener: the new
\* revision replaces the file before anything else of JavaScript runs.
Advance(rules) ==
    /\ baseRevision < MaxBase
    /\ baseLog' = Append(baseLog, rules)
    /\ file' = IF baseClosed THEN file ELSE baseRevision + 1

\* A policy of the agent, or the fallback of its area, is added, changed or
\* removed by anyone: another tool call, a command, an ancestor.
PolicyStateChanged(x, d) ==
    /\ ~baseClosed /\ BaseAt(baseRevision)[x] # d
    /\ Advance([BaseAt(baseRevision) EXCEPT ![x] = d])
    /\ UNCHANGED <<baseClosed, viewVars, bridgeVars, up, down, nativeVars, cause>>

\* The same change when the file cannot be replaced: the mount is failed.
PublicationFails(x, d) ==
    /\ ~baseClosed /\ BaseAt(baseRevision)[x] # d
    /\ baseRevision < MaxBase
    /\ baseLog' = Append(baseLog, [BaseAt(baseRevision) EXCEPT ![x] = d])
    /\ Destroyed
    /\ Fault
    /\ UNCHANGED <<file, baseClosed, viewVars, inbox, current, publications, published,
                   synchronized, up, down, nativeVars>>

\* NativeFilesystemPolicyBase.close: the principal is removed, or shutdown.
CloseBase ==
    /\ ~baseClosed
    /\ baseClosed' = TRUE
    /\ Destroyed
    /\ Fault
    /\ UNCHANGED <<baseLog, file, viewVars, inbox, current, publications, published,
                   synchronized, up, down, nativeVars>>

-----------------------------------------------------------------------------
(* The tool call's view.                                                   *)

\* The evaluator finds a policy, after its wait as well as before it.
EvaluateKnown(r) ==
    /\ evals[r].phase = "asking"
    /\ Known(evals[r].target) # "none"
    /\ evals' = [evals EXCEPT ![r].phase = "answered", ![r].result = Known(evals[r].target),
                              ![r].at = baseRevision]
    /\ UNCHANGED <<baseVars, onceEngine, onceLog, viewClosed, bridgeVars, up, down, nativeVars, cause>>

\* The user, or a model, answers for this tool call only.  An answer counts
\* only while the signal is not aborted and no policy decided in the meantime.
AnswerOnce(r, d) ==
    /\ evals[r].phase = "asking" /\ Known(evals[r].target) = "none" /\ ~aborted
    /\ onceEngine' = [onceEngine EXCEPT ![evals[r].target] = d]
    /\ evals' = [evals EXCEPT ![r].phase = "answered", ![r].result = d, ![r].at = baseRevision]
    /\ UNCHANGED <<baseVars, onceLog, viewClosed, bridgeVars, up, down, nativeVars, cause>>

\* The answer is kept as a policy of the agent, which advances the base.
AnswerStored(r, d) ==
    /\ evals[r].phase = "asking" /\ Known(evals[r].target) = "none" /\ ~aborted
    /\ ~baseClosed
    /\ Advance([BaseAt(baseRevision) EXCEPT ![evals[r].target] = d])
    /\ evals' = [evals EXCEPT ![r].phase = "answered", ![r].result = d, ![r].at = baseRevision + 1]
    /\ UNCHANGED <<baseClosed, onceEngine, onceLog, viewClosed, bridgeVars, up, down, nativeVars, cause>>

\* The evaluator fails closed (cancelled, timed out, shutting down): nothing is kept.
AnswerRefused(r) ==
    /\ evals[r].phase = "asking"
    /\ evals' = [evals EXCEPT ![r].phase = "answered", ![r].result = "deny", ![r].at = baseRevision]
    /\ UNCHANGED <<baseVars, onceEngine, onceLog, viewClosed, bridgeVars, up, down, nativeVars, cause>>

OnceChanged == onceEngine # OnceAt(onceRevision)

\* evaluate after the evaluator's await: a closed view or base fails it, a
\* changed ONCE layer gets the next revision and is handed to the bridge, whose
\* listener still hears it when the bridge has stopped waiting for this call.
FinishEvaluate(r) ==
    /\ evals[r].phase = "answered"
    /\ LET changed == OnceChanged
       IN  IF viewClosed \/ baseClosed
           THEN evals' = [evals EXCEPT ![r].phase = "failed"] /\ UNCHANGED <<onceLog, publications>>
           ELSE /\ onceLog' = IF changed THEN Append(onceLog, onceEngine) ELSE onceLog
                /\ evals' = [evals EXCEPT ![r].phase = IF changed THEN "publishing" ELSE "done",
                                          ![r].base = baseRevision,
                                          ![r].once = Len(onceLog') - 1]
                /\ publications' = IF changed
                                   THEN Append(publications,
                                               [rev |-> Len(onceLog), by |-> "view", req |-> r])
                                   ELSE publications
    /\ UNCHANGED <<baseVars, onceEngine, viewClosed, aborted, open, inbox, current, published,
                   synchronized, up, down, nativeVars, cause>>

\* The tool call ends: its view closes and the bridge reports it.
CloseView ==
    /\ ~viewClosed
    /\ viewClosed' = TRUE
    /\ Destroyed
    /\ Fault
    /\ UNCHANGED <<baseVars, onceEngine, onceLog, evals, inbox, current, publications, published,
                   synchronized, up, down, nativeVars>>

-----------------------------------------------------------------------------
(* The bridge.                                                             *)

\* The decision signal: the command ends, times out or is cancelled.
Abort ==
    /\ ~aborted
    /\ aborted' = TRUE
    /\ cause' = cause \cup {"abort"}
    /\ UNCHANGED <<baseVars, viewVars, open, inbox, current, publications, published,
                   synchronized, up, down, nativeVars>>

\* The socket fails, a write times out, or cleanup closes bridge and socket.
Disconnect ==
    /\ open
    /\ Destroyed
    /\ Fault
    /\ UNCHANGED <<baseVars, viewVars, inbox, current, publications, published, synchronized,
                   up, down, nativeVars>>

\* synchronizeSnapshot, once the handshake byte has been written.
SynchronizeSnapshot ==
    /\ synchronized = -1 /\ open /\ ~viewClosed
    /\ synchronized' = onceRevision
    /\ publications' = Append(publications, [rev |-> onceRevision, by |-> "start", req |-> Nobody])
    /\ UNCHANGED <<baseVars, viewVars, aborted, open, inbox, current, published, up, down,
                   nativeVars, cause>>

\* publishOnceSnapshot, head of its queue: a revision that goes back is an
\* error, the one published last is skipped, a newer one is written first.
Published(p) == p.rev >= published /\ (p.rev = published \/ open)
PublishOnceSnapshot ==
    /\ publications # <<>>
    /\ LET p == Head(publications)
           ok == Published(p)
           writes == ok /\ p.rev > published
       IN  /\ down' = IF writes THEN Append(down, [kind |-> "once", rev |-> p.rev]) ELSE down
           /\ published' = IF writes THEN p.rev ELSE published
           /\ evals' = IF p.by = "view"
                       THEN [evals EXCEPT ![p.req].phase = IF ok /\ ~viewClosed THEN "done" ELSE "failed"]
                       ELSE evals
           /\ current' = IF p.by = "miss"
                         THEN IF ok THEN [current EXCEPT !.phase = "resolve"] ELSE NoMiss
                         ELSE current
           /\ open' = (open /\ (ok \/ p.by = "start"))
           /\ aborted' = (aborted \/ ~ok)
    /\ publications' = Tail(publications)
    /\ UNCHANGED <<baseVars, onceEngine, onceLog, viewClosed, inbox, synchronized, up, nativeVars, cause>>

\* handleData, one frame: READY must carry synchronized revisions, the others
\* join the request queue.
HandleData ==
    /\ open /\ up # <<>>
    /\ up' = Tail(up)
    /\ LET f == Head(up)
       IN  IF f.kind = "ready"
           THEN /\ UNCHANGED inbox
                /\ IF ~viewClosed /\ f.base <= baseRevision /\ f.once = synchronized
                   THEN UNCHANGED <<open, aborted>>
                   ELSE Destroyed
           ELSE inbox' = Append(inbox, f) /\ UNCHANGED <<open, aborted>>
    /\ UNCHANGED <<baseVars, viewVars, current, publications, published, synchronized, down,
                   nativeVars, cause>>

\* reportKnownDenial only formats a message; without a view it is an error.
ReportKnownDenial ==
    /\ current = NoMiss /\ inbox # <<>> /\ Head(inbox).kind = "denial"
    /\ inbox' = Tail(inbox)
    /\ IF viewClosed THEN Destroyed ELSE UNCHANGED <<open, aborted>>
    /\ UNCHANGED <<baseVars, viewVars, current, publications, published, synchronized, up, down,
                   nativeVars, cause>>

\* resolveMiss up to its await: revisions ahead of JavaScript's, or a closed
\* view, are errors that abort the mount; an aborted signal asks nobody.
Ahead(m) == m.base > baseRevision \/ m.once > onceRevision
ResolveMiss ==
    /\ current = NoMiss /\ inbox # <<>> /\ Head(inbox).kind = "miss"
    /\ LET m == Head(inbox)
           bad == viewClosed \/ baseClosed \/ Ahead(m)
       IN  /\ current' = [NoMiss EXCEPT !.req = m.req, !.phase = "evaluating"]
           /\ aborted' = (aborted \/ bad)
           /\ evals' = IF bad \/ aborted THEN evals
                       ELSE [evals EXCEPT ![m.req].phase = "asking", ![m.req].target = m.target]
    /\ inbox' = Tail(inbox)
    /\ UNCHANGED <<baseVars, onceEngine, onceLog, viewClosed, open, publications, published,
                   synchronized, up, down, nativeVars, cause>>

\* Defect: the bridge waits for the evaluation even when the signal is aborted.
NeverAbandoned == FALSE

\* evaluateUntilAborted resolves at once when the signal is aborted.
Abandoned == aborted

\* resolveMiss after its await.  The evaluation's own revisions go with its
\* decision; without one (aborted or failed) it is DENY at the current ones.
ResumeMiss(evaluated) ==
    /\ current.phase = "evaluating"
    /\ LET e == evals[current.req]
       IN  /\ IF evaluated THEN e.phase = "done" ELSE e.phase = "failed" \/ Abandoned
           /\ aborted' = (aborted \/ ~evaluated)
           /\ IF ~evaluated /\ (viewClosed \/ baseClosed)
              THEN /\ current' = NoMiss
                   /\ open' = FALSE
                   /\ UNCHANGED publications
              ELSE /\ current' = [current EXCEPT
                                    !.phase = "publish",
                                    !.base = IF evaluated THEN e.base ELSE baseRevision,
                                    !.once = IF evaluated THEN e.once ELSE onceRevision,
                                    !.decision = IF evaluated THEN e.result ELSE "deny"]
                   /\ publications' = Append(publications, [rev |-> current'.once, by |-> "miss",
                                                            req |-> current.req])
                   /\ UNCHANGED open
    /\ UNCHANGED <<baseVars, viewVars, inbox, published, synchronized, up, down, nativeVars, cause>>

\* The resolution is written after its ONCE snapshot.
WriteResolution ==
    /\ current.phase = "resolve"
    /\ down' = IF open THEN Append(down, [kind |-> "resolution", req |-> current.req, base |-> current.base,
                                          once |-> current.once, decision |-> current.decision])
               ELSE down
    /\ current' = NoMiss
    /\ UNCHANGED <<baseVars, viewVars, aborted, open, inbox, publications, published, synchronized,
                   up, nativeVars, cause>>

-----------------------------------------------------------------------------
(* The native process.                                                     *)

\* Snapshot::replace: a snapshot older than the one held is refused.
Replaces(rev, held) == rev >= held

\* Policy::refresh: the base is reloaded when its file was replaced.
Refreshable == Replaces(file, native.base)

\* run_filesystem: the base snapshot is loaded,
LoadBase ==
    /\ native.phase = "load"
    /\ native' = [native EXCEPT !.phase = "initial", !.base = file]
    /\ UNCHANGED <<baseVars, viewVars, bridgeVars, up, down, lock, op, cause>>

\* the first ONCE snapshot is awaited and the base refreshed,
InitialOnce ==
    /\ native.phase = "initial"
    /\ \/ /\ down # <<>> /\ Head(down).kind = "once"
          /\ native' = [native EXCEPT !.phase = "ready", !.once = Head(down).rev, !.base = file]
          /\ down' = Tail(down)
       \/ /\ ~open \/ (down # <<>> /\ Head(down).kind # "once")
          /\ native' = [native EXCEPT !.phase = "exited"]
          /\ UNCHANGED down
    /\ UNCHANGED <<baseVars, viewVars, bridgeVars, up, lock, op, cause>>

\* and the mount is announced.
Ready ==
    /\ native.phase = "ready"
    /\ native' = [native EXCEPT !.phase = "serving"]
    /\ up' = IF open THEN Append(up, [kind |-> "ready", base |-> native.base, once |-> native.once]) ELSE up
    /\ UNCHANGED <<baseVars, viewVars, bridgeVars, down, lock, op, cause>>

\* A FUSE callback reaches authorize; the bounds leave every one a request.
Callback(t, x) ==
    /\ native.phase = "serving"
    /\ native.next + Cardinality({u \in Threads : op[u].phase \in {"locking", "lookup"}}) < MaxRequests
    /\ Len(up) + Len(inbox) < MaxPending
    /\ op[t].phase = "idle"
    /\ op' = [op EXCEPT ![t] = [NoOp EXCEPT !.phase = "locking", !.target = x, !.begun = baseRevision]]
    /\ UNCHANGED <<baseVars, viewVars, bridgeVars, up, down, native, lock, cause>>

\* authorize holds the mutex from here: a failed mount stays failed, the base
\* is reloaded when its file was replaced, and never with an older revision.
Authorize(t) ==
    /\ op[t].phase = "locking" /\ lock = NoThread
    /\ LET bad == native.failed \/ ~Refreshable
       IN  /\ native' = [native EXCEPT !.failed = bad, !.base = IF bad THEN native.base ELSE file]
           /\ lock' = IF bad THEN NoThread ELSE t
           /\ op' = [op EXCEPT ![t].phase = IF bad THEN "denied" ELSE "lookup"]
    /\ UNCHANGED <<baseVars, viewVars, bridgeVars, up, down, cause>>

\* drain: only ONCE snapshots may be waiting, each at least as new.
Drainable == /\ open
             /\ \A i \in 1..Len(down) :
                    /\ down[i].kind = "once"
                    /\ Replaces(down[i].rev, native.once)
                    /\ \A j \in 1..i : Replaces(down[i].rev, down[j].rev)
Drained == IF down = <<>> THEN native.once ELSE down[Len(down)].rev

\* authorize after drain: a known decision is final, a denial is reported, and
\* a miss is sent while the mutex stays held.
LookupPolicy(t) ==
    /\ op[t].phase = "lookup"
    /\ LET d == Lookup(native.base, Drained, op[t].target)
           req == native.next + 1
       IN  \/ /\ ~Drainable
              /\ native' = [native EXCEPT !.failed = TRUE]
              /\ op' = [op EXCEPT ![t].phase = "denied"]
              /\ lock' = NoThread
              /\ UNCHANGED <<up, down>>
           \/ /\ Drainable /\ d # "none"
              /\ native' = [native EXCEPT !.once = Drained]
              /\ down' = <<>>
              /\ up' = IF d = "deny" THEN Append(up, [kind |-> "denial"]) ELSE up
              /\ op' = [op EXCEPT ![t].phase = IF d = "allow" THEN "allowed" ELSE "denied",
                                  ![t].base = native.base, ![t].once = Drained]
              /\ lock' = NoThread
           \/ /\ Drainable /\ d = "none"
              /\ native' = [native EXCEPT !.once = Drained, !.next = req]
              /\ down' = <<>>
              /\ up' = Append(up, [kind |-> "miss", req |-> req, base |-> native.base,
                                   once |-> Drained, target |-> op[t].target])
              /\ op' = [op EXCEPT ![t].phase = "await", ![t].req = req, ![t].base = native.base,
                                  ![t].once = Drained]
              /\ UNCHANGED lock
    /\ UNCHANGED <<baseVars, viewVars, bridgeVars, cause>>

\* resolution: a ONCE snapshot that comes before the answer is applied.
AwaitOnce(t) ==
    /\ op[t].phase = "await" /\ down # <<>> /\ Head(down).kind = "once"
    /\ LET bad == ~Replaces(Head(down).rev, native.once)
       IN  /\ native' = [native EXCEPT !.failed = bad, !.once = IF bad THEN @ ELSE Head(down).rev]
           /\ op' = [op EXCEPT ![t].phase = IF bad THEN "denied" ELSE "await"]
           /\ lock' = IF bad THEN NoThread ELSE lock
    /\ down' = Tail(down)
    /\ UNCHANGED <<baseVars, viewVars, bridgeVars, up, cause>>

\* Defect: the decision is trusted without a look at the native snapshots.
TrustsDecision(t, m, base) == m.decision = "allow"

\* The answer: the base is refreshed, then the request and both revisions are
\* checked, then the native snapshots themselves must allow the operation.
Valid(t, m, base) == /\ m.req = op[t].req
                     /\ m.base \in op[t].base..base
                     /\ m.once \in op[t].once..native.once
Granted(t, m, base) == /\ m.decision = "allow"
                       /\ Lookup(base, native.once, op[t].target) = "allow"
AwaitResolution(t) ==
    /\ op[t].phase = "await" /\ down # <<>> /\ Head(down).kind = "resolution"
    /\ LET bad == ~Refreshable \/ ~Valid(t, Head(down), file)
       IN  /\ native' = [native EXCEPT !.failed = bad, !.base = IF Refreshable THEN file ELSE @]
           /\ op' = [op EXCEPT ![t].phase = IF ~bad /\ Granted(t, Head(down), file)
                                            THEN "allowed" ELSE "denied",
                               ![t].base = native'.base, ![t].once = native.once]
    /\ lock' = NoThread
    /\ down' = Tail(down)
    /\ UNCHANGED <<baseVars, viewVars, bridgeVars, up, cause>>

\* The control socket ends while an answer is awaited: the mount is failed.
AwaitBroken(t) ==
    /\ op[t].phase = "await" /\ ~open
    /\ native' = [native EXCEPT !.failed = TRUE]
    /\ op' = [op EXCEPT ![t].phase = "denied"]
    /\ lock' = NoThread
    /\ UNCHANGED <<baseVars, viewVars, bridgeVars, up, down, cause>>

\* The callback performs its backing operation, or returns EACCES.
Return(t) ==
    /\ op[t].phase \in {"allowed", "denied"}
    /\ op' = [op EXCEPT ![t] = NoOp]
    /\ UNCHANGED <<baseVars, viewVars, bridgeVars, up, down, native, lock, cause>>

-----------------------------------------------------------------------------
BridgeStep == \/ SynchronizeSnapshot \/ PublishOnceSnapshot \/ HandleData \/ ReportKnownDenial
              \/ ResolveMiss \/ ResumeMiss(TRUE) \/ ResumeMiss(FALSE) \/ WriteResolution
ViewStep == \E r \in Requests : EvaluateKnown(r) \/ FinishEvaluate(r)
Answer == \E r \in Requests : \/ AnswerRefused(r)
                              \/ \E d \in {"allow", "deny"} : AnswerOnce(r, d) \/ AnswerStored(r, d)
NativeStep == \/ LoadBase \/ InitialOnce \/ Ready
              \/ \E t \in Threads : \/ Authorize(t) \/ LookupPolicy(t) \/ AwaitOnce(t)
                                    \/ AwaitResolution(t) \/ AwaitBroken(t) \/ Return(t)
BaseStep == \E x \in Targets, d \in Decisions : PolicyStateChanged(x, d) \/ PublicationFails(x, d)
Disturb == Abort \/ Disconnect \/ CloseView \/ CloseBase
Next == \/ BridgeStep \/ ViewStep \/ Answer \/ NativeStep \/ BaseStep \/ Disturb
        \/ \E t \in Threads, x \in Targets : Callback(t, x)

Spec == Init /\ [][Next]_vars

\* The event loop and the native threads keep running; nobody has to answer.
Fairness == WF_vars(BridgeStep) /\ WF_vars(ViewStep) /\ WF_vars(NativeStep)
FairSpec == Spec /\ Fairness

-----------------------------------------------------------------------------
(* Properties.                                                             *)

\* An operation is let through only by rules that were the agent's policy at
\* some moment since the callback began: a revocation published before it, or
\* before the answer it waited for was evaluated, is never missed (authorize
\* reloads the file, and looks again after an ALLOW resolution).
AllowedInForce ==
    \A t \in Threads : op[t].phase = "allowed" =>
        /\ op[t].base \in op[t].begun..baseRevision
        /\ op[t].req # Nobody => op[t].base >= evals[op[t].req].base
        /\ Lookup(op[t].base, op[t].once, op[t].target) = "allow"

\* The mount fails, or is aborted, only when something outside the protocol
\* happened to it: base changes, ONCE grants and late evaluations never make
\* either side see a revision ahead, behind or out of order.
OnlyDisturbedFails ==
    /\ native.failed \/ ~open \/ native.phase = "exited" => "fault" \in cause
    /\ aborted => cause # {}

\* A granted operation is not refused: when its evaluation answered ALLOW and
\* the base has not changed since, the native snapshots allow it as well,
\* because the ONCE snapshot arrives before the resolution.
GrantNotLost ==
    \A t \in Threads :
        (op[t].phase = "denied" /\ op[t].req # Nobody /\ cause = {}
            /\ evals[op[t].req].result = "allow")
        => baseRevision > evals[op[t].req].at

\* Once the command is aborted no thread stays blocked in a policy request,
\* whether or not anyone ever answers it.
AbortUnblocks ==
    \A t \in Threads : (aborted /\ op[t].phase = "await") ~> (op[t].phase # "await")

\* The mount follows the policy of its agent, in both directions, and fails only
\* when it is disturbed.
PolicyInForce == TypeOK /\ AllowedInForce /\ OnlyDisturbedFails /\ GrantNotLost
=============================================================================
