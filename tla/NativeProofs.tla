---------------------------- MODULE NativeProofs ----------------------------
(***************************************************************************)
(* Native enforcement.  The filesystem policy of a mount, for any requests,*)
(* targets and revisions: what the worker decides by was in force.  And a  *)
(* command run on a mount of its own: for every order in which the daemon, *)
(* the kernel, the worker and the run itself take their steps, the         *)
(* recursive removal never meets a mount.                                  *)
(***************************************************************************)
EXTENDS NativeFilesystemPolicy, FuseRunner, FiniteSetTheorems, SequenceTheorems, TLAPS

\* The frames of the socket and the entries of the bridge's queues.
UpFrames ==
    [kind : {"ready"}, base : Nat, once : Nat] \cup [kind : {"denial"}]
      \cup [kind : {"miss"}, req : Requests, base : Nat, once : Nat, target : Targets]
DownFrames ==
    [kind : {"once"}, rev : Nat]
      \cup [kind : {"resolution"}, req : Requests, base : Nat, once : Nat, decision : {"allow", "deny"}]
Publications == [rev : Nat, by : {"start", "view", "miss"}, req : 0..MaxRequests]

UpMisses    == {i \in 1..Len(up) : up[i].kind = "miss"}
InboxMisses == {i \in 1..Len(inbox) : inbox[i].kind = "miss"}
Onces       == {i \in 1..Len(down) : down[i].kind = "once"}
Resolutions == {i \in 1..Len(down) : down[i].kind = "resolution"}

-----------------------------------------------------------------------------
(* The parts of the inductive invariant.                                   *)

QueuesTyped ==
    /\ up \in Seq(UpFrames) /\ inbox \in Seq(UpFrames) /\ down \in Seq(DownFrames)
    /\ publications \in Seq(Publications)
    /\ \A i \in 1..Len(inbox) : inbox[i].kind # "ready"

\* Nobody holds a revision that does not exist, and the native process none that
\* was not in the file; while the socket is open the file is the policy.
NativeBehind == native.base <= file /\ native.once <= onceRevision
FileCurrent  == open => file = baseRevision
UpKnown      == \A i \in 1..Len(up) : up[i].kind # "denial" => up[i].base <= baseRevision /\ up[i].once <= onceRevision
InboxKnown   == \A i \in InboxMisses : inbox[i].base <= baseRevision /\ inbox[i].once <= onceRevision
CurrentKnown == current.base <= baseRevision /\ current.once <= onceRevision
EvalsKnown   == \A r \in Requests : /\ evals[r].base <= baseRevision /\ evals[r].at <= baseRevision
                                    /\ evals[r].once <= onceRevision
AnswersKnown == \A h \in Resolutions : down[h].base <= baseRevision
OpsKnown     == \A t \in Threads : /\ op[t].begun <= baseRevision /\ op[t].base <= native.base
                                   /\ op[t].once <= native.once

\* Before the native process serves, nothing has been asked and no ONCE grant made.
FirstRevision  == synchronized \in {-1, 0}
NotSynchronized ==
    synchronized = -1 => /\ publications = <<>> /\ published = -1 /\ down = <<>>
                         /\ native.phase \in {"load", "initial", "exited"}
NotServing     == native.phase # "serving" => native.next = 0 /\ \A t \in Threads : op[t].phase = "idle"
NothingAsked   == native.next = 0 => onceRevision = 0
AskedAfterSent == \A r \in Requests : evals[r].phase # "none" => r <= native.next
ReadyFirst     == \A i \in 1..Len(up) : up[i].kind = "ready" => up[i].once = 0 /\ synchronized = 0

\* The thread that holds the mutex looks a target up or awaits the last miss, and
\* every callback that may still ask has a request left.
LockHeld    == \A t \in Threads : op[t].phase \in {"lookup", "await"} <=> lock = t
AwaitsLast  == \A t \in Threads : /\ op[t].phase = "await" => op[t].req = native.next /\ op[t].req # Nobody
                                  /\ op[t].req <= native.next
                                  /\ op[t].phase \in {"idle", "locking", "lookup"} => op[t].req = Nobody
MayAsk      == {u \in Threads : op[u].phase \in {"locking", "lookup"}}
RequestLeft == native.next + Cardinality(MayAsk) <= MaxRequests

\* Misses and their answers keep their order on the way through socket, queue,
\* bridge and back.
UpInLine    == \A j \in UpMisses : up[j].req <= native.next /\ \A k \in UpMisses : j < k => up[j].req < up[k].req
InboxInLine == \A i \in InboxMisses : /\ inbox[i].req <= native.next
                                      /\ \A j \in UpMisses : inbox[i].req < up[j].req
                                      /\ \A k \in InboxMisses : i < k => inbox[i].req < inbox[k].req
CurrentInLine ==
    current.req # Nobody => /\ current.req <= native.next
                            /\ \A j \in UpMisses : current.req < up[j].req
                            /\ \A i \in InboxMisses : current.req < inbox[i].req
AnswersInLine ==
    \A h \in Resolutions : /\ down[h].req <= native.next
                           /\ \A j \in UpMisses : down[h].req < up[j].req
                           /\ \A i \in InboxMisses : down[h].req < inbox[i].req
                           /\ current.req # Nobody => down[h].req < current.req
                           /\ \A k \in Resolutions : h < k => down[h].req < down[k].req

\* One evaluation is under way, that of the current miss unless it was abandoned,
\* and nothing else advances the ONCE revision.
Active(r) == evals[r].phase \in {"asking", "answered", "publishing"}
Idling          == (current.req = Nobody <=> current.phase = "idle") /\ (current.req = Nobody => current = NoMiss)
UpUnasked       == \A j \in UpMisses : evals[up[j].req].phase = "none"
InboxUnasked    == \A i \in InboxMisses : evals[inbox[i].req].phase = "none"
ActiveIsCurrent == \A r \in Requests : Active(r) => aborted \/ (current.phase = "evaluating" /\ current.req = r)
OneActive       == \A r, s \in Requests : Active(r) /\ Active(s) => r = s
DoneIsCurrent   ==
    current.phase = "evaluating" =>
        /\ evals[current.req].phase = "done" => \A r \in Requests : ~Active(r)
        /\ evals[current.req].phase \in {"publishing", "done"} => evals[current.req].once = onceRevision
Decided         == \A r \in Requests : evals[r].phase \in {"answered", "publishing", "done"} => evals[r].result # "none"

\* The queue of publications never goes back, and each entry has its owner.
PublishedKnown  == published \in -1..onceRevision
QueueForward    ==
    \A i \in 1..Len(publications) :
        /\ published <= publications[i].rev /\ publications[i].rev <= onceRevision
        /\ \A j \in 1..Len(publications) : i < j => publications[i].rev <= publications[j].rev
QueueOwners     ==
    \A i \in 1..Len(publications) :
        LET p == publications[i] IN
        /\ p.by = "view" => p.req # Nobody /\ evals[p.req].phase = "publishing"
        /\ p.by = "miss" => current.phase = "publish" /\ p.req = current.req /\ p.rev = current.once
QueueOnce       ==
    \A i, j \in 1..Len(publications) : i < j /\ publications[i].by # "start" => publications[i].by # publications[j].by
ResolvePublished == current.phase = "resolve" => current.once <= published

\* Nor do the ONCE snapshots in the socket; the last one published is in the socket
\* or in the native process, and an answer comes after the snapshot it needs.
NativePublished == native.phase \in {"ready", "serving"} => native.once <= published
OncesForward    == \A i \in Onces : /\ native.once <= down[i].rev /\ down[i].rev <= published
                                    /\ \A j \in Onces : i < j => down[i].rev <= down[j].rev
LastArrives     == published = -1 \/ published <= native.once \/ \E i \in Onces : down[i].rev = published
AnswersCovered  == \A h \in Resolutions : \/ down[h].once <= native.once
                                          \/ \E i \in Onces : i < h /\ down[h].once <= down[i].rev

\* What an answer that allows says is what the evaluation said.
SaysEvaluated(a) ==
    LET e == evals[a.req] IN e.phase = "done" /\ e.base = a.base /\ e.once = a.once /\ e.result = a.decision
CurrentSays == current.phase \in {"publish", "resolve"} /\ current.decision = "allow" => SaysEvaluated(current)
AnswersSay  == \A h \in Resolutions : down[h].decision = "allow" => SaysEvaluated(down[h])

\* Whatever was evaluated after a miss was sent is as new as what the miss saw.
LookupFresh   == \A t \in Threads : op[t].phase = "lookup" /\ open => op[t].begun <= native.base
AwaitFresh    == \A t \in Threads : op[t].phase = "await" => op[t].begun <= op[t].base
EvaluatedLater ==
    \A t \in Threads : op[t].phase = "await" /\ evals[op[t].req].phase \in {"publishing", "done"} =>
        op[t].base <= evals[op[t].req].base /\ op[t].once <= evals[op[t].req].once
CurrentLater  ==
    \A t \in Threads : op[t].phase = "await" /\ current.req = op[t].req /\ current.phase \in {"publish", "resolve"} =>
        op[t].base <= current.base /\ op[t].once <= current.once
AnswersLater  ==
    \A t \in Threads : op[t].phase = "await" =>
        \A h \in Resolutions : down[h].req = op[t].req => op[t].base <= down[h].base /\ op[t].once <= down[h].once

\* While nothing disturbs the mount, whatever is under way is about the miss that a
\* thread awaits.
Calm == "fault" \notin cause
Awaited(r) == r = native.next /\ \E t \in Threads : op[t].phase = "await"
CalmMount   == Calm => open /\ ~viewClosed /\ ~baseClosed /\ ~native.failed /\ native.phase # "exited"
CalmUp      == Calm => \A j \in UpMisses : Awaited(up[j].req)
CalmInbox   == Calm => \A i \in InboxMisses : Awaited(inbox[i].req)
CalmCurrent == Calm /\ current.req # Nobody => Awaited(current.req)
CalmAnswers == Calm => \A h \in Resolutions : Awaited(down[h].req)
CalmEvals   == Calm => \A r \in Requests : evals[r].phase # "failed"
AbortCaused == aborted => cause # {}
QuietCurrent == cause = {} /\ current.phase \in {"publish", "resolve"} => SaysEvaluated(current)
QuietAnswers == cause = {} => \A h \in Resolutions : SaysEvaluated(down[h])
QuietDenied  == cause = {} => \A t \in Threads : op[t].phase = "denied" /\ op[t].req # Nobody =>
                                  evals[op[t].req].phase = "done"

\* A grant stays: what ONCE answered, it answers in every later revision.
Stays(old, new) == \A x \in Targets : old[x] # "none" => new[x] = old[x]
LogStays    == \A r, s \in 1..Len(onceLog) : r <= s => Stays(onceLog[r], onceLog[s])
EngineStays == Stays(OnceAt(onceRevision), onceEngine)
GrantBacked(e) ==
    \/ BaseAt(e.at)[e.target] = "allow"
    \/ /\ BaseAt(e.at)[e.target] = "none" /\ onceEngine[e.target] = "allow"
       /\ e.phase # "answered" => OnceAt(e.once)[e.target] = "allow"
GrantsBacked ==
    \A r \in Requests : evals[r].phase \in {"answered", "publishing", "done"} /\ evals[r].result = "allow" =>
        GrantBacked(evals[r])

\* An evaluation is about the target of the operation that awaits it.
TargetEvaluated == \A t \in Threads : op[t].req # Nobody /\ evals[op[t].req].phase # "none" =>
                       evals[op[t].req].target = op[t].target
TargetSent  == \A t \in Threads : op[t].req # Nobody =>
                   \A j \in UpMisses : up[j].req = op[t].req => up[j].target = op[t].target
TargetTaken == \A t \in Threads : op[t].req # Nobody =>
                   \A i \in InboxMisses : inbox[i].req = op[t].req => inbox[i].target = op[t].target

\* An operation let through after an answer had that of a finished evaluation.
LetThrough == \A t \in Threads : op[t].phase = "allowed" /\ op[t].req # Nobody => evals[op[t].req].phase = "done"

\* The inductive invariant.
NativeInv ==
    /\ TypeOK /\ QueuesTyped /\ NativeBehind /\ FileCurrent /\ UpKnown /\ InboxKnown
    /\ CurrentKnown /\ EvalsKnown /\ AnswersKnown /\ OpsKnown /\ FirstRevision
    /\ NotSynchronized /\ NotServing /\ NothingAsked /\ AskedAfterSent /\ ReadyFirst
    /\ LockHeld /\ AwaitsLast /\ RequestLeft /\ UpInLine /\ InboxInLine /\ CurrentInLine
    /\ AnswersInLine /\ Idling /\ UpUnasked /\ InboxUnasked /\ ActiveIsCurrent
    /\ OneActive /\ DoneIsCurrent /\ Decided /\ PublishedKnown /\ QueueForward
    /\ QueueOwners /\ QueueOnce /\ ResolvePublished /\ NativePublished /\ OncesForward
    /\ LastArrives /\ AnswersCovered /\ CurrentSays /\ AnswersSay /\ LookupFresh
    /\ AwaitFresh /\ EvaluatedLater /\ CurrentLater /\ AnswersLater /\ CalmMount
    /\ CalmUp /\ CalmInbox /\ CalmCurrent /\ CalmAnswers /\ CalmEvals /\ AbortCaused
    /\ QuietCurrent /\ QuietAnswers /\ QuietDenied /\ LogStays /\ EngineStays
    /\ GrantsBacked /\ TargetEvaluated /\ TargetSent /\ TargetTaken /\ LetThrough
    /\ AllowedInForce /\ GrantNotLost

-----------------------------------------------------------------------------
(* What the types say of single fields and entries.                        *)

LogFields ==
    /\ Len(baseLog) \in Nat /\ Len(onceLog) \in Nat /\ Len(baseLog) >= 1 /\ Len(onceLog) >= 1
    /\ file \in Nat
EvalFields ==
    \A r \in Requests : /\ r \in Nat /\ r >= 1
                        /\ evals[r].phase \in {"none", "asking", "answered", "publishing", "done", "failed"}
                        /\ evals[r].target \in Targets
                        /\ evals[r].result \in {"allow", "deny", "none"}
                        /\ evals[r].at \in Nat /\ evals[r].base \in Nat /\ evals[r].once \in Nat
CurrentFields ==
    /\ current.req \in Nat /\ (current.req # 0 => current.req \in Requests)
    /\ current.phase \in {"idle", "evaluating", "publish", "resolve"}
    /\ current.base \in Nat /\ current.once \in Nat /\ current.decision \in {"allow", "deny"}
NativeFields ==
    /\ native.phase \in {"load", "initial", "ready", "serving", "exited"}
    /\ native.base \in Nat /\ native.once \in Nat /\ native.next \in Nat /\ native.failed \in BOOLEAN
OpFields ==
    \A t \in Threads : /\ op[t].phase \in {"idle", "locking", "lookup", "await", "allowed", "denied"}
                       /\ op[t].target \in Targets /\ op[t].begun \in Nat
                       /\ op[t].req \in Nat /\ (op[t].req # 0 => op[t].req \in Requests)
                       /\ op[t].base \in Nat /\ op[t].once \in Nat
Fields == LogFields /\ EvalFields /\ CurrentFields /\ NativeFields /\ OpFields

UpElements ==
    /\ Len(up) \in Nat
    /\ \A i \in 1..Len(up) :
          /\ up[i].kind \in {"ready", "denial", "miss"}
          /\ up[i].kind # "denial" => up[i].base \in Nat /\ up[i].once \in Nat
          /\ up[i].kind = "miss" => up[i].req \in Requests /\ up[i].target \in Targets
InboxElements ==
    /\ Len(inbox) \in Nat
    /\ \A i \in 1..Len(inbox) :
          /\ inbox[i].kind \in {"denial", "miss"}
          /\ inbox[i].kind = "miss" => /\ inbox[i].base \in Nat /\ inbox[i].once \in Nat
                                      /\ inbox[i].req \in Requests /\ inbox[i].target \in Targets
DownElements ==
    /\ Len(down) \in Nat
    /\ \A i \in 1..Len(down) :
          /\ down[i].kind \in {"once", "resolution"}
          /\ down[i].kind = "once" => down[i].rev \in Nat
          /\ down[i].kind = "resolution" => /\ down[i].req \in Requests /\ down[i].decision \in {"allow", "deny"}
                                           /\ down[i].base \in Nat /\ down[i].once \in Nat
QueueElements ==
    /\ Len(publications) \in Nat
    /\ \A i \in 1..Len(publications) :
          /\ publications[i].rev \in Nat /\ publications[i].by \in {"start", "view", "miss"}
          /\ publications[i].req \in Nat
          /\ publications[i].req # 0 => publications[i].req \in Requests
Elements == UpElements /\ InboxElements /\ DownElements /\ QueueElements

LEMMA FieldsHold == ASSUME TypeOK PROVE Fields
<1> USE BoundsAssumption
<1>1. /\ Len(baseLog) \in Nat /\ Len(onceLog) \in Nat /\ Len(baseLog) >= 1 /\ Len(onceLog) >= 1
      /\ file \in Nat
  BY DEF TypeOK, baseRevision
<1>2. \A r \in Requests : /\ r \in Nat /\ r >= 1
                          /\ evals[r].phase \in {"none", "asking", "answered", "publishing", "done", "failed"}
                          /\ evals[r].target \in Targets
                          /\ evals[r].result \in {"allow", "deny", "none"}
                          /\ evals[r].at \in Nat /\ evals[r].base \in Nat /\ evals[r].once \in Nat
  <2> SUFFICES ASSUME NEW r \in Requests
               PROVE  /\ r \in Nat /\ r >= 1
                      /\ evals[r].phase \in {"none", "asking", "answered", "publishing", "done", "failed"}
                      /\ evals[r].target \in Targets
                      /\ evals[r].result \in {"allow", "deny", "none"}
                      /\ evals[r].at \in Nat /\ evals[r].base \in Nat /\ evals[r].once \in Nat
    OBVIOUS
  <2>1. evals[r] \in [phase : {"none", "asking", "answered", "publishing", "done", "failed"},
                      target : Targets, result : Decisions, at : Nat, base : Nat, once : Nat]
    BY DEF TypeOK
  <2> QED
    BY <2>1 DEF Requests, Decisions
<1>3. /\ current.req \in Nat /\ (current.req # 0 => current.req \in Requests)
      /\ current.phase \in {"idle", "evaluating", "publish", "resolve"}
      /\ current.base \in Nat /\ current.once \in Nat /\ current.decision \in {"allow", "deny"}
  BY DEF TypeOK, Requests
<1>4. /\ native.phase \in {"load", "initial", "ready", "serving", "exited"}
      /\ native.base \in Nat /\ native.once \in Nat /\ native.next \in Nat /\ native.failed \in BOOLEAN
  BY DEF TypeOK
<1>5. \A t \in Threads : /\ op[t].phase \in {"idle", "locking", "lookup", "await", "allowed", "denied"}
                         /\ op[t].target \in Targets /\ op[t].begun \in Nat
                         /\ op[t].req \in Nat /\ (op[t].req # 0 => op[t].req \in Requests)
                         /\ op[t].base \in Nat /\ op[t].once \in Nat
  <2> SUFFICES ASSUME NEW t \in Threads
               PROVE  /\ op[t].phase \in {"idle", "locking", "lookup", "await", "allowed", "denied"}
                      /\ op[t].target \in Targets /\ op[t].begun \in Nat
                      /\ op[t].req \in Nat /\ (op[t].req # 0 => op[t].req \in Requests)
                      /\ op[t].base \in Nat /\ op[t].once \in Nat
    OBVIOUS
  <2>1. op[t] \in [phase : {"idle", "locking", "lookup", "await", "allowed", "denied"},
                   target : Targets, begun : Nat, req : 0..MaxRequests, base : Nat, once : Nat]
    BY DEF TypeOK
  <2> QED
    BY <2>1 DEF Requests
<1> QED
  BY <1>1, <1>2, <1>3, <1>4, <1>5 DEF Fields, LogFields, EvalFields, CurrentFields, NativeFields, OpFields

LEMMA UpFrame ==
    ASSUME NEW f \in UpFrames
    PROVE  /\ f.kind \in {"ready", "denial", "miss"}
           /\ f.kind # "denial" => f.base \in Nat /\ f.once \in Nat
           /\ f.kind = "miss" => f.req \in Requests /\ f.target \in Targets
BY DEF UpFrames

LEMMA DownFrame ==
    ASSUME NEW f \in DownFrames
    PROVE  /\ f.kind \in {"once", "resolution"}
           /\ f.kind = "once" => f.rev \in Nat
           /\ f.kind = "resolution" => /\ f.req \in Requests /\ f.decision \in {"allow", "deny"}
                                      /\ f.base \in Nat /\ f.once \in Nat
BY DEF DownFrames

LEMMA ElementsHold == ASSUME QueuesTyped PROVE Elements
<1> USE BoundsAssumption
<1>1. /\ Len(up) \in Nat /\ Len(inbox) \in Nat /\ Len(down) \in Nat /\ Len(publications) \in Nat
      /\ \A i \in 1..Len(up) : up[i] \in UpFrames
      /\ \A i \in 1..Len(inbox) : inbox[i] \in UpFrames /\ inbox[i].kind # "ready"
      /\ \A i \in 1..Len(down) : down[i] \in DownFrames
      /\ \A i \in 1..Len(publications) : publications[i] \in Publications
  BY DEF QueuesTyped
<1>2. \A p \in Publications : /\ p.rev \in Nat /\ p.by \in {"start", "view", "miss"}
                              /\ p.req \in Nat /\ (p.req # 0 => p.req \in Requests)
  BY DEF Publications, Requests
<1> QED
  BY <1>1, <1>2, UpFrame, DownFrame DEF Elements, UpElements, InboxElements, DownElements, QueueElements

LEMMA NoneTyped ==
    /\ (CHOOSE x \in Targets : TRUE) \in Targets
    /\ NoEval.phase = "none" /\ NoEval.base = 0 /\ NoEval.once = 0 /\ NoEval.at = 0
    /\ NoOp.phase = "idle" /\ NoOp.req = Nobody /\ NoOp.begun = 0 /\ NoOp.base = 0 /\ NoOp.once = 0
    /\ NoMiss.req = Nobody /\ NoMiss.phase = "idle" /\ NoMiss.base = 0 /\ NoMiss.once = 0 /\ NoMiss.decision = "deny"
<1>1. \E x \in Targets : TRUE
  BY MountAssumption
<1> QED
  BY <1>1 DEF NoEval, NoOp, NoMiss, Nobody

LEMMA Appended ==
    ASSUME NEW S, NEW q \in Seq(S), NEW e \in S
    PROVE  /\ Append(q, e) \in Seq(S) /\ Len(Append(q, e)) = Len(q) + 1
           /\ \A i \in 1..Len(q) : Append(q, e)[i] = q[i]
           /\ Append(q, e)[Len(q) + 1] = e
OBVIOUS

LEMMA Taken ==
    ASSUME NEW S, NEW q \in Seq(S), q # <<>>
    PROVE  /\ Tail(q) \in Seq(S) /\ Len(Tail(q)) = Len(q) - 1 /\ Len(q) >= 1
           /\ \A i \in 1..(Len(q) - 1) : Tail(q)[i] = q[i + 1]
           /\ Head(q) = q[1] /\ Head(q) \in S
OBVIOUS

LEMMA LastIndex == ASSUME NEW S, NEW q \in Seq(S), q # <<>> PROVE Len(q) \in 1..Len(q)
OBVIOUS

LEMMA BaseGrows ==
    ASSUME baseLog \in Seq(Rules), baseLog # <<>>, NEW rules \in Rules, baseLog' = Append(baseLog, rules)
    PROVE  /\ baseLog' \in Seq(Rules) /\ Len(baseLog') = Len(baseLog) + 1
           /\ baseRevision \in Nat /\ baseRevision' = baseRevision + 1
           /\ \A i \in 1..Len(baseLog) : baseLog'[i] = baseLog[i]
           /\ BaseAt(baseRevision)' = rules
<1>1. /\ baseLog' \in Seq(Rules) /\ Len(baseLog') = Len(baseLog) + 1 /\ Len(baseLog) \in Nat /\ Len(baseLog) >= 1
      /\ \A i \in 1..Len(baseLog) : baseLog'[i] = baseLog[i]
      /\ baseLog'[Len(baseLog) + 1] = rules
  BY Appended
<1>2. baseRevision \in Nat /\ baseRevision' = baseRevision + 1 /\ baseRevision + 2 = Len(baseLog) + 1
  BY <1>1 DEF baseRevision
<1>4. BaseAt(baseRevision)' = rules
  <2>1. baseRevision' + 1 = Len(baseLog) + 1
    BY <1>1, <1>2
  <2> QED
    BY <1>1, <2>1 DEF BaseAt
<1> QED
  BY <1>1, <1>2, <1>4

LEMMA OnceGrows ==
    ASSUME onceLog \in Seq(Rules), onceLog # <<>>, NEW rules \in Rules, onceLog' = Append(onceLog, rules)
    PROVE  /\ onceLog' \in Seq(Rules) /\ onceLog' # <<>>
           /\ onceRevision \in Nat /\ onceRevision' = onceRevision + 1
           /\ \A i \in 1..Len(onceLog) : onceLog'[i] = onceLog[i]
           /\ OnceAt(onceRevision)' = rules
<1>1. /\ onceLog' \in Seq(Rules) /\ Len(onceLog') = Len(onceLog) + 1 /\ Len(onceLog) \in Nat /\ Len(onceLog) >= 1
      /\ \A i \in 1..Len(onceLog) : onceLog'[i] = onceLog[i]
      /\ onceLog'[Len(onceLog) + 1] = rules
  BY Appended
<1>2. onceRevision \in Nat /\ onceRevision' = onceRevision + 1 /\ onceRevision + 2 = Len(onceLog) + 1
  BY <1>1 DEF onceRevision
<1>4. OnceAt(onceRevision)' = rules
  <2>1. onceRevision' + 1 = Len(onceLog) + 1
    BY <1>1, <1>2
  <2> QED
    BY <1>1, <2>1 DEF OnceAt
<1> QED
  BY <1>1, <1>2, <1>4

EvalRecords == [phase : {"none", "asking", "answered", "publishing", "done", "failed"},
                target : Targets, result : Decisions, at : Nat, base : Nat, once : Nat]
OpRecords == [phase : {"idle", "locking", "lookup", "await", "allowed", "denied"},
              target : Targets, begun : Nat, req : 0..MaxRequests, base : Nat, once : Nat]

\* What is stored about an evaluation when it is answered or finished.
LEMMA EvalAnswered ==
    ASSUME NEW f \in [Requests -> EvalRecords], NEW r \in Requests, NEW p \in Decisions, NEW a \in Nat
    PROVE  [f EXCEPT ![r].phase = "answered", ![r].result = p, ![r].at = a] \in [Requests -> EvalRecords]
<1>1. [f[r] EXCEPT !.phase = "answered", !.result = p, !.at = a] \in EvalRecords
  BY DEF EvalRecords
<1> QED BY <1>1
LEMMA EvalFinished ==
    ASSUME NEW f \in [Requests -> EvalRecords], NEW r \in Requests, NEW h \in {"publishing", "done"},
           NEW b \in Nat, NEW o \in Nat
    PROVE  [f EXCEPT ![r].phase = h, ![r].base = b, ![r].once = o] \in [Requests -> EvalRecords]
<1>1. [f[r] EXCEPT !.phase = h, !.base = b, !.once = o] \in EvalRecords
  BY DEF EvalRecords
<1> QED BY <1>1


\* Every publication carries the newest revision, so the queue stays in order.
LEMMA QueueAppends ==
    ASSUME NativeInv, NEW p \in Publications, publications' = Append(publications, p), published' = published,
           p.rev = onceRevision', onceRevision <= onceRevision', onceRevision \in Nat, onceRevision' \in Nat,
           p.by # "start" => \A i \in 1..Len(publications) : publications[i].by # p.by
    PROVE  QueueForward' /\ QueueOnce'
<1>1. /\ Len(publications) \in Nat /\ Len(publications') = Len(publications) + 1
      /\ \A i \in 1..Len(publications) : publications'[i] = publications[i]
      /\ publications'[Len(publications) + 1] = p
  BY Appended DEF NativeInv, QueuesTyped
<1>2. \A i \in 1..Len(publications') : i \in 1..Len(publications) \/ i = Len(publications) + 1
  BY <1>1
<1>3. /\ \A i \in 1..Len(publications) : /\ publications[i].rev \in Nat /\ publications[i].rev <= onceRevision'
                                         /\ published <= publications[i].rev
      /\ published \in Int /\ published <= onceRevision'
  BY ElementsHold DEF NativeInv, QueueForward, PublishedKnown, Elements, QueueElements
<1>4. \A i \in 1..Len(publications') : published <= publications'[i].rev /\ publications'[i].rev <= onceRevision'
  BY <1>1, <1>2, <1>3
<1>5. \A i, j \in 1..Len(publications') : i < j => publications'[i].rev <= publications'[j].rev
  <2> SUFFICES ASSUME NEW i \in 1..Len(publications'), NEW j \in 1..Len(publications'), i < j
               PROVE  publications'[i].rev <= publications'[j].rev
    OBVIOUS
  <2>1. i \in 1..Len(publications)
    BY <1>1
  <2>2. CASE j \in 1..Len(publications)
    BY <1>1, <2>1, <2>2 DEF NativeInv, QueueForward
  <2>3. CASE j = Len(publications) + 1
    BY <1>1, <1>3, <2>1, <2>3
  <2> QED
    BY <1>2, <2>2, <2>3
<1>6. QueueForward'
  BY <1>4, <1>5 DEF QueueForward
<1>7. QueueOnce'
  <2> SUFFICES ASSUME NEW i \in 1..Len(publications'), NEW j \in 1..Len(publications'), i < j,
                      publications'[i].by # "start"
               PROVE  publications'[i].by # publications'[j].by
    BY DEF QueueOnce
  <2>1. i \in 1..Len(publications)
    BY <1>1
  <2>2. CASE j \in 1..Len(publications)
    BY <1>1, <2>1, <2>2 DEF NativeInv, QueueOnce
  <2>3. CASE j = Len(publications) + 1
    BY <1>1, <2>1, <2>3
  <2> QED
    BY <1>2, <2>2, <2>3
<1> QED
  BY <1>6, <1>7


\* What taking the first frame, and adding one, does to the misses of a queue.
LEMMA UpTaken ==
    ASSUME QueuesTyped, up # <<>>, up' = Tail(up)
    PROVE  /\ up' \in Seq(UpFrames) /\ Head(up) = up[1] /\ Head(up) \in UpFrames
           /\ Len(up) \in Nat /\ Len(up) >= 1 /\ Len(up') = Len(up) - 1
           /\ \A j \in 1..Len(up') : j + 1 \in 1..Len(up) /\ up'[j] = up[j + 1]
           /\ \A j \in UpMisses' : j \in Nat /\ j + 1 \in UpMisses /\ up'[j] = up[j + 1] /\ j + 1 > 1
<1>1. /\ up' \in Seq(UpFrames) /\ Head(up) = up[1] /\ Head(up) \in UpFrames
      /\ Len(up) \in Nat /\ Len(up) >= 1 /\ Len(up') = Len(up) - 1
      /\ \A j \in 1..(Len(up) - 1) : up'[j] = up[j + 1]
  BY Taken DEF QueuesTyped
<1>2. \A j \in 1..Len(up') : j + 1 \in 1..Len(up) /\ up'[j] = up[j + 1]
  BY <1>1
<1>3. \A j \in UpMisses' : j \in Nat /\ j + 1 \in UpMisses /\ up'[j] = up[j + 1] /\ j + 1 > 1
  BY <1>1, <1>2 DEF UpMisses
<1> QED
  BY <1>1, <1>2, <1>3

LEMMA InboxTaken ==
    ASSUME QueuesTyped, inbox # <<>>, inbox' = Tail(inbox)
    PROVE  /\ inbox' \in Seq(UpFrames) /\ Head(inbox) = inbox[1] /\ Head(inbox) \in UpFrames
           /\ Len(inbox) \in Nat /\ Len(inbox) >= 1 /\ Len(inbox') = Len(inbox) - 1
           /\ \A j \in 1..Len(inbox') : j + 1 \in 1..Len(inbox) /\ inbox'[j] = inbox[j + 1]
           /\ \A j \in InboxMisses' : j \in Nat /\ j + 1 \in InboxMisses /\ inbox'[j] = inbox[j + 1] /\ j + 1 > 1
<1>1. /\ inbox' \in Seq(UpFrames) /\ Head(inbox) = inbox[1] /\ Head(inbox) \in UpFrames
      /\ Len(inbox) \in Nat /\ Len(inbox) >= 1 /\ Len(inbox') = Len(inbox) - 1
      /\ \A j \in 1..(Len(inbox) - 1) : inbox'[j] = inbox[j + 1]
  BY Taken DEF QueuesTyped
<1>2. \A j \in 1..Len(inbox') : j + 1 \in 1..Len(inbox) /\ inbox'[j] = inbox[j + 1]
  BY <1>1
<1>3. \A j \in InboxMisses' : j \in Nat /\ j + 1 \in InboxMisses /\ inbox'[j] = inbox[j + 1] /\ j + 1 > 1
  BY <1>1, <1>2 DEF InboxMisses
<1> QED
  BY <1>1, <1>2, <1>3

LEMMA InboxGiven ==
    ASSUME QueuesTyped, NEW f \in UpFrames, inbox' = Append(inbox, f)
    PROVE  /\ inbox' \in Seq(UpFrames) /\ Len(inbox) \in Nat /\ Len(inbox') = Len(inbox) + 1
           /\ \A i \in 1..Len(inbox') : \/ i \in 1..Len(inbox) /\ inbox'[i] = inbox[i]
                                        \/ i = Len(inbox) + 1 /\ inbox'[i] = f
           /\ \A i \in InboxMisses' : \/ i \in InboxMisses /\ i \in Nat /\ i < Len(inbox) + 1 /\ inbox'[i] = inbox[i]
                                      \/ i = Len(inbox) + 1 /\ inbox'[i] = f /\ f.kind = "miss"
<1>1. /\ inbox' \in Seq(UpFrames) /\ Len(inbox) \in Nat /\ Len(inbox') = Len(inbox) + 1
      /\ \A i \in 1..Len(inbox) : inbox'[i] = inbox[i]
      /\ inbox'[Len(inbox) + 1] = f
  BY Appended DEF QueuesTyped
<1>2. \A i \in 1..Len(inbox') : \/ i \in 1..Len(inbox) /\ inbox'[i] = inbox[i]
                                \/ i = Len(inbox) + 1 /\ inbox'[i] = f
  BY <1>1
<1>3. \A i \in InboxMisses' : \/ i \in InboxMisses /\ i \in Nat /\ i < Len(inbox) + 1 /\ inbox'[i] = inbox[i]
                              \/ i = Len(inbox) + 1 /\ inbox'[i] = f /\ f.kind = "miss"
  BY <1>1, <1>2 DEF InboxMisses
<1> QED
  BY <1>1, <1>2, <1>3

LEMMA UpGiven ==
    ASSUME QueuesTyped, NEW f \in UpFrames, up' = Append(up, f)
    PROVE  /\ up' \in Seq(UpFrames) /\ Len(up) \in Nat /\ Len(up') = Len(up) + 1
           /\ \A i \in 1..Len(up') : \/ i \in 1..Len(up) /\ up'[i] = up[i]
                                     \/ i = Len(up) + 1 /\ up'[i] = f
           /\ \A i \in UpMisses' : \/ i \in UpMisses /\ i \in Nat /\ i < Len(up) + 1 /\ up'[i] = up[i]
                                   \/ i = Len(up) + 1 /\ up'[i] = f /\ f.kind = "miss"
<1>1. /\ up' \in Seq(UpFrames) /\ Len(up) \in Nat /\ Len(up') = Len(up) + 1
      /\ \A i \in 1..Len(up) : up'[i] = up[i]
      /\ up'[Len(up) + 1] = f
  BY Appended DEF QueuesTyped
<1>2. \A i \in 1..Len(up') : \/ i \in 1..Len(up) /\ up'[i] = up[i]
                             \/ i = Len(up) + 1 /\ up'[i] = f
  BY <1>1
<1>3. \A i \in UpMisses' : \/ i \in UpMisses /\ i \in Nat /\ i < Len(up) + 1 /\ up'[i] = up[i]
                           \/ i = Len(up) + 1 /\ up'[i] = f /\ f.kind = "miss"
  BY <1>1, <1>2 DEF UpMisses
<1> QED
  BY <1>1, <1>2, <1>3

LEMMA DownTaken ==
    ASSUME QueuesTyped, down # <<>>, down' = Tail(down)
    PROVE  /\ down' \in Seq(DownFrames) /\ Head(down) = down[1] /\ Head(down) \in DownFrames
           /\ Len(down) \in Nat /\ Len(down) >= 1 /\ Len(down') = Len(down) - 1
           /\ \A j \in Resolutions' : j \in Nat /\ j + 1 \in Resolutions /\ down'[j] = down[j + 1] /\ j + 1 > 1
           /\ \A j \in Onces' : j \in Nat /\ j + 1 \in Onces /\ down'[j] = down[j + 1] /\ j + 1 > 1
           /\ \A j \in Onces : j \in Nat /\ (j > 1 => j - 1 \in Onces' /\ j - 1 \in Nat /\ down'[j - 1] = down[j])
<1>1. /\ down' \in Seq(DownFrames) /\ Head(down) = down[1] /\ Head(down) \in DownFrames
      /\ Len(down) \in Nat /\ Len(down) >= 1 /\ Len(down') = Len(down) - 1
      /\ \A j \in 1..(Len(down) - 1) : down'[j] = down[j + 1]
  BY Taken DEF QueuesTyped
<1>2. \A j \in 1..Len(down') : j + 1 \in 1..Len(down) /\ down'[j] = down[j + 1]
  BY <1>1
<1>3. /\ \A j \in Resolutions' : j \in Nat /\ j + 1 \in Resolutions /\ down'[j] = down[j + 1] /\ j + 1 > 1
      /\ \A j \in Onces' : j \in Nat /\ j + 1 \in Onces /\ down'[j] = down[j + 1] /\ j + 1 > 1
  BY <1>1, <1>2 DEF Resolutions, Onces
<1>4. \A j \in Onces : j \in Nat /\ (j > 1 => j - 1 \in Onces' /\ j - 1 \in Nat /\ down'[j - 1] = down[j])
  <2> SUFFICES ASSUME NEW j \in Onces PROVE j \in Nat /\ (j > 1 => j - 1 \in Onces' /\ j - 1 \in Nat /\ down'[j - 1] = down[j])
    OBVIOUS
  <2>1. j \in 1..Len(down) /\ down[j].kind = "once"
    BY DEF Onces
  <2>2. ASSUME j > 1 PROVE j - 1 \in 1..Len(down') /\ down'[j - 1] = down[j]
    <3>1. j - 1 \in 1..Len(down')
      BY <1>1, <2>1, <2>2
    <3>2. down'[j - 1] = down[(j - 1) + 1] /\ (j - 1) + 1 = j
      BY <1>2, <2>1, <3>1
    <3> QED
      BY <3>1, <3>2
  <2> QED
    BY <2>1, <2>2 DEF Onces
<1> QED
  BY <1>1, <1>3, <1>4

LEMMA DownGiven ==
    ASSUME QueuesTyped, NEW f \in DownFrames, down' = Append(down, f)
    PROVE  /\ down' \in Seq(DownFrames) /\ Len(down) \in Nat /\ Len(down') = Len(down) + 1
           /\ \A h \in Resolutions' : \/ h \in Resolutions /\ h \in Nat /\ h < Len(down) + 1 /\ down'[h] = down[h]
                                      \/ h = Len(down) + 1 /\ down'[h] = f /\ f.kind = "resolution"
           /\ \A i \in Onces' : \/ i \in Onces /\ i \in Nat /\ i < Len(down) + 1 /\ down'[i] = down[i]
                                \/ i = Len(down) + 1 /\ down'[i] = f /\ f.kind = "once"
           /\ \A i \in Onces : i \in Onces' /\ down'[i] = down[i] /\ i \in Nat /\ i < Len(down) + 1
           /\ f.kind = "once" => Len(down) + 1 \in Onces' /\ down'[Len(down) + 1] = f
<1>1. /\ down' \in Seq(DownFrames) /\ Len(down) \in Nat /\ Len(down') = Len(down) + 1
      /\ \A i \in 1..Len(down) : down'[i] = down[i]
      /\ down'[Len(down) + 1] = f
  BY Appended DEF QueuesTyped
<1>2. \A i \in 1..Len(down') : \/ i \in 1..Len(down) /\ down'[i] = down[i]
                               \/ i = Len(down) + 1 /\ down'[i] = f
  BY <1>1
<1>3. /\ \A h \in Resolutions' : \/ h \in Resolutions /\ h \in Nat /\ h < Len(down) + 1 /\ down'[h] = down[h]
                                 \/ h = Len(down) + 1 /\ down'[h] = f /\ f.kind = "resolution"
      /\ \A i \in Onces' : \/ i \in Onces /\ i \in Nat /\ i < Len(down) + 1 /\ down'[i] = down[i]
                           \/ i = Len(down) + 1 /\ down'[i] = f /\ f.kind = "once"
  BY <1>1, <1>2 DEF Resolutions, Onces
<1>4. \A i \in Onces : i \in Onces' /\ down'[i] = down[i] /\ i \in Nat /\ i < Len(down) + 1
  BY <1>1 DEF Onces
<1>5. f.kind = "once" => Len(down) + 1 \in Onces' /\ down'[Len(down) + 1] = f
  BY <1>1 DEF Onces
<1> QED
  BY <1>1, <1>3, <1>4, <1>5

\* The misses and frames of the queues are typed.
Misses ==
    /\ \A j \in UpMisses : j \in Nat /\ up[j].req \in Requests /\ up[j].target \in Targets /\ up[j].base \in Nat /\ up[j].once \in Nat
    /\ \A i \in InboxMisses : i \in Nat /\ inbox[i].req \in Requests /\ inbox[i].target \in Targets /\ inbox[i].base \in Nat /\ inbox[i].once \in Nat
    /\ \A h \in Resolutions : h \in Nat /\ down[h].req \in Requests /\ down[h].decision \in {"allow", "deny"} /\ down[h].base \in Nat /\ down[h].once \in Nat
    /\ \A i \in Onces : i \in Nat /\ down[i].rev \in Nat
    /\ \A r \in Requests : r \in Nat
LEMMA MissesHold == ASSUME QueuesTyped PROVE Misses
BY ElementsHold DEF Misses, UpMisses, InboxMisses, Resolutions, Onces, Elements, UpElements, InboxElements, DownElements, Requests

LEMMA SameTypeOK ==
    ASSUME TypeOK, baseLog' = baseLog, file' = file, baseClosed' = baseClosed,
           onceEngine' = onceEngine, onceLog' = onceLog, viewClosed' = viewClosed, evals' = evals,
           aborted' = aborted, open' = open, current' = current, published' = published,
           synchronized' = synchronized, native' = native, lock' = lock, op' = op, cause' = cause
    PROVE  TypeOK'
BY DEF TypeOK, Rules, baseRevision, Requests, Decisions, NoThread

LEMMA SameQueuesTyped ==
    ASSUME QueuesTyped, inbox' = inbox, publications' = publications, up' = up, down' = down
    PROVE  QueuesTyped'
BY DEF QueuesTyped, UpFrames, DownFrames, Publications, Requests

LEMMA SameNativeBehind ==
    ASSUME NativeBehind, file' = file, onceLog' = onceLog, native' = native
    PROVE  NativeBehind'
BY DEF NativeBehind, onceRevision

LEMMA SameFileCurrent ==
    ASSUME FileCurrent, baseLog' = baseLog, file' = file, open' = open
    PROVE  FileCurrent'
BY DEF FileCurrent, baseRevision

LEMMA SameUpKnown ==
    ASSUME UpKnown, baseLog' = baseLog, onceLog' = onceLog, up' = up
    PROVE  UpKnown'
BY DEF UpKnown, baseRevision, onceRevision

LEMMA SameInboxKnown ==
    ASSUME InboxKnown, baseLog' = baseLog, onceLog' = onceLog, inbox' = inbox
    PROVE  InboxKnown'
BY DEF InboxKnown, InboxMisses, baseRevision, onceRevision

LEMMA SameCurrentKnown ==
    ASSUME CurrentKnown, baseLog' = baseLog, onceLog' = onceLog, current' = current
    PROVE  CurrentKnown'
BY DEF CurrentKnown, baseRevision, onceRevision

LEMMA SameEvalsKnown ==
    ASSUME EvalsKnown, baseLog' = baseLog, onceLog' = onceLog, evals' = evals
    PROVE  EvalsKnown'
BY DEF EvalsKnown, Requests, baseRevision, onceRevision

LEMMA SameAnswersKnown ==
    ASSUME AnswersKnown, baseLog' = baseLog, down' = down
    PROVE  AnswersKnown'
BY DEF AnswersKnown, Resolutions, baseRevision

LEMMA SameOpsKnown ==
    ASSUME OpsKnown, baseLog' = baseLog, native' = native, op' = op
    PROVE  OpsKnown'
BY DEF OpsKnown, baseRevision

LEMMA SameFirstRevision ==
    ASSUME FirstRevision, synchronized' = synchronized
    PROVE  FirstRevision'
BY DEF FirstRevision

LEMMA SameNotSynchronized ==
    ASSUME NotSynchronized, publications' = publications, published' = published,
           synchronized' = synchronized, down' = down, native' = native
    PROVE  NotSynchronized'
BY DEF NotSynchronized

LEMMA SameNotServing ==
    ASSUME NotServing, native' = native, op' = op
    PROVE  NotServing'
BY DEF NotServing

LEMMA SameNothingAsked ==
    ASSUME NothingAsked, onceLog' = onceLog, native' = native
    PROVE  NothingAsked'
BY DEF NothingAsked, onceRevision

LEMMA SameAskedAfterSent ==
    ASSUME AskedAfterSent, evals' = evals, native' = native
    PROVE  AskedAfterSent'
BY DEF AskedAfterSent, Requests

LEMMA SameReadyFirst ==
    ASSUME ReadyFirst, synchronized' = synchronized, up' = up
    PROVE  ReadyFirst'
BY DEF ReadyFirst

LEMMA SameLockHeld ==
    ASSUME LockHeld, lock' = lock, op' = op
    PROVE  LockHeld'
BY DEF LockHeld

LEMMA SameAwaitsLast ==
    ASSUME AwaitsLast, native' = native, op' = op
    PROVE  AwaitsLast'
BY DEF AwaitsLast, Nobody

LEMMA SameRequestLeft ==
    ASSUME RequestLeft, native' = native, op' = op
    PROVE  RequestLeft'
BY DEF RequestLeft, MayAsk

LEMMA SameUpInLine ==
    ASSUME UpInLine, up' = up, native' = native
    PROVE  UpInLine'
BY DEF UpInLine, UpMisses

LEMMA SameInboxInLine ==
    ASSUME InboxInLine, inbox' = inbox, up' = up, native' = native
    PROVE  InboxInLine'
BY DEF InboxInLine, InboxMisses, UpMisses

LEMMA SameCurrentInLine ==
    ASSUME CurrentInLine, inbox' = inbox, current' = current, up' = up, native' = native
    PROVE  CurrentInLine'
BY DEF CurrentInLine, Nobody, UpMisses, InboxMisses

LEMMA SameAnswersInLine ==
    ASSUME AnswersInLine, inbox' = inbox, current' = current, up' = up, down' = down,
           native' = native
    PROVE  AnswersInLine'
BY DEF AnswersInLine, Resolutions, UpMisses, InboxMisses, Nobody

LEMMA SameIdling ==
    ASSUME Idling, current' = current
    PROVE  Idling'
BY DEF Idling, Nobody, NoMiss

LEMMA SameUpUnasked ==
    ASSUME UpUnasked, evals' = evals, up' = up
    PROVE  UpUnasked'
BY DEF UpUnasked, UpMisses

LEMMA SameInboxUnasked ==
    ASSUME InboxUnasked, evals' = evals, inbox' = inbox
    PROVE  InboxUnasked'
BY DEF InboxUnasked, InboxMisses

LEMMA SameActiveIsCurrent ==
    ASSUME ActiveIsCurrent, evals' = evals, aborted' = aborted, current' = current
    PROVE  ActiveIsCurrent'
BY DEF ActiveIsCurrent, Requests, Active

LEMMA SameOneActive ==
    ASSUME OneActive, evals' = evals
    PROVE  OneActive'
BY DEF OneActive, Requests, Active

LEMMA SameDoneIsCurrent ==
    ASSUME DoneIsCurrent, onceLog' = onceLog, evals' = evals, current' = current
    PROVE  DoneIsCurrent'
BY DEF DoneIsCurrent, Requests, Active, onceRevision

LEMMA SameDecided ==
    ASSUME Decided, evals' = evals
    PROVE  Decided'
BY DEF Decided, Requests

LEMMA SamePublishedKnown ==
    ASSUME PublishedKnown, onceLog' = onceLog, published' = published
    PROVE  PublishedKnown'
BY DEF PublishedKnown, onceRevision

LEMMA SameQueueForward ==
    ASSUME QueueForward, onceLog' = onceLog, publications' = publications, published' = published
    PROVE  QueueForward'
BY DEF QueueForward, onceRevision

LEMMA SameQueueOwners ==
    ASSUME QueueOwners, evals' = evals, current' = current, publications' = publications
    PROVE  QueueOwners'
BY DEF QueueOwners, Nobody

LEMMA SameQueueOnce ==
    ASSUME QueueOnce, publications' = publications
    PROVE  QueueOnce'
BY DEF QueueOnce

LEMMA SameResolvePublished ==
    ASSUME ResolvePublished, current' = current, published' = published
    PROVE  ResolvePublished'
BY DEF ResolvePublished

LEMMA SameNativePublished ==
    ASSUME NativePublished, published' = published, native' = native
    PROVE  NativePublished'
BY DEF NativePublished

LEMMA SameOncesForward ==
    ASSUME OncesForward, published' = published, down' = down, native' = native
    PROVE  OncesForward'
BY DEF OncesForward, Onces

LEMMA SameLastArrives ==
    ASSUME LastArrives, published' = published, down' = down, native' = native
    PROVE  LastArrives'
BY DEF LastArrives, Onces

LEMMA SameAnswersCovered ==
    ASSUME AnswersCovered, down' = down, native' = native
    PROVE  AnswersCovered'
BY DEF AnswersCovered, Resolutions, Onces

LEMMA SameCurrentSays ==
    ASSUME CurrentSays, evals' = evals, current' = current
    PROVE  CurrentSays'
BY DEF CurrentSays, SaysEvaluated

LEMMA SameAnswersSay ==
    ASSUME AnswersSay, evals' = evals, down' = down
    PROVE  AnswersSay'
BY DEF AnswersSay, Resolutions, SaysEvaluated

LEMMA SameLookupFresh ==
    ASSUME LookupFresh, open' = open, native' = native, op' = op
    PROVE  LookupFresh'
BY DEF LookupFresh

LEMMA SameAwaitFresh ==
    ASSUME AwaitFresh, op' = op
    PROVE  AwaitFresh'
BY DEF AwaitFresh

LEMMA SameEvaluatedLater ==
    ASSUME EvaluatedLater, evals' = evals, op' = op
    PROVE  EvaluatedLater'
BY DEF EvaluatedLater

LEMMA SameCurrentLater ==
    ASSUME CurrentLater, current' = current, op' = op
    PROVE  CurrentLater'
BY DEF CurrentLater

LEMMA SameAnswersLater ==
    ASSUME AnswersLater, down' = down, op' = op
    PROVE  AnswersLater'
BY DEF AnswersLater, Resolutions

LEMMA SameCalmMount ==
    ASSUME CalmMount, baseClosed' = baseClosed, viewClosed' = viewClosed, open' = open,
           native' = native, cause' = cause
    PROVE  CalmMount'
BY DEF CalmMount, Calm

LEMMA SameCalmUp ==
    ASSUME CalmUp, up' = up, native' = native, op' = op, cause' = cause
    PROVE  CalmUp'
BY DEF CalmUp, Calm, UpMisses, Awaited

LEMMA SameCalmInbox ==
    ASSUME CalmInbox, inbox' = inbox, native' = native, op' = op, cause' = cause
    PROVE  CalmInbox'
BY DEF CalmInbox, Calm, InboxMisses, Awaited

LEMMA SameCalmCurrent ==
    ASSUME CalmCurrent, current' = current, native' = native, op' = op, cause' = cause
    PROVE  CalmCurrent'
BY DEF CalmCurrent, Calm, Nobody, Awaited

LEMMA SameCalmAnswers ==
    ASSUME CalmAnswers, down' = down, native' = native, op' = op, cause' = cause
    PROVE  CalmAnswers'
BY DEF CalmAnswers, Calm, Resolutions, Awaited

LEMMA SameCalmEvals ==
    ASSUME CalmEvals, evals' = evals, cause' = cause
    PROVE  CalmEvals'
BY DEF CalmEvals, Calm, Requests

LEMMA SameAbortCaused ==
    ASSUME AbortCaused, aborted' = aborted, cause' = cause
    PROVE  AbortCaused'
BY DEF AbortCaused

LEMMA SameQuietCurrent ==
    ASSUME QuietCurrent, evals' = evals, current' = current, cause' = cause
    PROVE  QuietCurrent'
BY DEF QuietCurrent, SaysEvaluated

LEMMA SameQuietAnswers ==
    ASSUME QuietAnswers, evals' = evals, down' = down, cause' = cause
    PROVE  QuietAnswers'
BY DEF QuietAnswers, Resolutions, SaysEvaluated

LEMMA SameQuietDenied ==
    ASSUME QuietDenied, evals' = evals, op' = op, cause' = cause
    PROVE  QuietDenied'
BY DEF QuietDenied, Nobody

LEMMA SameLogStays ==
    ASSUME LogStays, onceLog' = onceLog
    PROVE  LogStays'
BY DEF LogStays, Stays

LEMMA SameEngineStays ==
    ASSUME EngineStays, onceEngine' = onceEngine, onceLog' = onceLog
    PROVE  EngineStays'
BY DEF EngineStays, Stays, OnceAt, onceRevision

LEMMA SameGrantsBacked ==
    ASSUME GrantsBacked, baseLog' = baseLog, onceEngine' = onceEngine, onceLog' = onceLog,
           evals' = evals
    PROVE  GrantsBacked'
BY DEF GrantsBacked, Requests, GrantBacked, BaseAt, OnceAt

LEMMA SameTargetEvaluated ==
    ASSUME TargetEvaluated, evals' = evals, op' = op
    PROVE  TargetEvaluated'
BY DEF TargetEvaluated, Nobody

LEMMA SameTargetSent ==
    ASSUME TargetSent, up' = up, op' = op
    PROVE  TargetSent'
BY DEF TargetSent, Nobody, UpMisses

LEMMA SameTargetTaken ==
    ASSUME TargetTaken, inbox' = inbox, op' = op
    PROVE  TargetTaken'
BY DEF TargetTaken, Nobody, InboxMisses

LEMMA SameLetThrough ==
    ASSUME LetThrough, evals' = evals, op' = op
    PROVE  LetThrough'
BY DEF LetThrough, Nobody

LEMMA SameAllowedInForce ==
    ASSUME AllowedInForce, baseLog' = baseLog, onceLog' = onceLog, evals' = evals, op' = op
    PROVE  AllowedInForce'
BY DEF AllowedInForce, baseRevision, Nobody, Lookup, BaseAt, OnceAt

LEMMA SameGrantNotLost ==
    ASSUME GrantNotLost, baseLog' = baseLog, evals' = evals, op' = op, cause' = cause
    PROVE  GrantNotLost'
BY DEF GrantNotLost, Nobody, baseRevision

\* What an evaluation was asked against never changes, so an answer leaves the
\* operations that were let through as they are.
LEMMA MovedAllowedInForce ==
    ASSUME AllowedInForce, OpFields, baseLog' = baseLog, onceLog' = onceLog, op' = op,
           \A s \in Requests : evals'[s].base = evals[s].base
    PROVE  AllowedInForce'
<1> SUFFICES ASSUME NEW t \in Threads, op[t].phase = "allowed"
             PROVE  /\ op[t].base \in op[t].begun..baseRevision'
                    /\ op[t].req # Nobody => op[t].base >= evals'[op[t].req].base
                    /\ Lookup(op[t].base, op[t].once, op[t].target)' = "allow"
  BY DEF AllowedInForce
<1>1. /\ op[t].base \in op[t].begun..baseRevision
      /\ op[t].req # Nobody => op[t].base >= evals[op[t].req].base
      /\ Lookup(op[t].base, op[t].once, op[t].target) = "allow"
  BY DEF AllowedInForce
<1>2. baseRevision' = baseRevision
  BY DEF baseRevision
<1>3. Lookup(op[t].base, op[t].once, op[t].target)' = Lookup(op[t].base, op[t].once, op[t].target)
  BY DEF Lookup, BaseAt, OnceAt
<1>4. op[t].req # Nobody => evals'[op[t].req].base = evals[op[t].req].base
  BY DEF OpFields, Nobody
<1> QED
  BY <1>1, <1>2, <1>3, <1>4

\* A change of policy keeps the invariant: earlier revisions keep their rules.
LEMMA BaseChangeKeeps ==
    ASSUME NativeInv, NEW x \in Targets, NEW d \in Decisions, PolicyStateChanged(x, d)
    PROVE  NativeInv'
<1>t. Fields /\ Elements
  BY FieldsHold, ElementsHold DEF NativeInv
<1>u. /\ baseClosed' = baseClosed /\ onceEngine' = onceEngine /\ onceLog' = onceLog
      /\ viewClosed' = viewClosed /\ evals' = evals /\ aborted' = aborted /\ open' = open
      /\ inbox' = inbox /\ current' = current /\ publications' = publications
      /\ published' = published /\ synchronized' = synchronized /\ up' = up /\ down' = down
      /\ native' = native /\ lock' = lock /\ op' = op /\ cause' = cause
  BY DEF PolicyStateChanged, baseVars, viewVars, bridgeVars, nativeVars
<1>f1. [BaseAt(baseRevision) EXCEPT ![x] = d] \in Rules
  BY <1>t DEF NativeInv, TypeOK, Fields, EvalFields, Rules, BaseAt, baseRevision, Decisions
<1>f2. /\ baseLog' = Append(baseLog, [BaseAt(baseRevision) EXCEPT ![x] = d]) /\ baseRevision < MaxBase /\ file' = baseRevision + 1
  BY DEF PolicyStateChanged, Advance
<1>f3. baseLog \in Seq(Rules) /\ baseLog # <<>> /\ file \in 0..baseRevision
  BY BoundsAssumption DEF NativeInv, TypeOK
<1>f4. /\ baseRevision \in Nat /\ baseRevision' = baseRevision + 1 /\ file' = baseRevision'
  BY <1>f1, <1>f2, <1>f3, BaseGrows
<1>f5. /\ \A i \in 1..Len(baseLog) : baseLog'[i] = baseLog[i]
  BY <1>f1, <1>f2, <1>f3, BaseGrows
<1>f6. baseLog' \in Seq(Rules) /\ Len(baseLog') \in 1..(MaxBase + 1) /\ file' \in 0..baseRevision'
  BY <1>u, <1>f1, <1>f2, <1>f3, BaseGrows, BoundsAssumption DEF baseRevision
<1>f7. BaseAt(baseRevision)' = [BaseAt(baseRevision) EXCEPT ![x] = d]
  BY <1>f1, <1>f2, <1>f3, BaseGrows
<1>s. /\ QueuesTyped' /\ FirstRevision' /\ NotSynchronized' /\ NotServing' /\ NothingAsked'
      /\ AskedAfterSent' /\ ReadyFirst' /\ LockHeld' /\ AwaitsLast' /\ RequestLeft' /\ UpInLine'
      /\ InboxInLine' /\ CurrentInLine' /\ AnswersInLine' /\ Idling' /\ UpUnasked' /\ InboxUnasked'
      /\ ActiveIsCurrent' /\ OneActive' /\ DoneIsCurrent' /\ Decided' /\ PublishedKnown'
      /\ QueueForward' /\ QueueOwners' /\ QueueOnce' /\ ResolvePublished' /\ NativePublished'
      /\ OncesForward' /\ LastArrives' /\ AnswersCovered' /\ CurrentSays' /\ AnswersSay'
      /\ LookupFresh' /\ AwaitFresh' /\ EvaluatedLater' /\ CurrentLater' /\ AnswersLater'
      /\ CalmMount' /\ CalmUp' /\ CalmInbox' /\ CalmCurrent' /\ CalmAnswers' /\ CalmEvals'
      /\ AbortCaused' /\ QuietCurrent' /\ QuietAnswers' /\ QuietDenied' /\ LogStays'
      /\ EngineStays' /\ TargetEvaluated' /\ TargetSent' /\ TargetTaken' /\ LetThrough'
  BY <1>u, SameQueuesTyped, SameFirstRevision, SameNotSynchronized, SameNotServing,
     SameNothingAsked, SameAskedAfterSent, SameReadyFirst, SameLockHeld, SameAwaitsLast,
     SameRequestLeft, SameUpInLine, SameInboxInLine, SameCurrentInLine, SameAnswersInLine,
     SameIdling, SameUpUnasked, SameInboxUnasked, SameActiveIsCurrent, SameOneActive,
     SameDoneIsCurrent, SameDecided, SamePublishedKnown, SameQueueForward, SameQueueOwners,
     SameQueueOnce, SameResolvePublished, SameNativePublished, SameOncesForward, SameLastArrives,
     SameAnswersCovered, SameCurrentSays, SameAnswersSay, SameLookupFresh, SameAwaitFresh,
     SameEvaluatedLater, SameCurrentLater, SameAnswersLater, SameCalmMount, SameCalmUp,
     SameCalmInbox, SameCalmCurrent, SameCalmAnswers, SameCalmEvals, SameAbortCaused,
     SameQuietCurrent, SameQuietAnswers, SameQuietDenied, SameLogStays, SameEngineStays,
     SameTargetEvaluated, SameTargetSent, SameTargetTaken, SameLetThrough DEF NativeInv
<1>TypeOK. TypeOK'
  BY <1>u, <1>f6 DEF NativeInv, TypeOK
<1>NativeBehind. NativeBehind'
  BY <1>t, <1>u, <1>f3, <1>f4 DEF NativeInv, Fields, LogFields, NativeFields, NativeBehind,
     onceRevision
<1>FileCurrent. FileCurrent'
  BY <1>t, <1>u, <1>f3, <1>f4 DEF NativeInv, Fields, LogFields, FileCurrent
<1>UpKnown. UpKnown'
  BY <1>t, <1>u, <1>f4 DEF NativeInv, Fields, Elements, LogFields, UpElements, UpKnown,
     onceRevision
<1>InboxKnown. InboxKnown'
  BY <1>t, <1>u, <1>f4 DEF NativeInv, Fields, Elements, LogFields, InboxElements, InboxKnown,
     InboxMisses, onceRevision
<1>CurrentKnown. CurrentKnown'
  BY <1>t, <1>u, <1>f4 DEF NativeInv, Fields, LogFields, CurrentFields, CurrentKnown, onceRevision
<1>EvalsKnown. EvalsKnown'
  BY <1>t, <1>u, <1>f4 DEF NativeInv, Fields, LogFields, EvalFields, EvalsKnown, onceRevision
<1>AnswersKnown. AnswersKnown'
  BY <1>t, <1>u, <1>f4 DEF NativeInv, Fields, Elements, LogFields, DownElements, AnswersKnown,
     Resolutions
<1>OpsKnown. OpsKnown'
  BY <1>t, <1>u, <1>f4 DEF NativeInv, Fields, LogFields, NativeFields, OpFields, OpsKnown
<1>GrantsBacked. GrantsBacked'
  <2> SUFFICES ASSUME NEW r \in Requests, GrantBacked(evals[r]) PROVE GrantBacked(evals[r])'
    BY <1>u DEF NativeInv, GrantsBacked
  <2>1. evals[r].at + 1 \in 1..Len(baseLog)
    BY <1>t DEF NativeInv, EvalsKnown, baseRevision, Fields, EvalFields, LogFields
  <2> QED
    BY <1>u, <1>f5, <2>1 DEF GrantBacked, BaseAt, OnceAt
<1>AllowedInForce. AllowedInForce'
  <2> SUFFICES ASSUME NEW t \in Threads, op[t].phase = "allowed"
               PROVE  /\ op[t].base \in op[t].begun..baseRevision'
                      /\ op[t].req # Nobody => op[t].base >= evals[op[t].req].base
                      /\ Lookup(op[t].base, op[t].once, op[t].target)' = "allow"
    BY <1>u DEF AllowedInForce
  <2>1. op[t].base + 1 \in 1..Len(baseLog) /\ op[t].base \in op[t].begun..baseRevision'
    BY <1>t, <1>f4 DEF NativeInv, AllowedInForce, Fields, OpFields, LogFields, baseRevision
  <2> QED
    BY <1>u, <1>f5, <2>1 DEF NativeInv, AllowedInForce, Lookup, BaseAt, OnceAt
<1>GrantNotLost. GrantNotLost'
  BY <1>t, <1>u, <1>f4 DEF NativeInv, Fields, LogFields, EvalFields, OpFields, GrantNotLost,
     Nobody, EvalsKnown, onceRevision
<1> QED
  BY <1>s, <1>TypeOK, <1>NativeBehind, <1>FileCurrent, <1>UpKnown, <1>InboxKnown, <1>CurrentKnown,
     <1>EvalsKnown, <1>AnswersKnown, <1>OpsKnown, <1>GrantsBacked, <1>AllowedInForce,
     <1>GrantNotLost DEF NativeInv

\* So does one that cannot be written: the mount is failed from outside.
LEMMA PublicationFailureKeeps ==
    ASSUME NativeInv, NEW x \in Targets, NEW d \in Decisions, PublicationFails(x, d)
    PROVE  NativeInv'
<1>t. Fields /\ Elements
  BY FieldsHold, ElementsHold DEF NativeInv
<1>u. /\ file' = file /\ baseClosed' = baseClosed /\ onceEngine' = onceEngine /\ onceLog' = onceLog
      /\ viewClosed' = viewClosed /\ evals' = evals /\ inbox' = inbox /\ current' = current
      /\ publications' = publications /\ published' = published /\ synchronized' = synchronized
      /\ up' = up /\ down' = down /\ native' = native /\ lock' = lock /\ op' = op
  BY DEF PublicationFails, Destroyed, Fault, baseVars, viewVars, bridgeVars, nativeVars
<1>f1. [BaseAt(baseRevision) EXCEPT ![x] = d] \in Rules
  BY <1>t DEF NativeInv, TypeOK, Fields, EvalFields, Rules, BaseAt, baseRevision, Decisions
<1>f2. /\ baseLog' = Append(baseLog, [BaseAt(baseRevision) EXCEPT ![x] = d]) /\ baseRevision < MaxBase
  BY DEF PublicationFails, Destroyed, Fault, Advance
<1>f3. baseLog \in Seq(Rules) /\ baseLog # <<>> /\ file \in 0..baseRevision
  BY BoundsAssumption DEF NativeInv, TypeOK
<1>f4. /\ baseRevision \in Nat /\ baseRevision' = baseRevision + 1
  BY <1>f1, <1>f2, <1>f3, BaseGrows
<1>f5. /\ \A i \in 1..Len(baseLog) : baseLog'[i] = baseLog[i]
  BY <1>f1, <1>f2, <1>f3, BaseGrows
<1>f6. baseLog' \in Seq(Rules) /\ Len(baseLog') \in 1..(MaxBase + 1) /\ file' \in 0..baseRevision'
  BY <1>u, <1>f1, <1>f2, <1>f3, BaseGrows, BoundsAssumption DEF baseRevision
<1>f7. BaseAt(baseRevision)' = [BaseAt(baseRevision) EXCEPT ![x] = d]
  BY <1>f1, <1>f2, <1>f3, BaseGrows
<1>f8. open' = FALSE /\ aborted' = TRUE /\ cause' = cause \cup {"fault"}
  BY DEF PublicationFails, Destroyed, Fault
<1>s. /\ QueuesTyped' /\ FirstRevision' /\ NotSynchronized' /\ NotServing' /\ NothingAsked'
      /\ AskedAfterSent' /\ ReadyFirst' /\ LockHeld' /\ AwaitsLast' /\ RequestLeft' /\ UpInLine'
      /\ InboxInLine' /\ CurrentInLine' /\ AnswersInLine' /\ Idling' /\ UpUnasked' /\ InboxUnasked'
      /\ OneActive' /\ DoneIsCurrent' /\ Decided' /\ PublishedKnown' /\ QueueForward'
      /\ QueueOwners' /\ QueueOnce' /\ ResolvePublished' /\ NativePublished' /\ OncesForward'
      /\ LastArrives' /\ AnswersCovered' /\ CurrentSays' /\ AnswersSay' /\ AwaitFresh'
      /\ EvaluatedLater' /\ CurrentLater' /\ AnswersLater' /\ LogStays' /\ EngineStays'
      /\ TargetEvaluated' /\ TargetSent' /\ TargetTaken' /\ LetThrough'
  BY <1>u, SameQueuesTyped, SameFirstRevision, SameNotSynchronized, SameNotServing,
     SameNothingAsked, SameAskedAfterSent, SameReadyFirst, SameLockHeld, SameAwaitsLast,
     SameRequestLeft, SameUpInLine, SameInboxInLine, SameCurrentInLine, SameAnswersInLine,
     SameIdling, SameUpUnasked, SameInboxUnasked, SameOneActive, SameDoneIsCurrent, SameDecided,
     SamePublishedKnown, SameQueueForward, SameQueueOwners, SameQueueOnce, SameResolvePublished,
     SameNativePublished, SameOncesForward, SameLastArrives, SameAnswersCovered, SameCurrentSays,
     SameAnswersSay, SameAwaitFresh, SameEvaluatedLater, SameCurrentLater, SameAnswersLater,
     SameLogStays, SameEngineStays, SameTargetEvaluated, SameTargetSent, SameTargetTaken,
     SameLetThrough DEF NativeInv
<1>TypeOK. TypeOK'
  BY <1>u, <1>f6, <1>f8 DEF NativeInv, TypeOK
<1>NativeBehind. NativeBehind'
  BY <1>t, <1>u, <1>f3 DEF NativeInv, Fields, LogFields, NativeFields, NativeBehind, onceRevision
<1>FileCurrent. FileCurrent'
  BY <1>t, <1>u, <1>f3, <1>f4, <1>f8 DEF NativeInv, Fields, LogFields, FileCurrent
<1>UpKnown. UpKnown'
  BY <1>t, <1>u, <1>f4 DEF NativeInv, Fields, Elements, LogFields, UpElements, UpKnown,
     onceRevision
<1>InboxKnown. InboxKnown'
  BY <1>t, <1>u, <1>f4 DEF NativeInv, Fields, Elements, LogFields, InboxElements, InboxKnown,
     InboxMisses, onceRevision
<1>CurrentKnown. CurrentKnown'
  BY <1>t, <1>u, <1>f4 DEF NativeInv, Fields, LogFields, CurrentFields, CurrentKnown, onceRevision
<1>EvalsKnown. EvalsKnown'
  BY <1>t, <1>u, <1>f4 DEF NativeInv, Fields, LogFields, EvalFields, EvalsKnown, onceRevision
<1>AnswersKnown. AnswersKnown'
  BY <1>t, <1>u, <1>f4 DEF NativeInv, Fields, Elements, LogFields, DownElements, AnswersKnown,
     Resolutions
<1>OpsKnown. OpsKnown'
  BY <1>t, <1>u, <1>f4 DEF NativeInv, Fields, LogFields, NativeFields, OpFields, OpsKnown
<1>ActiveIsCurrent. ActiveIsCurrent'
  BY <1>t, <1>u, <1>f8 DEF NativeInv, Fields, EvalFields, CurrentFields, ActiveIsCurrent, Active
<1>LookupFresh. LookupFresh'
  BY <1>t, <1>u, <1>f8 DEF NativeInv, Fields, NativeFields, OpFields, LookupFresh
<1>CalmMount. CalmMount'
  BY <1>t, <1>u, <1>f8 DEF NativeInv, Fields, NativeFields, CalmMount, Calm
<1>CalmUp. CalmUp'
  BY <1>t, <1>u, <1>f8 DEF NativeInv, Fields, Elements, UpElements, NativeFields, OpFields, CalmUp,
     Calm, UpMisses, Awaited
<1>CalmInbox. CalmInbox'
  BY <1>t, <1>u, <1>f8 DEF NativeInv, Fields, Elements, InboxElements, NativeFields, OpFields,
     CalmInbox, Calm, InboxMisses, Awaited
<1>CalmCurrent. CalmCurrent'
  BY <1>t, <1>u, <1>f8 DEF NativeInv, Fields, CurrentFields, NativeFields, OpFields, CalmCurrent,
     Calm, Nobody, Awaited
<1>CalmAnswers. CalmAnswers'
  BY <1>t, <1>u, <1>f8 DEF NativeInv, Fields, Elements, DownElements, NativeFields, OpFields,
     CalmAnswers, Calm, Resolutions, Awaited
<1>CalmEvals. CalmEvals'
  BY <1>t, <1>u, <1>f8 DEF NativeInv, Fields, EvalFields, CalmEvals, Calm
<1>AbortCaused. AbortCaused'
  BY <1>t, <1>u, <1>f8 DEF NativeInv, Fields, AbortCaused
<1>QuietCurrent. QuietCurrent'
  BY <1>t, <1>u, <1>f8 DEF NativeInv, Fields, EvalFields, CurrentFields, QuietCurrent,
     SaysEvaluated
<1>QuietAnswers. QuietAnswers'
  BY <1>t, <1>u, <1>f8 DEF NativeInv, Fields, Elements, EvalFields, DownElements, QuietAnswers,
     Resolutions, SaysEvaluated
<1>QuietDenied. QuietDenied'
  BY <1>t, <1>u, <1>f8 DEF NativeInv, Fields, EvalFields, OpFields, QuietDenied, Nobody
<1>GrantsBacked. GrantsBacked'
  <2> SUFFICES ASSUME NEW r \in Requests, GrantBacked(evals[r]) PROVE GrantBacked(evals[r])'
    BY <1>u DEF NativeInv, GrantsBacked
  <2>1. evals[r].at + 1 \in 1..Len(baseLog)
    BY <1>t DEF NativeInv, EvalsKnown, baseRevision, Fields, EvalFields, LogFields
  <2> QED
    BY <1>u, <1>f5, <2>1 DEF GrantBacked, BaseAt, OnceAt
<1>AllowedInForce. AllowedInForce'
  <2> SUFFICES ASSUME NEW t \in Threads, op[t].phase = "allowed"
               PROVE  /\ op[t].base \in op[t].begun..baseRevision'
                      /\ op[t].req # Nobody => op[t].base >= evals[op[t].req].base
                      /\ Lookup(op[t].base, op[t].once, op[t].target)' = "allow"
    BY <1>u DEF AllowedInForce
  <2>1. op[t].base + 1 \in 1..Len(baseLog) /\ op[t].base \in op[t].begun..baseRevision'
    BY <1>t, <1>f4 DEF NativeInv, AllowedInForce, Fields, OpFields, LogFields, baseRevision
  <2> QED
    BY <1>u, <1>f5, <2>1 DEF NativeInv, AllowedInForce, Lookup, BaseAt, OnceAt
<1>GrantNotLost. GrantNotLost'
  BY <1>t, <1>u, <1>f4, <1>f8 DEF NativeInv, Fields, LogFields, EvalFields, OpFields, GrantNotLost,
     Nobody, EvalsKnown, onceRevision
<1> QED
  BY <1>s, <1>TypeOK, <1>NativeBehind, <1>FileCurrent, <1>UpKnown, <1>InboxKnown, <1>CurrentKnown,
     <1>EvalsKnown, <1>AnswersKnown, <1>OpsKnown, <1>ActiveIsCurrent, <1>LookupFresh, <1>CalmMount,
     <1>CalmUp, <1>CalmInbox, <1>CalmCurrent, <1>CalmAnswers, <1>CalmEvals, <1>AbortCaused,
     <1>QuietCurrent, <1>QuietAnswers, <1>QuietDenied, <1>GrantsBacked, <1>AllowedInForce,
     <1>GrantNotLost DEF NativeInv

\* Closing the base, the view or the socket, and the abort, are disturbances.
LEMMA DisturbanceKeeps ==
    ASSUME NativeInv, Disturb
    PROVE  NativeInv'
<1>t. Fields /\ Elements
  BY FieldsHold, ElementsHold DEF NativeInv
<1>u. /\ baseLog' = baseLog /\ file' = file /\ onceEngine' = onceEngine /\ onceLog' = onceLog
      /\ evals' = evals /\ inbox' = inbox /\ current' = current /\ publications' = publications
      /\ published' = published /\ synchronized' = synchronized /\ up' = up /\ down' = down
      /\ native' = native /\ lock' = lock /\ op' = op
  BY DEF Disturb, CloseBase, CloseView, Abort, Disconnect, Destroyed, Fault, baseVars, viewVars,
     bridgeVars, nativeVars
<1>f1. /\ {baseClosed', viewClosed', aborted', open'} \subseteq BOOLEAN
       /\ cause \subseteq cause' /\ cause' # {} /\ cause' \subseteq {"abort", "fault"}
  BY DEF NativeInv, TypeOK, Disturb, CloseBase, CloseView, Abort, Disconnect, Destroyed, Fault, bridgeVars, viewVars, baseVars
<1>f2. /\ (open' => open) /\ (aborted => aborted')
       /\ "fault" \notin cause' => open' = open /\ viewClosed' = viewClosed /\ baseClosed' = baseClosed
  BY DEF NativeInv, TypeOK, Disturb, CloseBase, CloseView, Abort, Disconnect, Destroyed, Fault, bridgeVars, viewVars, baseVars
<1>s. /\ QueuesTyped' /\ NativeBehind' /\ UpKnown' /\ InboxKnown' /\ CurrentKnown' /\ EvalsKnown'
      /\ AnswersKnown' /\ OpsKnown' /\ FirstRevision' /\ NotSynchronized' /\ NotServing'
      /\ NothingAsked' /\ AskedAfterSent' /\ ReadyFirst' /\ LockHeld' /\ AwaitsLast'
      /\ RequestLeft' /\ UpInLine' /\ InboxInLine' /\ CurrentInLine' /\ AnswersInLine' /\ Idling'
      /\ UpUnasked' /\ InboxUnasked' /\ OneActive' /\ DoneIsCurrent' /\ Decided' /\ PublishedKnown'
      /\ QueueForward' /\ QueueOwners' /\ QueueOnce' /\ ResolvePublished' /\ NativePublished'
      /\ OncesForward' /\ LastArrives' /\ AnswersCovered' /\ CurrentSays' /\ AnswersSay'
      /\ AwaitFresh' /\ EvaluatedLater' /\ CurrentLater' /\ AnswersLater' /\ LogStays'
      /\ EngineStays' /\ GrantsBacked' /\ TargetEvaluated' /\ TargetSent' /\ TargetTaken'
      /\ LetThrough' /\ AllowedInForce'
  BY <1>u, SameQueuesTyped, SameNativeBehind, SameUpKnown, SameInboxKnown, SameCurrentKnown,
     SameEvalsKnown, SameAnswersKnown, SameOpsKnown, SameFirstRevision, SameNotSynchronized,
     SameNotServing, SameNothingAsked, SameAskedAfterSent, SameReadyFirst, SameLockHeld,
     SameAwaitsLast, SameRequestLeft, SameUpInLine, SameInboxInLine, SameCurrentInLine,
     SameAnswersInLine, SameIdling, SameUpUnasked, SameInboxUnasked, SameOneActive,
     SameDoneIsCurrent, SameDecided, SamePublishedKnown, SameQueueForward, SameQueueOwners,
     SameQueueOnce, SameResolvePublished, SameNativePublished, SameOncesForward, SameLastArrives,
     SameAnswersCovered, SameCurrentSays, SameAnswersSay, SameAwaitFresh, SameEvaluatedLater,
     SameCurrentLater, SameAnswersLater, SameLogStays, SameEngineStays, SameGrantsBacked,
     SameTargetEvaluated, SameTargetSent, SameTargetTaken, SameLetThrough, SameAllowedInForce DEF
     NativeInv
<1>TypeOK. TypeOK'
  BY <1>u, <1>f1 DEF NativeInv, TypeOK, baseRevision
<1>FileCurrent. FileCurrent'
  BY <1>t, <1>u, <1>f1, <1>f2 DEF NativeInv, Fields, LogFields, FileCurrent, baseRevision
<1>ActiveIsCurrent. ActiveIsCurrent'
  BY <1>t, <1>u, <1>f1, <1>f2 DEF NativeInv, Fields, EvalFields, CurrentFields, ActiveIsCurrent,
     Active
<1>LookupFresh. LookupFresh'
  BY <1>t, <1>u, <1>f1, <1>f2 DEF NativeInv, Fields, NativeFields, OpFields, LookupFresh
<1>CalmMount. CalmMount'
  BY <1>t, <1>u, <1>f1, <1>f2 DEF NativeInv, Fields, NativeFields, CalmMount, Calm
<1>CalmUp. CalmUp'
  BY <1>t, <1>u, <1>f1, <1>f2 DEF NativeInv, Fields, Elements, UpElements, NativeFields, OpFields,
     CalmUp, Calm, UpMisses, Awaited
<1>CalmInbox. CalmInbox'
  BY <1>t, <1>u, <1>f1, <1>f2 DEF NativeInv, Fields, Elements, InboxElements, NativeFields,
     OpFields, CalmInbox, Calm, InboxMisses, Awaited
<1>CalmCurrent. CalmCurrent'
  BY <1>t, <1>u, <1>f1, <1>f2 DEF NativeInv, Fields, CurrentFields, NativeFields, OpFields,
     CalmCurrent, Calm, Nobody, Awaited
<1>CalmAnswers. CalmAnswers'
  BY <1>t, <1>u, <1>f1, <1>f2 DEF NativeInv, Fields, Elements, DownElements, NativeFields,
     OpFields, CalmAnswers, Calm, Resolutions, Awaited
<1>CalmEvals. CalmEvals'
  BY <1>t, <1>u, <1>f1, <1>f2 DEF NativeInv, Fields, EvalFields, CalmEvals, Calm
<1>AbortCaused. AbortCaused'
  BY <1>t, <1>u, <1>f1, <1>f2 DEF NativeInv, Fields, AbortCaused
<1>QuietCurrent. QuietCurrent'
  BY <1>t, <1>u, <1>f1, <1>f2 DEF NativeInv, Fields, EvalFields, CurrentFields, QuietCurrent,
     SaysEvaluated
<1>QuietAnswers. QuietAnswers'
  BY <1>t, <1>u, <1>f1, <1>f2 DEF NativeInv, Fields, Elements, EvalFields, DownElements,
     QuietAnswers, Resolutions, SaysEvaluated
<1>QuietDenied. QuietDenied'
  BY <1>t, <1>u, <1>f1, <1>f2 DEF NativeInv, Fields, EvalFields, OpFields, QuietDenied, Nobody
<1>GrantNotLost. GrantNotLost'
  BY <1>t, <1>u, <1>f1, <1>f2 DEF NativeInv, Fields, LogFields, EvalFields, OpFields, GrantNotLost,
     Nobody, baseRevision
<1> QED
  BY <1>s, <1>TypeOK, <1>FileCurrent, <1>ActiveIsCurrent, <1>LookupFresh, <1>CalmMount, <1>CalmUp,
     <1>CalmInbox, <1>CalmCurrent, <1>CalmAnswers, <1>CalmEvals, <1>AbortCaused, <1>QuietCurrent,
     <1>QuietAnswers, <1>QuietDenied, <1>GrantNotLost DEF NativeInv

\* The evaluator answers: nothing that depends on how far an evaluation is can tell.
LEMMA AnsweringKeeps ==
    ASSUME NativeInv, NEW r \in Requests, evals[r].phase = "asking",
           baseClosed' = baseClosed, onceLog' = onceLog, viewClosed' = viewClosed,
           aborted' = aborted, open' = open, inbox' = inbox, current' = current,
           publications' = publications, published' = published, synchronized' = synchronized,
           up' = up, down' = down, native' = native, lock' = lock, op' = op, cause' = cause,
           \A s \in Requests : s # r => evals'[s] = evals[s],
           evals'[r].phase = "answered", evals'[r].target = evals[r].target, evals'[r].result # "none",
           evals'[r].base = evals[r].base, evals'[r].once = evals[r].once
    PROVE  /\ AskedAfterSent' /\ UpUnasked' /\ InboxUnasked' /\ ActiveIsCurrent' /\ OneActive'
           /\ DoneIsCurrent' /\ Decided' /\ QueueOwners' /\ CurrentSays' /\ AnswersSay'
           /\ EvaluatedLater' /\ CalmEvals' /\ QuietCurrent' /\ QuietAnswers' /\ QuietDenied'
           /\ TargetEvaluated' /\ LetThrough'
<1>t. Fields /\ Elements
  BY FieldsHold, ElementsHold DEF NativeInv
<1>u. /\ baseClosed' = baseClosed /\ onceLog' = onceLog /\ viewClosed' = viewClosed
      /\ aborted' = aborted /\ open' = open /\ inbox' = inbox /\ current' = current
      /\ publications' = publications /\ published' = published /\ synchronized' = synchronized
      /\ up' = up /\ down' = down /\ native' = native /\ lock' = lock /\ op' = op /\ cause' = cause
  OBVIOUS
<1>f1. \A s \in Requests : evals[s].phase \in {"none", "done", "publishing"} => evals'[s] = evals[s]
  OBVIOUS
<1>AskedAfterSent. AskedAfterSent'
  BY <1>t, <1>u, <1>f1 DEF NativeInv, Fields, EvalFields, NativeFields, AskedAfterSent
<1>UpUnasked. UpUnasked'
  BY <1>t, <1>u, <1>f1 DEF NativeInv, Fields, Elements, EvalFields, UpElements, UpUnasked, UpMisses
<1>InboxUnasked. InboxUnasked'
  BY <1>t, <1>u, <1>f1 DEF NativeInv, Fields, Elements, EvalFields, InboxElements, InboxUnasked,
     InboxMisses
<1>ActiveIsCurrent. ActiveIsCurrent'
  BY <1>t, <1>u, <1>f1 DEF NativeInv, Fields, EvalFields, CurrentFields, ActiveIsCurrent, Active
<1>OneActive. OneActive'
  BY <1>t, <1>u, <1>f1 DEF NativeInv, Fields, EvalFields, OneActive, Active
<1>DoneIsCurrent. DoneIsCurrent'
  BY <1>t, <1>u, <1>f1, SMTT(20)
  DEF NativeInv, Fields, LogFields, EvalFields, CurrentFields, DoneIsCurrent,
     Active, onceRevision, Idling, Nobody
<1>Decided. Decided'
  BY <1>t, <1>u, <1>f1 DEF NativeInv, Fields, EvalFields, Decided
<1>QueueOwners. QueueOwners'
  BY <1>t, <1>u, <1>f1 DEF NativeInv, Elements, QueueElements, QueueOwners, Nobody
<1>CurrentSays. CurrentSays'
  BY <1>t, <1>u, <1>f1 DEF NativeInv, Fields, EvalFields, CurrentFields, CurrentSays,
     SaysEvaluated, Idling, Nobody
<1>AnswersSay. AnswersSay'
  <2> SUFFICES ASSUME NEW h \in Resolutions, down[h].decision = "allow" PROVE SaysEvaluated(down[h])'
    BY <1>u DEF AnswersSay, Resolutions
  <2>1. down[h].req \in Requests /\ SaysEvaluated(down[h])
    BY <1>t DEF NativeInv, AnswersSay, Elements, DownElements, Resolutions
  <2> QED
    BY <1>u, <1>f1, <2>1 DEF SaysEvaluated
<1>EvaluatedLater. EvaluatedLater'
  BY <1>t, <1>u, <1>f1 DEF NativeInv, Fields, EvalFields, NativeFields, OpFields, EvaluatedLater,
     AwaitsLast, Nobody
<1>CalmEvals. CalmEvals'
  BY <1>t, <1>u, <1>f1 DEF NativeInv, Fields, EvalFields, CalmEvals, Calm
<1>QuietCurrent. QuietCurrent'
  BY <1>t, <1>u, <1>f1 DEF NativeInv, Fields, EvalFields, CurrentFields, QuietCurrent,
     SaysEvaluated, Idling, Nobody
<1>QuietAnswers. QuietAnswers'
  BY <1>t, <1>u, <1>f1 DEF NativeInv, Fields, Elements, EvalFields, DownElements, QuietAnswers,
     Resolutions, SaysEvaluated
<1>QuietDenied. QuietDenied'
  BY <1>t, <1>u, <1>f1 DEF NativeInv, Fields, EvalFields, OpFields, QuietDenied, Nobody
<1>TargetEvaluated. TargetEvaluated'
  BY <1>t, <1>u, <1>f1 DEF NativeInv, Fields, EvalFields, OpFields, TargetEvaluated, Nobody
<1>LetThrough. LetThrough'
  BY <1>t, <1>u, <1>f1 DEF NativeInv, Fields, EvalFields, OpFields, LetThrough, Nobody
<1> QED
  BY <1>AskedAfterSent, <1>UpUnasked, <1>InboxUnasked, <1>ActiveIsCurrent, <1>OneActive,
     <1>DoneIsCurrent, <1>Decided, <1>QueueOwners, <1>CurrentSays, <1>AnswersSay,
     <1>EvaluatedLater, <1>CalmEvals, <1>QuietCurrent, <1>QuietAnswers, <1>QuietDenied,
     <1>TargetEvaluated, <1>LetThrough

\* The evaluator's answers: an answer is about the current revision, and a grant is
\* backed by the policy or by ONCE.
LEMMA EvaluateKnownKeeps ==
    ASSUME NativeInv, NEW r \in Requests, EvaluateKnown(r)
    PROVE  NativeInv'
<1>t. Fields /\ Elements
  BY FieldsHold, ElementsHold DEF NativeInv
<1>u. /\ baseLog' = baseLog /\ file' = file /\ baseClosed' = baseClosed /\ onceEngine' = onceEngine
      /\ onceLog' = onceLog /\ viewClosed' = viewClosed /\ aborted' = aborted /\ open' = open
      /\ inbox' = inbox /\ current' = current /\ publications' = publications
      /\ published' = published /\ synchronized' = synchronized /\ up' = up /\ down' = down
      /\ native' = native /\ lock' = lock /\ op' = op /\ cause' = cause
  BY DEF EvaluateKnown, baseVars, viewVars, bridgeVars, nativeVars
<1>f1. evals[r].phase = "asking" /\ baseRevision \in Nat /\ baseRevision' = baseRevision
  BY <1>t, <1>u DEF EvaluateKnown, baseRevision, Fields, LogFields
<1>f2. evals \in [Requests -> EvalRecords]
  BY DEF NativeInv, TypeOK, EvalRecords
<1>f3. evals' = [evals EXCEPT ![r].phase = "answered", ![r].result = Known(evals[r].target), ![r].at = baseRevision]
  BY DEF EvaluateKnown
<1>f4. /\ Known(evals[r].target) \in Decisions /\ Known(evals[r].target) # "none"
  BY <1>t DEF EvaluateKnown, NativeInv, TypeOK, Fields, EvalFields, LogFields, Known, BaseAt, baseRevision, Rules
<1>f5. /\ \A s \in Requests : s # r => evals'[s] = evals[s]
       /\ evals'[r].phase = "answered" /\ evals'[r].target = evals[r].target /\ evals'[r].result = Known(evals[r].target)
       /\ evals'[r].at = baseRevision /\ evals'[r].base = evals[r].base /\ evals'[r].once = evals[r].once
  <2>1. ASSUME NEW p \in Decisions, NEW a \in Nat,
               evals' = [evals EXCEPT ![r].phase = "answered", ![r].result = p, ![r].at = a]
        PROVE  /\ \A s \in Requests : s # r => evals'[s] = evals[s]
               /\ evals'[r].phase = "answered" /\ evals'[r].target = evals[r].target /\ evals'[r].result = p
               /\ evals'[r].at = a /\ evals'[r].base = evals[r].base /\ evals'[r].once = evals[r].once
    BY <2>1, <1>f2 DEF EvalRecords
  <2> QED
    BY <2>1, <1>f3, <1>f1, <1>f4
<1>f6. evals' \in [Requests -> EvalRecords]
  <2>1. ASSUME NEW p \in Decisions, NEW a \in Nat,
               evals' = [evals EXCEPT ![r].phase = "answered", ![r].result = p, ![r].at = a]
        PROVE  evals' \in [Requests -> EvalRecords]
    BY <2>1, <1>f2, EvalAnswered, Zenon
  <2> QED
    BY <2>1, <1>f3, <1>f1, <1>f4
<1>s. /\ QueuesTyped' /\ NativeBehind' /\ FileCurrent' /\ UpKnown' /\ InboxKnown' /\ CurrentKnown'
      /\ AnswersKnown' /\ OpsKnown' /\ FirstRevision' /\ NotSynchronized' /\ NotServing'
      /\ NothingAsked' /\ ReadyFirst' /\ LockHeld' /\ AwaitsLast' /\ RequestLeft' /\ UpInLine'
      /\ InboxInLine' /\ CurrentInLine' /\ AnswersInLine' /\ Idling' /\ PublishedKnown'
      /\ QueueForward' /\ QueueOnce' /\ ResolvePublished' /\ NativePublished' /\ OncesForward'
      /\ LastArrives' /\ AnswersCovered' /\ LookupFresh' /\ AwaitFresh' /\ CurrentLater'
      /\ AnswersLater' /\ CalmMount' /\ CalmUp' /\ CalmInbox' /\ CalmCurrent' /\ CalmAnswers'
      /\ AbortCaused' /\ LogStays' /\ EngineStays' /\ TargetSent' /\ TargetTaken'
  BY <1>u, SameQueuesTyped, SameNativeBehind, SameFileCurrent, SameUpKnown, SameInboxKnown,
     SameCurrentKnown, SameAnswersKnown, SameOpsKnown, SameFirstRevision, SameNotSynchronized,
     SameNotServing, SameNothingAsked, SameReadyFirst, SameLockHeld, SameAwaitsLast,
     SameRequestLeft, SameUpInLine, SameInboxInLine, SameCurrentInLine, SameAnswersInLine,
     SameIdling, SamePublishedKnown, SameQueueForward, SameQueueOnce, SameResolvePublished,
     SameNativePublished, SameOncesForward, SameLastArrives, SameAnswersCovered, SameLookupFresh,
     SameAwaitFresh, SameCurrentLater, SameAnswersLater, SameCalmMount, SameCalmUp, SameCalmInbox,
     SameCalmCurrent, SameCalmAnswers, SameAbortCaused, SameLogStays, SameEngineStays,
     SameTargetSent, SameTargetTaken DEF NativeInv
<1>v1. /\ AskedAfterSent' /\ UpUnasked' /\ InboxUnasked' /\ ActiveIsCurrent' /\ OneActive'
       /\ DoneIsCurrent' /\ Decided' /\ QueueOwners' /\ CurrentSays' /\ AnswersSay'
       /\ EvaluatedLater' /\ CalmEvals' /\ QuietCurrent' /\ QuietAnswers' /\ QuietDenied'
       /\ TargetEvaluated' /\ LetThrough'
  BY <1>u, <1>f1, <1>f5, <1>f4, AnsweringKeeps
<1>TypeOK. TypeOK'
  BY <1>u, <1>f6 DEF NativeInv, TypeOK, baseRevision, EvalRecords
<1>EvalsKnown. EvalsKnown'
  BY <1>t, <1>u, <1>f1, <1>f5 DEF NativeInv, Fields, LogFields, EvalFields, EvalsKnown,
     onceRevision
<1>GrantsBacked. GrantsBacked'
  <2> SUFFICES ASSUME NEW s \in Requests, evals'[s].phase \in {"answered", "publishing", "done"}, evals'[s].result = "allow"
               PROVE  GrantBacked(evals[s])'
    BY DEF GrantsBacked
  <2>1. CASE s # r
    BY <1>u, <1>f5, <2>1 DEF NativeInv, GrantsBacked, GrantBacked, BaseAt, OnceAt
  <2>2. CASE s = r
    BY <1>u, <1>f5, <2>2 DEF GrantBacked, Known, BaseAt
  <2> QED
    BY <2>1, <2>2
<1>AllowedInForce. AllowedInForce'
  <2>1. \A s \in Requests : evals'[s].base = evals[s].base
    BY <1>f5
  <2> QED
    BY <1>t, <1>u, <2>1, MovedAllowedInForce DEF NativeInv, Fields
<1>GrantNotLost. GrantNotLost'
  BY <1>t, <1>u, <1>f1, <1>f5 DEF NativeInv, Fields, LogFields, EvalFields, OpFields, GrantNotLost,
     Nobody, baseRevision, QuietDenied
<1> QED
  BY <1>s, <1>v1, <1>TypeOK, <1>EvalsKnown, <1>GrantsBacked, <1>AllowedInForce, <1>GrantNotLost DEF
     NativeInv

\* A refusal.
LEMMA AnswerRefusedKeeps ==
    ASSUME NativeInv, NEW r \in Requests, AnswerRefused(r)
    PROVE  NativeInv'
<1>t. Fields /\ Elements
  BY FieldsHold, ElementsHold DEF NativeInv
<1>u. /\ baseLog' = baseLog /\ file' = file /\ baseClosed' = baseClosed /\ onceEngine' = onceEngine
      /\ onceLog' = onceLog /\ viewClosed' = viewClosed /\ aborted' = aborted /\ open' = open
      /\ inbox' = inbox /\ current' = current /\ publications' = publications
      /\ published' = published /\ synchronized' = synchronized /\ up' = up /\ down' = down
      /\ native' = native /\ lock' = lock /\ op' = op /\ cause' = cause
  BY DEF AnswerRefused, baseVars, viewVars, bridgeVars, nativeVars
<1>f1. evals[r].phase = "asking" /\ baseRevision \in Nat /\ baseRevision' = baseRevision
  BY <1>t, <1>u DEF AnswerRefused, baseRevision, Fields, LogFields
<1>f2. evals \in [Requests -> EvalRecords]
  BY DEF NativeInv, TypeOK, EvalRecords
<1>f3. evals' = [evals EXCEPT ![r].phase = "answered", ![r].result = "deny", ![r].at = baseRevision]
  BY DEF AnswerRefused
<1>f4. "deny" \in Decisions
  BY DEF Decisions
<1>f5. /\ \A s \in Requests : s # r => evals'[s] = evals[s]
       /\ evals'[r].phase = "answered" /\ evals'[r].target = evals[r].target /\ evals'[r].result = "deny"
       /\ evals'[r].at = baseRevision /\ evals'[r].base = evals[r].base /\ evals'[r].once = evals[r].once
  <2>1. ASSUME NEW p \in Decisions, NEW a \in Nat,
               evals' = [evals EXCEPT ![r].phase = "answered", ![r].result = p, ![r].at = a]
        PROVE  /\ \A s \in Requests : s # r => evals'[s] = evals[s]
               /\ evals'[r].phase = "answered" /\ evals'[r].target = evals[r].target /\ evals'[r].result = p
               /\ evals'[r].at = a /\ evals'[r].base = evals[r].base /\ evals'[r].once = evals[r].once
    BY <2>1, <1>f2 DEF EvalRecords
  <2> QED
    BY <2>1, <1>f3, <1>f1, <1>f4
<1>f6. evals' \in [Requests -> EvalRecords]
  <2>1. ASSUME NEW p \in Decisions, NEW a \in Nat,
               evals' = [evals EXCEPT ![r].phase = "answered", ![r].result = p, ![r].at = a]
        PROVE  evals' \in [Requests -> EvalRecords]
    BY <2>1, <1>f2, EvalAnswered, Zenon
  <2> QED
    BY <2>1, <1>f3, <1>f1, <1>f4
<1>s. /\ QueuesTyped' /\ NativeBehind' /\ FileCurrent' /\ UpKnown' /\ InboxKnown' /\ CurrentKnown'
      /\ AnswersKnown' /\ OpsKnown' /\ FirstRevision' /\ NotSynchronized' /\ NotServing'
      /\ NothingAsked' /\ ReadyFirst' /\ LockHeld' /\ AwaitsLast' /\ RequestLeft' /\ UpInLine'
      /\ InboxInLine' /\ CurrentInLine' /\ AnswersInLine' /\ Idling' /\ PublishedKnown'
      /\ QueueForward' /\ QueueOnce' /\ ResolvePublished' /\ NativePublished' /\ OncesForward'
      /\ LastArrives' /\ AnswersCovered' /\ LookupFresh' /\ AwaitFresh' /\ CurrentLater'
      /\ AnswersLater' /\ CalmMount' /\ CalmUp' /\ CalmInbox' /\ CalmCurrent' /\ CalmAnswers'
      /\ AbortCaused' /\ LogStays' /\ EngineStays' /\ TargetSent' /\ TargetTaken'
  BY <1>u, SameQueuesTyped, SameNativeBehind, SameFileCurrent, SameUpKnown, SameInboxKnown,
     SameCurrentKnown, SameAnswersKnown, SameOpsKnown, SameFirstRevision, SameNotSynchronized,
     SameNotServing, SameNothingAsked, SameReadyFirst, SameLockHeld, SameAwaitsLast,
     SameRequestLeft, SameUpInLine, SameInboxInLine, SameCurrentInLine, SameAnswersInLine,
     SameIdling, SamePublishedKnown, SameQueueForward, SameQueueOnce, SameResolvePublished,
     SameNativePublished, SameOncesForward, SameLastArrives, SameAnswersCovered, SameLookupFresh,
     SameAwaitFresh, SameCurrentLater, SameAnswersLater, SameCalmMount, SameCalmUp, SameCalmInbox,
     SameCalmCurrent, SameCalmAnswers, SameAbortCaused, SameLogStays, SameEngineStays,
     SameTargetSent, SameTargetTaken DEF NativeInv
<1>v1. /\ AskedAfterSent' /\ UpUnasked' /\ InboxUnasked' /\ ActiveIsCurrent' /\ OneActive'
       /\ DoneIsCurrent' /\ Decided' /\ QueueOwners' /\ CurrentSays' /\ AnswersSay'
       /\ EvaluatedLater' /\ CalmEvals' /\ QuietCurrent' /\ QuietAnswers' /\ QuietDenied'
       /\ TargetEvaluated' /\ LetThrough'
  BY <1>u, <1>f1, <1>f5, <1>f4, AnsweringKeeps
<1>TypeOK. TypeOK'
  BY <1>u, <1>f6 DEF NativeInv, TypeOK, baseRevision, EvalRecords
<1>EvalsKnown. EvalsKnown'
  BY <1>t, <1>u, <1>f1, <1>f5 DEF NativeInv, Fields, LogFields, EvalFields, EvalsKnown,
     onceRevision
<1>GrantsBacked. GrantsBacked'
  <2> SUFFICES ASSUME NEW s \in Requests, evals'[s].phase \in {"answered", "publishing", "done"}, evals'[s].result = "allow"
               PROVE  GrantBacked(evals[s])'
    BY DEF GrantsBacked
  <2>1. CASE s # r
    BY <1>u, <1>f5, <2>1 DEF NativeInv, GrantsBacked, GrantBacked, BaseAt, OnceAt
  <2>2. CASE s = r
    BY <1>f5, <2>2
  <2> QED
    BY <2>1, <2>2
<1>AllowedInForce. AllowedInForce'
  <2>1. \A s \in Requests : evals'[s].base = evals[s].base
    BY <1>f5
  <2> QED
    BY <1>t, <1>u, <2>1, MovedAllowedInForce DEF NativeInv, Fields
<1>GrantNotLost. GrantNotLost'
  BY <1>t, <1>u, <1>f1, <1>f5 DEF NativeInv, Fields, LogFields, EvalFields, OpFields, GrantNotLost,
     Nobody, baseRevision, QuietDenied
<1> QED
  BY <1>s, <1>v1, <1>TypeOK, <1>EvalsKnown, <1>GrantsBacked, <1>AllowedInForce, <1>GrantNotLost DEF
     NativeInv

\* An answer for this tool call only.
LEMMA AnswerOnceKeeps ==
    ASSUME NativeInv, NEW r \in Requests, NEW d \in {"allow", "deny"}, AnswerOnce(r, d)
    PROVE  NativeInv'
<1>t. Fields /\ Elements
  BY FieldsHold, ElementsHold DEF NativeInv
<1>u. /\ baseLog' = baseLog /\ file' = file /\ baseClosed' = baseClosed /\ onceLog' = onceLog
      /\ viewClosed' = viewClosed /\ aborted' = aborted /\ open' = open /\ inbox' = inbox
      /\ current' = current /\ publications' = publications /\ published' = published
      /\ synchronized' = synchronized /\ up' = up /\ down' = down /\ native' = native
      /\ lock' = lock /\ op' = op /\ cause' = cause
  BY DEF AnswerOnce, baseVars, viewVars, bridgeVars, nativeVars
<1>f1. evals[r].phase = "asking" /\ baseRevision \in Nat /\ baseRevision' = baseRevision
  BY <1>t, <1>u DEF AnswerOnce, baseRevision, Fields, LogFields
<1>f2. evals \in [Requests -> EvalRecords]
  BY DEF NativeInv, TypeOK, EvalRecords
<1>f3. evals' = [evals EXCEPT ![r].phase = "answered", ![r].result = d, ![r].at = baseRevision]
  BY DEF AnswerOnce
<1>f4. d \in Decisions /\ d # "none"
  BY DEF Decisions
<1>f5. /\ \A s \in Requests : s # r => evals'[s] = evals[s]
       /\ evals'[r].phase = "answered" /\ evals'[r].target = evals[r].target /\ evals'[r].result = d
       /\ evals'[r].at = baseRevision /\ evals'[r].base = evals[r].base /\ evals'[r].once = evals[r].once
  <2>1. ASSUME NEW p \in Decisions, NEW a \in Nat,
               evals' = [evals EXCEPT ![r].phase = "answered", ![r].result = p, ![r].at = a]
        PROVE  /\ \A s \in Requests : s # r => evals'[s] = evals[s]
               /\ evals'[r].phase = "answered" /\ evals'[r].target = evals[r].target /\ evals'[r].result = p
               /\ evals'[r].at = a /\ evals'[r].base = evals[r].base /\ evals'[r].once = evals[r].once
    BY <2>1, <1>f2 DEF EvalRecords
  <2> QED
    BY <2>1, <1>f3, <1>f1, <1>f4
<1>f6. evals' \in [Requests -> EvalRecords]
  <2>1. ASSUME NEW p \in Decisions, NEW a \in Nat,
               evals' = [evals EXCEPT ![r].phase = "answered", ![r].result = p, ![r].at = a]
        PROVE  evals' \in [Requests -> EvalRecords]
    BY <2>1, <1>f2, EvalAnswered, Zenon
  <2> QED
    BY <2>1, <1>f3, <1>f1, <1>f4
<1>f7. /\ onceEngine' \in Rules /\ onceEngine'[evals[r].target] = d
       /\ \A x \in Targets : x # evals[r].target => onceEngine'[x] = onceEngine[x]
  BY <1>t DEF AnswerOnce, NativeInv, TypeOK, Fields, EvalFields, Rules, Decisions
<1>f8. /\ BaseAt(baseRevision)[evals[r].target] = "none" /\ onceEngine[evals[r].target] = "none"
  BY DEF AnswerOnce, Known
<1>s. /\ QueuesTyped' /\ NativeBehind' /\ FileCurrent' /\ UpKnown' /\ InboxKnown' /\ CurrentKnown'
      /\ AnswersKnown' /\ OpsKnown' /\ FirstRevision' /\ NotSynchronized' /\ NotServing'
      /\ NothingAsked' /\ ReadyFirst' /\ LockHeld' /\ AwaitsLast' /\ RequestLeft' /\ UpInLine'
      /\ InboxInLine' /\ CurrentInLine' /\ AnswersInLine' /\ Idling' /\ PublishedKnown'
      /\ QueueForward' /\ QueueOnce' /\ ResolvePublished' /\ NativePublished' /\ OncesForward'
      /\ LastArrives' /\ AnswersCovered' /\ LookupFresh' /\ AwaitFresh' /\ CurrentLater'
      /\ AnswersLater' /\ CalmMount' /\ CalmUp' /\ CalmInbox' /\ CalmCurrent' /\ CalmAnswers'
      /\ AbortCaused' /\ LogStays' /\ TargetSent' /\ TargetTaken'
  BY <1>u, SameQueuesTyped, SameNativeBehind, SameFileCurrent, SameUpKnown, SameInboxKnown,
     SameCurrentKnown, SameAnswersKnown, SameOpsKnown, SameFirstRevision, SameNotSynchronized,
     SameNotServing, SameNothingAsked, SameReadyFirst, SameLockHeld, SameAwaitsLast,
     SameRequestLeft, SameUpInLine, SameInboxInLine, SameCurrentInLine, SameAnswersInLine,
     SameIdling, SamePublishedKnown, SameQueueForward, SameQueueOnce, SameResolvePublished,
     SameNativePublished, SameOncesForward, SameLastArrives, SameAnswersCovered, SameLookupFresh,
     SameAwaitFresh, SameCurrentLater, SameAnswersLater, SameCalmMount, SameCalmUp, SameCalmInbox,
     SameCalmCurrent, SameCalmAnswers, SameAbortCaused, SameLogStays, SameTargetSent,
     SameTargetTaken DEF NativeInv
<1>v1. /\ AskedAfterSent' /\ UpUnasked' /\ InboxUnasked' /\ ActiveIsCurrent' /\ OneActive'
       /\ DoneIsCurrent' /\ Decided' /\ QueueOwners' /\ CurrentSays' /\ AnswersSay'
       /\ EvaluatedLater' /\ CalmEvals' /\ QuietCurrent' /\ QuietAnswers' /\ QuietDenied'
       /\ TargetEvaluated' /\ LetThrough'
  BY <1>u, <1>f1, <1>f5, <1>f4, AnsweringKeeps
<1>TypeOK. TypeOK'
  BY <1>u, <1>f6, <1>f7 DEF NativeInv, TypeOK, baseRevision, EvalRecords
<1>EvalsKnown. EvalsKnown'
  BY <1>t, <1>u, <1>f1, <1>f5 DEF NativeInv, Fields, LogFields, EvalFields, EvalsKnown,
     onceRevision
<1>EngineStays. EngineStays'
  BY <1>t, <1>u, <1>f7, <1>f8 DEF NativeInv, Fields, LogFields, EngineStays, Stays, OnceAt,
     onceRevision
<1>GrantsBacked. GrantsBacked'
  <2> SUFFICES ASSUME NEW s \in Requests, evals'[s].phase \in {"answered", "publishing", "done"}, evals'[s].result = "allow"
               PROVE  GrantBacked(evals[s])'
    BY DEF GrantsBacked
  <2>1. CASE s # r
    BY <1>t, <1>u, <1>f5, <1>f7, <1>f8, <2>1 DEF NativeInv, GrantsBacked, GrantBacked, BaseAt, OnceAt, Fields, EvalFields
  <2>2. CASE s = r
    BY <1>u, <1>f5, <1>f7, <1>f8, <2>2 DEF GrantBacked, BaseAt
  <2> QED
    BY <2>1, <2>2
<1>AllowedInForce. AllowedInForce'
  <2>1. \A s \in Requests : evals'[s].base = evals[s].base
    BY <1>f5
  <2> QED
    BY <1>t, <1>u, <2>1, MovedAllowedInForce DEF NativeInv, Fields
<1>GrantNotLost. GrantNotLost'
  BY <1>t, <1>u, <1>f1, <1>f5 DEF NativeInv, Fields, LogFields, EvalFields, OpFields, GrantNotLost,
     Nobody, baseRevision, QuietDenied
<1> QED
  BY <1>s, <1>v1, <1>TypeOK, <1>EvalsKnown, <1>EngineStays, <1>GrantsBacked, <1>AllowedInForce,
     <1>GrantNotLost DEF NativeInv

\* An answer kept as a policy.
LEMMA AnswerStoredKeeps ==
    ASSUME NativeInv, NEW r \in Requests, NEW d \in {"allow", "deny"}, AnswerStored(r, d)
    PROVE  NativeInv'
<1>t. Fields /\ Elements
  BY FieldsHold, ElementsHold DEF NativeInv
<1>u. /\ baseClosed' = baseClosed /\ onceEngine' = onceEngine /\ onceLog' = onceLog
      /\ viewClosed' = viewClosed /\ aborted' = aborted /\ open' = open /\ inbox' = inbox
      /\ current' = current /\ publications' = publications /\ published' = published
      /\ synchronized' = synchronized /\ up' = up /\ down' = down /\ native' = native
      /\ lock' = lock /\ op' = op /\ cause' = cause
  BY DEF AnswerStored, baseVars, viewVars, bridgeVars, nativeVars
<1>f1. [BaseAt(baseRevision) EXCEPT ![evals[r].target] = d] \in Rules
  <2>1. BaseAt(baseRevision) \in Rules
    BY DEF NativeInv, TypeOK, BaseAt, baseRevision
  <2> QED
    BY <2>1 DEF Rules, Decisions
<1>f2. /\ baseLog' = Append(baseLog, [BaseAt(baseRevision) EXCEPT ![evals[r].target] = d]) /\ baseRevision < MaxBase /\ file' = baseRevision + 1
  BY DEF AnswerStored, Advance
<1>f3. baseLog \in Seq(Rules) /\ baseLog # <<>> /\ file \in 0..baseRevision
  BY BoundsAssumption DEF NativeInv, TypeOK
<1>f4. /\ baseRevision \in Nat /\ baseRevision' = baseRevision + 1 /\ file' = baseRevision'
  BY <1>f1, <1>f2, <1>f3, BaseGrows
<1>f5. /\ \A i \in 1..Len(baseLog) : baseLog'[i] = baseLog[i]
  BY <1>f1, <1>f2, <1>f3, BaseGrows
<1>f6. baseLog' \in Seq(Rules) /\ Len(baseLog') \in 1..(MaxBase + 1) /\ file' \in 0..baseRevision'
  BY <1>u, <1>f1, <1>f2, <1>f3, BaseGrows, BoundsAssumption DEF baseRevision
<1>f7. BaseAt(baseRevision)' = [BaseAt(baseRevision) EXCEPT ![evals[r].target] = d]
  BY <1>f1, <1>f2, <1>f3, BaseGrows
<1>f8. evals[r].phase = "asking"
  BY DEF AnswerStored
<1>f9. evals \in [Requests -> EvalRecords]
  BY DEF NativeInv, TypeOK, EvalRecords
<1>f10. evals' = [evals EXCEPT ![r].phase = "answered", ![r].result = d, ![r].at = baseRevision + 1]
  BY DEF AnswerStored
<1>f11. d \in Decisions /\ d # "none" /\ baseRevision + 1 \in Nat
  BY <1>f4 DEF Decisions
<1>f12. /\ \A s \in Requests : s # r => evals'[s] = evals[s]
        /\ evals'[r].phase = "answered" /\ evals'[r].target = evals[r].target /\ evals'[r].result = d
        /\ evals'[r].at = baseRevision + 1 /\ evals'[r].base = evals[r].base /\ evals'[r].once = evals[r].once
  <2>1. ASSUME NEW p \in Decisions, NEW a \in Nat,
               evals' = [evals EXCEPT ![r].phase = "answered", ![r].result = p, ![r].at = a]
        PROVE  /\ \A s \in Requests : s # r => evals'[s] = evals[s]
               /\ evals'[r].phase = "answered" /\ evals'[r].target = evals[r].target /\ evals'[r].result = p
               /\ evals'[r].at = a /\ evals'[r].base = evals[r].base /\ evals'[r].once = evals[r].once
    BY <2>1, <1>f9 DEF EvalRecords
  <2> QED
    BY <2>1, <1>f10, <1>f11
<1>f13. evals' \in [Requests -> EvalRecords]
  <2>1. ASSUME NEW p \in Decisions, NEW a \in Nat,
               evals' = [evals EXCEPT ![r].phase = "answered", ![r].result = p, ![r].at = a]
        PROVE  evals' \in [Requests -> EvalRecords]
    BY <2>1, <1>f9, EvalAnswered, Zenon
  <2> QED
    BY <2>1, <1>f10, <1>f11
<1>s. /\ QueuesTyped' /\ FirstRevision' /\ NotSynchronized' /\ NotServing' /\ NothingAsked'
      /\ ReadyFirst' /\ LockHeld' /\ AwaitsLast' /\ RequestLeft' /\ UpInLine' /\ InboxInLine'
      /\ CurrentInLine' /\ AnswersInLine' /\ Idling' /\ PublishedKnown' /\ QueueForward'
      /\ QueueOnce' /\ ResolvePublished' /\ NativePublished' /\ OncesForward' /\ LastArrives'
      /\ AnswersCovered' /\ LookupFresh' /\ AwaitFresh' /\ CurrentLater' /\ AnswersLater'
      /\ CalmMount' /\ CalmUp' /\ CalmInbox' /\ CalmCurrent' /\ CalmAnswers' /\ AbortCaused'
      /\ LogStays' /\ EngineStays' /\ TargetSent' /\ TargetTaken'
  BY <1>u, SameQueuesTyped, SameFirstRevision, SameNotSynchronized, SameNotServing,
     SameNothingAsked, SameReadyFirst, SameLockHeld, SameAwaitsLast, SameRequestLeft, SameUpInLine,
     SameInboxInLine, SameCurrentInLine, SameAnswersInLine, SameIdling, SamePublishedKnown,
     SameQueueForward, SameQueueOnce, SameResolvePublished, SameNativePublished, SameOncesForward,
     SameLastArrives, SameAnswersCovered, SameLookupFresh, SameAwaitFresh, SameCurrentLater,
     SameAnswersLater, SameCalmMount, SameCalmUp, SameCalmInbox, SameCalmCurrent, SameCalmAnswers,
     SameAbortCaused, SameLogStays, SameEngineStays, SameTargetSent, SameTargetTaken DEF NativeInv
<1>v1. /\ AskedAfterSent' /\ UpUnasked' /\ InboxUnasked' /\ ActiveIsCurrent' /\ OneActive'
       /\ DoneIsCurrent' /\ Decided' /\ QueueOwners' /\ CurrentSays' /\ AnswersSay'
       /\ EvaluatedLater' /\ CalmEvals' /\ QuietCurrent' /\ QuietAnswers' /\ QuietDenied'
       /\ TargetEvaluated' /\ LetThrough'
  BY <1>u, <1>f8, <1>f12, <1>f11, AnsweringKeeps
<1>TypeOK. TypeOK'
  BY <1>u, <1>f6, <1>f13 DEF NativeInv, TypeOK, EvalRecords
<1>NativeBehind. NativeBehind'
  BY <1>t, <1>u, <1>f3, <1>f4 DEF NativeInv, Fields, LogFields, NativeFields, NativeBehind,
     onceRevision
<1>FileCurrent. FileCurrent'
  BY <1>t, <1>u, <1>f3, <1>f4, <1>f12 DEF NativeInv, Fields, LogFields, FileCurrent
<1>UpKnown. UpKnown'
  BY <1>t, <1>u, <1>f4, <1>f12 DEF NativeInv, Fields, Elements, LogFields, UpElements, UpKnown,
     onceRevision
<1>InboxKnown. InboxKnown'
  BY <1>t, <1>u, <1>f4, <1>f12 DEF NativeInv, Fields, Elements, LogFields, InboxElements,
     InboxKnown, InboxMisses, onceRevision
<1>CurrentKnown. CurrentKnown'
  BY <1>t, <1>u, <1>f4, <1>f12 DEF NativeInv, Fields, LogFields, CurrentFields, CurrentKnown,
     onceRevision
<1>EvalsKnown. EvalsKnown'
  BY <1>t, <1>u, <1>f4, <1>f8, <1>f12 DEF NativeInv, Fields, LogFields, EvalFields, EvalsKnown,
     onceRevision
<1>AnswersKnown. AnswersKnown'
  BY <1>t, <1>u, <1>f4, <1>f12 DEF NativeInv, Fields, Elements, LogFields, DownElements,
     AnswersKnown, Resolutions
<1>OpsKnown. OpsKnown'
  BY <1>t, <1>u, <1>f4, <1>f12 DEF NativeInv, Fields, LogFields, NativeFields, OpFields, OpsKnown
<1>GrantsBacked. GrantsBacked'
  <2> SUFFICES ASSUME NEW s \in Requests, evals'[s].phase \in {"answered", "publishing", "done"}, evals'[s].result = "allow"
               PROVE  GrantBacked(evals[s])'
    BY DEF GrantsBacked
  <2>1. CASE s # r
    <3>1. evals[s].at + 1 \in 1..Len(baseLog)
      BY <1>t DEF NativeInv, EvalsKnown, baseRevision, Fields, EvalFields, LogFields
    <3> QED
      BY <1>u, <1>f12, <1>f5, <2>1, <3>1 DEF NativeInv, GrantsBacked, GrantBacked, BaseAt, OnceAt
  <2>2. CASE s = r
    <3>1. BaseAt(baseRevision)'[evals[r].target] = d /\ evals'[r].at = baseRevision'
      BY <1>t, <1>f1, <1>f4, <1>f7, <1>f12 DEF Rules, Fields, EvalFields
    <3> QED
      BY <1>f12, <2>2, <3>1 DEF GrantBacked, BaseAt
  <2> QED
    BY <2>1, <2>2
<1>AllowedInForce. AllowedInForce'
  <2> SUFFICES ASSUME NEW t \in Threads, op[t].phase = "allowed"
               PROVE  /\ op[t].base \in op[t].begun..baseRevision'
                      /\ op[t].req # Nobody => op[t].base >= evals'[op[t].req].base
                      /\ Lookup(op[t].base, op[t].once, op[t].target)' = "allow"
    BY <1>u DEF AllowedInForce
  <2>1. op[t].base + 1 \in 1..Len(baseLog) /\ op[t].base \in op[t].begun..baseRevision'
    BY <1>t, <1>f4 DEF NativeInv, AllowedInForce, Fields, OpFields, LogFields, baseRevision
  <2> QED
    BY <1>t, <1>u, <1>f5, <1>f12, <2>1 DEF NativeInv, Fields, OpFields, Nobody, AllowedInForce, Lookup, BaseAt, OnceAt
<1>GrantNotLost. GrantNotLost'
  BY <1>t, <1>u, <1>f4, <1>f8, <1>f12 DEF NativeInv, Fields, LogFields, EvalFields, OpFields,
     GrantNotLost, Nobody, QuietDenied, EvalsKnown, onceRevision
<1> QED
  BY <1>s, <1>v1, <1>TypeOK, <1>NativeBehind, <1>FileCurrent, <1>UpKnown, <1>InboxKnown,
     <1>CurrentKnown, <1>EvalsKnown, <1>AnswersKnown, <1>OpsKnown, <1>GrantsBacked,
     <1>AllowedInForce, <1>GrantNotLost DEF NativeInv

\* evaluate after its await.  A closed view or base fails it,
LEMMA FinishFailsKeeps ==
    ASSUME NativeInv, NEW r \in Requests, FinishEvaluate(r), viewClosed \/ baseClosed
    PROVE  NativeInv'
<1>t. Fields /\ Elements
  BY FieldsHold, ElementsHold DEF NativeInv
<1>u. /\ baseLog' = baseLog /\ file' = file /\ baseClosed' = baseClosed /\ onceEngine' = onceEngine
      /\ onceLog' = onceLog /\ viewClosed' = viewClosed /\ aborted' = aborted /\ open' = open
      /\ inbox' = inbox /\ current' = current /\ publications' = publications
      /\ published' = published /\ synchronized' = synchronized /\ up' = up /\ down' = down
      /\ native' = native /\ lock' = lock /\ op' = op /\ cause' = cause
  BY DEF FinishEvaluate, baseVars, viewVars, bridgeVars, nativeVars
<1>f1. evals[r].phase = "answered" /\ cause # {} /\ "fault" \in cause
  BY DEF FinishEvaluate, NativeInv, CalmMount, Calm
<1>f2. evals \in [Requests -> EvalRecords]
  BY DEF NativeInv, TypeOK, EvalRecords
<1>f3. evals' = [evals EXCEPT ![r].phase = "failed"]
  BY DEF FinishEvaluate
<1>f4. /\ \A s \in Requests : s # r => evals'[s] = evals[s]
       /\ evals'[r].phase = "failed" /\ evals'[r].target = evals[r].target /\ evals'[r].result = evals[r].result
       /\ evals'[r].at = evals[r].at /\ evals'[r].base = evals[r].base /\ evals'[r].once = evals[r].once
  BY <1>f2, <1>f3 DEF EvalRecords
<1>f5. evals' \in [Requests -> EvalRecords]
  BY <1>f2, <1>f3 DEF EvalRecords
<1>s. /\ QueuesTyped' /\ NativeBehind' /\ FileCurrent' /\ UpKnown' /\ InboxKnown' /\ CurrentKnown'
      /\ AnswersKnown' /\ OpsKnown' /\ FirstRevision' /\ NotSynchronized' /\ NotServing'
      /\ NothingAsked' /\ ReadyFirst' /\ LockHeld' /\ AwaitsLast' /\ RequestLeft' /\ UpInLine'
      /\ InboxInLine' /\ CurrentInLine' /\ AnswersInLine' /\ Idling' /\ PublishedKnown'
      /\ QueueForward' /\ QueueOnce' /\ ResolvePublished' /\ NativePublished' /\ OncesForward'
      /\ LastArrives' /\ AnswersCovered' /\ LookupFresh' /\ AwaitFresh' /\ CurrentLater'
      /\ AnswersLater' /\ CalmMount' /\ CalmUp' /\ CalmInbox' /\ CalmCurrent' /\ CalmAnswers'
      /\ AbortCaused' /\ LogStays' /\ EngineStays' /\ TargetSent' /\ TargetTaken'
  BY <1>u, SameQueuesTyped, SameNativeBehind, SameFileCurrent, SameUpKnown, SameInboxKnown,
     SameCurrentKnown, SameAnswersKnown, SameOpsKnown, SameFirstRevision, SameNotSynchronized,
     SameNotServing, SameNothingAsked, SameReadyFirst, SameLockHeld, SameAwaitsLast,
     SameRequestLeft, SameUpInLine, SameInboxInLine, SameCurrentInLine, SameAnswersInLine,
     SameIdling, SamePublishedKnown, SameQueueForward, SameQueueOnce, SameResolvePublished,
     SameNativePublished, SameOncesForward, SameLastArrives, SameAnswersCovered, SameLookupFresh,
     SameAwaitFresh, SameCurrentLater, SameAnswersLater, SameCalmMount, SameCalmUp, SameCalmInbox,
     SameCalmCurrent, SameCalmAnswers, SameAbortCaused, SameLogStays, SameEngineStays,
     SameTargetSent, SameTargetTaken DEF NativeInv
<1>TypeOK. TypeOK'
  BY <1>u, <1>f5 DEF NativeInv, TypeOK, baseRevision, EvalRecords
<1>EvalsKnown. EvalsKnown'
  BY <1>t, <1>u, <1>f1, <1>f4 DEF NativeInv, Fields, LogFields, EvalFields, EvalsKnown,
     baseRevision, onceRevision
<1>AskedAfterSent. AskedAfterSent'
  BY <1>t, <1>u, <1>f1, <1>f4 DEF NativeInv, Fields, EvalFields, NativeFields, AskedAfterSent
<1>UpUnasked. UpUnasked'
  BY <1>t, <1>u, <1>f1, <1>f4 DEF NativeInv, Fields, Elements, EvalFields, UpElements, UpUnasked,
     UpMisses
<1>InboxUnasked. InboxUnasked'
  BY <1>t, <1>u, <1>f1, <1>f4 DEF NativeInv, Fields, Elements, EvalFields, InboxElements,
     InboxUnasked, InboxMisses
<1>ActiveIsCurrent. ActiveIsCurrent'
  BY <1>t, <1>u, <1>f1, <1>f4 DEF NativeInv, Fields, EvalFields, CurrentFields, ActiveIsCurrent,
     Active
<1>OneActive. OneActive'
  BY <1>t, <1>u, <1>f1, <1>f4 DEF NativeInv, Fields, EvalFields, OneActive, Active
<1>DoneIsCurrent. DoneIsCurrent'
  BY <1>t, <1>u, <1>f1, <1>f4 DEF NativeInv, Fields, LogFields, EvalFields, CurrentFields,
     DoneIsCurrent, Active, onceRevision, Idling, Nobody, OneActive
<1>Decided. Decided'
  BY <1>t, <1>u, <1>f1, <1>f4 DEF NativeInv, Fields, EvalFields, Decided
<1>QueueOwners. QueueOwners'
  BY <1>t, <1>u, <1>f1, <1>f4 DEF NativeInv, Elements, QueueElements, QueueOwners, Nobody
<1>CurrentSays. CurrentSays'
  BY <1>t, <1>u, <1>f1, <1>f4 DEF NativeInv, Fields, EvalFields, CurrentFields, CurrentSays,
     SaysEvaluated, Idling, Nobody
<1>AnswersSay. AnswersSay'
  <2> SUFFICES ASSUME NEW h \in Resolutions, down[h].decision = "allow" PROVE SaysEvaluated(down[h])'
    BY <1>u DEF AnswersSay, Resolutions, SaysEvaluated
  <2>1. down[h].req \in Requests /\ SaysEvaluated(down[h])
    BY <1>t DEF NativeInv, AnswersSay, Resolutions, SaysEvaluated, Elements, DownElements
  <2> QED
    BY <1>u, <1>f1, <1>f4, <2>1 DEF SaysEvaluated
<1>EvaluatedLater. EvaluatedLater'
  BY <1>t, <1>u, <1>f1, <1>f4 DEF NativeInv, Fields, LogFields, EvalFields, NativeFields, OpFields,
     EvaluatedLater, AwaitsLast, Nobody, OpsKnown, baseRevision, NativeBehind, onceRevision
<1>CalmEvals. CalmEvals'
  BY <1>t, <1>u, <1>f1, <1>f4 DEF NativeInv, Fields, EvalFields, CalmEvals, Calm
<1>QuietCurrent. QuietCurrent'
  BY <1>t, <1>u, <1>f1, <1>f4 DEF NativeInv, Fields, EvalFields, CurrentFields, QuietCurrent,
     SaysEvaluated, Idling, Nobody
<1>QuietAnswers. QuietAnswers'
  <2> SUFFICES ASSUME NEW h \in Resolutions, cause = {} PROVE SaysEvaluated(down[h])'
    BY <1>u DEF QuietAnswers, Resolutions
  <2>1. down[h].req \in Requests /\ SaysEvaluated(down[h])
    BY <1>t DEF NativeInv, QuietAnswers, Resolutions, Elements, DownElements
  <2> QED
    BY <1>u, <1>f1, <1>f4, <2>1 DEF SaysEvaluated
<1>QuietDenied. QuietDenied'
  BY <1>t, <1>u, <1>f1, <1>f4 DEF NativeInv, Fields, EvalFields, OpFields, QuietDenied, Nobody
<1>GrantsBacked. GrantsBacked'
  <2>1. ASSUME NEW q \in Requests, evals'[q].phase # "failed" PROVE evals'[q] = evals[q]
    BY <1>f4, <2>1
  <2>2. GrantsBacked
    BY DEF NativeInv
  <2> QED
    BY <1>u, <2>1, <2>2 DEF GrantsBacked, GrantBacked, BaseAt, OnceAt
<1>TargetEvaluated. TargetEvaluated'
  BY <1>t, <1>u, <1>f1, <1>f4 DEF NativeInv, Fields, EvalFields, OpFields, TargetEvaluated, Nobody
<1>LetThrough. LetThrough'
  BY <1>t, <1>u, <1>f1, <1>f4 DEF NativeInv, Fields, EvalFields, OpFields, LetThrough, Nobody
<1>AllowedInForce. AllowedInForce'
  BY <1>t, <1>u, <1>f1, <1>f4 DEF NativeInv, Fields, LogFields, EvalFields, OpFields,
     AllowedInForce, baseRevision, Nobody, Lookup, BaseAt, OnceAt, LetThrough
<1>GrantNotLost. GrantNotLost'
  BY <1>t, <1>u, <1>f1, <1>f4 DEF NativeInv, Fields, LogFields, EvalFields, OpFields, GrantNotLost,
     Nobody, baseRevision, QuietDenied
<1> QED
  BY <1>s, <1>TypeOK, <1>EvalsKnown, <1>AskedAfterSent, <1>UpUnasked, <1>InboxUnasked,
     <1>ActiveIsCurrent, <1>OneActive, <1>DoneIsCurrent, <1>Decided, <1>QueueOwners,
     <1>CurrentSays, <1>AnswersSay, <1>EvaluatedLater, <1>CalmEvals, <1>QuietCurrent,
     <1>QuietAnswers, <1>QuietDenied, <1>GrantsBacked, <1>TargetEvaluated, <1>LetThrough,
     <1>AllowedInForce, <1>GrantNotLost DEF NativeInv

\* an unchanged ONCE layer finishes it,
LEMMA FinishKnownKeeps ==
    ASSUME NativeInv, NEW r \in Requests, FinishEvaluate(r), ~viewClosed, ~baseClosed, ~OnceChanged
    PROVE  NativeInv'
<1>t. Fields /\ Elements
  BY FieldsHold, ElementsHold DEF NativeInv
<1>u. /\ baseLog' = baseLog /\ file' = file /\ baseClosed' = baseClosed /\ onceEngine' = onceEngine
      /\ onceLog' = onceLog /\ viewClosed' = viewClosed /\ aborted' = aborted /\ open' = open
      /\ inbox' = inbox /\ current' = current /\ publications' = publications
      /\ published' = published /\ synchronized' = synchronized /\ up' = up /\ down' = down
      /\ native' = native /\ lock' = lock /\ op' = op /\ cause' = cause
  BY DEF FinishEvaluate, OnceChanged, baseVars, viewVars, bridgeVars, nativeVars
<1>f1. evals[r].phase = "answered"
  BY DEF FinishEvaluate, OnceChanged
<1>f2. evals \in [Requests -> EvalRecords]
  BY DEF NativeInv, TypeOK, EvalRecords
<1>f3. evals' = [evals EXCEPT ![r].phase = "done", ![r].base = baseRevision, ![r].once = onceRevision]
  BY DEF FinishEvaluate, OnceChanged, onceRevision
<1>f4. /\ baseRevision \in Nat /\ baseRevision' = baseRevision /\ file \in 0..baseRevision
       /\ onceRevision \in Nat /\ onceRevision' = onceRevision
  BY <1>t, <1>u DEF Fields, LogFields, baseRevision, onceRevision, NativeInv, TypeOK
<1>f5. /\ \A s \in Requests : s # r => evals'[s] = evals[s]
       /\ evals'[r].phase = "done" /\ evals'[r].target = evals[r].target /\ evals'[r].result = evals[r].result
       /\ evals'[r].at = evals[r].at /\ evals'[r].base = baseRevision /\ evals'[r].once = onceRevision
  <2>1. ASSUME NEW b \in Nat, NEW o \in Nat,
               evals' = [evals EXCEPT ![r].phase = "done", ![r].base = b, ![r].once = o]
        PROVE  /\ \A s \in Requests : s # r => evals'[s] = evals[s]
               /\ evals'[r].phase = "done" /\ evals'[r].target = evals[r].target /\ evals'[r].result = evals[r].result
               /\ evals'[r].at = evals[r].at /\ evals'[r].base = b /\ evals'[r].once = o
    BY <2>1, <1>f2 DEF EvalRecords
  <2> QED
    BY <2>1, <1>f3, <1>f4
<1>f6. evals' \in [Requests -> EvalRecords]
  <2>1. ASSUME NEW b \in Nat, NEW o \in Nat,
               evals' = [evals EXCEPT ![r].phase = "done", ![r].base = b, ![r].once = o]
        PROVE  evals' \in [Requests -> EvalRecords]
    BY <2>1, <1>f2, EvalFinished, Zenon
  <2> QED
    BY <2>1, <1>f3, <1>f4
<1>s. /\ QueuesTyped' /\ NativeBehind' /\ FileCurrent' /\ UpKnown' /\ InboxKnown' /\ CurrentKnown'
      /\ AnswersKnown' /\ OpsKnown' /\ FirstRevision' /\ NotSynchronized' /\ NotServing'
      /\ NothingAsked' /\ ReadyFirst' /\ LockHeld' /\ AwaitsLast' /\ RequestLeft' /\ UpInLine'
      /\ InboxInLine' /\ CurrentInLine' /\ AnswersInLine' /\ Idling' /\ PublishedKnown'
      /\ QueueForward' /\ QueueOnce' /\ ResolvePublished' /\ NativePublished' /\ OncesForward'
      /\ LastArrives' /\ AnswersCovered' /\ LookupFresh' /\ AwaitFresh' /\ CurrentLater'
      /\ AnswersLater' /\ CalmMount' /\ CalmUp' /\ CalmInbox' /\ CalmCurrent' /\ CalmAnswers'
      /\ AbortCaused' /\ LogStays' /\ EngineStays' /\ TargetSent' /\ TargetTaken'
  BY <1>u, SameQueuesTyped, SameNativeBehind, SameFileCurrent, SameUpKnown, SameInboxKnown,
     SameCurrentKnown, SameAnswersKnown, SameOpsKnown, SameFirstRevision, SameNotSynchronized,
     SameNotServing, SameNothingAsked, SameReadyFirst, SameLockHeld, SameAwaitsLast,
     SameRequestLeft, SameUpInLine, SameInboxInLine, SameCurrentInLine, SameAnswersInLine,
     SameIdling, SamePublishedKnown, SameQueueForward, SameQueueOnce, SameResolvePublished,
     SameNativePublished, SameOncesForward, SameLastArrives, SameAnswersCovered, SameLookupFresh,
     SameAwaitFresh, SameCurrentLater, SameAnswersLater, SameCalmMount, SameCalmUp, SameCalmInbox,
     SameCalmCurrent, SameCalmAnswers, SameAbortCaused, SameLogStays, SameEngineStays,
     SameTargetSent, SameTargetTaken DEF NativeInv
<1>TypeOK. TypeOK'
  BY <1>u, <1>f6 DEF NativeInv, TypeOK, baseRevision, EvalRecords
<1>EvalsKnown. EvalsKnown'
  BY <1>t, <1>u, <1>f1, <1>f4, <1>f5 DEF NativeInv, Fields, LogFields, EvalFields, EvalsKnown
<1>AskedAfterSent. AskedAfterSent'
  BY <1>t, <1>u, <1>f1, <1>f5 DEF NativeInv, Fields, EvalFields, NativeFields, AskedAfterSent
<1>UpUnasked. UpUnasked'
  BY <1>t, <1>u, <1>f1, <1>f5 DEF NativeInv, Fields, Elements, EvalFields, UpElements, UpUnasked,
     UpMisses
<1>InboxUnasked. InboxUnasked'
  BY <1>t, <1>u, <1>f1, <1>f5 DEF NativeInv, Fields, Elements, EvalFields, InboxElements,
     InboxUnasked, InboxMisses
<1>ActiveIsCurrent. ActiveIsCurrent'
  BY <1>t, <1>u, <1>f1, <1>f5 DEF NativeInv, Fields, EvalFields, CurrentFields, ActiveIsCurrent,
     Active
<1>OneActive. OneActive'
  BY <1>t, <1>u, <1>f1, <1>f5 DEF NativeInv, Fields, EvalFields, OneActive, Active
<1>DoneIsCurrent. DoneIsCurrent'
  BY <1>t, <1>u, <1>f1, <1>f4, <1>f5 DEF NativeInv, Fields, LogFields, EvalFields, CurrentFields,
     DoneIsCurrent, Active, Idling, Nobody, OneActive
<1>Decided. Decided'
  BY <1>t, <1>u, <1>f1, <1>f5 DEF NativeInv, Fields, EvalFields, Decided
<1>QueueOwners. QueueOwners'
  BY <1>t, <1>u, <1>f1, <1>f5 DEF NativeInv, Elements, QueueElements, QueueOwners, Nobody
<1>CurrentSays. CurrentSays'
  BY <1>t, <1>u, <1>f1, <1>f5 DEF NativeInv, Fields, EvalFields, CurrentFields, CurrentSays,
     SaysEvaluated, Idling, Nobody
<1>AnswersSay. AnswersSay'
  <2> SUFFICES ASSUME NEW h \in Resolutions, down[h].decision = "allow" PROVE SaysEvaluated(down[h])'
    BY <1>u DEF AnswersSay, Resolutions, SaysEvaluated
  <2>1. down[h].req \in Requests /\ SaysEvaluated(down[h])
    BY <1>t DEF NativeInv, AnswersSay, Resolutions, SaysEvaluated, Elements, DownElements
  <2> QED
    BY <1>u, <1>f1, <1>f5, <2>1 DEF SaysEvaluated
<1>EvaluatedLater. EvaluatedLater'
  <2> SUFFICES ASSUME NEW t \in Threads, op[t].phase = "await", evals'[op[t].req].phase \in {"publishing", "done"}
               PROVE  op[t].base <= evals'[op[t].req].base /\ op[t].once <= evals'[op[t].req].once
    BY <1>u DEF EvaluatedLater
  <2>1. op[t].req \in Requests /\ op[t].base <= baseRevision /\ op[t].once <= onceRevision
    BY <1>t, <1>f4 DEF NativeInv, AwaitsLast, OpsKnown, NativeBehind, Fields, OpFields, NativeFields, LogFields, Nobody
  <2>2. CASE op[t].req = r
    <3>1. evals'[op[t].req].base = baseRevision /\ evals'[op[t].req].once = onceRevision
      BY <2>2, <1>f4, <1>f5
    <3> QED
      BY <2>1, <3>1
  <2>3. CASE op[t].req # r
    BY <2>1, <2>3, <1>f5 DEF NativeInv, EvaluatedLater
  <2> QED
    BY <2>2, <2>3
<1>CalmEvals. CalmEvals'
  BY <1>t, <1>u, <1>f1, <1>f5 DEF NativeInv, Fields, EvalFields, CalmEvals, Calm
<1>QuietCurrent. QuietCurrent'
  BY <1>t, <1>u, <1>f1, <1>f5 DEF NativeInv, Fields, EvalFields, CurrentFields, QuietCurrent,
     SaysEvaluated, Idling, Nobody
<1>QuietAnswers. QuietAnswers'
  <2> SUFFICES ASSUME NEW h \in Resolutions, cause = {} PROVE SaysEvaluated(down[h])'
    BY <1>u DEF QuietAnswers, Resolutions
  <2>1. down[h].req \in Requests /\ SaysEvaluated(down[h])
    BY <1>t DEF NativeInv, QuietAnswers, Resolutions, Elements, DownElements
  <2> QED
    BY <1>u, <1>f1, <1>f5, <2>1 DEF SaysEvaluated
<1>QuietDenied. QuietDenied'
  BY <1>t, <1>u, <1>f1, <1>f5 DEF NativeInv, Fields, EvalFields, OpFields, QuietDenied, Nobody
<1>GrantsBacked. GrantsBacked'
  <2> SUFFICES ASSUME NEW s \in Requests, evals'[s].phase \in {"answered", "publishing", "done"}, evals'[s].result = "allow"
               PROVE  GrantBacked(evals[s])'
    BY DEF GrantsBacked
  <2>1. CASE s # r
    BY <1>u, <1>f5, <2>1 DEF NativeInv, GrantsBacked, GrantBacked, BaseAt, OnceAt
  <2>2. CASE s = r
    <3>1. GrantBacked(evals[r]) /\ onceEngine = OnceAt(onceRevision)
      BY <1>f1, <1>f5, <2>2 DEF NativeInv, GrantsBacked, FinishEvaluate, OnceChanged
    <3> QED
      BY <1>u, <1>f1, <1>f5, <2>2, <3>1 DEF GrantBacked, BaseAt, OnceAt
  <2> QED
    BY <2>1, <2>2
<1>TargetEvaluated. TargetEvaluated'
  BY <1>t, <1>u, <1>f1, <1>f5 DEF NativeInv, Fields, EvalFields, OpFields, TargetEvaluated, Nobody
<1>LetThrough. LetThrough'
  BY <1>t, <1>u, <1>f1, <1>f5 DEF NativeInv, Fields, EvalFields, OpFields, LetThrough, Nobody
<1>AllowedInForce. AllowedInForce'
  BY <1>t, <1>u, <1>f1, <1>f4, <1>f5 DEF NativeInv, Fields, LogFields, EvalFields, OpFields,
     AllowedInForce, baseRevision, Nobody, Lookup, BaseAt, OnceAt, LetThrough
<1>GrantNotLost. GrantNotLost'
  BY <1>t, <1>u, <1>f1, <1>f4, <1>f5 DEF NativeInv, Fields, LogFields, EvalFields, OpFields,
     GrantNotLost, Nobody, baseRevision, QuietDenied
<1> QED
  BY <1>s, <1>TypeOK, <1>EvalsKnown, <1>AskedAfterSent, <1>UpUnasked, <1>InboxUnasked,
     <1>ActiveIsCurrent, <1>OneActive, <1>DoneIsCurrent, <1>Decided, <1>QueueOwners,
     <1>CurrentSays, <1>AnswersSay, <1>EvaluatedLater, <1>CalmEvals, <1>QuietCurrent,
     <1>QuietAnswers, <1>QuietDenied, <1>GrantsBacked, <1>TargetEvaluated, <1>LetThrough,
     <1>AllowedInForce, <1>GrantNotLost DEF NativeInv

\* and a changed one gets the next revision and is handed to the bridge.
LEMMA FinishPublishesKeeps ==
    ASSUME NativeInv, NEW r \in Requests, FinishEvaluate(r), ~viewClosed, ~baseClosed, OnceChanged
    PROVE  NativeInv'
<1>t. Fields /\ Elements
  BY FieldsHold, ElementsHold DEF NativeInv
<1>u. /\ baseLog' = baseLog /\ file' = file /\ baseClosed' = baseClosed /\ onceEngine' = onceEngine
      /\ viewClosed' = viewClosed /\ aborted' = aborted /\ open' = open /\ inbox' = inbox
      /\ current' = current /\ published' = published /\ synchronized' = synchronized /\ up' = up
      /\ down' = down /\ native' = native /\ lock' = lock /\ op' = op /\ cause' = cause
  BY DEF FinishEvaluate, OnceChanged, baseVars, viewVars, bridgeVars, nativeVars
<1>f1. evals[r].phase = "answered"
  BY DEF FinishEvaluate, OnceChanged
<1>f2. evals \in [Requests -> EvalRecords]
  BY DEF NativeInv, TypeOK, EvalRecords
<1>f3. /\ onceLog' = Append(onceLog, onceEngine) /\ onceLog \in Seq(Rules) /\ onceLog # <<>> /\ onceEngine \in Rules
  BY DEF FinishEvaluate, OnceChanged, NativeInv, TypeOK
<1>f4. /\ onceRevision \in Nat /\ onceRevision' = onceRevision + 1
  BY <1>f3, OnceGrows
<1>f5. /\ \A i \in 1..Len(onceLog) : onceLog'[i] = onceLog[i]
       /\ onceLog'[Len(onceLog) + 1] = onceEngine /\ Len(onceLog') = Len(onceLog) + 1
  BY <1>f3, Appended
<1>f6. /\ onceLog' \in Seq(Rules) /\ onceLog' # <<>>
  BY <1>f3, OnceGrows
<1>f7. publications' = Append(publications, [rev |-> onceRevision', by |-> "view", req |-> r])
  BY <1>f3, <1>f4 DEF FinishEvaluate, OnceChanged, onceRevision
<1>f8. evals' = [evals EXCEPT ![r].phase = "publishing", ![r].base = baseRevision, ![r].once = onceRevision']
  BY DEF FinishEvaluate, OnceChanged, onceRevision
<1>f9. /\ baseRevision \in Nat /\ baseRevision' = baseRevision /\ onceRevision' \in Nat
  BY <1>t, <1>u, <1>f4 DEF Fields, LogFields, baseRevision
<1>f10. publications \in Seq(Publications) /\ [rev |-> onceRevision', by |-> "view", req |-> r] \in Publications
  BY <1>t, <1>f9, BoundsAssumption DEF NativeInv, QueuesTyped, Publications, Requests
<1>f11. /\ Len(publications') = Len(publications) + 1
        /\ \A i \in 1..Len(publications) : publications'[i] = publications[i]
  BY <1>f7, <1>f10, Appended
<1>f12. publications' \in Seq(Publications)
  BY <1>f7, <1>f10, Appended
<1>f13. /\ \A s \in Requests : s # r => evals'[s] = evals[s]
        /\ evals'[r].phase = "publishing" /\ evals'[r].target = evals[r].target /\ evals'[r].result = evals[r].result
        /\ evals'[r].at = evals[r].at /\ evals'[r].base = baseRevision /\ evals'[r].once = onceRevision'
  <2>1. ASSUME NEW b \in Nat, NEW o \in Nat,
               evals' = [evals EXCEPT ![r].phase = "publishing", ![r].base = b, ![r].once = o]
        PROVE  /\ \A s \in Requests : s # r => evals'[s] = evals[s]
               /\ evals'[r].phase = "publishing" /\ evals'[r].target = evals[r].target /\ evals'[r].result = evals[r].result
               /\ evals'[r].at = evals[r].at /\ evals'[r].base = b /\ evals'[r].once = o
    BY <2>1, <1>f2 DEF EvalRecords
  <2> QED
    BY <2>1, <1>f8, <1>f9, <1>f4
<1>f14. evals' \in [Requests -> EvalRecords]
  <2>1. ASSUME NEW b \in Nat, NEW o \in Nat,
               evals' = [evals EXCEPT ![r].phase = "publishing", ![r].base = b, ![r].once = o]
        PROVE  evals' \in [Requests -> EvalRecords]
    BY <2>1, <1>f2, EvalFinished, Zenon
  <2> QED
    BY <2>1, <1>f8, <1>f9, <1>f4
<1>f15. file \in 0..baseRevision /\ onceRevision \in Nat /\ onceRevision' = onceRevision + 1
  BY <1>f4 DEF NativeInv, TypeOK
<1>f16. /\ \A i \in 1..Len(publications) : publications[i].by # "view"
        /\ onceRevision <= onceRevision'
  BY <1>t, <1>f1, <1>f4 DEF NativeInv, QueueOwners, OneActive, Active, Elements, QueueElements, Nobody
<1>f17. /\ publications'[Len(publications) + 1].by = "view" /\ publications'[Len(publications) + 1].req = r /\ Len(publications) \in Nat
  BY <1>f7, <1>f10, Appended
<1>s. /\ FileCurrent' /\ AnswersKnown' /\ OpsKnown' /\ FirstRevision' /\ NotServing' /\ ReadyFirst'
      /\ LockHeld' /\ AwaitsLast' /\ RequestLeft' /\ UpInLine' /\ InboxInLine' /\ CurrentInLine'
      /\ AnswersInLine' /\ Idling' /\ ResolvePublished' /\ NativePublished' /\ OncesForward'
      /\ LastArrives' /\ AnswersCovered' /\ LookupFresh' /\ AwaitFresh' /\ CurrentLater'
      /\ AnswersLater' /\ CalmMount' /\ CalmUp' /\ CalmInbox' /\ CalmCurrent' /\ CalmAnswers'
      /\ AbortCaused' /\ TargetSent' /\ TargetTaken'
  BY <1>u, SameFileCurrent, SameAnswersKnown, SameOpsKnown, SameFirstRevision, SameNotServing,
     SameReadyFirst, SameLockHeld, SameAwaitsLast, SameRequestLeft, SameUpInLine, SameInboxInLine,
     SameCurrentInLine, SameAnswersInLine, SameIdling, SameResolvePublished, SameNativePublished,
     SameOncesForward, SameLastArrives, SameAnswersCovered, SameLookupFresh, SameAwaitFresh,
     SameCurrentLater, SameAnswersLater, SameCalmMount, SameCalmUp, SameCalmInbox, SameCalmCurrent,
     SameCalmAnswers, SameAbortCaused, SameTargetSent, SameTargetTaken DEF NativeInv
<1>v1. /\ QueueForward' /\ QueueOnce'
  BY <1>u, <1>f4, <1>f7, <1>f9, <1>f10, <1>f16, QueueAppends
<1>TypeOK. TypeOK'
  BY <1>u, <1>f6, <1>f14 DEF NativeInv, TypeOK, baseRevision, EvalRecords
<1>QueuesTyped. QueuesTyped'
  BY <1>u, <1>f12 DEF NativeInv, QueuesTyped
<1>NativeBehind. NativeBehind'
  BY <1>t, <1>u, <1>f4, <1>f9, <1>f13 DEF NativeInv, Fields, LogFields, NativeFields, NativeBehind
<1>UpKnown. UpKnown'
  BY <1>t, <1>u, <1>f4, <1>f9, <1>f13 DEF NativeInv, Fields, Elements, LogFields, UpElements,
     UpKnown
<1>InboxKnown. InboxKnown'
  BY <1>t, <1>u, <1>f4, <1>f9, <1>f13 DEF NativeInv, Fields, Elements, LogFields, InboxElements,
     InboxKnown, InboxMisses
<1>CurrentKnown. CurrentKnown'
  BY <1>t, <1>u, <1>f4, <1>f9, <1>f13 DEF NativeInv, Fields, LogFields, CurrentFields, CurrentKnown
<1>EvalsKnown. EvalsKnown'
  BY <1>t, <1>u, <1>f1, <1>f4, <1>f9, <1>f13, SMTT(20)
  DEF NativeInv, Fields, LogFields, EvalFields,
     EvalsKnown
<1>NotSynchronized. NotSynchronized'
  BY <1>t, <1>u, <1>f1, <1>f11, <1>f13 DEF NativeInv, Fields, Elements, EvalFields, QueueElements,
     DownElements, NativeFields, OpFields, NotSynchronized, AskedAfterSent, NotServing, EvalFields
<1>NothingAsked. NothingAsked'
  BY <1>t, <1>u, <1>f1, <1>f4, <1>f9, <1>f13 DEF NativeInv, Fields, LogFields, EvalFields,
     NativeFields, NothingAsked, AskedAfterSent, EvalFields
<1>AskedAfterSent. AskedAfterSent'
  BY <1>t, <1>u, <1>f1, <1>f13 DEF NativeInv, Fields, EvalFields, NativeFields, AskedAfterSent
<1>UpUnasked. UpUnasked'
  BY <1>t, <1>u, <1>f1, <1>f13 DEF NativeInv, Fields, Elements, EvalFields, UpElements, UpUnasked,
     UpMisses
<1>InboxUnasked. InboxUnasked'
  BY <1>t, <1>u, <1>f1, <1>f13 DEF NativeInv, Fields, Elements, EvalFields, InboxElements,
     InboxUnasked, InboxMisses
<1>ActiveIsCurrent. ActiveIsCurrent'
  BY <1>t, <1>u, <1>f1, <1>f13 DEF NativeInv, Fields, EvalFields, CurrentFields, ActiveIsCurrent,
     Active
<1>OneActive. OneActive'
  BY <1>t, <1>u, <1>f1, <1>f13 DEF NativeInv, Fields, EvalFields, OneActive, Active
<1>DoneIsCurrent. DoneIsCurrent'
  BY <1>t, <1>u, <1>f1, <1>f4, <1>f9, <1>f13 DEF NativeInv, Fields, LogFields, EvalFields,
     CurrentFields, DoneIsCurrent, Active, Idling, Nobody, OneActive
<1>Decided. Decided'
  BY <1>t, <1>u, <1>f1, <1>f13 DEF NativeInv, Fields, EvalFields, Decided
<1>PublishedKnown. PublishedKnown'
  BY <1>t, <1>u, <1>f4, <1>f9, <1>f13 DEF NativeInv, Fields, LogFields, PublishedKnown
<1>QueueOwners. QueueOwners'
  <2> SUFFICES ASSUME NEW i \in 1..Len(publications')
               PROVE  LET p == publications'[i] IN
                      /\ p.by = "view" => p.req # Nobody /\ evals'[p.req].phase = "publishing"
                      /\ p.by = "miss" => current.phase = "publish" /\ p.req = current.req /\ p.rev = current.once
    BY <1>u DEF QueueOwners
  <2>1. i \in 1..Len(publications) \/ i = Len(publications) + 1
    BY <1>t, <1>f11 DEF Elements, QueueElements
  <2>2. CASE i \in 1..Len(publications)
    BY <2>2, <1>t, <1>f1, <1>f11, <1>f13 DEF NativeInv, QueueOwners, Elements, QueueElements, Nobody
  <2>3. CASE i = Len(publications) + 1
    <3>1. publications'[i].by = "view" /\ publications'[i].req = r
      BY <2>3, <1>f17
    <3>2. r # Nobody /\ evals'[r].phase = "publishing"
      BY <1>t, <1>f13 DEF Nobody, Fields, EvalFields
    <3> QED
      BY <3>1, <3>2
  <2> QED
    BY <2>1, <2>2, <2>3
<1>CurrentSays. CurrentSays'
  BY <1>t, <1>u, <1>f1, <1>f13 DEF NativeInv, Fields, EvalFields, CurrentFields, CurrentSays,
     SaysEvaluated, Idling, Nobody
<1>AnswersSay. AnswersSay'
  <2> SUFFICES ASSUME NEW h \in Resolutions, down[h].decision = "allow" PROVE SaysEvaluated(down[h])'
    BY <1>u DEF AnswersSay, Resolutions, SaysEvaluated
  <2>1. down[h].req \in Requests /\ SaysEvaluated(down[h])
    BY <1>t DEF NativeInv, AnswersSay, Resolutions, SaysEvaluated, Elements, DownElements
  <2> QED
    BY <1>u, <1>f1, <1>f13, <2>1 DEF SaysEvaluated
<1>EvaluatedLater. EvaluatedLater'
  <2> SUFFICES ASSUME NEW t \in Threads, op[t].phase = "await", evals'[op[t].req].phase \in {"publishing", "done"}
               PROVE  op[t].base <= evals'[op[t].req].base /\ op[t].once <= evals'[op[t].req].once
    BY <1>u DEF EvaluatedLater
  <2>1. op[t].req \in Requests /\ op[t].base <= baseRevision /\ op[t].once <= onceRevision'
    BY <1>t, <1>f9, <1>f15 DEF NativeInv, AwaitsLast, OpsKnown, NativeBehind, Fields, OpFields, NativeFields, LogFields, Nobody
  <2>2. CASE op[t].req = r
    <3>1. evals'[op[t].req].base = baseRevision /\ evals'[op[t].req].once = onceRevision'
      BY <2>2, <1>f9, <1>f13
    <3> QED
      BY <2>1, <3>1
  <2>3. CASE op[t].req # r
    BY <2>1, <2>3, <1>f13 DEF NativeInv, EvaluatedLater
  <2> QED
    BY <2>2, <2>3
<1>CalmEvals. CalmEvals'
  BY <1>t, <1>u, <1>f1, <1>f13 DEF NativeInv, Fields, EvalFields, CalmEvals, Calm
<1>QuietCurrent. QuietCurrent'
  BY <1>t, <1>u, <1>f1, <1>f13 DEF NativeInv, Fields, EvalFields, CurrentFields, QuietCurrent,
     SaysEvaluated, Idling, Nobody
<1>QuietAnswers. QuietAnswers'
  <2> SUFFICES ASSUME NEW h \in Resolutions, cause = {} PROVE SaysEvaluated(down[h])'
    BY <1>u DEF QuietAnswers, Resolutions
  <2>1. down[h].req \in Requests /\ SaysEvaluated(down[h])
    BY <1>t DEF NativeInv, QuietAnswers, Resolutions, Elements, DownElements
  <2> QED
    BY <1>u, <1>f1, <1>f13, <2>1 DEF SaysEvaluated
<1>QuietDenied. QuietDenied'
  BY <1>t, <1>u, <1>f1, <1>f13 DEF NativeInv, Fields, EvalFields, OpFields, QuietDenied, Nobody
<1>LogStays. LogStays'
  <2> SUFFICES ASSUME NEW i \in 1..Len(onceLog'), NEW j \in 1..Len(onceLog'), i <= j
                 PROVE  Stays(onceLog'[i], onceLog'[j])
    BY DEF LogStays
  <2>1. ASSUME NEW k \in 1..Len(onceLog) PROVE Stays(onceLog[k], onceLog[Len(onceLog)]) /\ Stays(onceLog[Len(onceLog)], onceEngine)
    BY <1>t DEF NativeInv, LogStays, EngineStays, Fields, LogFields, OnceAt, onceRevision
  <2>2. CASE j \in 1..Len(onceLog)
    BY <2>2, <1>t, <1>f5 DEF NativeInv, LogStays, Fields, LogFields
  <2>3. CASE j = Len(onceLog) + 1 /\ i \in 1..Len(onceLog)
    BY <2>1, <2>3, <1>f5 DEF Stays
  <2>4. CASE i = Len(onceLog) + 1 /\ j = i
    BY <2>4, <1>f5 DEF Stays
  <2> QED
    BY <2>2, <2>3, <2>4, <1>t, <1>f5 DEF Fields, LogFields
<1>EngineStays. EngineStays'
  <2>1. OnceAt(onceRevision)' = onceEngine
    BY <1>f3, OnceGrows
  <2> QED
    BY <1>u, <2>1 DEF EngineStays, Stays
<1>GrantsBacked. GrantsBacked'
  <2> SUFFICES ASSUME NEW s \in Requests, evals'[s].phase \in {"answered", "publishing", "done"}, evals'[s].result = "allow"
               PROVE  GrantBacked(evals[s])'
    BY DEF GrantsBacked
  <2>1. CASE s # r
    <3>1. evals[s].once + 1 \in 1..Len(onceLog)
      BY <1>t DEF NativeInv, EvalsKnown, onceRevision, Fields, EvalFields, LogFields
    <3> QED
      BY <1>u, <1>f13, <1>f5, <2>1, <3>1 DEF NativeInv, GrantsBacked, GrantBacked, BaseAt, OnceAt
  <2>2. CASE s = r
    <3>1. GrantBacked(evals[r]) /\ OnceAt(onceRevision)' = onceEngine /\ evals'[r].once = onceRevision'
      BY <1>f1, <1>f3, <1>f13, <2>2, OnceGrows DEF NativeInv, GrantsBacked
    <3> QED
      BY <1>u, <1>f1, <1>f13, <2>2, <3>1 DEF GrantBacked, BaseAt, OnceAt
  <2> QED
    BY <2>1, <2>2
<1>TargetEvaluated. TargetEvaluated'
  BY <1>t, <1>u, <1>f1, <1>f13 DEF NativeInv, Fields, EvalFields, OpFields, TargetEvaluated, Nobody
<1>LetThrough. LetThrough'
  BY <1>t, <1>u, <1>f1, <1>f13 DEF NativeInv, Fields, EvalFields, OpFields, LetThrough, Nobody
<1>AllowedInForce. AllowedInForce'
  <2> SUFFICES ASSUME NEW t \in Threads, op[t].phase = "allowed"
               PROVE  /\ op[t].base \in op[t].begun..baseRevision
                      /\ op[t].req # Nobody => op[t].base >= evals'[op[t].req].base
                      /\ Lookup(op[t].base, op[t].once, op[t].target)' = "allow"
    BY <1>u, <1>f9 DEF AllowedInForce
  <2>1. op[t].once + 1 \in 1..Len(onceLog)
    BY <1>t DEF NativeInv, OpsKnown, NativeBehind, Fields, OpFields, NativeFields, LogFields, onceRevision
  <2>2. op[t].req # Nobody => op[t].req \in Requests /\ op[t].req # r
    BY <1>t, <1>f1 DEF NativeInv, LetThrough, Fields, OpFields, Nobody
  <2> QED
    BY <1>u, <1>f5, <1>f13, <2>1, <2>2 DEF NativeInv, AllowedInForce, Lookup, BaseAt, OnceAt
<1>GrantNotLost. GrantNotLost'
  BY <1>t, <1>u, <1>f1, <1>f9, <1>f13 DEF NativeInv, Fields, LogFields, EvalFields, OpFields,
     GrantNotLost, Nobody, QuietDenied
<1> QED
  BY <1>s, <1>v1, <1>TypeOK, <1>QueuesTyped, <1>NativeBehind, <1>UpKnown, <1>InboxKnown,
     <1>CurrentKnown, <1>EvalsKnown, <1>NotSynchronized, <1>NothingAsked, <1>AskedAfterSent,
     <1>UpUnasked, <1>InboxUnasked, <1>ActiveIsCurrent, <1>OneActive, <1>DoneIsCurrent, <1>Decided,
     <1>PublishedKnown, <1>QueueOwners, <1>CurrentSays, <1>AnswersSay, <1>EvaluatedLater,
     <1>CalmEvals, <1>QuietCurrent, <1>QuietAnswers, <1>QuietDenied, <1>LogStays, <1>EngineStays,
     <1>GrantsBacked, <1>TargetEvaluated, <1>LetThrough, <1>AllowedInForce, <1>GrantNotLost DEF
     NativeInv

\* The bridge.  synchronizeSnapshot publishes revision 0: nothing can have been granted.
LEMMA SynchronizeKeeps ==
    ASSUME NativeInv, SynchronizeSnapshot
    PROVE  NativeInv'
<1>t. Fields /\ Elements
  BY FieldsHold, ElementsHold DEF NativeInv
<1>u. /\ baseLog' = baseLog /\ file' = file /\ baseClosed' = baseClosed /\ onceEngine' = onceEngine
      /\ onceLog' = onceLog /\ viewClosed' = viewClosed /\ evals' = evals /\ aborted' = aborted
      /\ open' = open /\ inbox' = inbox /\ current' = current /\ published' = published /\ up' = up
      /\ down' = down /\ native' = native /\ lock' = lock /\ op' = op /\ cause' = cause
  BY DEF SynchronizeSnapshot, baseVars, viewVars, bridgeVars, nativeVars
<1>f1. /\ onceRevision = 0 /\ synchronized' = 0 /\ synchronized = -1 /\ onceRevision' = onceRevision /\ publications = <<>>
  BY <1>u DEF SynchronizeSnapshot, NativeInv, NotSynchronized, NotServing, NothingAsked, onceRevision
<1>f2. publications' = Append(publications, [rev |-> onceRevision, by |-> "start", req |-> 0])
  BY DEF SynchronizeSnapshot, Nobody
<1>f3. [rev |-> onceRevision, by |-> "start", req |-> 0] \in Publications
  BY <1>f1, BoundsAssumption DEF Publications
<1>f4. publications' \in Seq(Publications)
  BY <1>f2, <1>f3, Appended DEF NativeInv, QueuesTyped
<1>f5. Len(publications') = 1 /\ publications'[1].by = "start"
  BY <1>f1, <1>f2, <1>f3, Appended DEF NativeInv, QueuesTyped
<1>s. /\ NativeBehind' /\ FileCurrent' /\ UpKnown' /\ InboxKnown' /\ CurrentKnown' /\ EvalsKnown'
      /\ AnswersKnown' /\ OpsKnown' /\ NotServing' /\ NothingAsked' /\ AskedAfterSent' /\ LockHeld'
      /\ AwaitsLast' /\ RequestLeft' /\ UpInLine' /\ InboxInLine' /\ CurrentInLine'
      /\ AnswersInLine' /\ Idling' /\ UpUnasked' /\ InboxUnasked' /\ ActiveIsCurrent' /\ OneActive'
      /\ DoneIsCurrent' /\ Decided' /\ PublishedKnown' /\ ResolvePublished' /\ NativePublished'
      /\ OncesForward' /\ LastArrives' /\ AnswersCovered' /\ CurrentSays' /\ AnswersSay'
      /\ LookupFresh' /\ AwaitFresh' /\ EvaluatedLater' /\ CurrentLater' /\ AnswersLater'
      /\ CalmMount' /\ CalmUp' /\ CalmInbox' /\ CalmCurrent' /\ CalmAnswers' /\ CalmEvals'
      /\ AbortCaused' /\ QuietCurrent' /\ QuietAnswers' /\ QuietDenied' /\ LogStays'
      /\ EngineStays' /\ GrantsBacked' /\ TargetEvaluated' /\ TargetSent' /\ TargetTaken'
      /\ LetThrough' /\ AllowedInForce' /\ GrantNotLost'
  BY <1>u, SameNativeBehind, SameFileCurrent, SameUpKnown, SameInboxKnown, SameCurrentKnown,
     SameEvalsKnown, SameAnswersKnown, SameOpsKnown, SameNotServing, SameNothingAsked,
     SameAskedAfterSent, SameLockHeld, SameAwaitsLast, SameRequestLeft, SameUpInLine,
     SameInboxInLine, SameCurrentInLine, SameAnswersInLine, SameIdling, SameUpUnasked,
     SameInboxUnasked, SameActiveIsCurrent, SameOneActive, SameDoneIsCurrent, SameDecided,
     SamePublishedKnown, SameResolvePublished, SameNativePublished, SameOncesForward,
     SameLastArrives, SameAnswersCovered, SameCurrentSays, SameAnswersSay, SameLookupFresh,
     SameAwaitFresh, SameEvaluatedLater, SameCurrentLater, SameAnswersLater, SameCalmMount,
     SameCalmUp, SameCalmInbox, SameCalmCurrent, SameCalmAnswers, SameCalmEvals, SameAbortCaused,
     SameQuietCurrent, SameQuietAnswers, SameQuietDenied, SameLogStays, SameEngineStays,
     SameGrantsBacked, SameTargetEvaluated, SameTargetSent, SameTargetTaken, SameLetThrough,
     SameAllowedInForce, SameGrantNotLost DEF NativeInv
<1>v1. /\ QueueForward' /\ QueueOnce'
  BY <1>u, <1>f1, <1>f2, <1>f3, QueueAppends
<1>TypeOK. TypeOK'
  BY <1>u, <1>f1 DEF NativeInv, TypeOK, baseRevision
<1>QueuesTyped. QueuesTyped'
  BY <1>u, <1>f4 DEF NativeInv, QueuesTyped
<1>FirstRevision. FirstRevision'
  BY <1>t, <1>u, <1>f1 DEF NativeInv, Fields, FirstRevision
<1>NotSynchronized. NotSynchronized'
  BY <1>t, <1>u, <1>f1 DEF NativeInv, Fields, Elements, QueueElements, DownElements, NativeFields,
     NotSynchronized
<1>ReadyFirst. ReadyFirst'
  BY <1>u, <1>f1 DEF NativeInv, ReadyFirst
<1>QueueOwners. QueueOwners'
  BY <1>f5 DEF QueueOwners
<1> QED
  BY <1>s, <1>v1, <1>TypeOK, <1>QueuesTyped, <1>FirstRevision, <1>NotSynchronized, <1>ReadyFirst,
     <1>QueueOwners DEF NativeInv

\* handleData: READY carries the synchronized revision, whatever was granted since;
LEMMA HandleReadyKeeps ==
    ASSUME NativeInv, HandleData, Head(up).kind = "ready"
    PROVE  NativeInv'
<1>t. Fields /\ Elements
  BY FieldsHold, ElementsHold DEF NativeInv
<1>q. QueuesTyped
  BY DEF NativeInv
<1>u. /\ baseLog' = baseLog /\ file' = file /\ baseClosed' = baseClosed /\ onceEngine' = onceEngine
      /\ onceLog' = onceLog /\ viewClosed' = viewClosed /\ evals' = evals /\ inbox' = inbox
      /\ current' = current /\ publications' = publications /\ published' = published
      /\ synchronized' = synchronized /\ down' = down /\ native' = native /\ lock' = lock
      /\ op' = op /\ cause' = cause
  BY DEF HandleData, Destroyed, baseVars, viewVars, bridgeVars, nativeVars
<1>m. /\ Misses /\ InboxMisses' = InboxMisses /\ Resolutions' = Resolutions /\ Onces' = Onces
  BY <1>u, MissesHold DEF NativeInv, InboxMisses, Resolutions, Onces
<1>f1. up # <<>> /\ up' = Tail(up) /\ Head(up) = up[1] /\ Len(up) >= 1
  BY UpTaken DEF HandleData, Destroyed, NativeInv
<1>f2. /\ up' \in Seq(UpFrames)
       /\ \A j \in 1..Len(up') : j + 1 \in 1..Len(up) /\ up'[j] = up[j + 1]
  BY <1>f1, UpTaken, <1>q
<1>f3. /\ \A j \in UpMisses' : j \in Nat /\ j + 1 \in UpMisses /\ up'[j] = up[j + 1] /\ j + 1 > 1
  BY <1>f1, UpTaken, <1>q
<1>f4. /\ (open' => open) /\ (aborted => aborted') /\ {open', aborted'} \subseteq BOOLEAN
       /\ (open => open' \/ "fault" \in cause) /\ (aborted' => aborted \/ "fault" \in cause)
  <2>1. up[1].base <= baseRevision /\ up[1].once = synchronized /\ 1 \in 1..Len(up)
    BY <1>f1, <1>t DEF NativeInv, UpKnown, ReadyFirst, Elements, UpElements
  <2> QED
    BY <1>f1, <2>1 DEF HandleData, Destroyed, NativeInv, TypeOK, CalmMount, Calm
<1>s. /\ NativeBehind' /\ InboxKnown' /\ CurrentKnown' /\ EvalsKnown' /\ AnswersKnown' /\ OpsKnown'
      /\ FirstRevision' /\ NotSynchronized' /\ NotServing' /\ NothingAsked' /\ AskedAfterSent'
      /\ LockHeld' /\ AwaitsLast' /\ RequestLeft' /\ Idling' /\ InboxUnasked' /\ OneActive'
      /\ DoneIsCurrent' /\ Decided' /\ PublishedKnown' /\ QueueForward' /\ QueueOwners'
      /\ QueueOnce' /\ ResolvePublished' /\ NativePublished' /\ OncesForward' /\ LastArrives'
      /\ AnswersCovered' /\ CurrentSays' /\ AnswersSay' /\ AwaitFresh' /\ EvaluatedLater'
      /\ CurrentLater' /\ AnswersLater' /\ CalmInbox' /\ CalmCurrent' /\ CalmAnswers' /\ CalmEvals'
      /\ QuietCurrent' /\ QuietAnswers' /\ QuietDenied' /\ LogStays' /\ EngineStays'
      /\ GrantsBacked' /\ TargetEvaluated' /\ TargetTaken' /\ LetThrough' /\ AllowedInForce'
      /\ GrantNotLost'
  BY <1>u, SameNativeBehind, SameInboxKnown, SameCurrentKnown, SameEvalsKnown, SameAnswersKnown,
     SameOpsKnown, SameFirstRevision, SameNotSynchronized, SameNotServing, SameNothingAsked,
     SameAskedAfterSent, SameLockHeld, SameAwaitsLast, SameRequestLeft, SameIdling,
     SameInboxUnasked, SameOneActive, SameDoneIsCurrent, SameDecided, SamePublishedKnown,
     SameQueueForward, SameQueueOwners, SameQueueOnce, SameResolvePublished, SameNativePublished,
     SameOncesForward, SameLastArrives, SameAnswersCovered, SameCurrentSays, SameAnswersSay,
     SameAwaitFresh, SameEvaluatedLater, SameCurrentLater, SameAnswersLater, SameCalmInbox,
     SameCalmCurrent, SameCalmAnswers, SameCalmEvals, SameQuietCurrent, SameQuietAnswers,
     SameQuietDenied, SameLogStays, SameEngineStays, SameGrantsBacked, SameTargetEvaluated,
     SameTargetTaken, SameLetThrough, SameAllowedInForce, SameGrantNotLost DEF NativeInv
<1>TypeOK. TypeOK'
  BY <1>u, <1>f4 DEF NativeInv, TypeOK, baseRevision
<1>QueuesTyped. QueuesTyped'
  BY <1>u, <1>f2 DEF NativeInv, QueuesTyped
<1>FileCurrent. FileCurrent'
  BY <1>t, <1>u, <1>f4 DEF NativeInv, Fields, LogFields, FileCurrent, baseRevision
<1>UpKnown. UpKnown'
  BY <1>t, <1>u, <1>f2, <1>f3 DEF NativeInv, Fields, Elements, LogFields, UpElements, UpKnown,
     baseRevision, onceRevision
<1>ReadyFirst. ReadyFirst'
  BY <1>t, <1>u, <1>f2, <1>f3 DEF NativeInv, Fields, Elements, UpElements, ReadyFirst
<1>UpInLine. UpInLine'
  BY <1>t, <1>m, <1>u, <1>f3 DEF NativeInv, Fields, NativeFields, Misses, UpInLine
<1>InboxInLine. InboxInLine'
  BY <1>t, <1>m, <1>u, <1>f3 DEF NativeInv, Fields, NativeFields, Misses, InboxInLine
<1>CurrentInLine. CurrentInLine'
  BY <1>t, <1>m, <1>u, <1>f3 DEF NativeInv, Fields, CurrentFields, NativeFields, Misses,
     CurrentInLine, Nobody
<1>AnswersInLine. AnswersInLine'
  BY <1>t, <1>m, <1>u, <1>f3 DEF NativeInv, Fields, CurrentFields, NativeFields, Misses,
     AnswersInLine, Nobody
<1>UpUnasked. UpUnasked'
  BY <1>t, <1>m, <1>u, <1>f3 DEF NativeInv, Fields, EvalFields, Misses, UpUnasked
<1>ActiveIsCurrent. ActiveIsCurrent'
  BY <1>t, <1>u, <1>f4 DEF NativeInv, Fields, EvalFields, CurrentFields, ActiveIsCurrent, Active
<1>LookupFresh. LookupFresh'
  BY <1>t, <1>u, <1>f4 DEF NativeInv, Fields, NativeFields, OpFields, LookupFresh
<1>CalmMount. CalmMount'
  BY <1>t, <1>u, <1>f4 DEF NativeInv, Fields, NativeFields, CalmMount, Calm
<1>CalmUp. CalmUp'
  BY <1>t, <1>m, <1>u, <1>f3, <1>f4 DEF NativeInv, Fields, NativeFields, OpFields, Misses, CalmUp,
     Calm, Awaited
<1>AbortCaused. AbortCaused'
  BY <1>t, <1>u, <1>f4 DEF NativeInv, Fields, AbortCaused
<1>TargetSent. TargetSent'
  BY <1>t, <1>m, <1>u, <1>f3 DEF NativeInv, Fields, OpFields, Misses, TargetSent, Nobody
<1> QED
  BY <1>s, <1>TypeOK, <1>QueuesTyped, <1>FileCurrent, <1>UpKnown, <1>ReadyFirst, <1>UpInLine,
     <1>InboxInLine, <1>CurrentInLine, <1>AnswersInLine, <1>UpUnasked, <1>ActiveIsCurrent,
     <1>LookupFresh, <1>CalmMount, <1>CalmUp, <1>AbortCaused, <1>TargetSent DEF NativeInv

\* a miss or a denial joins the request queue, behind those before it.
LEMMA HandleRequestKeeps ==
    ASSUME NativeInv, HandleData, Head(up).kind # "ready"
    PROVE  NativeInv'
<1>t. Fields /\ Elements
  BY FieldsHold, ElementsHold DEF NativeInv
<1>q. QueuesTyped
  BY DEF NativeInv
<1>u. /\ baseLog' = baseLog /\ file' = file /\ baseClosed' = baseClosed /\ onceEngine' = onceEngine
      /\ onceLog' = onceLog /\ viewClosed' = viewClosed /\ evals' = evals /\ aborted' = aborted
      /\ open' = open /\ current' = current /\ publications' = publications
      /\ published' = published /\ synchronized' = synchronized /\ down' = down /\ native' = native
      /\ lock' = lock /\ op' = op /\ cause' = cause
  BY DEF HandleData, Destroyed, baseVars, viewVars, bridgeVars, nativeVars
<1>m. /\ Misses /\ Resolutions' = Resolutions /\ Onces' = Onces
  BY <1>u, MissesHold DEF NativeInv, Resolutions, Onces
<1>f1. up # <<>> /\ up' = Tail(up) /\ Head(up) = up[1] /\ Len(up) >= 1
  BY UpTaken DEF HandleData, Destroyed, NativeInv
<1>f2. /\ up' \in Seq(UpFrames)
       /\ \A j \in 1..Len(up') : j + 1 \in 1..Len(up) /\ up'[j] = up[j + 1]
  BY <1>f1, UpTaken, <1>q
<1>f3. /\ \A j \in UpMisses' : j \in Nat /\ j + 1 \in UpMisses /\ up'[j] = up[j + 1] /\ j + 1 > 1
  BY <1>f1, UpTaken, <1>q
<1>f4. inbox' = Append(inbox, up[1]) /\ up[1] \in UpFrames
  BY <1>f1, UpTaken DEF HandleData, Destroyed, NativeInv
<1>f5. /\ inbox' \in Seq(UpFrames)
       /\ \A i \in 1..Len(inbox') : \/ i \in 1..Len(inbox) /\ inbox'[i] = inbox[i]
                                    \/ i = Len(inbox) + 1 /\ inbox'[i] = up[1]
  BY <1>f4, InboxGiven, <1>q
<1>f6. /\ Len(inbox) \in Nat
       /\ \A i \in InboxMisses' : \/ i \in InboxMisses /\ i \in Nat /\ i < Len(inbox) + 1 /\ inbox'[i] = inbox[i]
                                  \/ i = Len(inbox) + 1 /\ inbox'[i] = up[1] /\ 1 \in UpMisses
  <2>1. up[1].kind = "miss" => 1 \in UpMisses
    BY <1>f1, <1>t DEF UpMisses, Elements, UpElements
  <2> QED
    BY <1>f4, <2>1, InboxGiven, <1>q
<1>s. /\ TypeOK' /\ NativeBehind' /\ FileCurrent' /\ CurrentKnown' /\ EvalsKnown' /\ AnswersKnown'
      /\ OpsKnown' /\ FirstRevision' /\ NotSynchronized' /\ NotServing' /\ NothingAsked'
      /\ AskedAfterSent' /\ LockHeld' /\ AwaitsLast' /\ RequestLeft' /\ Idling' /\ ActiveIsCurrent'
      /\ OneActive' /\ DoneIsCurrent' /\ Decided' /\ PublishedKnown' /\ QueueForward'
      /\ QueueOwners' /\ QueueOnce' /\ ResolvePublished' /\ NativePublished' /\ OncesForward'
      /\ LastArrives' /\ AnswersCovered' /\ CurrentSays' /\ AnswersSay' /\ LookupFresh'
      /\ AwaitFresh' /\ EvaluatedLater' /\ CurrentLater' /\ AnswersLater' /\ CalmMount'
      /\ CalmCurrent' /\ CalmAnswers' /\ CalmEvals' /\ AbortCaused' /\ QuietCurrent'
      /\ QuietAnswers' /\ QuietDenied' /\ LogStays' /\ EngineStays' /\ GrantsBacked'
      /\ TargetEvaluated' /\ LetThrough' /\ AllowedInForce' /\ GrantNotLost'
  BY <1>u, SameTypeOK, SameNativeBehind, SameFileCurrent, SameCurrentKnown, SameEvalsKnown,
     SameAnswersKnown, SameOpsKnown, SameFirstRevision, SameNotSynchronized, SameNotServing,
     SameNothingAsked, SameAskedAfterSent, SameLockHeld, SameAwaitsLast, SameRequestLeft,
     SameIdling, SameActiveIsCurrent, SameOneActive, SameDoneIsCurrent, SameDecided,
     SamePublishedKnown, SameQueueForward, SameQueueOwners, SameQueueOnce, SameResolvePublished,
     SameNativePublished, SameOncesForward, SameLastArrives, SameAnswersCovered, SameCurrentSays,
     SameAnswersSay, SameLookupFresh, SameAwaitFresh, SameEvaluatedLater, SameCurrentLater,
     SameAnswersLater, SameCalmMount, SameCalmCurrent, SameCalmAnswers, SameCalmEvals,
     SameAbortCaused, SameQuietCurrent, SameQuietAnswers, SameQuietDenied, SameLogStays,
     SameEngineStays, SameGrantsBacked, SameTargetEvaluated, SameLetThrough, SameAllowedInForce,
     SameGrantNotLost DEF NativeInv
<1>QueuesTyped. QueuesTyped'
  BY <1>u, <1>f1, <1>f2, <1>f5 DEF NativeInv, QueuesTyped, HandleData
<1>UpKnown. UpKnown'
  BY <1>t, <1>u, <1>f2, <1>f3, <1>f6 DEF NativeInv, Fields, Elements, LogFields, UpElements,
     UpKnown, baseRevision, onceRevision
<1>InboxKnown. InboxKnown'
  BY <1>t, <1>u, <1>m, <1>f6 DEF NativeInv, InboxKnown, UpKnown, UpMisses, baseRevision, onceRevision, Elements, UpElements
<1>ReadyFirst. ReadyFirst'
  BY <1>t, <1>u, <1>f2, <1>f3, <1>f6 DEF NativeInv, Fields, Elements, UpElements, ReadyFirst
<1>UpInLine. UpInLine'
  <2> SUFFICES ASSUME NEW j \in UpMisses'
               PROVE  up'[j].req <= native.next /\ \A k \in UpMisses' : j < k => up'[j].req < up'[k].req
    BY <1>u DEF UpInLine
  <2>1. UpInLine
    BY DEF NativeInv
  <2>2. j \in Nat /\ j + 1 \in UpMisses /\ up'[j] = up[j + 1]
    BY <1>f3
  <2>3. ASSUME NEW k \in UpMisses', j < k PROVE up'[j].req < up'[k].req
    <3>1. k + 1 \in UpMisses /\ up'[k] = up[k + 1] /\ j + 1 < k + 1
      BY <1>f3, <2>2, <2>3
    <3> QED BY <2>1, <2>2, <3>1 DEF UpInLine
  <2> QED
    BY <2>1, <2>2, <2>3 DEF UpInLine
<1>InboxInLine. InboxInLine'
  <2> SUFFICES ASSUME NEW i \in InboxMisses'
               PROVE  /\ inbox'[i].req <= native.next
                      /\ \A j \in UpMisses' : inbox'[i].req < up'[j].req
                      /\ \A k \in InboxMisses' : i < k => inbox'[i].req < inbox'[k].req
    BY <1>u DEF InboxInLine
  <2>1. CASE i \in InboxMisses /\ i \in Nat /\ i < Len(inbox) + 1 /\ inbox'[i] = inbox[i]
    BY <1>m, <1>f3, <1>f6, <2>1 DEF NativeInv, InboxInLine, Misses
  <2>2. CASE i = Len(inbox) + 1 /\ inbox'[i] = up[1] /\ 1 \in UpMisses
    BY <1>m, <1>f3, <1>f6, <2>2 DEF NativeInv, UpInLine, Misses
  <2> QED
    BY <1>f6, <2>1, <2>2
<1>CurrentInLine. CurrentInLine'
  BY <1>t, <1>m, <1>u, <1>f3, <1>f6 DEF NativeInv, Fields, CurrentFields, NativeFields, Misses,
     CurrentInLine, Nobody
<1>AnswersInLine. AnswersInLine'
  BY <1>t, <1>m, <1>u, <1>f3, <1>f6 DEF NativeInv, Fields, CurrentFields, NativeFields, Misses,
     AnswersInLine, Nobody
<1>UpUnasked. UpUnasked'
  BY <1>t, <1>m, <1>u, <1>f3, <1>f6 DEF NativeInv, Fields, EvalFields, Misses, UpUnasked
<1>InboxUnasked. InboxUnasked'
  BY <1>t, <1>m, <1>u, <1>f3, <1>f6 DEF NativeInv, Fields, EvalFields, Misses, InboxUnasked,
     UpUnasked
<1>CalmUp. CalmUp'
  BY <1>t, <1>m, <1>u, <1>f3, <1>f6 DEF NativeInv, Fields, NativeFields, OpFields, Misses, CalmUp,
     Calm, Awaited
<1>CalmInbox. CalmInbox'
  BY <1>t, <1>m, <1>u, <1>f3, <1>f6 DEF NativeInv, Fields, NativeFields, OpFields, Misses,
     CalmInbox, Calm, Awaited, CalmUp
<1>TargetSent. TargetSent'
  <2> SUFFICES ASSUME NEW t \in Threads, op[t].req # Nobody, NEW j \in UpMisses', up'[j].req = op[t].req
               PROVE  up'[j].target = op[t].target
    BY <1>u DEF TargetSent
  <2>1. j + 1 \in UpMisses /\ up'[j] = up[j + 1]
    BY <1>f3
  <2>2. TargetSent
    BY DEF NativeInv
  <2> QED
    BY <2>1, <2>2 DEF TargetSent
<1>TargetTaken. TargetTaken'
  BY <1>t, <1>m, <1>u, <1>f3, <1>f6 DEF NativeInv, Fields, OpFields, Misses, TargetTaken, Nobody,
     TargetSent
<1> QED
  BY <1>s, <1>QueuesTyped, <1>UpKnown, <1>InboxKnown, <1>ReadyFirst, <1>UpInLine, <1>InboxInLine,
     <1>CurrentInLine, <1>AnswersInLine, <1>UpUnasked, <1>InboxUnasked, <1>CalmUp, <1>CalmInbox,
     <1>TargetSent, <1>TargetTaken DEF NativeInv

\* A denial is only reported.
LEMMA ReportDenialKeeps ==
    ASSUME NativeInv, ReportKnownDenial
    PROVE  NativeInv'
<1>t. Fields /\ Elements
  BY FieldsHold, ElementsHold DEF NativeInv
<1>q. QueuesTyped
  BY DEF NativeInv
<1>u. /\ baseLog' = baseLog /\ file' = file /\ baseClosed' = baseClosed /\ onceEngine' = onceEngine
      /\ onceLog' = onceLog /\ viewClosed' = viewClosed /\ evals' = evals /\ current' = current
      /\ publications' = publications /\ published' = published /\ synchronized' = synchronized
      /\ up' = up /\ down' = down /\ native' = native /\ lock' = lock /\ op' = op /\ cause' = cause
  BY DEF ReportKnownDenial, Destroyed, baseVars, viewVars, bridgeVars, nativeVars
<1>m. /\ Misses /\ UpMisses' = UpMisses /\ Resolutions' = Resolutions /\ Onces' = Onces
  BY <1>u, MissesHold DEF NativeInv, UpMisses, Resolutions, Onces
<1>f1. /\ current = NoMiss /\ inbox # <<>> /\ inbox' = Tail(inbox) /\ Head(inbox) = inbox[1] /\ Len(inbox) >= 1
  BY InboxTaken DEF ReportKnownDenial, Destroyed, NativeInv
<1>f2. /\ inbox' \in Seq(UpFrames)
       /\ \A j \in 1..Len(inbox') : j + 1 \in 1..Len(inbox) /\ inbox'[j] = inbox[j + 1]
  BY <1>f1, InboxTaken, <1>q
<1>f3. /\ \A j \in InboxMisses' : j \in Nat /\ j + 1 \in InboxMisses /\ inbox'[j] = inbox[j + 1] /\ j + 1 > 1
  BY <1>f1, InboxTaken, <1>q
<1>f4. /\ (open' => open) /\ (aborted => aborted') /\ {open', aborted'} \subseteq BOOLEAN
       /\ (open => open' \/ "fault" \in cause) /\ (aborted' => aborted \/ "fault" \in cause)
  BY DEF ReportKnownDenial, Destroyed, NativeInv, TypeOK, CalmMount, Calm
<1>s. /\ NativeBehind' /\ UpKnown' /\ CurrentKnown' /\ EvalsKnown' /\ AnswersKnown' /\ OpsKnown'
      /\ FirstRevision' /\ NotSynchronized' /\ NotServing' /\ NothingAsked' /\ AskedAfterSent'
      /\ ReadyFirst' /\ LockHeld' /\ AwaitsLast' /\ RequestLeft' /\ UpInLine' /\ Idling'
      /\ UpUnasked' /\ OneActive' /\ DoneIsCurrent' /\ Decided' /\ PublishedKnown' /\ QueueForward'
      /\ QueueOwners' /\ QueueOnce' /\ ResolvePublished' /\ NativePublished' /\ OncesForward'
      /\ LastArrives' /\ AnswersCovered' /\ CurrentSays' /\ AnswersSay' /\ AwaitFresh'
      /\ EvaluatedLater' /\ CurrentLater' /\ AnswersLater' /\ CalmUp' /\ CalmCurrent'
      /\ CalmAnswers' /\ CalmEvals' /\ QuietCurrent' /\ QuietAnswers' /\ QuietDenied' /\ LogStays'
      /\ EngineStays' /\ GrantsBacked' /\ TargetEvaluated' /\ TargetSent' /\ LetThrough'
      /\ AllowedInForce' /\ GrantNotLost'
  BY <1>u, SameNativeBehind, SameUpKnown, SameCurrentKnown, SameEvalsKnown, SameAnswersKnown,
     SameOpsKnown, SameFirstRevision, SameNotSynchronized, SameNotServing, SameNothingAsked,
     SameAskedAfterSent, SameReadyFirst, SameLockHeld, SameAwaitsLast, SameRequestLeft,
     SameUpInLine, SameIdling, SameUpUnasked, SameOneActive, SameDoneIsCurrent, SameDecided,
     SamePublishedKnown, SameQueueForward, SameQueueOwners, SameQueueOnce, SameResolvePublished,
     SameNativePublished, SameOncesForward, SameLastArrives, SameAnswersCovered, SameCurrentSays,
     SameAnswersSay, SameAwaitFresh, SameEvaluatedLater, SameCurrentLater, SameAnswersLater,
     SameCalmUp, SameCalmCurrent, SameCalmAnswers, SameCalmEvals, SameQuietCurrent,
     SameQuietAnswers, SameQuietDenied, SameLogStays, SameEngineStays, SameGrantsBacked,
     SameTargetEvaluated, SameTargetSent, SameLetThrough, SameAllowedInForce, SameGrantNotLost DEF
     NativeInv
<1>TypeOK. TypeOK'
  BY <1>u, <1>f4 DEF NativeInv, TypeOK, baseRevision
<1>QueuesTyped. QueuesTyped'
  BY <1>u, <1>f2 DEF NativeInv, QueuesTyped
<1>FileCurrent. FileCurrent'
  BY <1>t, <1>u, <1>f4 DEF NativeInv, Fields, LogFields, FileCurrent, baseRevision
<1>InboxKnown. InboxKnown'
  BY <1>t, <1>m, <1>u, <1>f3 DEF NativeInv, Fields, LogFields, Misses, InboxKnown, baseRevision,
     onceRevision
<1>InboxInLine. InboxInLine'
  BY <1>t, <1>m, <1>u, <1>f3 DEF NativeInv, Fields, NativeFields, Misses, InboxInLine
<1>CurrentInLine. CurrentInLine'
  BY <1>t, <1>m, <1>u, <1>f3 DEF NativeInv, Fields, CurrentFields, NativeFields, Misses,
     CurrentInLine, Nobody
<1>AnswersInLine. AnswersInLine'
  BY <1>t, <1>m, <1>u, <1>f3 DEF NativeInv, Fields, CurrentFields, NativeFields, Misses,
     AnswersInLine, Nobody
<1>InboxUnasked. InboxUnasked'
  BY <1>t, <1>m, <1>u, <1>f3 DEF NativeInv, Fields, EvalFields, Misses, InboxUnasked
<1>ActiveIsCurrent. ActiveIsCurrent'
  BY <1>t, <1>u, <1>f4 DEF NativeInv, Fields, EvalFields, CurrentFields, ActiveIsCurrent, Active
<1>LookupFresh. LookupFresh'
  BY <1>t, <1>u, <1>f4 DEF NativeInv, Fields, NativeFields, OpFields, LookupFresh
<1>CalmMount. CalmMount'
  BY <1>t, <1>u, <1>f4 DEF NativeInv, Fields, NativeFields, CalmMount, Calm
<1>CalmInbox. CalmInbox'
  BY <1>t, <1>m, <1>u, <1>f3, <1>f4 DEF NativeInv, Fields, NativeFields, OpFields, Misses,
     CalmInbox, Calm, Awaited
<1>AbortCaused. AbortCaused'
  BY <1>t, <1>u, <1>f4 DEF NativeInv, Fields, AbortCaused
<1>TargetTaken. TargetTaken'
  BY <1>t, <1>m, <1>u, <1>f3 DEF NativeInv, Fields, OpFields, Misses, TargetTaken, Nobody
<1> QED
  BY <1>s, <1>TypeOK, <1>QueuesTyped, <1>FileCurrent, <1>InboxKnown, <1>InboxInLine,
     <1>CurrentInLine, <1>AnswersInLine, <1>InboxUnasked, <1>ActiveIsCurrent, <1>LookupFresh,
     <1>CalmMount, <1>CalmInbox, <1>AbortCaused, <1>TargetTaken DEF NativeInv

\* resolveMiss up to its await: the miss in front becomes the current one, and is asked about once.
LEMMA ResolveMissKeeps ==
    ASSUME NativeInv, ResolveMiss
    PROVE  NativeInv'
<1>t. Fields /\ Elements
  BY FieldsHold, ElementsHold DEF NativeInv
<1>q. QueuesTyped
  BY DEF NativeInv
<1>u. /\ baseLog' = baseLog /\ file' = file /\ baseClosed' = baseClosed /\ onceEngine' = onceEngine
      /\ onceLog' = onceLog /\ viewClosed' = viewClosed /\ open' = open
      /\ publications' = publications /\ published' = published /\ synchronized' = synchronized
      /\ up' = up /\ down' = down /\ native' = native /\ lock' = lock /\ op' = op /\ cause' = cause
  BY DEF ResolveMiss, baseVars, viewVars, bridgeVars, nativeVars
<1>m. /\ Misses /\ UpMisses' = UpMisses /\ Resolutions' = Resolutions /\ Onces' = Onces
  BY <1>u, MissesHold DEF NativeInv, UpMisses, Resolutions, Onces
<1>f1. /\ current = NoMiss /\ inbox # <<>> /\ inbox' = Tail(inbox) /\ Head(inbox) = inbox[1] /\ Len(inbox) >= 1
  BY InboxTaken DEF ResolveMiss, NativeInv
<1>f2. /\ inbox' \in Seq(UpFrames)
       /\ \A j \in 1..Len(inbox') : j + 1 \in 1..Len(inbox) /\ inbox'[j] = inbox[j + 1]
  BY <1>f1, InboxTaken, <1>q
<1>f3. /\ \A j \in InboxMisses' : j \in Nat /\ j + 1 \in InboxMisses /\ inbox'[j] = inbox[j + 1] /\ j + 1 > 1
  BY <1>f1, InboxTaken, <1>q
<1>f4. /\ 1 \in InboxMisses
  BY <1>f1, <1>t DEF ResolveMiss, InboxMisses, Elements, InboxElements, Fields, EvalFields, Nobody
<1>f5. PICK q \in Requests : q = inbox[1].req /\ q # Nobody /\ q \in 0..MaxRequests
  BY <1>f4, <1>m, BoundsAssumption DEF Misses, Requests, Nobody
<1>f6. current' = [NoMiss EXCEPT !.req = q, !.phase = "evaluating"] /\ current = NoMiss
  BY <1>f1, <1>f5 DEF ResolveMiss
<1>f7. /\ current'.req = q /\ current'.phase = "evaluating" /\ current'.base = 0 /\ current'.once = 0
       /\ current'.decision = "deny" /\ current.req = Nobody /\ current.phase = "idle"
  BY <1>f6 DEF NoMiss, Nobody
<1>f8. current' \in [req : 0..MaxRequests, phase : {"idle", "evaluating", "publish", "resolve"},
                      base : Nat, once : Nat, decision : {"allow", "deny"}]
  BY <1>f5, <1>f6 DEF NoMiss
<1>f9. /\ (aborted => aborted') /\ aborted' \in BOOLEAN /\ (aborted' => aborted \/ "fault" \in cause)
  <2>1. ~Ahead(inbox[1])
    BY <1>f1, <1>f4, <1>m, <1>t DEF NativeInv, InboxKnown, Ahead, Misses, baseRevision, onceRevision, Fields, LogFields
  <2> QED
    BY <1>f1, <2>1 DEF ResolveMiss, NativeInv, TypeOK, CalmMount, Calm
<1>f10. evals[q].phase = "none"
  BY <1>f4, <1>f5 DEF NativeInv, InboxUnasked
<1>f11. evals \in [Requests -> EvalRecords] /\ inbox[1].target \in Targets
  BY <1>f4, <1>m DEF NativeInv, TypeOK, EvalRecords, Misses
<1>f12. \/ evals' = evals
        \/ evals' = [evals EXCEPT ![q].phase = "asking", ![q].target = inbox[1].target] /\ ~aborted /\ ~aborted'
  <2>1. CASE viewClosed \/ baseClosed \/ Ahead(Head(inbox)) \/ aborted
    BY <2>1 DEF ResolveMiss
  <2>2. CASE ~(viewClosed \/ baseClosed \/ Ahead(Head(inbox)) \/ aborted)
    BY <1>f1, <1>f5, <2>2 DEF ResolveMiss
  <2> QED
    BY <2>1, <2>2
<1>f13. /\ \A s \in Requests : s # q => evals'[s] = evals[s]
        /\ evals'[q].phase \in {"none", "asking"}
        /\ evals'[q].phase = "asking" => ~aborted /\ evals'[q].target = inbox[1].target
        /\ evals'[q].base = evals[q].base /\ evals'[q].once = evals[q].once /\ evals'[q].at = evals[q].at
  <2>1. CASE evals' = evals
    BY <2>1, <1>f10
  <2>2. CASE evals' = [evals EXCEPT ![q].phase = "asking", ![q].target = inbox[1].target] /\ ~aborted
    BY <2>2, <1>f11 DEF EvalRecords
  <2> QED
    BY <2>1, <2>2, <1>f12
<1>f14. evals' \in [Requests -> EvalRecords]
  <2>1. CASE evals' = evals
    BY <2>1, <1>f11
  <2>2. CASE evals' = [evals EXCEPT ![q].phase = "asking", ![q].target = inbox[1].target]
    BY <2>2, <1>f11 DEF EvalRecords
  <2> QED
    BY <2>1, <2>2, <1>f12
<1>f15. \A s \in Requests : ~Active(s) \/ aborted
  BY <1>f7 DEF NativeInv, ActiveIsCurrent
<1>f16. /\ \A s \in Requests : evals[s].phase # "none" => evals'[s] = evals[s]
        /\ \A s \in Requests : evals'[s].phase \notin {"none", "asking"} => evals'[s] = evals[s]
  BY <1>f10, <1>f13
<1>s. /\ NativeBehind' /\ FileCurrent' /\ UpKnown' /\ AnswersKnown' /\ OpsKnown' /\ FirstRevision'
      /\ NotSynchronized' /\ NotServing' /\ NothingAsked' /\ ReadyFirst' /\ LockHeld'
      /\ AwaitsLast' /\ RequestLeft' /\ UpInLine' /\ PublishedKnown' /\ QueueForward' /\ QueueOnce'
      /\ NativePublished' /\ OncesForward' /\ LastArrives' /\ AnswersCovered' /\ LookupFresh'
      /\ AwaitFresh' /\ AnswersLater' /\ CalmMount' /\ CalmUp' /\ CalmAnswers' /\ LogStays'
      /\ EngineStays' /\ TargetSent'
  BY <1>u, SameNativeBehind, SameFileCurrent, SameUpKnown, SameAnswersKnown, SameOpsKnown,
     SameFirstRevision, SameNotSynchronized, SameNotServing, SameNothingAsked, SameReadyFirst,
     SameLockHeld, SameAwaitsLast, SameRequestLeft, SameUpInLine, SamePublishedKnown,
     SameQueueForward, SameQueueOnce, SameNativePublished, SameOncesForward, SameLastArrives,
     SameAnswersCovered, SameLookupFresh, SameAwaitFresh, SameAnswersLater, SameCalmMount,
     SameCalmUp, SameCalmAnswers, SameLogStays, SameEngineStays, SameTargetSent DEF NativeInv
<1>TypeOK. TypeOK'
  BY <1>u, <1>f8, <1>f9, <1>f14 DEF NativeInv, TypeOK, baseRevision, EvalRecords
<1>QueuesTyped. QueuesTyped'
  BY <1>u, <1>f2 DEF NativeInv, QueuesTyped
<1>InboxKnown. InboxKnown'
  BY <1>t, <1>m, <1>u, <1>f3, <1>f4, <1>f5 DEF NativeInv, Fields, LogFields, Misses, InboxKnown,
     baseRevision, onceRevision
<1>CurrentKnown. CurrentKnown'
  BY <1>t, <1>u, <1>f7 DEF NativeInv, Fields, LogFields, CurrentFields, CurrentKnown, baseRevision,
     onceRevision
<1>EvalsKnown. EvalsKnown'
  BY <1>t, <1>u, <1>f13, <1>f16 DEF NativeInv, Fields, LogFields, EvalFields, EvalsKnown,
     baseRevision, onceRevision
<1>AskedAfterSent. AskedAfterSent'
  BY <1>t, <1>m, <1>u, <1>f3, <1>f4, <1>f5, <1>f13, <1>f16 DEF NativeInv, Fields, EvalFields,
     NativeFields, Misses, AskedAfterSent, InboxInLine
<1>InboxInLine. InboxInLine'
  BY <1>t, <1>m, <1>u, <1>f3, <1>f4, <1>f5 DEF NativeInv, Fields, NativeFields, Misses, InboxInLine
<1>CurrentInLine. CurrentInLine'
  BY <1>t, <1>m, <1>u, <1>f3, <1>f4, <1>f5, <1>f7 DEF NativeInv, Fields, CurrentFields,
     NativeFields, Misses, CurrentInLine, Nobody, InboxInLine
<1>AnswersInLine. AnswersInLine'
  BY <1>t, <1>m, <1>u, <1>f3, <1>f4, <1>f5, <1>f7 DEF NativeInv, Fields, CurrentFields,
     NativeFields, Misses, AnswersInLine, Nobody, InboxInLine
<1>Idling. Idling'
  BY <1>t, <1>u, <1>f5, <1>f7 DEF NativeInv, Fields, CurrentFields, Idling, Nobody
<1>UpUnasked. UpUnasked'
  <2> SUFFICES ASSUME NEW j \in UpMisses PROVE evals'[up[j].req].phase = "none"
    BY <1>u, <1>m DEF UpUnasked
  <2>1. up[j].req \in Requests /\ q < up[j].req /\ q \in Nat /\ evals[up[j].req].phase = "none"
    BY <1>m, <1>f4, <1>f5 DEF NativeInv, InboxInLine, UpUnasked, Misses
  <2>2. up[j].req # q
    BY <2>1
  <2> QED
    BY <1>f13, <2>1, <2>2
<1>InboxUnasked. InboxUnasked'
  <2> SUFFICES ASSUME NEW j \in InboxMisses' PROVE evals'[inbox'[j].req].phase = "none"
    BY DEF InboxUnasked
  <2>1. j + 1 \in InboxMisses /\ inbox'[j] = inbox[j + 1] /\ 1 < j + 1
    BY <1>f3
  <2>2. inbox[j + 1].req \in Requests /\ q < inbox[j + 1].req /\ q \in Nat /\ evals[inbox[j + 1].req].phase = "none"
    BY <1>m, <1>f4, <1>f5, <2>1 DEF NativeInv, InboxInLine, InboxUnasked, Misses
  <2>3. inbox[j + 1].req # q
    BY <2>2
  <2> QED
    BY <1>f13, <2>1, <2>2, <2>3
<1>ActiveIsCurrent. ActiveIsCurrent'
  BY <1>u, <1>f7, <1>f9, <1>f13, <1>f15 DEF ActiveIsCurrent, Active
<1>OneActive. OneActive'
  BY <1>f13, <1>f15, <1>f16 DEF NativeInv, OneActive, Active
<1>DoneIsCurrent. DoneIsCurrent'
  BY <1>f7, <1>f13 DEF DoneIsCurrent
<1>Decided. Decided'
  BY <1>t, <1>u, <1>f16 DEF NativeInv, Fields, EvalFields, Decided
<1>QueueOwners. QueueOwners'
  BY <1>t, <1>u, <1>f7, <1>f16 DEF NativeInv, QueueOwners, Elements, QueueElements, Nobody
<1>ResolvePublished. ResolvePublished'
  BY <1>t, <1>u, <1>f7 DEF NativeInv, Fields, CurrentFields, ResolvePublished
<1>CurrentSays. CurrentSays'
  BY <1>t, <1>u, <1>f7, <1>f16 DEF NativeInv, Fields, EvalFields, CurrentFields, CurrentSays,
     SaysEvaluated
<1>AnswersSay. AnswersSay'
  BY <1>t, <1>m, <1>u, <1>f16 DEF NativeInv, Fields, EvalFields, Misses, AnswersSay, SaysEvaluated
<1>EvaluatedLater. EvaluatedLater'
  BY <1>t, <1>u, <1>f16 DEF NativeInv, Fields, EvalFields, NativeFields, OpFields, EvaluatedLater,
     AwaitsLast, Nobody
<1>CurrentLater. CurrentLater'
  BY <1>t, <1>u, <1>f7 DEF NativeInv, Fields, CurrentFields, OpFields, CurrentLater
<1>CalmInbox. CalmInbox'
  BY <1>t, <1>m, <1>u, <1>f3, <1>f4, <1>f5, <1>f9 DEF NativeInv, Fields, NativeFields, OpFields,
     Misses, CalmInbox, Calm, Awaited
<1>CalmCurrent. CalmCurrent'
  BY <1>t, <1>m, <1>u, <1>f3, <1>f4, <1>f5, <1>f7, <1>f9 DEF NativeInv, Fields, CurrentFields,
     NativeFields, OpFields, Misses, CalmCurrent, Calm, Nobody, Awaited, CalmInbox
<1>CalmEvals. CalmEvals'
  BY <1>t, <1>u, <1>f9, <1>f16 DEF NativeInv, Fields, EvalFields, CalmEvals, Calm
<1>AbortCaused. AbortCaused'
  BY <1>t, <1>u, <1>f9 DEF NativeInv, Fields, AbortCaused
<1>QuietCurrent. QuietCurrent'
  BY <1>t, <1>u, <1>f7, <1>f9, <1>f16 DEF NativeInv, Fields, EvalFields, CurrentFields,
     QuietCurrent, SaysEvaluated
<1>QuietAnswers. QuietAnswers'
  BY <1>t, <1>m, <1>u, <1>f9, <1>f16 DEF NativeInv, Fields, EvalFields, Misses, QuietAnswers,
     SaysEvaluated
<1>QuietDenied. QuietDenied'
  BY <1>t, <1>u, <1>f9, <1>f16 DEF NativeInv, Fields, EvalFields, OpFields, QuietDenied, Nobody
<1>GrantsBacked. GrantsBacked'
  BY <1>u, <1>f16 DEF NativeInv, GrantsBacked, GrantBacked, BaseAt, OnceAt
<1>TargetEvaluated. TargetEvaluated'
  BY <1>t, <1>u, <1>f4, <1>f5, <1>f10, <1>f13 DEF NativeInv, TargetEvaluated, TargetTaken, Nobody, Fields, OpFields
<1>TargetTaken. TargetTaken'
  BY <1>t, <1>m, <1>u, <1>f3, <1>f4, <1>f5 DEF NativeInv, Fields, OpFields, Misses, TargetTaken,
     Nobody
<1>LetThrough. LetThrough'
  BY <1>t, <1>u, <1>f16 DEF NativeInv, Fields, EvalFields, OpFields, LetThrough, Nobody
<1>AllowedInForce. AllowedInForce'
  BY <1>t, <1>u, <1>f16 DEF NativeInv, Fields, LogFields, EvalFields, OpFields, AllowedInForce,
     baseRevision, Nobody, Lookup, BaseAt, OnceAt, LetThrough
<1>GrantNotLost. GrantNotLost'
  BY <1>t, <1>u, <1>f9, <1>f16 DEF NativeInv, Fields, LogFields, EvalFields, OpFields,
     GrantNotLost, Nobody, baseRevision, QuietDenied
<1> QED
  BY <1>s, <1>TypeOK, <1>QueuesTyped, <1>InboxKnown, <1>CurrentKnown, <1>EvalsKnown,
     <1>AskedAfterSent, <1>InboxInLine, <1>CurrentInLine, <1>AnswersInLine, <1>Idling,
     <1>UpUnasked, <1>InboxUnasked, <1>ActiveIsCurrent, <1>OneActive, <1>DoneIsCurrent, <1>Decided,
     <1>QueueOwners, <1>ResolvePublished, <1>CurrentSays, <1>AnswersSay, <1>EvaluatedLater,
     <1>CurrentLater, <1>CalmInbox, <1>CalmCurrent, <1>CalmEvals, <1>AbortCaused, <1>QuietCurrent,
     <1>QuietAnswers, <1>QuietDenied, <1>GrantsBacked, <1>TargetEvaluated, <1>TargetTaken,
     <1>LetThrough, <1>AllowedInForce, <1>GrantNotLost DEF NativeInv

\* resolveMiss after its await, with a decision: its revision is still the newest.
LEMMA ResumeEvaluatedKeeps ==
    ASSUME NativeInv, ResumeMiss(TRUE)
    PROVE  NativeInv'
<1>t. Fields /\ Elements
  BY FieldsHold, ElementsHold DEF NativeInv
<1>u. /\ baseLog' = baseLog /\ file' = file /\ baseClosed' = baseClosed /\ onceEngine' = onceEngine
      /\ onceLog' = onceLog /\ viewClosed' = viewClosed /\ evals' = evals /\ open' = open
      /\ inbox' = inbox /\ published' = published /\ synchronized' = synchronized /\ up' = up
      /\ down' = down /\ native' = native /\ lock' = lock /\ op' = op /\ cause' = cause
  BY DEF ResumeMiss, baseVars, viewVars, bridgeVars, nativeVars
<1>m. /\ Misses /\ UpMisses' = UpMisses /\ InboxMisses' = InboxMisses /\ Resolutions' = Resolutions
       /\ Onces' = Onces
  BY <1>u, MissesHold DEF NativeInv, UpMisses, InboxMisses, Resolutions, Onces
<1>f1. current \in [req : 0..MaxRequests, phase : {"idle", "evaluating", "publish", "resolve"},
                      base : Nat, once : Nat, decision : {"allow", "deny"}]
       /\ current.req \in Requests /\ current.req # Nobody
  BY <1>t DEF ResumeMiss, NativeInv, TypeOK, Idling, Fields, CurrentFields, Nobody
<1>f2. /\ baseRevision \in Nat /\ baseRevision' = baseRevision /\ onceRevision \in Nat /\ onceRevision' = onceRevision
  BY <1>t, <1>u DEF Fields, LogFields, baseRevision, onceRevision
<1>f3. /\ current.phase = "evaluating" /\ evals[current.req].phase = "done" /\ aborted' = aborted
  BY DEF ResumeMiss, NativeInv, TypeOK
<1>f4. /\ evals[current.req].once = onceRevision /\ evals[current.req].result \in {"allow", "deny"}
       /\ evals[current.req].base \in Nat
  BY <1>t, <1>f1, <1>f3 DEF NativeInv, DoneIsCurrent, Decided, Fields, EvalFields
<1>f5. current' = [current EXCEPT !.phase = "publish", !.base = evals[current.req].base, !.once = onceRevision, !.decision = evals[current.req].result]
  BY <1>f4 DEF ResumeMiss
<1>f6. /\ current'.req = current.req /\ current'.phase = "publish" /\ current'.base = evals[current.req].base /\ current'.once = onceRevision
       /\ current'.decision = evals[current.req].result /\ current'.req \in Requests
  <2>1. ASSUME NEW b \in Nat, NEW o \in Nat, NEW d \in {"allow", "deny"},
               current' = [current EXCEPT !.phase = "publish", !.base = b, !.once = o, !.decision = d]
        PROVE  /\ current'.req = current.req /\ current'.phase = "publish" /\ current'.base = b /\ current'.once = o
               /\ current'.decision = d /\ current'.req \in Requests
    BY <2>1, <1>f1
  <2> QED
    BY <2>1, <1>f2, <1>f4, <1>f5
<1>f7. current' \in [req : 0..MaxRequests, phase : {"idle", "evaluating", "publish", "resolve"},
                      base : Nat, once : Nat, decision : {"allow", "deny"}]
  <2>1. ASSUME NEW b \in Nat, NEW o \in Nat, NEW d \in {"allow", "deny"},
               current' = [current EXCEPT !.phase = "publish", !.base = b, !.once = o, !.decision = d]
        PROVE  current' \in [req : 0..MaxRequests, phase : {"idle", "evaluating", "publish", "resolve"},
                          base : Nat, once : Nat, decision : {"allow", "deny"}]
    BY <2>1, <1>f1
  <2> QED
    BY <2>1, <1>f2, <1>f4, <1>f5
<1>f8. publications' = Append(publications, [rev |-> current'.once, by |-> "miss", req |-> current.req])
  BY DEF ResumeMiss
<1>f9. [rev |-> current'.once, by |-> "miss", req |-> current.req] \in Publications /\ publications \in Seq(Publications)
  BY <1>f1, <1>f2, <1>f6, BoundsAssumption DEF NativeInv, QueuesTyped, Publications
<1>f10. /\ publications' \in Seq(Publications) /\ Len(publications) \in Nat /\ Len(publications') = Len(publications) + 1
        /\ \A i \in 1..Len(publications) : publications'[i] = publications[i]
        /\ publications'[Len(publications) + 1] = [rev |-> current'.once, by |-> "miss", req |-> current.req]
  BY <1>f8, <1>f9, Appended
<1>f11. \A i \in 1..Len(publications) : publications[i].by # "miss"
  BY DEF ResumeMiss, NativeInv, QueueOwners
<1>f12. \A s \in Requests : ~Active(s)
  BY <1>f3 DEF NativeInv, DoneIsCurrent
<1>s. /\ NativeBehind' /\ FileCurrent' /\ UpKnown' /\ InboxKnown' /\ EvalsKnown' /\ AnswersKnown'
      /\ OpsKnown' /\ FirstRevision' /\ NotServing' /\ NothingAsked' /\ AskedAfterSent'
      /\ ReadyFirst' /\ LockHeld' /\ AwaitsLast' /\ RequestLeft' /\ UpInLine' /\ InboxInLine'
      /\ UpUnasked' /\ InboxUnasked' /\ OneActive' /\ Decided' /\ PublishedKnown'
      /\ NativePublished' /\ OncesForward' /\ LastArrives' /\ AnswersCovered' /\ AnswersSay'
      /\ LookupFresh' /\ AwaitFresh' /\ EvaluatedLater' /\ AnswersLater' /\ CalmMount' /\ CalmUp'
      /\ CalmInbox' /\ CalmAnswers' /\ CalmEvals' /\ QuietAnswers' /\ QuietDenied' /\ LogStays'
      /\ EngineStays' /\ GrantsBacked' /\ TargetEvaluated' /\ TargetSent' /\ TargetTaken'
      /\ LetThrough' /\ AllowedInForce' /\ GrantNotLost'
  BY <1>u, SameNativeBehind, SameFileCurrent, SameUpKnown, SameInboxKnown, SameEvalsKnown,
     SameAnswersKnown, SameOpsKnown, SameFirstRevision, SameNotServing, SameNothingAsked,
     SameAskedAfterSent, SameReadyFirst, SameLockHeld, SameAwaitsLast, SameRequestLeft,
     SameUpInLine, SameInboxInLine, SameUpUnasked, SameInboxUnasked, SameOneActive, SameDecided,
     SamePublishedKnown, SameNativePublished, SameOncesForward, SameLastArrives,
     SameAnswersCovered, SameAnswersSay, SameLookupFresh, SameAwaitFresh, SameEvaluatedLater,
     SameAnswersLater, SameCalmMount, SameCalmUp, SameCalmInbox, SameCalmAnswers, SameCalmEvals,
     SameQuietAnswers, SameQuietDenied, SameLogStays, SameEngineStays, SameGrantsBacked,
     SameTargetEvaluated, SameTargetSent, SameTargetTaken, SameLetThrough, SameAllowedInForce,
     SameGrantNotLost DEF NativeInv
<1>v1. /\ QueueForward' /\ QueueOnce'
  BY <1>u, <1>f2, <1>f6, <1>f8, <1>f9, <1>f11, QueueAppends
<1>TypeOK. TypeOK'
  BY <1>u, <1>f3, <1>f7 DEF NativeInv, TypeOK, baseRevision
<1>QueuesTyped. QueuesTyped'
  BY <1>u, <1>f10 DEF NativeInv, QueuesTyped
<1>CurrentKnown. CurrentKnown'
  BY <1>t, <1>u, <1>f1, <1>f2, <1>f3, <1>f4, <1>f6 DEF NativeInv, Fields, LogFields, EvalFields,
     CurrentFields, CurrentKnown, EvalsKnown
<1>NotSynchronized. NotSynchronized'
  BY <1>t, <1>u, <1>f1, <1>f3 DEF NativeInv, NotSynchronized, AskedAfterSent, NotServing, Fields, EvalFields
<1>CurrentInLine. CurrentInLine'
  BY <1>t, <1>m, <1>u, <1>f3, <1>f6 DEF NativeInv, Fields, CurrentFields, NativeFields, Misses,
     CurrentInLine, Nobody
<1>AnswersInLine. AnswersInLine'
  BY <1>t, <1>m, <1>u, <1>f3, <1>f6 DEF NativeInv, Fields, CurrentFields, NativeFields, Misses,
     AnswersInLine, Nobody
<1>Idling. Idling'
  BY <1>t, <1>u, <1>f1, <1>f3, <1>f6 DEF NativeInv, Fields, CurrentFields, Idling, Nobody
<1>ActiveIsCurrent. ActiveIsCurrent'
  BY <1>u, <1>f12 DEF ActiveIsCurrent, Active
<1>DoneIsCurrent. DoneIsCurrent'
  BY <1>f6 DEF DoneIsCurrent
<1>QueueOwners. QueueOwners'
  <2> SUFFICES ASSUME NEW i \in 1..Len(publications')
               PROVE  LET p == publications'[i] IN
                      /\ p.by = "view" => p.req # Nobody /\ evals[p.req].phase = "publishing"
                      /\ p.by = "miss" => current'.phase = "publish" /\ p.req = current'.req /\ p.rev = current'.once
    BY <1>u DEF QueueOwners
  <2>1. i \in 1..Len(publications) \/ i = Len(publications) + 1
    BY <1>f10
  <2>2. CASE i \in 1..Len(publications)
    BY <2>2, <1>f10, <1>f11 DEF NativeInv, QueueOwners
  <2>3. CASE i = Len(publications) + 1
    <3>1. publications'[i] = [rev |-> current'.once, by |-> "miss", req |-> current.req]
      BY <2>3, <1>f10
    <3> QED
      BY <3>1, <1>f6
  <2> QED
    BY <2>1, <2>2, <2>3
<1>ResolvePublished. ResolvePublished'
  BY <1>f6 DEF ResolvePublished
<1>CurrentSays. CurrentSays'
  BY <1>u, <1>f3, <1>f4, <1>f6 DEF CurrentSays, SaysEvaluated
<1>CurrentLater. CurrentLater'
  BY <1>u, <1>f3, <1>f4, <1>f6 DEF NativeInv, CurrentLater, EvaluatedLater
<1>CalmCurrent. CalmCurrent'
  BY <1>t, <1>u, <1>f3, <1>f6 DEF NativeInv, Fields, CurrentFields, NativeFields, OpFields,
     CalmCurrent, Calm, Nobody, Awaited
<1>AbortCaused. AbortCaused'
  BY <1>t, <1>u, <1>f3 DEF NativeInv, Fields, AbortCaused
<1>QuietCurrent. QuietCurrent'
  BY <1>u, <1>f3, <1>f4, <1>f6 DEF QuietCurrent, SaysEvaluated
<1> QED
  BY <1>s, <1>v1, <1>TypeOK, <1>QueuesTyped, <1>CurrentKnown, <1>NotSynchronized, <1>CurrentInLine,
     <1>AnswersInLine, <1>Idling, <1>ActiveIsCurrent, <1>DoneIsCurrent, <1>QueueOwners,
     <1>ResolvePublished, <1>CurrentSays, <1>CurrentLater, <1>CalmCurrent, <1>AbortCaused,
     <1>QuietCurrent DEF NativeInv

\* Without one, it ends when view or base is closed,
LEMMA ResumeClosedKeeps ==
    ASSUME NativeInv, ResumeMiss(FALSE), viewClosed \/ baseClosed
    PROVE  NativeInv'
<1>t. Fields /\ Elements
  BY FieldsHold, ElementsHold DEF NativeInv
<1>u. /\ baseLog' = baseLog /\ file' = file /\ baseClosed' = baseClosed /\ onceEngine' = onceEngine
      /\ onceLog' = onceLog /\ viewClosed' = viewClosed /\ evals' = evals /\ inbox' = inbox
      /\ publications' = publications /\ published' = published /\ synchronized' = synchronized
      /\ up' = up /\ down' = down /\ native' = native /\ lock' = lock /\ op' = op /\ cause' = cause
  BY DEF ResumeMiss, baseVars, viewVars, bridgeVars, nativeVars
<1>m. /\ Misses /\ UpMisses' = UpMisses /\ InboxMisses' = InboxMisses /\ Resolutions' = Resolutions
       /\ Onces' = Onces
  BY <1>u, MissesHold DEF NativeInv, UpMisses, InboxMisses, Resolutions, Onces
<1>f1. /\ current.phase = "evaluating" /\ current' = NoMiss /\ open' = FALSE /\ aborted' = TRUE /\ "fault" \in cause
  BY DEF ResumeMiss, NativeInv, TypeOK, CalmMount, Calm
<1>f2. /\ current'.req = Nobody /\ current'.phase = "idle" /\ current'.base = 0 /\ current'.once = 0 /\ current'.decision = "deny"
  BY <1>f1, NoneTyped
<1>f3. current' \in [req : 0..MaxRequests, phase : {"idle", "evaluating", "publish", "resolve"},
                      base : Nat, once : Nat, decision : {"allow", "deny"}]
  BY <1>f1, BoundsAssumption DEF NoMiss, Nobody
<1>f4. \A i \in 1..Len(publications) : publications[i].by # "miss"
  BY DEF ResumeMiss, NativeInv, QueueOwners
<1>s. /\ QueuesTyped' /\ NativeBehind' /\ UpKnown' /\ InboxKnown' /\ EvalsKnown' /\ AnswersKnown'
      /\ OpsKnown' /\ FirstRevision' /\ NotSynchronized' /\ NotServing' /\ NothingAsked'
      /\ AskedAfterSent' /\ ReadyFirst' /\ LockHeld' /\ AwaitsLast' /\ RequestLeft' /\ UpInLine'
      /\ InboxInLine' /\ UpUnasked' /\ InboxUnasked' /\ OneActive' /\ Decided' /\ PublishedKnown'
      /\ QueueForward' /\ QueueOnce' /\ NativePublished' /\ OncesForward' /\ LastArrives'
      /\ AnswersCovered' /\ AnswersSay' /\ AwaitFresh' /\ EvaluatedLater' /\ AnswersLater'
      /\ CalmUp' /\ CalmInbox' /\ CalmAnswers' /\ CalmEvals' /\ QuietAnswers' /\ QuietDenied'
      /\ LogStays' /\ EngineStays' /\ GrantsBacked' /\ TargetEvaluated' /\ TargetSent'
      /\ TargetTaken' /\ LetThrough' /\ AllowedInForce' /\ GrantNotLost'
  BY <1>u, SameQueuesTyped, SameNativeBehind, SameUpKnown, SameInboxKnown, SameEvalsKnown,
     SameAnswersKnown, SameOpsKnown, SameFirstRevision, SameNotSynchronized, SameNotServing,
     SameNothingAsked, SameAskedAfterSent, SameReadyFirst, SameLockHeld, SameAwaitsLast,
     SameRequestLeft, SameUpInLine, SameInboxInLine, SameUpUnasked, SameInboxUnasked,
     SameOneActive, SameDecided, SamePublishedKnown, SameQueueForward, SameQueueOnce,
     SameNativePublished, SameOncesForward, SameLastArrives, SameAnswersCovered, SameAnswersSay,
     SameAwaitFresh, SameEvaluatedLater, SameAnswersLater, SameCalmUp, SameCalmInbox,
     SameCalmAnswers, SameCalmEvals, SameQuietAnswers, SameQuietDenied, SameLogStays,
     SameEngineStays, SameGrantsBacked, SameTargetEvaluated, SameTargetSent, SameTargetTaken,
     SameLetThrough, SameAllowedInForce, SameGrantNotLost DEF NativeInv
<1>TypeOK. TypeOK'
  BY <1>u, <1>f1, <1>f3 DEF NativeInv, TypeOK, baseRevision
<1>FileCurrent. FileCurrent'
  BY <1>t, <1>u, <1>f1 DEF NativeInv, Fields, LogFields, FileCurrent, baseRevision
<1>CurrentKnown. CurrentKnown'
  BY <1>t, <1>u, <1>f1, <1>f2 DEF NativeInv, Fields, LogFields, CurrentFields, CurrentKnown,
     baseRevision, onceRevision, NoMiss
<1>CurrentInLine. CurrentInLine'
  BY <1>t, <1>m, <1>u, <1>f1, <1>f2 DEF NativeInv, Fields, CurrentFields, NativeFields, Misses,
     CurrentInLine, Nobody
<1>AnswersInLine. AnswersInLine'
  BY <1>t, <1>m, <1>u, <1>f1, <1>f2 DEF NativeInv, Fields, CurrentFields, NativeFields, Misses,
     AnswersInLine, Nobody
<1>Idling. Idling'
  BY <1>t, <1>u, <1>f1, <1>f2 DEF NativeInv, Fields, CurrentFields, Idling, Nobody
<1>ActiveIsCurrent. ActiveIsCurrent'
  BY <1>t, <1>u, <1>f1, <1>f2 DEF NativeInv, Fields, EvalFields, CurrentFields, ActiveIsCurrent,
     Active
<1>DoneIsCurrent. DoneIsCurrent'
  BY <1>t, <1>u, <1>f1, <1>f2 DEF NativeInv, Fields, LogFields, EvalFields, CurrentFields,
     DoneIsCurrent, Active, onceRevision
<1>QueueOwners. QueueOwners'
  BY <1>u, <1>f4 DEF NativeInv, QueueOwners
<1>ResolvePublished. ResolvePublished'
  BY <1>t, <1>u, <1>f1, <1>f2 DEF NativeInv, Fields, CurrentFields, ResolvePublished
<1>CurrentSays. CurrentSays'
  BY <1>t, <1>u, <1>f1, <1>f2 DEF NativeInv, Fields, EvalFields, CurrentFields, CurrentSays,
     SaysEvaluated
<1>LookupFresh. LookupFresh'
  BY <1>t, <1>u, <1>f1 DEF NativeInv, Fields, NativeFields, OpFields, LookupFresh
<1>CurrentLater. CurrentLater'
  BY <1>t, <1>u, <1>f1, <1>f2 DEF NativeInv, Fields, CurrentFields, OpFields, CurrentLater
<1>CalmMount. CalmMount'
  BY <1>t, <1>u, <1>f1 DEF NativeInv, Fields, NativeFields, CalmMount, Calm
<1>CalmCurrent. CalmCurrent'
  BY <1>t, <1>u, <1>f1, <1>f2 DEF NativeInv, Fields, CurrentFields, NativeFields, OpFields,
     CalmCurrent, Calm, Nobody, Awaited
<1>AbortCaused. AbortCaused'
  BY <1>t, <1>u, <1>f1 DEF NativeInv, Fields, AbortCaused
<1>QuietCurrent. QuietCurrent'
  BY <1>t, <1>u, <1>f1, <1>f2 DEF NativeInv, Fields, EvalFields, CurrentFields, QuietCurrent,
     SaysEvaluated
<1> QED
  BY <1>s, <1>TypeOK, <1>FileCurrent, <1>CurrentKnown, <1>CurrentInLine, <1>AnswersInLine,
     <1>Idling, <1>ActiveIsCurrent, <1>DoneIsCurrent, <1>QueueOwners, <1>ResolvePublished,
     <1>CurrentSays, <1>LookupFresh, <1>CurrentLater, <1>CalmMount, <1>CalmCurrent, <1>AbortCaused,
     <1>QuietCurrent DEF NativeInv

\* or answers DENY at the current revisions.
LEMMA ResumeRefusedKeeps ==
    ASSUME NativeInv, ResumeMiss(FALSE), ~viewClosed, ~baseClosed
    PROVE  NativeInv'
<1>t. Fields /\ Elements
  BY FieldsHold, ElementsHold DEF NativeInv
<1>u. /\ baseLog' = baseLog /\ file' = file /\ baseClosed' = baseClosed /\ onceEngine' = onceEngine
      /\ onceLog' = onceLog /\ viewClosed' = viewClosed /\ evals' = evals /\ open' = open
      /\ inbox' = inbox /\ published' = published /\ synchronized' = synchronized /\ up' = up
      /\ down' = down /\ native' = native /\ lock' = lock /\ op' = op /\ cause' = cause
  BY DEF ResumeMiss, Abandoned, baseVars, viewVars, bridgeVars, nativeVars
<1>m. /\ Misses /\ UpMisses' = UpMisses /\ InboxMisses' = InboxMisses /\ Resolutions' = Resolutions
       /\ Onces' = Onces
  BY <1>u, MissesHold DEF NativeInv, UpMisses, InboxMisses, Resolutions, Onces
<1>f1. current \in [req : 0..MaxRequests, phase : {"idle", "evaluating", "publish", "resolve"},
                      base : Nat, once : Nat, decision : {"allow", "deny"}]
       /\ current.req \in Requests /\ current.req # Nobody
  BY <1>t DEF ResumeMiss, Abandoned, NativeInv, TypeOK, Idling, Fields, CurrentFields, Nobody
<1>f2. /\ baseRevision \in Nat /\ baseRevision' = baseRevision /\ onceRevision \in Nat /\ onceRevision' = onceRevision
  BY <1>t, <1>u DEF Fields, LogFields, baseRevision, onceRevision
<1>f3. /\ current.phase = "evaluating" /\ aborted' = TRUE /\ cause # {}
  BY <1>f1 DEF ResumeMiss, Abandoned, NativeInv, TypeOK, CalmEvals, Calm, AbortCaused
<1>f4. file \in 0..baseRevision
  BY DEF NativeInv, TypeOK
<1>f5. current' = [current EXCEPT !.phase = "publish", !.base = baseRevision, !.once = onceRevision, !.decision = "deny"]
  BY DEF ResumeMiss, Abandoned
<1>f6. /\ current'.req = current.req /\ current'.phase = "publish" /\ current'.base = baseRevision /\ current'.once = onceRevision
       /\ current'.decision = "deny" /\ current'.req \in Requests
  <2>1. ASSUME NEW b \in Nat, NEW o \in Nat, NEW d \in {"allow", "deny"},
               current' = [current EXCEPT !.phase = "publish", !.base = b, !.once = o, !.decision = d]
        PROVE  /\ current'.req = current.req /\ current'.phase = "publish" /\ current'.base = b /\ current'.once = o
               /\ current'.decision = d /\ current'.req \in Requests
    BY <2>1, <1>f1
  <2> QED
    BY <2>1, <1>f2, <1>f5
<1>f7. current' \in [req : 0..MaxRequests, phase : {"idle", "evaluating", "publish", "resolve"},
                      base : Nat, once : Nat, decision : {"allow", "deny"}]
  <2>1. ASSUME NEW b \in Nat, NEW o \in Nat, NEW d \in {"allow", "deny"},
               current' = [current EXCEPT !.phase = "publish", !.base = b, !.once = o, !.decision = d]
        PROVE  current' \in [req : 0..MaxRequests, phase : {"idle", "evaluating", "publish", "resolve"},
                          base : Nat, once : Nat, decision : {"allow", "deny"}]
    BY <2>1, <1>f1
  <2> QED
    BY <2>1, <1>f2, <1>f5
<1>f8. publications' = Append(publications, [rev |-> current'.once, by |-> "miss", req |-> current.req])
  BY DEF ResumeMiss, Abandoned
<1>f9. [rev |-> current'.once, by |-> "miss", req |-> current.req] \in Publications /\ publications \in Seq(Publications)
  BY <1>f1, <1>f2, <1>f6, BoundsAssumption DEF NativeInv, QueuesTyped, Publications
<1>f10. /\ publications' \in Seq(Publications) /\ Len(publications) \in Nat /\ Len(publications') = Len(publications) + 1
        /\ \A i \in 1..Len(publications) : publications'[i] = publications[i]
        /\ publications'[Len(publications) + 1] = [rev |-> current'.once, by |-> "miss", req |-> current.req]
  BY <1>f8, <1>f9, Appended
<1>f11. \A i \in 1..Len(publications) : publications[i].by # "miss"
  BY DEF ResumeMiss, Abandoned, NativeInv, QueueOwners
<1>s. /\ NativeBehind' /\ FileCurrent' /\ UpKnown' /\ InboxKnown' /\ EvalsKnown' /\ AnswersKnown'
      /\ OpsKnown' /\ FirstRevision' /\ NotServing' /\ NothingAsked' /\ AskedAfterSent'
      /\ ReadyFirst' /\ LockHeld' /\ AwaitsLast' /\ RequestLeft' /\ UpInLine' /\ InboxInLine'
      /\ UpUnasked' /\ InboxUnasked' /\ OneActive' /\ Decided' /\ PublishedKnown'
      /\ NativePublished' /\ OncesForward' /\ LastArrives' /\ AnswersCovered' /\ AnswersSay'
      /\ LookupFresh' /\ AwaitFresh' /\ EvaluatedLater' /\ AnswersLater' /\ CalmMount' /\ CalmUp'
      /\ CalmInbox' /\ CalmAnswers' /\ CalmEvals' /\ QuietAnswers' /\ QuietDenied' /\ LogStays'
      /\ EngineStays' /\ GrantsBacked' /\ TargetEvaluated' /\ TargetSent' /\ TargetTaken'
      /\ LetThrough' /\ AllowedInForce' /\ GrantNotLost'
  BY <1>u, SameNativeBehind, SameFileCurrent, SameUpKnown, SameInboxKnown, SameEvalsKnown,
     SameAnswersKnown, SameOpsKnown, SameFirstRevision, SameNotServing, SameNothingAsked,
     SameAskedAfterSent, SameReadyFirst, SameLockHeld, SameAwaitsLast, SameRequestLeft,
     SameUpInLine, SameInboxInLine, SameUpUnasked, SameInboxUnasked, SameOneActive, SameDecided,
     SamePublishedKnown, SameNativePublished, SameOncesForward, SameLastArrives,
     SameAnswersCovered, SameAnswersSay, SameLookupFresh, SameAwaitFresh, SameEvaluatedLater,
     SameAnswersLater, SameCalmMount, SameCalmUp, SameCalmInbox, SameCalmAnswers, SameCalmEvals,
     SameQuietAnswers, SameQuietDenied, SameLogStays, SameEngineStays, SameGrantsBacked,
     SameTargetEvaluated, SameTargetSent, SameTargetTaken, SameLetThrough, SameAllowedInForce,
     SameGrantNotLost DEF NativeInv
<1>v1. /\ QueueForward' /\ QueueOnce'
  BY <1>u, <1>f2, <1>f6, <1>f8, <1>f9, <1>f11, QueueAppends
<1>TypeOK. TypeOK'
  BY <1>u, <1>f3, <1>f7 DEF NativeInv, TypeOK, baseRevision
<1>QueuesTyped. QueuesTyped'
  BY <1>u, <1>f10 DEF NativeInv, QueuesTyped
<1>CurrentKnown. CurrentKnown'
  BY <1>f2, <1>f6 DEF CurrentKnown
<1>NotSynchronized. NotSynchronized'
  BY <1>t, <1>u, <1>f1, <1>f3 DEF NativeInv, NotSynchronized, CurrentInLine, NotServing, Fields, EvalFields, CurrentFields, Nobody
<1>CurrentInLine. CurrentInLine'
  BY <1>t, <1>m, <1>u, <1>f3, <1>f6 DEF NativeInv, Fields, CurrentFields, NativeFields, Misses,
     CurrentInLine, Nobody
<1>AnswersInLine. AnswersInLine'
  BY <1>t, <1>m, <1>u, <1>f3, <1>f6 DEF NativeInv, Fields, CurrentFields, NativeFields, Misses,
     AnswersInLine, Nobody
<1>Idling. Idling'
  BY <1>t, <1>u, <1>f1, <1>f3, <1>f6 DEF NativeInv, Fields, CurrentFields, Idling, Nobody
<1>ActiveIsCurrent. ActiveIsCurrent'
  BY <1>f3 DEF ActiveIsCurrent, Active
<1>DoneIsCurrent. DoneIsCurrent'
  BY <1>f6 DEF DoneIsCurrent
<1>QueueOwners. QueueOwners'
  <2> SUFFICES ASSUME NEW i \in 1..Len(publications')
               PROVE  LET p == publications'[i] IN
                      /\ p.by = "view" => p.req # Nobody /\ evals[p.req].phase = "publishing"
                      /\ p.by = "miss" => current'.phase = "publish" /\ p.req = current'.req /\ p.rev = current'.once
    BY <1>u DEF QueueOwners
  <2>1. i \in 1..Len(publications) \/ i = Len(publications) + 1
    BY <1>f10
  <2>2. CASE i \in 1..Len(publications)
    BY <2>2, <1>f10, <1>f11 DEF NativeInv, QueueOwners
  <2>3. CASE i = Len(publications) + 1
    <3>1. publications'[i] = [rev |-> current'.once, by |-> "miss", req |-> current.req]
      BY <2>3, <1>f10
    <3> QED
      BY <3>1, <1>f6
  <2> QED
    BY <2>1, <2>2, <2>3
<1>ResolvePublished. ResolvePublished'
  BY <1>f6 DEF ResolvePublished
<1>CurrentSays. CurrentSays'
  BY <1>f6 DEF CurrentSays
<1>CurrentLater. CurrentLater'
  BY <1>t, <1>u, <1>f2, <1>f4, <1>f6 DEF NativeInv, CurrentLater, OpsKnown, NativeBehind, Fields, OpFields, NativeFields
<1>CalmCurrent. CalmCurrent'
  BY <1>t, <1>u, <1>f3, <1>f6 DEF NativeInv, Fields, CurrentFields, NativeFields, OpFields,
     CalmCurrent, Calm, Nobody, Awaited
<1>AbortCaused. AbortCaused'
  BY <1>t, <1>u, <1>f3 DEF NativeInv, Fields, AbortCaused
<1>QuietCurrent. QuietCurrent'
  BY <1>u, <1>f3 DEF QuietCurrent
<1> QED
  BY <1>s, <1>v1, <1>TypeOK, <1>QueuesTyped, <1>CurrentKnown, <1>NotSynchronized, <1>CurrentInLine,
     <1>AnswersInLine, <1>Idling, <1>ActiveIsCurrent, <1>DoneIsCurrent, <1>QueueOwners,
     <1>ResolvePublished, <1>CurrentSays, <1>CurrentLater, <1>CalmCurrent, <1>AbortCaused,
     <1>QuietCurrent DEF NativeInv

\* The resolution is written after its ONCE snapshot, unless the socket is gone.
LEMMA WriteLostKeeps ==
    ASSUME NativeInv, WriteResolution, ~open
    PROVE  NativeInv'
<1>t. Fields /\ Elements
  BY FieldsHold, ElementsHold DEF NativeInv
<1>u. /\ baseLog' = baseLog /\ file' = file /\ baseClosed' = baseClosed /\ onceEngine' = onceEngine
      /\ onceLog' = onceLog /\ viewClosed' = viewClosed /\ evals' = evals /\ aborted' = aborted
      /\ open' = open /\ inbox' = inbox /\ publications' = publications /\ published' = published
      /\ synchronized' = synchronized /\ up' = up /\ down' = down /\ native' = native
      /\ lock' = lock /\ op' = op /\ cause' = cause
  BY DEF WriteResolution, baseVars, viewVars, bridgeVars, nativeVars
<1>m. /\ Misses /\ UpMisses' = UpMisses /\ InboxMisses' = InboxMisses /\ Resolutions' = Resolutions
       /\ Onces' = Onces
  BY <1>u, MissesHold DEF NativeInv, UpMisses, InboxMisses, Resolutions, Onces
<1>f1. /\ current.phase = "resolve" /\ current' = NoMiss
  BY DEF WriteResolution
<1>f2. /\ current'.req = Nobody /\ current'.phase = "idle" /\ current'.base = 0 /\ current'.once = 0 /\ current'.decision = "deny"
  BY <1>f1, NoneTyped
<1>f3. current' \in [req : 0..MaxRequests, phase : {"idle", "evaluating", "publish", "resolve"},
                      base : Nat, once : Nat, decision : {"allow", "deny"}]
  BY <1>f1, BoundsAssumption DEF NoMiss, Nobody
<1>f4. \A i \in 1..Len(publications) : publications[i].by # "miss"
  BY <1>f1 DEF NativeInv, QueueOwners
<1>s. /\ QueuesTyped' /\ NativeBehind' /\ FileCurrent' /\ UpKnown' /\ InboxKnown' /\ EvalsKnown'
      /\ AnswersKnown' /\ OpsKnown' /\ FirstRevision' /\ NotSynchronized' /\ NotServing'
      /\ NothingAsked' /\ AskedAfterSent' /\ ReadyFirst' /\ LockHeld' /\ AwaitsLast'
      /\ RequestLeft' /\ UpInLine' /\ InboxInLine' /\ UpUnasked' /\ InboxUnasked' /\ OneActive'
      /\ Decided' /\ PublishedKnown' /\ QueueForward' /\ QueueOnce' /\ NativePublished'
      /\ OncesForward' /\ LastArrives' /\ AnswersCovered' /\ AnswersSay' /\ LookupFresh'
      /\ AwaitFresh' /\ EvaluatedLater' /\ AnswersLater' /\ CalmMount' /\ CalmUp' /\ CalmInbox'
      /\ CalmAnswers' /\ CalmEvals' /\ AbortCaused' /\ QuietAnswers' /\ QuietDenied' /\ LogStays'
      /\ EngineStays' /\ GrantsBacked' /\ TargetEvaluated' /\ TargetSent' /\ TargetTaken'
      /\ LetThrough' /\ AllowedInForce' /\ GrantNotLost'
  BY <1>u, SameQueuesTyped, SameNativeBehind, SameFileCurrent, SameUpKnown, SameInboxKnown,
     SameEvalsKnown, SameAnswersKnown, SameOpsKnown, SameFirstRevision, SameNotSynchronized,
     SameNotServing, SameNothingAsked, SameAskedAfterSent, SameReadyFirst, SameLockHeld,
     SameAwaitsLast, SameRequestLeft, SameUpInLine, SameInboxInLine, SameUpUnasked,
     SameInboxUnasked, SameOneActive, SameDecided, SamePublishedKnown, SameQueueForward,
     SameQueueOnce, SameNativePublished, SameOncesForward, SameLastArrives, SameAnswersCovered,
     SameAnswersSay, SameLookupFresh, SameAwaitFresh, SameEvaluatedLater, SameAnswersLater,
     SameCalmMount, SameCalmUp, SameCalmInbox, SameCalmAnswers, SameCalmEvals, SameAbortCaused,
     SameQuietAnswers, SameQuietDenied, SameLogStays, SameEngineStays, SameGrantsBacked,
     SameTargetEvaluated, SameTargetSent, SameTargetTaken, SameLetThrough, SameAllowedInForce,
     SameGrantNotLost DEF NativeInv
<1>TypeOK. TypeOK'
  BY <1>u, <1>f3 DEF NativeInv, TypeOK, baseRevision
<1>CurrentKnown. CurrentKnown'
  BY <1>t, <1>u, <1>f2 DEF CurrentKnown, baseRevision, onceRevision, Fields, LogFields
<1>CurrentInLine. CurrentInLine'
  BY <1>t, <1>m, <1>u, <1>f1, <1>f2 DEF NativeInv, Fields, CurrentFields, NativeFields, Misses,
     CurrentInLine, Nobody
<1>AnswersInLine. AnswersInLine'
  BY <1>t, <1>m, <1>u, <1>f1, <1>f2 DEF NativeInv, Fields, CurrentFields, NativeFields, Misses,
     AnswersInLine, Nobody
<1>Idling. Idling'
  BY <1>t, <1>u, <1>f1, <1>f2 DEF NativeInv, Fields, CurrentFields, Idling, Nobody
<1>ActiveIsCurrent. ActiveIsCurrent'
  BY <1>u, <1>f1 DEF NativeInv, ActiveIsCurrent, Active
<1>DoneIsCurrent. DoneIsCurrent'
  BY <1>t, <1>u, <1>f1, <1>f2 DEF NativeInv, Fields, LogFields, EvalFields, CurrentFields,
     DoneIsCurrent, Active, onceRevision
<1>QueueOwners. QueueOwners'
  BY <1>u, <1>f4 DEF NativeInv, QueueOwners
<1>ResolvePublished. ResolvePublished'
  BY <1>t, <1>u, <1>f1, <1>f2 DEF NativeInv, Fields, CurrentFields, ResolvePublished
<1>CurrentSays. CurrentSays'
  BY <1>t, <1>u, <1>f1, <1>f2 DEF NativeInv, Fields, EvalFields, CurrentFields, CurrentSays,
     SaysEvaluated
<1>CurrentLater. CurrentLater'
  BY <1>t, <1>u, <1>f1, <1>f2 DEF NativeInv, Fields, CurrentFields, OpFields, CurrentLater
<1>CalmCurrent. CalmCurrent'
  BY <1>t, <1>u, <1>f1, <1>f2 DEF NativeInv, Fields, CurrentFields, NativeFields, OpFields,
     CalmCurrent, Calm, Nobody, Awaited
<1>QuietCurrent. QuietCurrent'
  BY <1>t, <1>u, <1>f1, <1>f2 DEF NativeInv, Fields, EvalFields, CurrentFields, QuietCurrent,
     SaysEvaluated
<1> QED
  BY <1>s, <1>TypeOK, <1>CurrentKnown, <1>CurrentInLine, <1>AnswersInLine, <1>Idling,
     <1>ActiveIsCurrent, <1>DoneIsCurrent, <1>QueueOwners, <1>ResolvePublished, <1>CurrentSays,
     <1>CurrentLater, <1>CalmCurrent, <1>QuietCurrent DEF NativeInv

\* It is the answer to the last miss taken up.
LEMMA WriteResolutionKeeps ==
    ASSUME NativeInv, WriteResolution, open
    PROVE  NativeInv'
<1>t. Fields /\ Elements
  BY FieldsHold, ElementsHold DEF NativeInv
<1>q. QueuesTyped
  BY DEF NativeInv
<1>u. /\ baseLog' = baseLog /\ file' = file /\ baseClosed' = baseClosed /\ onceEngine' = onceEngine
      /\ onceLog' = onceLog /\ viewClosed' = viewClosed /\ evals' = evals /\ aborted' = aborted
      /\ open' = open /\ inbox' = inbox /\ publications' = publications /\ published' = published
      /\ synchronized' = synchronized /\ up' = up /\ native' = native /\ lock' = lock /\ op' = op
      /\ cause' = cause
  BY DEF WriteResolution, baseVars, viewVars, bridgeVars, nativeVars
<1>m. /\ Misses /\ UpMisses' = UpMisses /\ InboxMisses' = InboxMisses
  BY <1>u, MissesHold DEF NativeInv, UpMisses, InboxMisses
<1>f1. /\ current.phase = "resolve" /\ current' = NoMiss
  BY DEF WriteResolution
<1>f2. /\ current'.req = Nobody /\ current'.phase = "idle" /\ current'.base = 0 /\ current'.once = 0 /\ current'.decision = "deny"
  BY <1>f1, NoneTyped
<1>f3. current' \in [req : 0..MaxRequests, phase : {"idle", "evaluating", "publish", "resolve"},
                      base : Nat, once : Nat, decision : {"allow", "deny"}]
  BY <1>f1, BoundsAssumption DEF NoMiss, Nobody
<1>f4. \A i \in 1..Len(publications) : publications[i].by # "miss"
  BY <1>f1 DEF NativeInv, QueueOwners
<1>f5. /\ current.req \in Requests /\ current.req # Nobody /\ current.req \in Nat
       /\ current.base \in Nat /\ current.once \in Nat /\ current.decision \in {"allow", "deny"}
  BY <1>t, <1>f1 DEF NativeInv, TypeOK, Idling, Fields, CurrentFields, Nobody
<1>f6. PICK f \in DownFrames : /\ down' = Append(down, f) /\ f.kind = "resolution" /\ f.req = current.req
                            /\ f.base = current.base /\ f.once = current.once /\ f.decision = current.decision
  <2> DEFINE g == [kind |-> "resolution", req |-> current.req, base |-> current.base,
                  once |-> current.once, decision |-> current.decision]
  <2>1. g \in DownFrames
    BY <1>f5 DEF DownFrames
  <2>2. down' = Append(down, g)
    BY DEF WriteResolution
  <2> QED
    BY <2>1, <2>2
<1>f7. down' \in Seq(DownFrames)
  BY <1>f6, DownGiven, <1>q
<1>f8. PICK n \in Nat : n = Len(down) + 1
  BY DownGiven, <1>f6 DEF NativeInv
<1>f9. /\ \A h \in Resolutions' : \/ h \in Resolutions /\ h \in Nat /\ h < n /\ down'[h] = down[h]
                                  \/ /\ h = n /\ down'[h].req = current.req /\ down'[h].base = current.base
                                     /\ down'[h].once = current.once /\ down'[h].decision = current.decision
  BY <1>f6, <1>f8, DownGiven, <1>q
<1>f10. /\ \A i \in Onces' : i \in Onces /\ down'[i] = down[i]
        /\ \A i \in Onces : i \in Onces' /\ down'[i] = down[i] /\ i \in Nat /\ i < n
  BY <1>f6, <1>f8, DownGiven, <1>q
<1>f11. current.req <= native.next /\ native.next \in Nat
  BY <1>t, <1>f5 DEF NativeInv, CurrentInLine, Fields, NativeFields
<1>f12. \A i \in Onces : down[i].rev \in Nat /\ i \in Nat
  BY <1>m DEF Misses
<1>s. /\ NativeBehind' /\ FileCurrent' /\ UpKnown' /\ InboxKnown' /\ EvalsKnown' /\ OpsKnown'
      /\ FirstRevision' /\ NotServing' /\ NothingAsked' /\ AskedAfterSent' /\ ReadyFirst'
      /\ LockHeld' /\ AwaitsLast' /\ RequestLeft' /\ UpInLine' /\ InboxInLine' /\ UpUnasked'
      /\ InboxUnasked' /\ OneActive' /\ Decided' /\ PublishedKnown' /\ QueueForward' /\ QueueOnce'
      /\ NativePublished' /\ LookupFresh' /\ AwaitFresh' /\ EvaluatedLater' /\ CalmMount'
      /\ CalmUp' /\ CalmInbox' /\ CalmEvals' /\ AbortCaused' /\ QuietDenied' /\ LogStays'
      /\ EngineStays' /\ GrantsBacked' /\ TargetEvaluated' /\ TargetSent' /\ TargetTaken'
      /\ LetThrough' /\ AllowedInForce' /\ GrantNotLost'
  BY <1>u, SameNativeBehind, SameFileCurrent, SameUpKnown, SameInboxKnown, SameEvalsKnown,
     SameOpsKnown, SameFirstRevision, SameNotServing, SameNothingAsked, SameAskedAfterSent,
     SameReadyFirst, SameLockHeld, SameAwaitsLast, SameRequestLeft, SameUpInLine, SameInboxInLine,
     SameUpUnasked, SameInboxUnasked, SameOneActive, SameDecided, SamePublishedKnown,
     SameQueueForward, SameQueueOnce, SameNativePublished, SameLookupFresh, SameAwaitFresh,
     SameEvaluatedLater, SameCalmMount, SameCalmUp, SameCalmInbox, SameCalmEvals, SameAbortCaused,
     SameQuietDenied, SameLogStays, SameEngineStays, SameGrantsBacked, SameTargetEvaluated,
     SameTargetSent, SameTargetTaken, SameLetThrough, SameAllowedInForce, SameGrantNotLost DEF
     NativeInv
<1>TypeOK. TypeOK'
  BY <1>u, <1>f3 DEF NativeInv, TypeOK, baseRevision
<1>QueuesTyped. QueuesTyped'
  BY <1>u, <1>f7 DEF NativeInv, QueuesTyped
<1>CurrentKnown. CurrentKnown'
  BY <1>t, <1>u, <1>f2 DEF CurrentKnown, baseRevision, onceRevision, Fields, LogFields
<1>AnswersKnown. AnswersKnown'
  BY <1>t, <1>m, <1>u, <1>f1, <1>f2, <1>f5, <1>f9, <1>f10 DEF NativeInv, Fields, LogFields,
     CurrentFields, Misses, AnswersKnown, baseRevision, CurrentKnown, onceRevision
<1>NotSynchronized. NotSynchronized'
  BY <1>t, <1>u, <1>f5, <1>f11 DEF NativeInv, NotSynchronized, NotServing, Nobody
<1>CurrentInLine. CurrentInLine'
  BY <1>t, <1>m, <1>u, <1>f1, <1>f2, <1>f9 DEF NativeInv, Fields, CurrentFields, NativeFields,
     Misses, CurrentInLine, Nobody
<1>AnswersInLine. AnswersInLine'
  <2> SUFFICES ASSUME NEW h \in Resolutions'
               PROVE  /\ down'[h].req <= native.next
                      /\ \A j \in UpMisses : down'[h].req < up[j].req
                      /\ \A i \in InboxMisses : down'[h].req < inbox[i].req
                      /\ \A k \in Resolutions' : h < k => down'[h].req < down'[k].req
    BY <1>u, <1>m, <1>f2 DEF AnswersInLine
  <2>1. CASE h \in Resolutions /\ h \in Nat /\ h < n /\ down'[h] = down[h]
    BY <1>f5, <1>f9, <2>1 DEF NativeInv, AnswersInLine
  <2>2. CASE h = n /\ down'[h].req = current.req
    BY <1>f5, <1>f8, <1>f9, <1>f11, <2>2 DEF NativeInv, CurrentInLine
  <2> QED
    BY <1>f9, <2>1, <2>2
<1>Idling. Idling'
  BY <1>t, <1>u, <1>f1, <1>f2, <1>f9 DEF NativeInv, Fields, CurrentFields, Idling, Nobody
<1>ActiveIsCurrent. ActiveIsCurrent'
  BY <1>u, <1>f1 DEF NativeInv, ActiveIsCurrent, Active
<1>DoneIsCurrent. DoneIsCurrent'
  BY <1>t, <1>u, <1>f1, <1>f2, <1>f9 DEF NativeInv, Fields, LogFields, EvalFields, CurrentFields,
     DoneIsCurrent, Active, onceRevision
<1>QueueOwners. QueueOwners'
  BY <1>u, <1>f4 DEF NativeInv, QueueOwners
<1>ResolvePublished. ResolvePublished'
  BY <1>t, <1>u, <1>f1, <1>f2, <1>f9 DEF NativeInv, Fields, CurrentFields, ResolvePublished
<1>OncesForward. OncesForward'
  BY <1>t, <1>m, <1>u, <1>f9, <1>f10 DEF NativeInv, Fields, NativeFields, Misses, OncesForward
<1>LastArrives. LastArrives'
  BY <1>t, <1>m, <1>u, <1>f9, <1>f10 DEF NativeInv, Fields, NativeFields, Misses, LastArrives
<1>AnswersCovered. AnswersCovered'
  <2> SUFFICES ASSUME NEW h \in Resolutions'
               PROVE  \/ down'[h].once <= native.once
                      \/ \E i \in Onces' : i < h /\ down'[h].once <= down'[i].rev
    BY <1>u DEF AnswersCovered
  <2>1. CASE h \in Resolutions /\ h \in Nat /\ h < n /\ down'[h] = down[h]
    BY <1>f10, <2>1 DEF NativeInv, AnswersCovered
  <2>2. CASE h = n /\ down'[h].once = current.once
    <3>1. current.once <= published /\ published \in Int
      BY <1>f1 DEF NativeInv, ResolvePublished, TypeOK
    <3>2. CASE published <= native.once
      BY <1>t, <1>f5, <2>2, <3>1, <3>2 DEF Fields, NativeFields
    <3>3. CASE \E i \in Onces : down[i].rev = published
      BY <1>f5, <1>f10, <1>f12, <2>2, <3>1, <3>3
    <3> QED
      BY <1>f5, <3>1, <3>2, <3>3 DEF NativeInv, LastArrives
  <2> QED
    BY <1>f9, <2>1, <2>2
<1>CurrentSays. CurrentSays'
  BY <1>t, <1>u, <1>f1, <1>f2, <1>f9 DEF NativeInv, Fields, EvalFields, CurrentFields, CurrentSays,
     SaysEvaluated
<1>AnswersSay. AnswersSay'
  BY <1>t, <1>m, <1>u, <1>f1, <1>f2, <1>f5, <1>f9, <1>f10 DEF NativeInv, Fields, EvalFields,
     CurrentFields, Misses, AnswersSay, SaysEvaluated, CurrentSays
<1>CurrentLater. CurrentLater'
  BY <1>t, <1>u, <1>f1, <1>f2, <1>f9 DEF NativeInv, Fields, CurrentFields, OpFields, CurrentLater
<1>AnswersLater. AnswersLater'
  BY <1>t, <1>m, <1>u, <1>f1, <1>f2, <1>f5, <1>f9, <1>f10 DEF NativeInv, Fields, CurrentFields,
     OpFields, Misses, AnswersLater, CurrentLater
<1>CalmCurrent. CalmCurrent'
  BY <1>t, <1>u, <1>f1, <1>f2, <1>f9 DEF NativeInv, Fields, CurrentFields, NativeFields, OpFields,
     CalmCurrent, Calm, Nobody, Awaited
<1>CalmAnswers. CalmAnswers'
  BY <1>t, <1>m, <1>u, <1>f1, <1>f2, <1>f5, <1>f9, <1>f10 DEF NativeInv, Fields, CurrentFields,
     NativeFields, OpFields, Misses, CalmAnswers, Calm, Awaited, CalmCurrent, Nobody
<1>QuietCurrent. QuietCurrent'
  BY <1>t, <1>u, <1>f1, <1>f2, <1>f9 DEF NativeInv, Fields, EvalFields, CurrentFields,
     QuietCurrent, SaysEvaluated
<1>QuietAnswers. QuietAnswers'
  BY <1>t, <1>m, <1>u, <1>f1, <1>f2, <1>f5, <1>f9, <1>f10 DEF NativeInv, Fields, EvalFields,
     CurrentFields, Misses, QuietAnswers, SaysEvaluated, QuietCurrent
<1> QED
  BY <1>s, <1>TypeOK, <1>QueuesTyped, <1>CurrentKnown, <1>AnswersKnown, <1>NotSynchronized,
     <1>CurrentInLine, <1>AnswersInLine, <1>Idling, <1>ActiveIsCurrent, <1>DoneIsCurrent,
     <1>QueueOwners, <1>ResolvePublished, <1>OncesForward, <1>LastArrives, <1>AnswersCovered,
     <1>CurrentSays, <1>AnswersSay, <1>CurrentLater, <1>AnswersLater, <1>CalmCurrent,
     <1>CalmAnswers, <1>QuietCurrent, <1>QuietAnswers DEF NativeInv

\* publishOnceSnapshot, head of its queue: its revision never goes back, and who waits for it is told.
LEMMA PublishKeeps ==
    ASSUME NativeInv, PublishOnceSnapshot
    PROVE  NativeInv'
<1>t. Fields /\ Elements
  BY FieldsHold, ElementsHold DEF NativeInv
<1>q. QueuesTyped
  BY DEF NativeInv
<1>u. /\ baseLog' = baseLog /\ file' = file /\ baseClosed' = baseClosed /\ onceEngine' = onceEngine
      /\ onceLog' = onceLog /\ viewClosed' = viewClosed /\ inbox' = inbox
      /\ synchronized' = synchronized /\ up' = up /\ native' = native /\ lock' = lock /\ op' = op
      /\ cause' = cause
  BY DEF PublishOnceSnapshot, baseVars, viewVars, bridgeVars, nativeVars
<1>m. /\ Misses /\ UpMisses' = UpMisses /\ InboxMisses' = InboxMisses
  BY <1>u, MissesHold DEF NativeInv, UpMisses, InboxMisses
<1>f1. /\ publications # <<>> /\ publications' = Tail(publications) /\ publications' \in Seq(Publications)
       /\ Head(publications) = publications[1] /\ 1 \in 1..Len(publications)
       /\ Len(publications) \in Nat /\ Len(publications') = Len(publications) - 1
       /\ \A j \in 1..(Len(publications) - 1) : publications'[j] = publications[j + 1]
  BY Taken DEF PublishOnceSnapshot, NativeInv, QueuesTyped
<1>f2. PICK p \in Publications : p = publications[1]
  BY <1>f1, Taken DEF NativeInv, QueuesTyped
<1>f3. /\ p.rev \in Nat /\ p.by \in {"start", "view", "miss"} /\ published \in Int /\ onceRevision \in Nat
       /\ published <= p.rev /\ p.rev <= onceRevision /\ onceRevision' = onceRevision /\ -1 <= published
  <2>1. onceRevision \in Nat /\ onceRevision' = onceRevision
    BY <1>t, <1>u DEF onceRevision, Fields, LogFields
  <2>2. published \in -1..onceRevision
    BY DEF NativeInv, PublishedKnown
  <2>3. published <= publications[1].rev /\ publications[1].rev <= onceRevision
    BY <1>f1 DEF NativeInv, QueueForward
  <2> QED
    BY <1>t, <1>f1, <1>f2, <2>1, <2>2, <2>3 DEF Elements, QueueElements
<1>f4. /\ p.by = "view" => p.req \in Requests /\ evals[p.req].phase = "publishing"
       /\ p.by = "miss" => current.phase = "publish" /\ p.rev = current.once
  BY <1>t, <1>f1, <1>f2 DEF NativeInv, QueueOwners, Elements, QueueElements, Nobody
<1>f5. \A j \in 1..Len(publications') : /\ j \in Nat /\ j + 1 \in 1..Len(publications) /\ 1 < j + 1
                                      /\ publications'[j] = publications[j + 1] /\ p.rev <= publications'[j].rev
  <2> SUFFICES ASSUME NEW j \in 1..Len(publications')
               PROVE  /\ j \in Nat /\ j + 1 \in 1..Len(publications) /\ 1 < j + 1
                      /\ publications'[j] = publications[j + 1] /\ p.rev <= publications'[j].rev
    OBVIOUS
  <2>1. j \in Nat /\ j + 1 \in 1..Len(publications) /\ 1 < j + 1 /\ publications'[j] = publications[j + 1]
    BY <1>f1
  <2> QED
    BY <1>f1, <1>f2, <2>1 DEF NativeInv, QueueForward
<1>f6. /\ open' = open /\ (aborted => aborted') /\ aborted' \in BOOLEAN /\ (aborted' => aborted \/ "fault" \in cause)
       /\ ~Published(p) => "fault" \in cause
  BY <1>f1, <1>f2, <1>f3 DEF PublishOnceSnapshot, Published, NativeInv, TypeOK, CalmMount, Calm
<1>f7. /\ published' \in Int /\ published <= published' /\ published' <= p.rev /\ published' \in -1..onceRevision
       /\ Published(p) => published' = p.rev
  BY <1>f1, <1>f2, <1>f3 DEF PublishOnceSnapshot, Published
<1>f8. \/ down' = down /\ published' = published
       \/ down' = Append(down, [kind |-> "once", rev |-> p.rev]) /\ published' = p.rev
  BY <1>f1, <1>f2 DEF PublishOnceSnapshot
<1>f9. PICK n \in Nat : n = Len(down) + 1
  BY <1>t DEF Elements, DownElements
<1>f10. [kind |-> "once", rev |-> p.rev] \in DownFrames
  BY <1>f3 DEF DownFrames
<1>f11. down' \in Seq(DownFrames)
  BY <1>f8, <1>f10, DownGiven DEF NativeInv, QueuesTyped
<1>f12. /\ \A h \in Resolutions' : h \in Resolutions /\ down'[h] = down[h]
        /\ \A i \in Onces' : \/ i \in Onces /\ i < n /\ down'[i] = down[i]
                             \/ i = n /\ down'[i].rev = published' /\ published' = p.rev
        /\ \A i \in Onces : i \in Onces' /\ down'[i] = down[i] /\ i \in Nat /\ i < n
        /\ published' = published \/ \E i \in Onces' : down'[i].rev = published'
  <2>1. CASE down' = down /\ published' = published
    BY <1>t, <1>f9, <2>1 DEF Resolutions, Onces, Elements, DownElements
  <2>2. CASE down' = Append(down, [kind |-> "once", rev |-> p.rev]) /\ published' = p.rev
    <3> DEFINE f == [kind |-> "once", rev |-> p.rev]
    <3>1. /\ \A h \in Resolutions' : \/ h \in Resolutions /\ h \in Nat /\ h < Len(down) + 1 /\ down'[h] = down[h]
                                     \/ h = Len(down) + 1 /\ down'[h] = f /\ f.kind = "resolution"
          /\ \A i \in Onces' : \/ i \in Onces /\ i \in Nat /\ i < Len(down) + 1 /\ down'[i] = down[i]
                               \/ i = Len(down) + 1 /\ down'[i] = f /\ f.kind = "once"
          /\ \A i \in Onces : i \in Onces' /\ down'[i] = down[i] /\ i \in Nat /\ i < Len(down) + 1
          /\ f.kind = "once" => Len(down) + 1 \in Onces' /\ down'[Len(down) + 1] = f
      BY <1>f10, <2>2, DownGiven, <1>q
    <3>2. f.kind = "once" /\ f.rev = published' /\ "once" # "resolution"
      BY <2>2
    <3> HIDE DEF f
    <3> QED
      BY <1>f9, <2>2, <3>1, <3>2
  <2> QED
    BY <1>f8, <2>1, <2>2
<1>f13. evals \in [Requests -> EvalRecords] /\ current \in [req : 0..MaxRequests, phase : {"idle", "evaluating", "publish", "resolve"},
                                                                        base : Nat, once : Nat, decision : {"allow", "deny"}]
  BY DEF NativeInv, TypeOK, EvalRecords
<1>f14. \/ evals' = evals /\ p.by # "view"
        \/ /\ evals' = [evals EXCEPT ![p.req].phase = "done"] /\ p.by = "view" /\ p.req \in Requests
        \/ /\ evals' = [evals EXCEPT ![p.req].phase = "failed"] /\ p.by = "view" /\ p.req \in Requests
           /\ "fault" \in cause
  BY <1>f1, <1>f2, <1>f4, <1>f6 DEF PublishOnceSnapshot, NativeInv, CalmMount, Calm
<1>f15. evals' \in [Requests -> EvalRecords]
  <2>1. CASE p.by # "view"
    BY <2>1, <1>f13, <1>f14
  <2>2. ASSUME NEW ph \in {"done", "failed"}, evals' = [evals EXCEPT ![p.req].phase = ph], p.req \in Requests
        PROVE  evals' \in [Requests -> EvalRecords]
    BY <2>2, <1>f13 DEF EvalRecords
  <2> QED
    BY <2>1, <2>2, <1>f14
<1>f16. /\ \A s \in Requests : /\ evals'[s].target = evals[s].target /\ evals'[s].result = evals[s].result
                                /\ evals'[s].at = evals[s].at /\ evals'[s].base = evals[s].base
                                /\ evals'[s].once = evals[s].once
        /\ \A s \in Requests : \/ evals'[s] = evals[s]
                                \/ /\ p.by = "view" /\ p.req = s /\ evals[s].phase = "publishing"
                                   /\ evals'[s].phase \in {"done", "failed"}
                                   /\ evals'[s].phase = "failed" => "fault" \in cause
  <2>1. CASE p.by # "view"
    BY <2>1, <1>f13, <1>f14
  <2>2. ASSUME NEW ph \in {"done", "failed"}, evals' = [evals EXCEPT ![p.req].phase = ph], p.req \in Requests
        PROVE  \A s \in Requests : /\ evals'[s].target = evals[s].target /\ evals'[s].result = evals[s].result
                                   /\ evals'[s].at = evals[s].at /\ evals'[s].base = evals[s].base
                                   /\ evals'[s].once = evals[s].once
                                   /\ s # p.req => evals'[s] = evals[s]
                                   /\ s = p.req => evals'[s].phase = ph
    BY <2>2, <1>f13 DEF EvalRecords
  <2>3. CASE evals' = [evals EXCEPT ![p.req].phase = "done"] /\ p.by = "view" /\ p.req \in Requests
    BY <2>2, <2>3, <1>f4
  <2>4. CASE evals' = [evals EXCEPT ![p.req].phase = "failed"] /\ p.by = "view" /\ p.req \in Requests /\ "fault" \in cause
    BY <2>2, <2>4, <1>f4
  <2> QED
    BY <2>1, <2>3, <2>4, <1>f14
<1>f17. \/ current' = current /\ p.by # "miss"
        \/ current' = [current EXCEPT !.phase = "resolve"] /\ p.by = "miss" /\ Published(p)
        \/ current' = NoMiss /\ p.by = "miss"
  BY <1>f1, <1>f2 DEF PublishOnceSnapshot
<1>f18. /\ current' \in [req : 0..MaxRequests, phase : {"idle", "evaluating", "publish", "resolve"},
                          base : Nat, once : Nat, decision : {"allow", "deny"}]
        /\ \/ current' = current /\ p.by # "miss"
           \/ /\ p.by = "miss" /\ current.phase = "publish" /\ current'.phase = "resolve" /\ current.once <= published'
              /\ current'.req = current.req /\ current'.base = current.base /\ current'.once = current.once /\ current'.decision = current.decision
           \/ /\ p.by = "miss" /\ current.phase = "publish" /\ current'.phase = "idle" /\ current'.req = Nobody /\ current' = NoMiss
              /\ current'.base = 0 /\ current'.once = 0 /\ current'.decision = "deny"
  <2>1. CASE current' = current /\ p.by # "miss"
    BY <2>1, <1>f13
  <2>2. CASE current' = [current EXCEPT !.phase = "resolve"] /\ p.by = "miss" /\ Published(p)
    <3>1. /\ current' \in [req : 0..MaxRequests, phase : {"idle", "evaluating", "publish", "resolve"},
                          base : Nat, once : Nat, decision : {"allow", "deny"}]
          /\ current'.phase = "resolve"
          /\ current'.req = current.req /\ current'.base = current.base /\ current'.once = current.once
          /\ current'.decision = current.decision
      BY <2>2, <1>f13
    <3>2. current.phase = "publish" /\ current.once <= published'
      BY <2>2, <1>f3, <1>f4, <1>f7
    <3> QED
      BY <2>2, <3>1, <3>2
  <2>3. CASE current' = NoMiss /\ p.by = "miss"
    BY <2>3, <1>f4, NoneTyped, BoundsAssumption DEF NoMiss, Nobody
  <2> QED
    BY <1>f17, <2>1, <2>2, <2>3
<1>f19. \A j \in 1..Len(publications') : p.by # "start" => publications'[j].by # p.by
  BY <1>f1, <1>f2, <1>f5 DEF NativeInv, QueueOnce
<1>f20. synchronized # -1
  BY <1>f1 DEF NativeInv, NotSynchronized
<1>s. /\ NativeBehind' /\ UpKnown' /\ InboxKnown' /\ OpsKnown' /\ FirstRevision' /\ NotServing'
      /\ NothingAsked' /\ ReadyFirst' /\ LockHeld' /\ AwaitsLast' /\ RequestLeft' /\ UpInLine'
      /\ InboxInLine' /\ AwaitFresh' /\ CalmUp' /\ CalmInbox' /\ LogStays' /\ EngineStays'
      /\ TargetSent' /\ TargetTaken'
  BY <1>u, SameNativeBehind, SameUpKnown, SameInboxKnown, SameOpsKnown, SameFirstRevision,
     SameNotServing, SameNothingAsked, SameReadyFirst, SameLockHeld, SameAwaitsLast,
     SameRequestLeft, SameUpInLine, SameInboxInLine, SameAwaitFresh, SameCalmUp, SameCalmInbox,
     SameLogStays, SameEngineStays, SameTargetSent, SameTargetTaken DEF NativeInv
<1>TypeOK. TypeOK'
  BY <1>u, <1>f6, <1>f7, <1>f15, <1>f18 DEF NativeInv, TypeOK, baseRevision, EvalRecords
<1>QueuesTyped. QueuesTyped'
  BY <1>u, <1>f1, <1>f11 DEF NativeInv, QueuesTyped
<1>FileCurrent. FileCurrent'
  BY <1>t, <1>u, <1>f6, <1>f7 DEF NativeInv, Fields, LogFields, FileCurrent, baseRevision
<1>CurrentKnown. CurrentKnown'
  BY <1>t, <1>u, <1>f18 DEF NativeInv, CurrentKnown, baseRevision, onceRevision, Fields, LogFields
<1>EvalsKnown. EvalsKnown'
  BY <1>t, <1>u, <1>f7, <1>f16 DEF NativeInv, Fields, LogFields, EvalFields, EvalsKnown,
     baseRevision, onceRevision
<1>AnswersKnown. AnswersKnown'
  BY <1>t, <1>m, <1>u, <1>f12 DEF NativeInv, Fields, LogFields, Misses, AnswersKnown, baseRevision
<1>NotSynchronized. NotSynchronized'
  BY <1>u, <1>f20 DEF NotSynchronized
<1>AskedAfterSent. AskedAfterSent'
  BY <1>u, <1>f16 DEF NativeInv, AskedAfterSent
<1>CurrentInLine. CurrentInLine'
  BY <1>t, <1>m, <1>u, <1>f18 DEF NativeInv, Fields, CurrentFields, NativeFields, Misses,
     CurrentInLine, Nobody
<1>AnswersInLine. AnswersInLine'
  BY <1>t, <1>m, <1>u, <1>f12, <1>f18 DEF NativeInv, Fields, CurrentFields, NativeFields, Misses,
     AnswersInLine, Nobody
<1>Idling. Idling'
  BY <1>f18 DEF NativeInv, Idling
<1>UpUnasked. UpUnasked'
  BY <1>u, <1>m, <1>f16 DEF NativeInv, UpUnasked, Misses
<1>InboxUnasked. InboxUnasked'
  BY <1>u, <1>m, <1>f16 DEF NativeInv, InboxUnasked, Misses
<1>ActiveIsCurrent. ActiveIsCurrent'
  BY <1>t, <1>u, <1>f6, <1>f16, <1>f18 DEF NativeInv, Fields, EvalFields, CurrentFields,
     ActiveIsCurrent, Active
<1>OneActive. OneActive'
  BY <1>t, <1>u, <1>f16 DEF NativeInv, Fields, EvalFields, OneActive, Active
<1>DoneIsCurrent. DoneIsCurrent'
  BY <1>t, <1>u, <1>f3, <1>f7, <1>f16, <1>f18, SMTT(20)
  DEF NativeInv, Fields, LogFields, EvalFields,
     CurrentFields, DoneIsCurrent, Active, onceRevision, OneActive, Idling, Nobody
<1>Decided. Decided'
  BY <1>t, <1>u, <1>f16 DEF NativeInv, Fields, EvalFields, Decided
<1>PublishedKnown. PublishedKnown'
  BY <1>f3, <1>f7 DEF PublishedKnown
<1>QueueForward. QueueForward'
  <2> SUFFICES ASSUME NEW i \in 1..Len(publications')
               PROVE  /\ published' <= publications'[i].rev /\ publications'[i].rev <= onceRevision
                      /\ \A j \in 1..Len(publications') : i < j => publications'[i].rev <= publications'[j].rev
    BY <1>f3 DEF QueueForward
  <2>1. /\ i \in Nat /\ i + 1 \in 1..Len(publications) /\ p.rev <= publications'[i].rev
        /\ publications'[i] = publications[i + 1] /\ publications[i + 1].rev \in Nat
    BY <1>t, <1>f5 DEF Elements, QueueElements
  <2>2. published' <= publications'[i].rev
    BY <1>f3, <1>f7, <2>1
  <2>3. publications'[i].rev <= onceRevision
    BY <2>1 DEF NativeInv, QueueForward
  <2>4. ASSUME NEW j \in 1..Len(publications'), i < j PROVE publications'[i].rev <= publications'[j].rev
    <3>1. j \in Nat /\ j + 1 \in 1..Len(publications) /\ publications'[j] = publications[j + 1] /\ i + 1 < j + 1
      BY <1>f5, <2>1, <2>4
    <3> QED
      BY <2>1, <3>1 DEF NativeInv, QueueForward
  <2> QED
    BY <2>2, <2>3, <2>4
<1>QueueOwners. QueueOwners'
  <2> SUFFICES ASSUME NEW i \in 1..Len(publications')
               PROVE  LET q == publications'[i] IN
                      /\ q.by = "view" => q.req # Nobody /\ evals'[q.req].phase = "publishing"
                      /\ q.by = "miss" => current'.phase = "publish" /\ q.req = current'.req /\ q.rev = current'.once
    BY DEF QueueOwners
  <2>1. PICK q \in Publications : q = publications'[i] /\ \E k \in 1..Len(publications) : q = publications[k]
    BY <1>f1, <1>f5 DEF NativeInv, QueuesTyped
  <2>2. /\ q.by = "view" => q.req \in Requests /\ q.req # Nobody /\ evals[q.req].phase = "publishing"
        /\ q.by = "miss" => current.phase = "publish" /\ q.req = current.req /\ q.rev = current.once
    BY <1>t, <2>1 DEF NativeInv, QueueOwners, Elements, QueueElements, Nobody
  <2>3. p.by # "start" => q.by # p.by
    BY <1>f19, <2>1
  <2>4. q.by = "view" => q.req # Nobody /\ evals'[q.req].phase = "publishing"
    BY <1>f16, <2>2, <2>3
  <2>5. q.by = "miss" => current'.phase = "publish" /\ q.req = current'.req /\ q.rev = current'.once
    BY <1>f18, <2>2, <2>3
  <2> QED
    BY <2>1, <2>4, <2>5
<1>QueueOnce. QueueOnce'
  <2> SUFFICES ASSUME NEW i \in 1..Len(publications'), NEW j \in 1..Len(publications'), i < j, publications'[i].by # "start"
               PROVE  publications'[i].by # publications'[j].by
    BY DEF QueueOnce
  <2>1. /\ i + 1 \in 1..Len(publications) /\ publications'[i] = publications[i + 1]
        /\ j + 1 \in 1..Len(publications) /\ publications'[j] = publications[j + 1] /\ i + 1 < j + 1
    BY <1>f5
  <2> QED
    BY <2>1 DEF NativeInv, QueueOnce
<1>ResolvePublished. ResolvePublished'
  BY <1>t, <1>u, <1>f3, <1>f6, <1>f7, <1>f12, <1>f18 DEF NativeInv, Fields, CurrentFields,
     ResolvePublished
<1>NativePublished. NativePublished'
  BY <1>t, <1>u, <1>f3, <1>f7 DEF NativeInv, NativePublished, Fields, NativeFields
<1>OncesForward. OncesForward'
  <2> SUFFICES ASSUME NEW i \in Onces'
               PROVE  /\ native.once <= down'[i].rev /\ down'[i].rev <= published'
                      /\ \A j \in Onces' : i < j => down'[i].rev <= down'[j].rev
    BY <1>u DEF OncesForward
  <2>1. \A k \in Onces : down[k].rev \in Nat /\ native.once <= down[k].rev /\ down[k].rev <= published' /\ k \in Nat
    BY <1>m, <1>f3, <1>f7 DEF NativeInv, OncesForward, Misses
  <2>2. published' \in Int /\ native.once \in Nat /\ native.once <= p.rev
    BY <1>t, <1>f3, <1>f7 DEF NativeInv, NativePublished, NotServing, NothingAsked, NativeBehind, Fields, NativeFields
  <2> QED
    BY <1>f12, <2>1, <2>2 DEF NativeInv, OncesForward
<1>LastArrives. LastArrives'
  BY <1>u, <1>f12 DEF NativeInv, LastArrives
<1>AnswersCovered. AnswersCovered'
  <2> SUFFICES ASSUME NEW h \in Resolutions'
               PROVE  \/ down'[h].once <= native.once
                      \/ \E i \in Onces' : i < h /\ down'[h].once <= down'[i].rev
    BY <1>u DEF AnswersCovered
  <2>1. h \in Resolutions /\ down'[h] = down[h]
    BY <1>f12
  <2> QED
    BY <1>f12, <2>1 DEF NativeInv, AnswersCovered
<1>CurrentSays. CurrentSays'
  BY <1>t, <1>f16, <1>f18 DEF NativeInv, CurrentSays, SaysEvaluated, Idling, Fields, CurrentFields, Nobody
<1>AnswersSay. AnswersSay'
  BY <1>m, <1>f12, <1>f16 DEF NativeInv, AnswersSay, SaysEvaluated, Misses
<1>LookupFresh. LookupFresh'
  BY <1>t, <1>u, <1>f6, <1>f7 DEF NativeInv, Fields, NativeFields, OpFields, LookupFresh
<1>EvaluatedLater. EvaluatedLater'
  BY <1>t, <1>u, <1>f16 DEF NativeInv, EvaluatedLater, AwaitsLast, Fields, OpFields, Nobody
<1>CurrentLater. CurrentLater'
  BY <1>t, <1>u, <1>f18 DEF NativeInv, Fields, CurrentFields, OpFields, CurrentLater
<1>AnswersLater. AnswersLater'
  BY <1>t, <1>m, <1>u, <1>f12 DEF NativeInv, Fields, OpFields, Misses, AnswersLater
<1>CalmMount. CalmMount'
  BY <1>t, <1>u, <1>f6, <1>f7, <1>f16 DEF NativeInv, Fields, NativeFields, CalmMount, Calm
<1>CalmCurrent. CalmCurrent'
  BY <1>t, <1>u, <1>f6, <1>f16, <1>f18 DEF NativeInv, Fields, CurrentFields, NativeFields,
     OpFields, CalmCurrent, Calm, Nobody, Awaited
<1>CalmAnswers. CalmAnswers'
  BY <1>t, <1>m, <1>u, <1>f6, <1>f12, <1>f16 DEF NativeInv, Fields, NativeFields, OpFields, Misses,
     CalmAnswers, Calm, Awaited
<1>CalmEvals. CalmEvals'
  BY <1>t, <1>u, <1>f6, <1>f16 DEF NativeInv, Fields, EvalFields, CalmEvals, Calm
<1>AbortCaused. AbortCaused'
  BY <1>t, <1>u, <1>f6, <1>f16 DEF NativeInv, Fields, AbortCaused
<1>QuietCurrent. QuietCurrent'
  BY <1>t, <1>u, <1>f16, <1>f18 DEF NativeInv, QuietCurrent, SaysEvaluated, Idling, Fields, CurrentFields, Nobody
<1>QuietAnswers. QuietAnswers'
  BY <1>u, <1>m, <1>f12, <1>f16 DEF NativeInv, QuietAnswers, SaysEvaluated, Misses
<1>QuietDenied. QuietDenied'
  BY <1>t, <1>u, <1>f16 DEF NativeInv, QuietDenied, Fields, OpFields, Nobody
<1>GrantsBacked. GrantsBacked'
  BY <1>u, <1>f16 DEF NativeInv, GrantsBacked, GrantBacked, BaseAt, OnceAt
<1>TargetEvaluated. TargetEvaluated'
  BY <1>t, <1>u, <1>f16 DEF NativeInv, Fields, EvalFields, OpFields, TargetEvaluated, Nobody
<1>LetThrough. LetThrough'
  BY <1>t, <1>u, <1>f16 DEF NativeInv, Fields, EvalFields, OpFields, LetThrough, Nobody
<1>AllowedInForce. AllowedInForce'
  BY <1>t, <1>u, <1>f16 DEF NativeInv, AllowedInForce, Fields, OpFields, Nobody, Lookup, BaseAt, OnceAt, baseRevision
<1>GrantNotLost. GrantNotLost'
  BY <1>t, <1>u, <1>f16 DEF NativeInv, GrantNotLost, Fields, OpFields, Nobody, baseRevision
<1> QED
  BY <1>s, <1>TypeOK, <1>QueuesTyped, <1>FileCurrent, <1>CurrentKnown, <1>EvalsKnown,
     <1>AnswersKnown, <1>NotSynchronized, <1>AskedAfterSent, <1>CurrentInLine, <1>AnswersInLine,
     <1>Idling, <1>UpUnasked, <1>InboxUnasked, <1>ActiveIsCurrent, <1>OneActive, <1>DoneIsCurrent,
     <1>Decided, <1>PublishedKnown, <1>QueueForward, <1>QueueOwners, <1>QueueOnce,
     <1>ResolvePublished, <1>NativePublished, <1>OncesForward, <1>LastArrives, <1>AnswersCovered,
     <1>CurrentSays, <1>AnswersSay, <1>LookupFresh, <1>EvaluatedLater, <1>CurrentLater,
     <1>AnswersLater, <1>CalmMount, <1>CalmCurrent, <1>CalmAnswers, <1>CalmEvals, <1>AbortCaused,
     <1>QuietCurrent, <1>QuietAnswers, <1>QuietDenied, <1>GrantsBacked, <1>TargetEvaluated,
     <1>LetThrough, <1>AllowedInForce, <1>GrantNotLost DEF NativeInv

\* run_filesystem: the base snapshot is loaded,
LEMMA LoadBaseKeeps ==
    ASSUME NativeInv, LoadBase
    PROVE  NativeInv'
<1>t. Fields /\ Elements
  BY FieldsHold, ElementsHold DEF NativeInv
<1>u. /\ baseLog' = baseLog /\ file' = file /\ baseClosed' = baseClosed /\ onceEngine' = onceEngine
      /\ onceLog' = onceLog /\ viewClosed' = viewClosed /\ evals' = evals /\ aborted' = aborted
      /\ open' = open /\ inbox' = inbox /\ current' = current /\ publications' = publications
      /\ published' = published /\ synchronized' = synchronized /\ up' = up /\ down' = down
      /\ lock' = lock /\ op' = op /\ cause' = cause
  BY DEF LoadBase, baseVars, viewVars, bridgeVars, nativeVars
<1>m. /\ Misses /\ UpMisses' = UpMisses /\ InboxMisses' = InboxMisses /\ Resolutions' = Resolutions
       /\ Onces' = Onces
  BY <1>u, MissesHold DEF NativeInv, UpMisses, InboxMisses, Resolutions, Onces
<1>f1. native \in [phase : {"load", "initial", "ready", "serving", "exited"},
                  base : Nat, once : Nat, next : 0..MaxRequests, failed : BOOLEAN]
  BY DEF NativeInv, TypeOK
<1>f2. native.phase = "load" /\ native' = [native EXCEPT !.phase = "initial", !.base = file]
  BY DEF LoadBase
<1>f3. /\ file \in Nat /\ native.base <= file
  BY <1>t DEF NativeInv, NativeBehind, Fields, LogFields
<1>f4. /\ native'.phase = "initial" /\ native'.base = file /\ native'.once = native.once /\ native'.next = native.next /\ native'.failed = native.failed
  <2>1. ASSUME NEW b \in Nat, native' = [native EXCEPT !.phase = "initial", !.base = b]
        PROVE  /\ native'.phase = "initial" /\ native'.base = b /\ native'.once = native.once /\ native'.next = native.next /\ native'.failed = native.failed
    BY <2>1, <1>f1
  <2> QED
    BY <2>1, <1>f2, <1>f3
<1>f5. native' \in [phase : {"load", "initial", "ready", "serving", "exited"},
                  base : Nat, once : Nat, next : 0..MaxRequests, failed : BOOLEAN]
  <2>1. ASSUME NEW b \in Nat, native' = [native EXCEPT !.phase = "initial", !.base = b]
        PROVE  native' \in [phase : {"load", "initial", "ready", "serving", "exited"},
                       base : Nat, once : Nat, next : 0..MaxRequests, failed : BOOLEAN]
    BY <2>1, <1>f1
  <2> QED
    BY <2>1, <1>f2, <1>f3
<1>s. /\ QueuesTyped' /\ FileCurrent' /\ UpKnown' /\ InboxKnown' /\ CurrentKnown' /\ EvalsKnown'
      /\ AnswersKnown' /\ FirstRevision' /\ ReadyFirst' /\ LockHeld' /\ Idling' /\ UpUnasked'
      /\ InboxUnasked' /\ ActiveIsCurrent' /\ OneActive' /\ DoneIsCurrent' /\ Decided'
      /\ PublishedKnown' /\ QueueForward' /\ QueueOwners' /\ QueueOnce' /\ ResolvePublished'
      /\ CurrentSays' /\ AnswersSay' /\ AwaitFresh' /\ EvaluatedLater' /\ CurrentLater'
      /\ AnswersLater' /\ CalmEvals' /\ AbortCaused' /\ QuietCurrent' /\ QuietAnswers'
      /\ QuietDenied' /\ LogStays' /\ EngineStays' /\ GrantsBacked' /\ TargetEvaluated'
      /\ TargetSent' /\ TargetTaken' /\ LetThrough' /\ AllowedInForce' /\ GrantNotLost'
  BY <1>u, SameQueuesTyped, SameFileCurrent, SameUpKnown, SameInboxKnown, SameCurrentKnown,
     SameEvalsKnown, SameAnswersKnown, SameFirstRevision, SameReadyFirst, SameLockHeld, SameIdling,
     SameUpUnasked, SameInboxUnasked, SameActiveIsCurrent, SameOneActive, SameDoneIsCurrent,
     SameDecided, SamePublishedKnown, SameQueueForward, SameQueueOwners, SameQueueOnce,
     SameResolvePublished, SameCurrentSays, SameAnswersSay, SameAwaitFresh, SameEvaluatedLater,
     SameCurrentLater, SameAnswersLater, SameCalmEvals, SameAbortCaused, SameQuietCurrent,
     SameQuietAnswers, SameQuietDenied, SameLogStays, SameEngineStays, SameGrantsBacked,
     SameTargetEvaluated, SameTargetSent, SameTargetTaken, SameLetThrough, SameAllowedInForce,
     SameGrantNotLost DEF NativeInv
<1>TypeOK. TypeOK'
  BY <1>u, <1>f5 DEF NativeInv, TypeOK, baseRevision
<1>NativeBehind. NativeBehind'
  BY <1>t, <1>u, <1>f3, <1>f4 DEF NativeInv, Fields, LogFields, NativeFields, NativeBehind,
     onceRevision
<1>OpsKnown. OpsKnown'
  BY <1>t, <1>u, <1>f3, <1>f4 DEF NativeInv, Fields, LogFields, NativeFields, OpFields, OpsKnown,
     baseRevision
<1>NotSynchronized. NotSynchronized'
  BY <1>t, <1>u, <1>f2, <1>f3, <1>f4 DEF NativeInv, Fields, Elements, QueueElements, DownElements,
     NativeFields, NotSynchronized
<1>NotServing. NotServing'
  BY <1>t, <1>u, <1>f2, <1>f3, <1>f4 DEF NativeInv, Fields, NativeFields, OpFields, NotServing
<1>NothingAsked. NothingAsked'
  BY <1>t, <1>u, <1>f3, <1>f4 DEF NativeInv, Fields, LogFields, NativeFields, NothingAsked,
     onceRevision
<1>AskedAfterSent. AskedAfterSent'
  BY <1>t, <1>u, <1>f3, <1>f4 DEF NativeInv, Fields, EvalFields, NativeFields, AskedAfterSent
<1>AwaitsLast. AwaitsLast'
  BY <1>t, <1>u, <1>f3, <1>f4 DEF NativeInv, Fields, NativeFields, OpFields, AwaitsLast, Nobody
<1>RequestLeft. RequestLeft'
  BY <1>t, <1>u, <1>f3, <1>f4 DEF NativeInv, Fields, NativeFields, OpFields, RequestLeft, MayAsk
<1>UpInLine. UpInLine'
  BY <1>t, <1>m, <1>u, <1>f3, <1>f4 DEF NativeInv, Fields, NativeFields, Misses, UpInLine
<1>InboxInLine. InboxInLine'
  BY <1>t, <1>m, <1>u, <1>f3, <1>f4 DEF NativeInv, Fields, NativeFields, Misses, InboxInLine
<1>CurrentInLine. CurrentInLine'
  BY <1>t, <1>m, <1>u, <1>f3, <1>f4 DEF NativeInv, Fields, CurrentFields, NativeFields, Misses,
     CurrentInLine, Nobody
<1>AnswersInLine. AnswersInLine'
  BY <1>t, <1>m, <1>u, <1>f3, <1>f4 DEF NativeInv, Fields, CurrentFields, NativeFields, Misses,
     AnswersInLine, Nobody
<1>NativePublished. NativePublished'
  BY <1>t, <1>u, <1>f3, <1>f4 DEF NativeInv, Fields, NativeFields, NativePublished
<1>OncesForward. OncesForward'
  BY <1>t, <1>m, <1>u, <1>f3, <1>f4 DEF NativeInv, Fields, NativeFields, Misses, OncesForward
<1>LastArrives. LastArrives'
  BY <1>t, <1>m, <1>u, <1>f3, <1>f4 DEF NativeInv, Fields, NativeFields, Misses, LastArrives
<1>AnswersCovered. AnswersCovered'
  BY <1>t, <1>m, <1>u, <1>f3, <1>f4 DEF NativeInv, Fields, NativeFields, Misses, AnswersCovered
<1>LookupFresh. LookupFresh'
  BY <1>t, <1>u, <1>f3, <1>f4 DEF NativeInv, Fields, NativeFields, OpFields, LookupFresh
<1>CalmMount. CalmMount'
  BY <1>t, <1>u, <1>f2, <1>f3, <1>f4 DEF NativeInv, Fields, NativeFields, CalmMount, Calm
<1>CalmUp. CalmUp'
  BY <1>t, <1>m, <1>u, <1>f3, <1>f4 DEF NativeInv, Fields, NativeFields, OpFields, Misses, CalmUp,
     Calm, Awaited
<1>CalmInbox. CalmInbox'
  BY <1>t, <1>m, <1>u, <1>f3, <1>f4 DEF NativeInv, Fields, NativeFields, OpFields, Misses,
     CalmInbox, Calm, Awaited
<1>CalmCurrent. CalmCurrent'
  BY <1>t, <1>u, <1>f3, <1>f4 DEF NativeInv, Fields, CurrentFields, NativeFields, OpFields,
     CalmCurrent, Calm, Nobody, Awaited
<1>CalmAnswers. CalmAnswers'
  BY <1>t, <1>m, <1>u, <1>f3, <1>f4 DEF NativeInv, Fields, NativeFields, OpFields, Misses,
     CalmAnswers, Calm, Awaited
<1> QED
  BY <1>s, <1>TypeOK, <1>NativeBehind, <1>OpsKnown, <1>NotSynchronized, <1>NotServing,
     <1>NothingAsked, <1>AskedAfterSent, <1>AwaitsLast, <1>RequestLeft, <1>UpInLine,
     <1>InboxInLine, <1>CurrentInLine, <1>AnswersInLine, <1>NativePublished, <1>OncesForward,
     <1>LastArrives, <1>AnswersCovered, <1>LookupFresh, <1>CalmMount, <1>CalmUp, <1>CalmInbox,
     <1>CalmCurrent, <1>CalmAnswers DEF NativeInv

\* A frame of the socket is taken.
FrameRead == down' # down

\* the first ONCE snapshot is awaited and the base refreshed,
LEMMA InitialOnceKeeps ==
    ASSUME NativeInv, InitialOnce, FrameRead
    PROVE  NativeInv'
<1>t. Fields /\ Elements
  BY FieldsHold, ElementsHold DEF NativeInv
<1>q. QueuesTyped
  BY DEF NativeInv
<1>u. /\ baseLog' = baseLog /\ file' = file /\ baseClosed' = baseClosed /\ onceEngine' = onceEngine
      /\ onceLog' = onceLog /\ viewClosed' = viewClosed /\ evals' = evals /\ aborted' = aborted
      /\ open' = open /\ inbox' = inbox /\ current' = current /\ publications' = publications
      /\ published' = published /\ synchronized' = synchronized /\ up' = up /\ lock' = lock
      /\ op' = op /\ cause' = cause
  BY DEF InitialOnce, baseVars, viewVars, bridgeVars, nativeVars
<1>m. /\ Misses /\ UpMisses' = UpMisses /\ InboxMisses' = InboxMisses
  BY <1>u, MissesHold DEF NativeInv, UpMisses, InboxMisses
<1>f1. /\ 1 \in Onces /\ down # <<>> /\ down' = Tail(down) /\ down[1].rev \in Nat /\ Head(down) = down[1]
  <2>1. down # <<>> /\ down' = Tail(down) /\ Head(down).kind = "once"
    BY DEF InitialOnce, FrameRead
  <2>2. Head(down) = down[1] /\ Len(down) \in Nat /\ Len(down) >= 1
    BY <2>1, DownTaken, <1>q
  <2>3. 1 \in Onces
    BY <2>1, <2>2 DEF Onces
  <2> QED
    BY <2>1, <2>2, <2>3, <1>m DEF Misses
<1>f2. PICK v \in Nat : v = down[1].rev
  BY <1>f1
<1>f3. down' \in Seq(DownFrames)
  BY <1>f1, DownTaken, <1>q
<1>f4. /\ \A j \in Resolutions' : j \in Nat /\ j + 1 \in Resolutions /\ down'[j] = down[j + 1] /\ j + 1 > 1
       /\ \A j \in Onces' : j \in Nat /\ j + 1 \in Onces /\ down'[j] = down[j + 1] /\ j + 1 > 1
  BY <1>f1, DownTaken, <1>q
<1>f5. \A j \in Onces : j \in Nat /\ (j = 1 \/ (j > 1 /\ j - 1 \in Onces' /\ j - 1 \in Nat /\ down'[j - 1] = down[j]))
  <2>1. \A j \in Onces : j \in Nat /\ (j > 1 => j - 1 \in Onces' /\ j - 1 \in Nat /\ down'[j - 1] = down[j])
    BY <1>f1, DownTaken, <1>q
  <2>2. \A j \in Onces : j \in 1..Len(down)
    BY DEF Onces
  <2>3. \A j \in Onces : j = 1 \/ j > 1
    BY <2>1, <2>2
  <2> QED
    BY <2>1, <2>3
<1>f6. /\ native.once <= v /\ v <= published /\ \A j \in Onces : v <= down[j].rev
       /\ published \in Int /\ published <= onceRevision /\ onceRevision \in Nat /\ onceRevision' = onceRevision /\ baseRevision' = baseRevision
  <2>1. onceRevision \in Nat /\ onceRevision' = onceRevision /\ baseRevision' = baseRevision
    BY <1>t, <1>u DEF onceRevision, baseRevision, Fields, LogFields
  <2>2. published \in Int /\ published <= onceRevision
    BY <2>1 DEF NativeInv, PublishedKnown
  <2>3. \A j \in Onces : v <= down[j].rev
    BY <1>f1, <1>f2, <1>f5 DEF NativeInv, OncesForward
  <2> QED
    BY <1>f1, <1>f2, <2>1, <2>2, <2>3 DEF NativeInv, OncesForward
<1>f7. synchronized # -1
  BY <1>f1 DEF NativeInv, NotSynchronized
<1>f8. native \in [phase : {"load", "initial", "ready", "serving", "exited"},
                  base : Nat, once : Nat, next : 0..MaxRequests, failed : BOOLEAN]
  BY DEF NativeInv, TypeOK
<1>f9. native.phase = "initial" /\ native' = [native EXCEPT !.phase = "ready", !.once = v, !.base = file]
  BY <1>f1, <1>f2 DEF InitialOnce, FrameRead
<1>f10. /\ file \in Nat /\ native.base <= file
  BY <1>t DEF NativeInv, NativeBehind, Fields, LogFields
<1>f11. /\ native'.phase = "ready" /\ native'.base = file /\ native'.once = v /\ native'.next = native.next /\ native'.failed = native.failed
  <2>1. ASSUME NEW w \in Nat, NEW b \in Nat, native' = [native EXCEPT !.phase = "ready", !.once = w, !.base = b]
        PROVE  /\ native'.phase = "ready" /\ native'.base = b /\ native'.once = w /\ native'.next = native.next /\ native'.failed = native.failed
    BY <2>1, <1>f8
  <2> QED
    BY <2>1, <1>f9, <1>f10
<1>f12. native' \in [phase : {"load", "initial", "ready", "serving", "exited"},
                   base : Nat, once : Nat, next : 0..MaxRequests, failed : BOOLEAN]
  <2>1. ASSUME NEW w \in Nat, NEW b \in Nat, native' = [native EXCEPT !.phase = "ready", !.once = w, !.base = b]
        PROVE  native' \in [phase : {"load", "initial", "ready", "serving", "exited"},
                       base : Nat, once : Nat, next : 0..MaxRequests, failed : BOOLEAN]
    BY <2>1, <1>f8
  <2> QED
    BY <2>1, <1>f9, <1>f10
<1>s. /\ FileCurrent' /\ UpKnown' /\ InboxKnown' /\ CurrentKnown' /\ EvalsKnown' /\ FirstRevision'
      /\ ReadyFirst' /\ LockHeld' /\ Idling' /\ UpUnasked' /\ InboxUnasked' /\ ActiveIsCurrent'
      /\ OneActive' /\ DoneIsCurrent' /\ Decided' /\ PublishedKnown' /\ QueueForward'
      /\ QueueOwners' /\ QueueOnce' /\ ResolvePublished' /\ CurrentSays' /\ AwaitFresh'
      /\ EvaluatedLater' /\ CurrentLater' /\ CalmEvals' /\ AbortCaused' /\ QuietCurrent'
      /\ QuietDenied' /\ LogStays' /\ EngineStays' /\ GrantsBacked' /\ TargetEvaluated'
      /\ TargetSent' /\ TargetTaken' /\ LetThrough' /\ AllowedInForce' /\ GrantNotLost'
  BY <1>u, SameFileCurrent, SameUpKnown, SameInboxKnown, SameCurrentKnown, SameEvalsKnown,
     SameFirstRevision, SameReadyFirst, SameLockHeld, SameIdling, SameUpUnasked, SameInboxUnasked,
     SameActiveIsCurrent, SameOneActive, SameDoneIsCurrent, SameDecided, SamePublishedKnown,
     SameQueueForward, SameQueueOwners, SameQueueOnce, SameResolvePublished, SameCurrentSays,
     SameAwaitFresh, SameEvaluatedLater, SameCurrentLater, SameCalmEvals, SameAbortCaused,
     SameQuietCurrent, SameQuietDenied, SameLogStays, SameEngineStays, SameGrantsBacked,
     SameTargetEvaluated, SameTargetSent, SameTargetTaken, SameLetThrough, SameAllowedInForce,
     SameGrantNotLost DEF NativeInv
<1>TypeOK. TypeOK'
  BY <1>u, <1>f12 DEF NativeInv, TypeOK, baseRevision
<1>QueuesTyped. QueuesTyped'
  BY <1>u, <1>f3 DEF NativeInv, QueuesTyped
<1>NativeBehind. NativeBehind'
  BY <1>t, <1>u, <1>f2, <1>f6, <1>f11 DEF NativeInv, NativeBehind, Fields, LogFields, NativeFields
<1>AnswersKnown. AnswersKnown'
  BY <1>t, <1>m, <1>u, <1>f4 DEF NativeInv, Fields, LogFields, Misses, AnswersKnown, baseRevision
<1>OpsKnown. OpsKnown'
  BY <1>t, <1>u, <1>f2, <1>f6, <1>f10, <1>f11, SMTT(20)
  DEF NativeInv, Fields, LogFields, NativeFields,
     OpFields, OpsKnown, baseRevision
<1>NotSynchronized. NotSynchronized'
  BY <1>u, <1>f7 DEF NotSynchronized
<1>NotServing. NotServing'
  BY <1>t, <1>u, <1>f9, <1>f10, <1>f11 DEF NativeInv, Fields, NativeFields, OpFields, NotServing
<1>NothingAsked. NothingAsked'
  BY <1>t, <1>u, <1>f10, <1>f11 DEF NativeInv, Fields, LogFields, NativeFields, NothingAsked,
     onceRevision
<1>AskedAfterSent. AskedAfterSent'
  BY <1>t, <1>u, <1>f10, <1>f11 DEF NativeInv, Fields, EvalFields, NativeFields, AskedAfterSent
<1>AwaitsLast. AwaitsLast'
  BY <1>t, <1>u, <1>f10, <1>f11 DEF NativeInv, Fields, NativeFields, OpFields, AwaitsLast, Nobody
<1>RequestLeft. RequestLeft'
  BY <1>t, <1>u, <1>f10, <1>f11 DEF NativeInv, Fields, NativeFields, OpFields, RequestLeft, MayAsk
<1>UpInLine. UpInLine'
  BY <1>t, <1>m, <1>u, <1>f10, <1>f11 DEF NativeInv, Fields, NativeFields, Misses, UpInLine
<1>InboxInLine. InboxInLine'
  BY <1>t, <1>m, <1>u, <1>f10, <1>f11 DEF NativeInv, Fields, NativeFields, Misses, InboxInLine
<1>CurrentInLine. CurrentInLine'
  BY <1>t, <1>m, <1>u, <1>f10, <1>f11 DEF NativeInv, Fields, CurrentFields, NativeFields, Misses,
     CurrentInLine, Nobody
<1>AnswersInLine. AnswersInLine'
  BY <1>t, <1>m, <1>u, <1>f4, <1>f10, <1>f11 DEF NativeInv, Fields, CurrentFields, NativeFields,
     Misses, AnswersInLine, Nobody
<1>NativePublished. NativePublished'
  BY <1>u, <1>f2, <1>f6, <1>f11 DEF NativePublished
<1>OncesForward. OncesForward'
  <2> SUFFICES ASSUME NEW i \in Onces'
               PROVE  /\ v <= down'[i].rev /\ down'[i].rev <= published
                      /\ \A j \in Onces' : i < j => down'[i].rev <= down'[j].rev
    BY <1>u, <1>f11 DEF OncesForward
  <2>1. PICK k \in Onces : k = i + 1 /\ down'[i] = down[k] /\ i \in Nat
    BY <1>f4
  <2>2. ASSUME NEW j \in Onces', i < j PROVE down[k].rev <= down'[j].rev
    <3>0. j \in Nat /\ j + 1 \in Onces /\ down'[j] = down[j + 1]
      BY <1>f4
    <3>1. PICK l \in Onces : l = j + 1 /\ down'[j] = down[l] /\ k < l
      BY <2>1, <2>2, <3>0
    <3> QED
      BY <3>1 DEF NativeInv, OncesForward
  <2> QED
    BY <1>f6, <2>1, <2>2 DEF NativeInv, OncesForward
<1>LastArrives. LastArrives'
  <2> SUFFICES ASSUME published # -1 PROVE published <= v \/ \E i \in Onces' : down'[i].rev = published
    BY <1>u, <1>f11 DEF LastArrives
  <2>1. CASE published <= native.once
    BY <1>t, <1>f2, <1>f6, <2>1 DEF Fields, NativeFields
  <2>2. ASSUME NEW i \in Onces, down[i].rev = published PROVE published <= v \/ \E j \in Onces' : down'[j].rev = published
    BY <1>f2, <1>f5, <1>f6, <2>2
  <2> QED
    BY <2>1, <2>2 DEF NativeInv, LastArrives
<1>AnswersCovered. AnswersCovered'
  <2> SUFFICES ASSUME NEW h \in Resolutions'
               PROVE  \/ down'[h].once <= v
                      \/ \E i \in Onces' : i < h /\ down'[h].once <= down'[i].rev
    BY <1>u, <1>f11 DEF AnswersCovered
  <2>1. PICK k \in Resolutions : k = h + 1 /\ down'[h] = down[k] /\ h \in Nat /\ down[k].once \in Nat
    BY <1>f4, <1>m DEF Misses
  <2>2. CASE down[k].once <= native.once
    BY <1>t, <1>f2, <1>f6, <2>1, <2>2 DEF Fields, NativeFields
  <2>3. ASSUME NEW i \in Onces, i < k, down[k].once <= down[i].rev
        PROVE  down[k].once <= v \/ \E j \in Onces' : j < h /\ down[k].once <= down'[j].rev
    <3>1. CASE i = 1
      BY <1>f2, <2>3, <3>1
    <3>2. CASE i > 1
      <4>1. PICK j \in Onces' : j = i - 1 /\ down'[j] = down[i] /\ j \in Nat /\ i \in Nat
        BY <1>f5, <3>2
      <4> QED
        BY <2>1, <2>3, <4>1
    <3> QED
      BY <1>f5, <3>1, <3>2
  <2> QED
    BY <2>1, <2>2, <2>3 DEF NativeInv, AnswersCovered
<1>AnswersSay. AnswersSay'
  BY <1>t, <1>m, <1>u, <1>f4 DEF NativeInv, Fields, EvalFields, Misses, AnswersSay, SaysEvaluated
<1>LookupFresh. LookupFresh'
  BY <1>t, <1>u, <1>f10, <1>f11 DEF NativeInv, Fields, NativeFields, OpFields, LookupFresh
<1>AnswersLater. AnswersLater'
  BY <1>t, <1>m, <1>u, <1>f4 DEF NativeInv, Fields, OpFields, Misses, AnswersLater
<1>CalmMount. CalmMount'
  BY <1>t, <1>u, <1>f9, <1>f10, <1>f11 DEF NativeInv, Fields, NativeFields, CalmMount, Calm
<1>CalmUp. CalmUp'
  BY <1>t, <1>m, <1>u, <1>f10, <1>f11 DEF NativeInv, Fields, NativeFields, OpFields, Misses,
     CalmUp, Calm, Awaited
<1>CalmInbox. CalmInbox'
  BY <1>t, <1>m, <1>u, <1>f10, <1>f11 DEF NativeInv, Fields, NativeFields, OpFields, Misses,
     CalmInbox, Calm, Awaited
<1>CalmCurrent. CalmCurrent'
  BY <1>t, <1>u, <1>f10, <1>f11 DEF NativeInv, Fields, CurrentFields, NativeFields, OpFields,
     CalmCurrent, Calm, Nobody, Awaited
<1>CalmAnswers. CalmAnswers'
  BY <1>t, <1>m, <1>u, <1>f4, <1>f10, <1>f11 DEF NativeInv, Fields, NativeFields, OpFields, Misses,
     CalmAnswers, Calm, Awaited
<1>QuietAnswers. QuietAnswers'
  BY <1>t, <1>m, <1>u, <1>f4 DEF NativeInv, Fields, EvalFields, Misses, QuietAnswers, SaysEvaluated
<1> QED
  BY <1>s, <1>TypeOK, <1>QueuesTyped, <1>NativeBehind, <1>AnswersKnown, <1>OpsKnown,
     <1>NotSynchronized, <1>NotServing, <1>NothingAsked, <1>AskedAfterSent, <1>AwaitsLast,
     <1>RequestLeft, <1>UpInLine, <1>InboxInLine, <1>CurrentInLine, <1>AnswersInLine,
     <1>NativePublished, <1>OncesForward, <1>LastArrives, <1>AnswersCovered, <1>AnswersSay,
     <1>LookupFresh, <1>AnswersLater, <1>CalmMount, <1>CalmUp, <1>CalmInbox, <1>CalmCurrent,
     <1>CalmAnswers, <1>QuietAnswers DEF NativeInv

\* unless the socket ends or something else comes first,
LEMMA InitialFailsKeeps ==
    ASSUME NativeInv, InitialOnce, down' = down
    PROVE  NativeInv'
<1>t. Fields /\ Elements
  BY FieldsHold, ElementsHold DEF NativeInv
<1>u. /\ baseLog' = baseLog /\ file' = file /\ baseClosed' = baseClosed /\ onceEngine' = onceEngine
      /\ onceLog' = onceLog /\ viewClosed' = viewClosed /\ evals' = evals /\ aborted' = aborted
      /\ open' = open /\ inbox' = inbox /\ current' = current /\ publications' = publications
      /\ published' = published /\ synchronized' = synchronized /\ up' = up /\ down' = down
      /\ lock' = lock /\ op' = op /\ cause' = cause
  BY DEF InitialOnce, baseVars, viewVars, bridgeVars, nativeVars
<1>m. /\ Misses /\ UpMisses' = UpMisses /\ InboxMisses' = InboxMisses /\ Resolutions' = Resolutions
       /\ Onces' = Onces
  BY <1>u, MissesHold DEF NativeInv, UpMisses, InboxMisses, Resolutions, Onces
<1>f1. native \in [phase : {"load", "initial", "ready", "serving", "exited"},
                  base : Nat, once : Nat, next : 0..MaxRequests, failed : BOOLEAN]
  BY DEF NativeInv, TypeOK
<1>f2. /\ native.phase = "initial" /\ native' = [native EXCEPT !.phase = "exited"]
       /\ ~open \/ (down # <<>> /\ Head(down).kind # "once")
  <2>1. down # <<>> => Tail(down) # down
    <3>1. ASSUME down # <<>> PROVE Len(Tail(down)) = Len(down) - 1 /\ Len(down) \in Nat
      BY <3>1, Taken DEF NativeInv, QueuesTyped
    <3> QED
      BY <3>1
  <2> QED
    BY <2>1 DEF InitialOnce
<1>f3. "fault" \in cause
  <2>1. CASE ~open
    BY <2>1 DEF NativeInv, CalmMount, Calm
  <2>2. CASE down # <<>> /\ Head(down).kind # "once"
    <3>1. 1 \in 1..Len(down) /\ Head(down) = down[1]
      BY <2>2, Taken DEF NativeInv, QueuesTyped
    <3>2. 1 \in Resolutions
      BY <1>t, <2>2, <3>1 DEF Resolutions, Elements, DownElements
    <3>3. \A t \in Threads : op[t].phase # "await"
      BY <1>f2 DEF NativeInv, NotServing
    <3> QED
      BY <3>2, <3>3 DEF NativeInv, CalmAnswers, Calm, Awaited
  <2> QED
    BY <1>f2, <2>1, <2>2
<1>f4. /\ native'.phase = "exited" /\ native'.base = native.base /\ native'.once = native.once /\ native'.next = native.next /\ native'.failed = native.failed
  <2>1. ASSUME native' = [native EXCEPT !.phase = "exited"]
        PROVE  /\ native'.phase = "exited" /\ native'.base = native.base /\ native'.once = native.once /\ native'.next = native.next /\ native'.failed = native.failed
    BY <2>1, <1>f1
  <2> QED
    BY <2>1, <1>f2
<1>f5. native' \in [phase : {"load", "initial", "ready", "serving", "exited"},
                  base : Nat, once : Nat, next : 0..MaxRequests, failed : BOOLEAN]
  <2>1. ASSUME native' = [native EXCEPT !.phase = "exited"]
        PROVE  native' \in [phase : {"load", "initial", "ready", "serving", "exited"},
                       base : Nat, once : Nat, next : 0..MaxRequests, failed : BOOLEAN]
    BY <2>1, <1>f1
  <2> QED
    BY <2>1, <1>f2
<1>s. /\ QueuesTyped' /\ FileCurrent' /\ UpKnown' /\ InboxKnown' /\ CurrentKnown' /\ EvalsKnown'
      /\ AnswersKnown' /\ FirstRevision' /\ ReadyFirst' /\ LockHeld' /\ Idling' /\ UpUnasked'
      /\ InboxUnasked' /\ ActiveIsCurrent' /\ OneActive' /\ DoneIsCurrent' /\ Decided'
      /\ PublishedKnown' /\ QueueForward' /\ QueueOwners' /\ QueueOnce' /\ ResolvePublished'
      /\ CurrentSays' /\ AnswersSay' /\ AwaitFresh' /\ EvaluatedLater' /\ CurrentLater'
      /\ AnswersLater' /\ CalmEvals' /\ AbortCaused' /\ QuietCurrent' /\ QuietAnswers'
      /\ QuietDenied' /\ LogStays' /\ EngineStays' /\ GrantsBacked' /\ TargetEvaluated'
      /\ TargetSent' /\ TargetTaken' /\ LetThrough' /\ AllowedInForce' /\ GrantNotLost'
  BY <1>u, SameQueuesTyped, SameFileCurrent, SameUpKnown, SameInboxKnown, SameCurrentKnown,
     SameEvalsKnown, SameAnswersKnown, SameFirstRevision, SameReadyFirst, SameLockHeld, SameIdling,
     SameUpUnasked, SameInboxUnasked, SameActiveIsCurrent, SameOneActive, SameDoneIsCurrent,
     SameDecided, SamePublishedKnown, SameQueueForward, SameQueueOwners, SameQueueOnce,
     SameResolvePublished, SameCurrentSays, SameAnswersSay, SameAwaitFresh, SameEvaluatedLater,
     SameCurrentLater, SameAnswersLater, SameCalmEvals, SameAbortCaused, SameQuietCurrent,
     SameQuietAnswers, SameQuietDenied, SameLogStays, SameEngineStays, SameGrantsBacked,
     SameTargetEvaluated, SameTargetSent, SameTargetTaken, SameLetThrough, SameAllowedInForce,
     SameGrantNotLost DEF NativeInv
<1>TypeOK. TypeOK'
  BY <1>u, <1>f5 DEF NativeInv, TypeOK, baseRevision
<1>NativeBehind. NativeBehind'
  BY <1>t, <1>u, <1>f4 DEF NativeInv, Fields, LogFields, NativeFields, NativeBehind, onceRevision
<1>OpsKnown. OpsKnown'
  BY <1>t, <1>u, <1>f4 DEF NativeInv, Fields, LogFields, NativeFields, OpFields, OpsKnown,
     baseRevision
<1>NotSynchronized. NotSynchronized'
  BY <1>t, <1>u, <1>f4 DEF NativeInv, Fields, Elements, QueueElements, DownElements, NativeFields,
     NotSynchronized
<1>NotServing. NotServing'
  BY <1>t, <1>u, <1>f2, <1>f4 DEF NativeInv, Fields, NativeFields, OpFields, NotServing
<1>NothingAsked. NothingAsked'
  BY <1>t, <1>u, <1>f4 DEF NativeInv, Fields, LogFields, NativeFields, NothingAsked, onceRevision
<1>AskedAfterSent. AskedAfterSent'
  BY <1>t, <1>u, <1>f4 DEF NativeInv, Fields, EvalFields, NativeFields, AskedAfterSent
<1>AwaitsLast. AwaitsLast'
  BY <1>t, <1>u, <1>f4 DEF NativeInv, Fields, NativeFields, OpFields, AwaitsLast, Nobody
<1>RequestLeft. RequestLeft'
  BY <1>t, <1>u, <1>f4 DEF NativeInv, Fields, NativeFields, OpFields, RequestLeft, MayAsk
<1>UpInLine. UpInLine'
  BY <1>t, <1>m, <1>u, <1>f4 DEF NativeInv, Fields, NativeFields, Misses, UpInLine
<1>InboxInLine. InboxInLine'
  BY <1>t, <1>m, <1>u, <1>f4 DEF NativeInv, Fields, NativeFields, Misses, InboxInLine
<1>CurrentInLine. CurrentInLine'
  BY <1>t, <1>m, <1>u, <1>f4 DEF NativeInv, Fields, CurrentFields, NativeFields, Misses,
     CurrentInLine, Nobody
<1>AnswersInLine. AnswersInLine'
  BY <1>t, <1>m, <1>u, <1>f4 DEF NativeInv, Fields, CurrentFields, NativeFields, Misses,
     AnswersInLine, Nobody
<1>NativePublished. NativePublished'
  BY <1>t, <1>u, <1>f4 DEF NativeInv, Fields, NativeFields, NativePublished
<1>OncesForward. OncesForward'
  BY <1>t, <1>m, <1>u, <1>f4 DEF NativeInv, Fields, NativeFields, Misses, OncesForward
<1>LastArrives. LastArrives'
  BY <1>t, <1>m, <1>u, <1>f4 DEF NativeInv, Fields, NativeFields, Misses, LastArrives
<1>AnswersCovered. AnswersCovered'
  BY <1>t, <1>m, <1>u, <1>f4 DEF NativeInv, Fields, NativeFields, Misses, AnswersCovered
<1>LookupFresh. LookupFresh'
  BY <1>t, <1>u, <1>f4 DEF NativeInv, Fields, NativeFields, OpFields, LookupFresh
<1>CalmMount. CalmMount'
  BY <1>t, <1>u, <1>f3, <1>f4 DEF NativeInv, Fields, NativeFields, CalmMount, Calm
<1>CalmUp. CalmUp'
  BY <1>t, <1>m, <1>u, <1>f3, <1>f4 DEF NativeInv, Fields, NativeFields, OpFields, Misses, CalmUp,
     Calm, Awaited
<1>CalmInbox. CalmInbox'
  BY <1>t, <1>m, <1>u, <1>f3, <1>f4 DEF NativeInv, Fields, NativeFields, OpFields, Misses,
     CalmInbox, Calm, Awaited
<1>CalmCurrent. CalmCurrent'
  BY <1>t, <1>u, <1>f3, <1>f4 DEF NativeInv, Fields, CurrentFields, NativeFields, OpFields,
     CalmCurrent, Calm, Nobody, Awaited
<1>CalmAnswers. CalmAnswers'
  BY <1>t, <1>m, <1>u, <1>f3, <1>f4 DEF NativeInv, Fields, NativeFields, OpFields, Misses,
     CalmAnswers, Calm, Awaited
<1> QED
  BY <1>s, <1>TypeOK, <1>NativeBehind, <1>OpsKnown, <1>NotSynchronized, <1>NotServing,
     <1>NothingAsked, <1>AskedAfterSent, <1>AwaitsLast, <1>RequestLeft, <1>UpInLine,
     <1>InboxInLine, <1>CurrentInLine, <1>AnswersInLine, <1>NativePublished, <1>OncesForward,
     <1>LastArrives, <1>AnswersCovered, <1>LookupFresh, <1>CalmMount, <1>CalmUp, <1>CalmInbox,
     <1>CalmCurrent, <1>CalmAnswers DEF NativeInv

\* and the mount is announced.
LEMMA ReadyKeeps ==
    ASSUME NativeInv, Ready
    PROVE  NativeInv'
<1>t. Fields /\ Elements
  BY FieldsHold, ElementsHold DEF NativeInv
<1>q. QueuesTyped
  BY DEF NativeInv
<1>u. /\ baseLog' = baseLog /\ file' = file /\ baseClosed' = baseClosed /\ onceEngine' = onceEngine
      /\ onceLog' = onceLog /\ viewClosed' = viewClosed /\ evals' = evals /\ aborted' = aborted
      /\ open' = open /\ inbox' = inbox /\ current' = current /\ publications' = publications
      /\ published' = published /\ synchronized' = synchronized /\ down' = down /\ lock' = lock
      /\ op' = op /\ cause' = cause
  BY DEF Ready, baseVars, viewVars, bridgeVars, nativeVars
<1>m. /\ Misses /\ InboxMisses' = InboxMisses /\ Resolutions' = Resolutions /\ Onces' = Onces
  BY <1>u, MissesHold DEF NativeInv, InboxMisses, Resolutions, Onces
<1>f1. native \in [phase : {"load", "initial", "ready", "serving", "exited"},
                  base : Nat, once : Nat, next : 0..MaxRequests, failed : BOOLEAN]
  BY DEF NativeInv, TypeOK
<1>f2. native.phase = "ready" /\ native' = [native EXCEPT !.phase = "serving"]
  BY DEF Ready
<1>f3. /\ native'.phase = "serving" /\ native'.base = native.base /\ native'.once = native.once /\ native'.next = native.next /\ native'.failed = native.failed
  <2>1. ASSUME native' = [native EXCEPT !.phase = "serving"]
        PROVE  /\ native'.phase = "serving" /\ native'.base = native.base /\ native'.once = native.once /\ native'.next = native.next /\ native'.failed = native.failed
    BY <2>1, <1>f1
  <2> QED
    BY <2>1, <1>f2
<1>f4. native' \in [phase : {"load", "initial", "ready", "serving", "exited"},
                  base : Nat, once : Nat, next : 0..MaxRequests, failed : BOOLEAN]
  <2>1. ASSUME native' = [native EXCEPT !.phase = "serving"]
        PROVE  native' \in [phase : {"load", "initial", "ready", "serving", "exited"},
                       base : Nat, once : Nat, next : 0..MaxRequests, failed : BOOLEAN]
    BY <2>1, <1>f1
  <2> QED
    BY <2>1, <1>f2
<1>f5. /\ native.once = 0 /\ synchronized = 0 /\ native.base <= baseRevision
       /\ baseRevision' = baseRevision /\ onceRevision' = onceRevision /\ onceRevision = 0
  <2>1. onceRevision = 0
    BY <1>f2 DEF NativeInv, NotServing, NothingAsked
  <2>2. file \in 0..baseRevision /\ baseRevision \in Nat /\ baseRevision' = baseRevision /\ onceRevision' = onceRevision
    BY <1>t, <1>u DEF NativeInv, TypeOK, Fields, LogFields, baseRevision, onceRevision
  <2>3. native.once = 0 /\ native.base <= baseRevision
    BY <1>t, <2>1, <2>2 DEF NativeInv, NativeBehind, Fields, NativeFields
  <2>4. synchronized = 0
    BY <1>f2 DEF NativeInv, FirstRevision, NotSynchronized
  <2> QED
    BY <2>1, <2>2, <2>3, <2>4
<1>f6. PICK f \in UpFrames : /\ f.kind = "ready" /\ f.base = native.base /\ f.once = 0
                          /\ up' = IF open THEN Append(up, f) ELSE up
  <2> DEFINE g == [kind |-> "ready", base |-> native.base, once |-> native.once]
  <2>1. g \in UpFrames
    BY <1>t DEF UpFrames, Fields, NativeFields
  <2>2. up' = IF open THEN Append(up, g) ELSE up
    BY DEF Ready
  <2> QED
    BY <1>f5, <2>1, <2>2
<1>f7. /\ up' \in Seq(UpFrames)
       /\ \A i \in 1..Len(up') : (i \in 1..Len(up) /\ up'[i] = up[i]) \/ up'[i] = f
       /\ \A i \in UpMisses' : i \in UpMisses /\ up'[i] = up[i]
  <2>1. CASE open
    <3>1. /\ up' \in Seq(UpFrames)
          /\ \A i \in 1..Len(up') : \/ i \in 1..Len(up) /\ up'[i] = up[i]
                                    \/ i = Len(up) + 1 /\ up'[i] = f
          /\ \A i \in UpMisses' : \/ i \in UpMisses /\ i \in Nat /\ i < Len(up) + 1 /\ up'[i] = up[i]
                                  \/ i = Len(up) + 1 /\ up'[i] = f /\ f.kind = "miss"
      BY <1>f6, <2>1, UpGiven, <1>q
    <3> QED
      BY <1>f6, <3>1
  <2>2. CASE ~open
    BY <1>f6, <2>2 DEF NativeInv, QueuesTyped, UpMisses
  <2> QED
    BY <2>1, <2>2
<1>s. /\ FileCurrent' /\ InboxKnown' /\ CurrentKnown' /\ EvalsKnown' /\ AnswersKnown'
      /\ FirstRevision' /\ LockHeld' /\ Idling' /\ InboxUnasked' /\ ActiveIsCurrent' /\ OneActive'
      /\ DoneIsCurrent' /\ Decided' /\ PublishedKnown' /\ QueueForward' /\ QueueOwners'
      /\ QueueOnce' /\ ResolvePublished' /\ CurrentSays' /\ AnswersSay' /\ AwaitFresh'
      /\ EvaluatedLater' /\ CurrentLater' /\ AnswersLater' /\ CalmEvals' /\ AbortCaused'
      /\ QuietCurrent' /\ QuietAnswers' /\ QuietDenied' /\ LogStays' /\ EngineStays'
      /\ GrantsBacked' /\ TargetEvaluated' /\ TargetTaken' /\ LetThrough' /\ AllowedInForce'
      /\ GrantNotLost'
  BY <1>u, SameFileCurrent, SameInboxKnown, SameCurrentKnown, SameEvalsKnown, SameAnswersKnown,
     SameFirstRevision, SameLockHeld, SameIdling, SameInboxUnasked, SameActiveIsCurrent,
     SameOneActive, SameDoneIsCurrent, SameDecided, SamePublishedKnown, SameQueueForward,
     SameQueueOwners, SameQueueOnce, SameResolvePublished, SameCurrentSays, SameAnswersSay,
     SameAwaitFresh, SameEvaluatedLater, SameCurrentLater, SameAnswersLater, SameCalmEvals,
     SameAbortCaused, SameQuietCurrent, SameQuietAnswers, SameQuietDenied, SameLogStays,
     SameEngineStays, SameGrantsBacked, SameTargetEvaluated, SameTargetTaken, SameLetThrough,
     SameAllowedInForce, SameGrantNotLost DEF NativeInv
<1>TypeOK. TypeOK'
  BY <1>u, <1>f4 DEF NativeInv, TypeOK, baseRevision
<1>QueuesTyped. QueuesTyped'
  BY <1>u, <1>f7 DEF NativeInv, QueuesTyped
<1>NativeBehind. NativeBehind'
  BY <1>t, <1>u, <1>f3 DEF NativeInv, Fields, LogFields, NativeFields, NativeBehind, onceRevision
<1>UpKnown. UpKnown'
  BY <1>f5, <1>f6, <1>f7 DEF NativeInv, UpKnown
<1>OpsKnown. OpsKnown'
  BY <1>t, <1>u, <1>f3 DEF NativeInv, Fields, LogFields, NativeFields, OpFields, OpsKnown,
     baseRevision
<1>NotSynchronized. NotSynchronized'
  BY <1>u, <1>f5 DEF NotSynchronized
<1>NotServing. NotServing'
  BY <1>f3 DEF NotServing
<1>NothingAsked. NothingAsked'
  BY <1>t, <1>u, <1>f3 DEF NativeInv, Fields, LogFields, NativeFields, NothingAsked, onceRevision
<1>AskedAfterSent. AskedAfterSent'
  BY <1>t, <1>u, <1>f3 DEF NativeInv, Fields, EvalFields, NativeFields, AskedAfterSent
<1>ReadyFirst. ReadyFirst'
  BY <1>u, <1>f5, <1>f6, <1>f7 DEF NativeInv, ReadyFirst
<1>AwaitsLast. AwaitsLast'
  BY <1>t, <1>u, <1>f3 DEF NativeInv, Fields, NativeFields, OpFields, AwaitsLast, Nobody
<1>RequestLeft. RequestLeft'
  BY <1>t, <1>u, <1>f3 DEF NativeInv, Fields, NativeFields, OpFields, RequestLeft, MayAsk
<1>UpInLine. UpInLine'
  BY <1>t, <1>m, <1>u, <1>f3, <1>f7 DEF NativeInv, Fields, NativeFields, Misses, UpInLine
<1>InboxInLine. InboxInLine'
  BY <1>t, <1>m, <1>u, <1>f3, <1>f7 DEF NativeInv, Fields, NativeFields, Misses, InboxInLine
<1>CurrentInLine. CurrentInLine'
  BY <1>t, <1>m, <1>u, <1>f3, <1>f7 DEF NativeInv, Fields, CurrentFields, NativeFields, Misses,
     CurrentInLine, Nobody
<1>AnswersInLine. AnswersInLine'
  BY <1>t, <1>m, <1>u, <1>f3, <1>f7 DEF NativeInv, Fields, CurrentFields, NativeFields, Misses,
     AnswersInLine, Nobody
<1>UpUnasked. UpUnasked'
  BY <1>t, <1>m, <1>u, <1>f7 DEF NativeInv, Fields, EvalFields, Misses, UpUnasked
<1>NativePublished. NativePublished'
  BY <1>t, <1>u, <1>f2, <1>f3 DEF NativeInv, Fields, NativeFields, NativePublished
<1>OncesForward. OncesForward'
  BY <1>t, <1>m, <1>u, <1>f3 DEF NativeInv, Fields, NativeFields, Misses, OncesForward
<1>LastArrives. LastArrives'
  BY <1>t, <1>m, <1>u, <1>f3 DEF NativeInv, Fields, NativeFields, Misses, LastArrives
<1>AnswersCovered. AnswersCovered'
  BY <1>t, <1>m, <1>u, <1>f3 DEF NativeInv, Fields, NativeFields, Misses, AnswersCovered
<1>LookupFresh. LookupFresh'
  BY <1>t, <1>u, <1>f3 DEF NativeInv, Fields, NativeFields, OpFields, LookupFresh
<1>CalmMount. CalmMount'
  BY <1>t, <1>u, <1>f2, <1>f3 DEF NativeInv, Fields, NativeFields, CalmMount, Calm
<1>CalmUp. CalmUp'
  BY <1>t, <1>m, <1>u, <1>f3, <1>f7 DEF NativeInv, Fields, NativeFields, OpFields, Misses, CalmUp,
     Calm, Awaited
<1>CalmInbox. CalmInbox'
  BY <1>t, <1>m, <1>u, <1>f3 DEF NativeInv, Fields, NativeFields, OpFields, Misses, CalmInbox,
     Calm, Awaited
<1>CalmCurrent. CalmCurrent'
  BY <1>t, <1>u, <1>f3 DEF NativeInv, Fields, CurrentFields, NativeFields, OpFields, CalmCurrent,
     Calm, Nobody, Awaited
<1>CalmAnswers. CalmAnswers'
  BY <1>t, <1>m, <1>u, <1>f3 DEF NativeInv, Fields, NativeFields, OpFields, Misses, CalmAnswers,
     Calm, Awaited
<1>TargetSent. TargetSent'
  BY <1>t, <1>m, <1>u, <1>f7 DEF NativeInv, Fields, OpFields, Misses, TargetSent, Nobody
<1> QED
  BY <1>s, <1>TypeOK, <1>QueuesTyped, <1>NativeBehind, <1>UpKnown, <1>OpsKnown, <1>NotSynchronized,
     <1>NotServing, <1>NothingAsked, <1>AskedAfterSent, <1>ReadyFirst, <1>AwaitsLast,
     <1>RequestLeft, <1>UpInLine, <1>InboxInLine, <1>CurrentInLine, <1>AnswersInLine, <1>UpUnasked,
     <1>NativePublished, <1>OncesForward, <1>LastArrives, <1>AnswersCovered, <1>LookupFresh,
     <1>CalmMount, <1>CalmUp, <1>CalmInbox, <1>CalmCurrent, <1>CalmAnswers, <1>TargetSent DEF
     NativeInv

\* A callback reaches authorize while a request is left for it.
LEMMA CallbackKeeps ==
    ASSUME NativeInv, NEW t \in Threads, NEW x \in Targets, Callback(t, x)
    PROVE  NativeInv'
<1>t. Fields /\ Elements
  BY FieldsHold, ElementsHold DEF NativeInv
<1>u. /\ baseLog' = baseLog /\ file' = file /\ baseClosed' = baseClosed /\ onceEngine' = onceEngine
      /\ onceLog' = onceLog /\ viewClosed' = viewClosed /\ evals' = evals /\ aborted' = aborted
      /\ open' = open /\ inbox' = inbox /\ current' = current /\ publications' = publications
      /\ published' = published /\ synchronized' = synchronized /\ up' = up /\ down' = down
      /\ native' = native /\ lock' = lock /\ cause' = cause
  BY DEF Callback, baseVars, viewVars, bridgeVars, nativeVars
<1>m. /\ Misses /\ UpMisses' = UpMisses /\ InboxMisses' = InboxMisses /\ Resolutions' = Resolutions
       /\ Onces' = Onces
  BY <1>u, MissesHold DEF NativeInv, UpMisses, InboxMisses, Resolutions, Onces
<1>f1. op \in [Threads -> OpRecords]
  BY DEF NativeInv, TypeOK, OpRecords
<1>f2. baseRevision \in Nat /\ onceRevision \in Nat /\ baseRevision' = baseRevision /\ onceRevision' = onceRevision
  BY <1>t, <1>u DEF baseRevision, onceRevision, Fields, LogFields
<1>f3. /\ op[t].phase = "idle" /\ native.phase = "serving"
       /\ op' = [op EXCEPT ![t] = [NoOp EXCEPT !.phase = "locking", !.target = x, !.begun = baseRevision]]
  BY DEF Callback
<1>f4. PICK r \in OpRecords : /\ r.phase = "locking" /\ r.target = x /\ r.begun = baseRevision /\ r.req = Nobody
         /\ r.base = 0 /\ r.once = 0 /\ op' = [op EXCEPT ![t] = r]
  <2> DEFINE g == [NoOp EXCEPT !.phase = "locking", !.target = x, !.begun = baseRevision]
  <2>1. NoOp \in OpRecords
    BY NoneTyped, BoundsAssumption DEF NoOp, Nobody, OpRecords
  <2>2. g \in OpRecords
    BY <1>f2, <2>1 DEF OpRecords
  <2>3. g.phase = "locking" /\ g.target = x /\ g.begun = baseRevision /\ g.req = Nobody /\ g.base = 0 /\ g.once = 0
    BY <2>1, NoneTyped DEF OpRecords
  <2>4. op' = [op EXCEPT ![t] = g]
    BY <1>f3
  <2> HIDE DEF g
  <2> QED
    BY <2>2, <2>3, <2>4
<1>f5. op' \in [Threads -> OpRecords]
  BY <1>f1, <1>f4
<1>f6. /\ \A u \in Threads : u # t => op'[u] = op[u]
       /\ op'[t].phase = "locking" /\ op'[t].target = x /\ op'[t].begun = baseRevision
       /\ op'[t].req = Nobody /\ op'[t].base = 0 /\ op'[t].once = 0
  BY <1>f1, <1>f4
<1>s. /\ QueuesTyped' /\ NativeBehind' /\ FileCurrent' /\ UpKnown' /\ InboxKnown' /\ CurrentKnown'
      /\ EvalsKnown' /\ AnswersKnown' /\ FirstRevision' /\ NotSynchronized' /\ NothingAsked'
      /\ AskedAfterSent' /\ ReadyFirst' /\ UpInLine' /\ InboxInLine' /\ CurrentInLine'
      /\ AnswersInLine' /\ Idling' /\ UpUnasked' /\ InboxUnasked' /\ ActiveIsCurrent' /\ OneActive'
      /\ DoneIsCurrent' /\ Decided' /\ PublishedKnown' /\ QueueForward' /\ QueueOwners'
      /\ QueueOnce' /\ ResolvePublished' /\ NativePublished' /\ OncesForward' /\ LastArrives'
      /\ AnswersCovered' /\ CurrentSays' /\ AnswersSay' /\ CalmMount' /\ CalmEvals' /\ AbortCaused'
      /\ QuietCurrent' /\ QuietAnswers' /\ LogStays' /\ EngineStays' /\ GrantsBacked'
  BY <1>u, SameQueuesTyped, SameNativeBehind, SameFileCurrent, SameUpKnown, SameInboxKnown,
     SameCurrentKnown, SameEvalsKnown, SameAnswersKnown, SameFirstRevision, SameNotSynchronized,
     SameNothingAsked, SameAskedAfterSent, SameReadyFirst, SameUpInLine, SameInboxInLine,
     SameCurrentInLine, SameAnswersInLine, SameIdling, SameUpUnasked, SameInboxUnasked,
     SameActiveIsCurrent, SameOneActive, SameDoneIsCurrent, SameDecided, SamePublishedKnown,
     SameQueueForward, SameQueueOwners, SameQueueOnce, SameResolvePublished, SameNativePublished,
     SameOncesForward, SameLastArrives, SameAnswersCovered, SameCurrentSays, SameAnswersSay,
     SameCalmMount, SameCalmEvals, SameAbortCaused, SameQuietCurrent, SameQuietAnswers,
     SameLogStays, SameEngineStays, SameGrantsBacked DEF NativeInv
<1>TypeOK. TypeOK'
  BY <1>u, <1>f5 DEF NativeInv, TypeOK, baseRevision, OpRecords
<1>OpsKnown. OpsKnown'
  BY <1>t, <1>u, <1>f2, <1>f3, <1>f6 DEF NativeInv, Fields, LogFields, NativeFields, OpFields,
     OpsKnown
<1>NotServing. NotServing'
  BY <1>u, <1>f3 DEF NotServing
<1>LockHeld. LockHeld'
  BY <1>t, <1>u, <1>f3, <1>f6 DEF NativeInv, Fields, OpFields, LockHeld
<1>AwaitsLast. AwaitsLast'
  BY <1>t, <1>u, <1>f3, <1>f6 DEF NativeInv, Fields, NativeFields, OpFields, AwaitsLast, Nobody
<1>RequestLeft. RequestLeft'
  <2>1. IsFiniteSet(MayAsk) /\ MayAsk \subseteq Threads
    BY MountAssumption, FS_Subset DEF MayAsk
  <2>2. MayAsk' = MayAsk \cup {t} /\ t \notin MayAsk
    BY <1>f3, <1>f6 DEF MayAsk
  <2>3. Cardinality(MayAsk') = Cardinality(MayAsk) + 1 /\ Cardinality(MayAsk) \in Nat
    BY <2>1, <2>2, FS_AddElement, FS_CardinalityType
  <2>4. native.next + Cardinality(MayAsk) < MaxRequests
    BY DEF Callback, MayAsk
  <2> QED
    BY <1>u, <1>t, <2>3, <2>4, BoundsAssumption DEF RequestLeft, Fields, NativeFields
<1>LookupFresh. LookupFresh'
  BY <1>t, <1>u, <1>f6 DEF NativeInv, Fields, NativeFields, OpFields, LookupFresh
<1>AwaitFresh. AwaitFresh'
  BY <1>t, <1>u, <1>f6 DEF NativeInv, Fields, OpFields, AwaitFresh
<1>EvaluatedLater. EvaluatedLater'
  BY <1>t, <1>u, <1>f6 DEF NativeInv, Fields, EvalFields, OpFields, EvaluatedLater
<1>CurrentLater. CurrentLater'
  BY <1>t, <1>u, <1>f6 DEF NativeInv, Fields, CurrentFields, OpFields, CurrentLater
<1>AnswersLater. AnswersLater'
  BY <1>t, <1>m, <1>u, <1>f6 DEF NativeInv, Fields, OpFields, Misses, AnswersLater
<1>CalmUp. CalmUp'
  BY <1>t, <1>m, <1>u, <1>f3, <1>f6 DEF NativeInv, Fields, NativeFields, OpFields, Misses, CalmUp,
     Calm, Awaited
<1>CalmInbox. CalmInbox'
  BY <1>t, <1>m, <1>u, <1>f3, <1>f6 DEF NativeInv, Fields, NativeFields, OpFields, Misses,
     CalmInbox, Calm, Awaited
<1>CalmCurrent. CalmCurrent'
  BY <1>t, <1>u, <1>f3, <1>f6 DEF NativeInv, Fields, CurrentFields, NativeFields, OpFields,
     CalmCurrent, Calm, Nobody, Awaited
<1>CalmAnswers. CalmAnswers'
  BY <1>t, <1>m, <1>u, <1>f3, <1>f6 DEF NativeInv, Fields, NativeFields, OpFields, Misses,
     CalmAnswers, Calm, Awaited
<1>QuietDenied. QuietDenied'
  BY <1>t, <1>u, <1>f6 DEF NativeInv, Fields, EvalFields, OpFields, QuietDenied, Nobody
<1>TargetEvaluated. TargetEvaluated'
  BY <1>t, <1>u, <1>f6 DEF NativeInv, Fields, EvalFields, OpFields, TargetEvaluated, Nobody
<1>TargetSent. TargetSent'
  BY <1>t, <1>m, <1>u, <1>f6 DEF NativeInv, Fields, OpFields, Misses, TargetSent, Nobody
<1>TargetTaken. TargetTaken'
  BY <1>t, <1>m, <1>u, <1>f6 DEF NativeInv, Fields, OpFields, Misses, TargetTaken, Nobody
<1>LetThrough. LetThrough'
  BY <1>t, <1>u, <1>f6 DEF NativeInv, Fields, EvalFields, OpFields, LetThrough, Nobody
<1>AllowedInForce. AllowedInForce'
  <2> SUFFICES ASSUME NEW u \in Threads, op'[u].phase = "allowed"
               PROVE  /\ op'[u].base \in op'[u].begun..baseRevision
                      /\ op'[u].req # Nobody => op'[u].base >= evals[op'[u].req].base
                      /\ Lookup(op'[u].base, op'[u].once, op'[u].target) = "allow"
    BY <1>u, <1>f2 DEF AllowedInForce, Lookup, BaseAt, OnceAt
  <2>1. op'[u] = op[u]
    BY <1>f6
  <2> QED
    BY <2>1 DEF NativeInv, AllowedInForce
<1>GrantNotLost. GrantNotLost'
  BY <1>t, <1>u, <1>f6 DEF NativeInv, Fields, LogFields, EvalFields, OpFields, GrantNotLost,
     Nobody, baseRevision
<1> QED
  BY <1>s, <1>TypeOK, <1>OpsKnown, <1>NotServing, <1>LockHeld, <1>AwaitsLast, <1>RequestLeft,
     <1>LookupFresh, <1>AwaitFresh, <1>EvaluatedLater, <1>CurrentLater, <1>AnswersLater, <1>CalmUp,
     <1>CalmInbox, <1>CalmCurrent, <1>CalmAnswers, <1>QuietDenied, <1>TargetEvaluated,
     <1>TargetSent, <1>TargetTaken, <1>LetThrough, <1>AllowedInForce, <1>GrantNotLost DEF NativeInv

\* authorize takes the mutex and refreshes the base; a failed mount stays failed.
LEMMA AuthorizeKeeps ==
    ASSUME NativeInv, NEW t \in Threads, Authorize(t)
    PROVE  NativeInv'
<1>t. Fields /\ Elements
  BY FieldsHold, ElementsHold DEF NativeInv
<1>u. /\ baseLog' = baseLog /\ file' = file /\ baseClosed' = baseClosed /\ onceEngine' = onceEngine
      /\ onceLog' = onceLog /\ viewClosed' = viewClosed /\ evals' = evals /\ aborted' = aborted
      /\ open' = open /\ inbox' = inbox /\ current' = current /\ publications' = publications
      /\ published' = published /\ synchronized' = synchronized /\ up' = up /\ down' = down
      /\ cause' = cause
  BY DEF Authorize, baseVars, viewVars, bridgeVars, nativeVars
<1>m. /\ Misses /\ UpMisses' = UpMisses /\ InboxMisses' = InboxMisses /\ Resolutions' = Resolutions
       /\ Onces' = Onces
  BY <1>u, MissesHold DEF NativeInv, UpMisses, InboxMisses, Resolutions, Onces
<1>f1. op \in [Threads -> OpRecords]
  BY DEF NativeInv, TypeOK, OpRecords
<1>f2. native \in [phase : {"load", "initial", "ready", "serving", "exited"},
                  base : Nat, once : Nat, next : 0..MaxRequests, failed : BOOLEAN]
  BY DEF NativeInv, TypeOK
<1>f3. baseRevision \in Nat /\ onceRevision \in Nat /\ baseRevision' = baseRevision /\ onceRevision' = onceRevision
  BY <1>t, <1>u DEF baseRevision, onceRevision, Fields, LogFields
<1>f4. /\ file \in Nat /\ native.base <= file
  BY <1>t DEF NativeInv, NativeBehind, Fields, LogFields
<1>f5. op[t].phase = "locking" /\ lock = NoThread /\ Refreshable /\ native.failed \in BOOLEAN /\ native.phase = "serving"
  BY <1>t, <1>f4 DEF Authorize, Refreshable, Replaces, Fields, NativeFields, NativeInv, NotServing
<1>f6. PICK c \in {file, native.base} :
         /\ native' = [native EXCEPT !.failed = native.failed, !.base = c]
         /\ ~native.failed => c = file
  BY <1>f4, <1>f5 DEF Authorize
<1>f7. PICK ph \in {"lookup", "denied"} :
         /\ op' = [op EXCEPT ![t].phase = ph] /\ lock' = IF ph = "denied" THEN NoThread ELSE t
         /\ ph = "lookup" => ~native.failed
  BY <1>f5 DEF Authorize
<1>f8. /\ c \in Nat /\ native.base <= c /\ c <= file
  BY <1>t, <1>f4, <1>f6 DEF Fields, NativeFields
<1>f9. /\ native'.phase = native.phase /\ native'.base = c /\ native'.once = native.once /\ native'.next = native.next /\ native'.failed = native.failed
  <2>1. ASSUME NEW x \in BOOLEAN, NEW b \in Nat, native' = [native EXCEPT !.failed = x, !.base = b]
        PROVE  /\ native'.phase = native.phase /\ native'.base = b /\ native'.once = native.once /\ native'.next = native.next /\ native'.failed = x
    BY <2>1, <1>f2
  <2> QED
    BY <2>1, <1>f6, <1>f5, <1>f8
<1>f10. native' \in [phase : {"load", "initial", "ready", "serving", "exited"},
                   base : Nat, once : Nat, next : 0..MaxRequests, failed : BOOLEAN]
  <2>1. ASSUME NEW x \in BOOLEAN, NEW b \in Nat, native' = [native EXCEPT !.failed = x, !.base = b]
        PROVE  native' \in [phase : {"load", "initial", "ready", "serving", "exited"},
                       base : Nat, once : Nat, next : 0..MaxRequests, failed : BOOLEAN]
    BY <2>1, <1>f2
  <2> QED
    BY <2>1, <1>f6, <1>f5, <1>f8
<1>f11. /\ \A u \in Threads : u # t => op'[u] = op[u]
        /\ op'[t].phase = ph /\ op'[t].target = op[t].target /\ op'[t].begun = op[t].begun /\ op'[t].req = op[t].req
        /\ op'[t].base = op[t].base /\ op'[t].once = op[t].once
  <2>1. ASSUME NEW p \in {"lookup", "denied"}, op' = [op EXCEPT ![t].phase = p]
        PROVE  /\ \A u \in Threads : u # t => op'[u] = op[u]
               /\ op'[t].phase = p /\ op'[t].target = op[t].target /\ op'[t].begun = op[t].begun /\ op'[t].req = op[t].req
               /\ op'[t].base = op[t].base /\ op'[t].once = op[t].once
    BY <2>1, <1>f1 DEF OpRecords
  <2> QED
    BY <2>1, <1>f7
<1>f12. op' \in [Threads -> OpRecords]
  <2>1. ASSUME NEW p \in {"lookup", "denied"}, op' = [op EXCEPT ![t].phase = p]
        PROVE  op' \in [Threads -> OpRecords]
    BY <2>1, <1>f1 DEF OpRecords
  <2> QED
    BY <2>1, <1>f7
<1>f13. /\ lock = NoThread /\ op[t].phase = "locking" /\ op[t].req = Nobody /\ ph \in {"lookup", "denied"}
        /\ (ph = "denied" => lock' = NoThread) /\ (ph = "lookup" => lock' = t /\ native'.base = file)
  <2>1. op[t].req = Nobody
    BY <1>f5 DEF NativeInv, AwaitsLast
  <2>2. ph = "lookup" => ~native.failed /\ lock' = t
    BY <1>f7
  <2>3. ph = "denied" => lock' = NoThread
    BY <1>f7
  <2> QED
    BY <1>f5, <1>f6, <1>f7, <1>f9, <2>1, <2>2, <2>3
<1>s. /\ QueuesTyped' /\ FileCurrent' /\ UpKnown' /\ InboxKnown' /\ CurrentKnown' /\ EvalsKnown'
      /\ AnswersKnown' /\ FirstRevision' /\ ReadyFirst' /\ Idling' /\ UpUnasked' /\ InboxUnasked'
      /\ ActiveIsCurrent' /\ OneActive' /\ DoneIsCurrent' /\ Decided' /\ PublishedKnown'
      /\ QueueForward' /\ QueueOwners' /\ QueueOnce' /\ ResolvePublished' /\ CurrentSays'
      /\ AnswersSay' /\ CalmEvals' /\ AbortCaused' /\ QuietCurrent' /\ QuietAnswers' /\ LogStays'
      /\ EngineStays' /\ GrantsBacked'
  BY <1>u, SameQueuesTyped, SameFileCurrent, SameUpKnown, SameInboxKnown, SameCurrentKnown,
     SameEvalsKnown, SameAnswersKnown, SameFirstRevision, SameReadyFirst, SameIdling,
     SameUpUnasked, SameInboxUnasked, SameActiveIsCurrent, SameOneActive, SameDoneIsCurrent,
     SameDecided, SamePublishedKnown, SameQueueForward, SameQueueOwners, SameQueueOnce,
     SameResolvePublished, SameCurrentSays, SameAnswersSay, SameCalmEvals, SameAbortCaused,
     SameQuietCurrent, SameQuietAnswers, SameLogStays, SameEngineStays, SameGrantsBacked DEF
     NativeInv
<1>TypeOK. TypeOK'
  BY <1>u, <1>f10, <1>f12, <1>f13, MountAssumption DEF NativeInv, TypeOK, baseRevision, OpRecords
<1>NativeBehind. NativeBehind'
  BY <1>t, <1>u, <1>f3, <1>f8, <1>f9 DEF NativeInv, NativeBehind, Fields, NativeFields, LogFields
<1>OpsKnown. OpsKnown'
  BY <1>t, <1>u, <1>f4, <1>f8, <1>f9, <1>f11, <1>f13 DEF NativeInv, Fields, LogFields,
     NativeFields, OpFields, OpsKnown, baseRevision
<1>NotSynchronized. NotSynchronized'
  BY <1>t, <1>u, <1>f4, <1>f8, <1>f9, <1>f13 DEF NativeInv, Fields, Elements, QueueElements,
     DownElements, NativeFields, NotSynchronized
<1>NotServing. NotServing'
  BY <1>f5, <1>f9 DEF NotServing
<1>NothingAsked. NothingAsked'
  BY <1>t, <1>u, <1>f4, <1>f8, <1>f9, <1>f13 DEF NativeInv, Fields, LogFields, NativeFields,
     NothingAsked, onceRevision
<1>AskedAfterSent. AskedAfterSent'
  BY <1>t, <1>u, <1>f4, <1>f8, <1>f9, <1>f13 DEF NativeInv, Fields, EvalFields, NativeFields,
     AskedAfterSent
<1>LockHeld. LockHeld'
  BY <1>u, <1>f11, <1>f13, MountAssumption DEF NativeInv, LockHeld
<1>AwaitsLast. AwaitsLast'
  BY <1>t, <1>u, <1>f4, <1>f8, <1>f9, <1>f11, <1>f13 DEF NativeInv, Fields, NativeFields, OpFields,
     AwaitsLast, Nobody
<1>RequestLeft. RequestLeft'
  <2>1. IsFiniteSet(MayAsk) /\ MayAsk \subseteq Threads
    BY MountAssumption, FS_Subset DEF MayAsk
  <2>2. MayAsk' \subseteq MayAsk
    BY <1>f11, <1>f13 DEF MayAsk
  <2>3. Cardinality(MayAsk') <= Cardinality(MayAsk) /\ Cardinality(MayAsk) \in Nat /\ Cardinality(MayAsk') \in Nat
    BY <2>1, <2>2, FS_Subset, FS_CardinalityType
  <2> QED
    BY <1>f9, <1>t, <2>3, BoundsAssumption DEF NativeInv, RequestLeft, Fields, NativeFields
<1>UpInLine. UpInLine'
  BY <1>t, <1>m, <1>u, <1>f4, <1>f8, <1>f9, <1>f13 DEF NativeInv, Fields, NativeFields, Misses,
     UpInLine
<1>InboxInLine. InboxInLine'
  BY <1>t, <1>m, <1>u, <1>f4, <1>f8, <1>f9, <1>f13 DEF NativeInv, Fields, NativeFields, Misses,
     InboxInLine
<1>CurrentInLine. CurrentInLine'
  BY <1>t, <1>m, <1>u, <1>f4, <1>f8, <1>f9, <1>f13 DEF NativeInv, Fields, CurrentFields,
     NativeFields, Misses, CurrentInLine, Nobody
<1>AnswersInLine. AnswersInLine'
  BY <1>t, <1>m, <1>u, <1>f4, <1>f8, <1>f9, <1>f13 DEF NativeInv, Fields, CurrentFields,
     NativeFields, Misses, AnswersInLine, Nobody
<1>NativePublished. NativePublished'
  BY <1>t, <1>u, <1>f4, <1>f8, <1>f9, <1>f13 DEF NativeInv, Fields, NativeFields, NativePublished
<1>OncesForward. OncesForward'
  BY <1>t, <1>m, <1>u, <1>f4, <1>f8, <1>f9, <1>f13 DEF NativeInv, Fields, NativeFields, Misses,
     OncesForward
<1>LastArrives. LastArrives'
  BY <1>t, <1>m, <1>u, <1>f4, <1>f8, <1>f9, <1>f13 DEF NativeInv, Fields, NativeFields, Misses,
     LastArrives
<1>AnswersCovered. AnswersCovered'
  BY <1>t, <1>m, <1>u, <1>f4, <1>f8, <1>f9, <1>f13 DEF NativeInv, Fields, NativeFields, Misses,
     AnswersCovered
<1>LookupFresh. LookupFresh'
  <2> SUFFICES ASSUME NEW u \in Threads, op'[u].phase = "lookup", open PROVE op'[u].begun <= native'.base
    BY <1>u DEF LookupFresh
  <2>1. u = t
    BY <1>f11, <1>f13, MountAssumption DEF NativeInv, LockHeld
  <2>2. op[t].begun <= baseRevision /\ file = baseRevision
    BY <2>1 DEF NativeInv, OpsKnown, FileCurrent
  <2> QED
    BY <1>f11, <1>f13, <2>1, <2>2
<1>AwaitFresh. AwaitFresh'
  BY <1>t, <1>u, <1>f11, <1>f13 DEF NativeInv, Fields, OpFields, AwaitFresh
<1>EvaluatedLater. EvaluatedLater'
  BY <1>t, <1>u, <1>f11, <1>f13 DEF NativeInv, Fields, EvalFields, OpFields, EvaluatedLater
<1>CurrentLater. CurrentLater'
  BY <1>t, <1>u, <1>f11, <1>f13 DEF NativeInv, Fields, CurrentFields, OpFields, CurrentLater
<1>AnswersLater. AnswersLater'
  BY <1>t, <1>m, <1>u, <1>f11, <1>f13 DEF NativeInv, Fields, OpFields, Misses, AnswersLater
<1>CalmMount. CalmMount'
  BY <1>t, <1>u, <1>f4, <1>f8, <1>f9, <1>f13 DEF NativeInv, Fields, NativeFields, CalmMount, Calm
<1>CalmUp. CalmUp'
  BY <1>t, <1>m, <1>u, <1>f4, <1>f8, <1>f9, <1>f11, <1>f13 DEF NativeInv, Fields, NativeFields,
     OpFields, Misses, CalmUp, Calm, Awaited
<1>CalmInbox. CalmInbox'
  BY <1>t, <1>m, <1>u, <1>f4, <1>f8, <1>f9, <1>f11, <1>f13 DEF NativeInv, Fields, NativeFields,
     OpFields, Misses, CalmInbox, Calm, Awaited
<1>CalmCurrent. CalmCurrent'
  BY <1>t, <1>u, <1>f4, <1>f8, <1>f9, <1>f11, <1>f13 DEF NativeInv, Fields, CurrentFields,
     NativeFields, OpFields, CalmCurrent, Calm, Nobody, Awaited
<1>CalmAnswers. CalmAnswers'
  BY <1>t, <1>m, <1>u, <1>f4, <1>f8, <1>f9, <1>f11, <1>f13 DEF NativeInv, Fields, NativeFields,
     OpFields, Misses, CalmAnswers, Calm, Awaited
<1>QuietDenied. QuietDenied'
  BY <1>t, <1>u, <1>f11, <1>f13 DEF NativeInv, Fields, EvalFields, OpFields, QuietDenied, Nobody
<1>TargetEvaluated. TargetEvaluated'
  BY <1>t, <1>u, <1>f11, <1>f13 DEF NativeInv, Fields, EvalFields, OpFields, TargetEvaluated,
     Nobody
<1>TargetSent. TargetSent'
  BY <1>t, <1>m, <1>u, <1>f11, <1>f13 DEF NativeInv, Fields, OpFields, Misses, TargetSent, Nobody
<1>TargetTaken. TargetTaken'
  BY <1>t, <1>m, <1>u, <1>f11, <1>f13 DEF NativeInv, Fields, OpFields, Misses, TargetTaken, Nobody
<1>LetThrough. LetThrough'
  BY <1>t, <1>u, <1>f11, <1>f13 DEF NativeInv, Fields, EvalFields, OpFields, LetThrough, Nobody
<1>AllowedInForce. AllowedInForce'
  <2> SUFFICES ASSUME NEW u \in Threads, op'[u].phase = "allowed"
               PROVE  /\ op'[u].base \in op'[u].begun..baseRevision
                      /\ op'[u].req # Nobody => op'[u].base >= evals[op'[u].req].base
                      /\ Lookup(op'[u].base, op'[u].once, op'[u].target) = "allow"
    BY <1>u, <1>f3 DEF AllowedInForce, Lookup, BaseAt, OnceAt
  <2>1. op'[u] = op[u]
    BY <1>f11, <1>f13
  <2> QED
    BY <2>1 DEF NativeInv, AllowedInForce
<1>GrantNotLost. GrantNotLost'
  BY <1>t, <1>u, <1>f11, <1>f13 DEF NativeInv, Fields, LogFields, EvalFields, OpFields,
     GrantNotLost, Nobody, baseRevision
<1> QED
  BY <1>s, <1>TypeOK, <1>NativeBehind, <1>OpsKnown, <1>NotSynchronized, <1>NotServing,
     <1>NothingAsked, <1>AskedAfterSent, <1>LockHeld, <1>AwaitsLast, <1>RequestLeft, <1>UpInLine,
     <1>InboxInLine, <1>CurrentInLine, <1>AnswersInLine, <1>NativePublished, <1>OncesForward,
     <1>LastArrives, <1>AnswersCovered, <1>LookupFresh, <1>AwaitFresh, <1>EvaluatedLater,
     <1>CurrentLater, <1>AnswersLater, <1>CalmMount, <1>CalmUp, <1>CalmInbox, <1>CalmCurrent,
     <1>CalmAnswers, <1>QuietDenied, <1>TargetEvaluated, <1>TargetSent, <1>TargetTaken,
     <1>LetThrough, <1>AllowedInForce, <1>GrantNotLost DEF NativeInv

\* authorize after drain.  Anything but newer ONCE snapshots fails the mount,
LEMMA LookupFailsKeeps ==
    ASSUME NativeInv, NEW t \in Threads, LookupPolicy(t), ~Drainable
    PROVE  NativeInv'
<1>t. Fields /\ Elements
  BY FieldsHold, ElementsHold DEF NativeInv
<1>u. /\ baseLog' = baseLog /\ file' = file /\ baseClosed' = baseClosed /\ onceEngine' = onceEngine
      /\ onceLog' = onceLog /\ viewClosed' = viewClosed /\ evals' = evals /\ aborted' = aborted
      /\ open' = open /\ inbox' = inbox /\ current' = current /\ publications' = publications
      /\ published' = published /\ synchronized' = synchronized /\ up' = up /\ down' = down
      /\ cause' = cause
  BY DEF LookupPolicy, baseVars, viewVars, bridgeVars, nativeVars
<1>m. /\ Misses /\ UpMisses' = UpMisses /\ InboxMisses' = InboxMisses /\ Resolutions' = Resolutions
       /\ Onces' = Onces
  BY <1>u, MissesHold DEF NativeInv, UpMisses, InboxMisses, Resolutions, Onces
<1>f1. op \in [Threads -> OpRecords]
  BY DEF NativeInv, TypeOK, OpRecords
<1>f2. native \in [phase : {"load", "initial", "ready", "serving", "exited"},
                  base : Nat, once : Nat, next : 0..MaxRequests, failed : BOOLEAN]
  BY DEF NativeInv, TypeOK
<1>f3. baseRevision \in Nat /\ onceRevision \in Nat /\ baseRevision' = baseRevision /\ onceRevision' = onceRevision
  BY <1>t, <1>u DEF baseRevision, onceRevision, Fields, LogFields
<1>f4. /\ op[t].phase = "lookup" /\ lock = t /\ op[t].req = Nobody /\ t # NoThread /\ native.phase = "serving"
       /\ \A u \in Threads : op[u].phase \in {"lookup", "await"} => u = t
  <2>1. op[t].phase = "lookup"
    BY DEF LookupPolicy
  <2>2. \A u \in Threads : op[u].phase \in {"lookup", "await"} => u = t
    BY <2>1 DEF NativeInv, LockHeld
  <2> QED
    BY <2>1, <2>2, MountAssumption DEF NativeInv, LockHeld, AwaitsLast, NotServing
<1>f5. /\ native' = [native EXCEPT !.failed = TRUE] /\ lock' = NoThread
       /\ op' = [op EXCEPT ![t].phase = "denied"]
  BY DEF LookupPolicy
<1>f6. "fault" \in cause
  <2> SUFFICES ASSUME Calm PROVE Drainable
    BY DEF Calm
  <2>1. open
    BY DEF NativeInv, CalmMount
  <2>2. Resolutions = {}
    BY <1>f4 DEF NativeInv, CalmAnswers, Awaited
  <2>3. \A i \in 1..Len(down) : i \in Onces
    BY <1>t, <2>2 DEF Resolutions, Onces, Elements, DownElements
  <2>4. ASSUME NEW i \in 1..Len(down)
        PROVE  /\ down[i].kind = "once" /\ down[i].rev >= native.once
               /\ \A j \in 1..i : down[i].rev >= down[j].rev
    <3>1. down[i].kind = "once" /\ down[i].rev >= native.once /\ down[i].rev \in Nat /\ native.once \in Nat
      BY <1>t, <1>m, <2>3 DEF NativeInv, OncesForward, Misses, Onces, Fields, NativeFields
    <3>2. ASSUME NEW j \in 1..i PROVE down[i].rev >= down[j].rev
      <4>1. j \in 1..Len(down) /\ (j = i \/ j < i)
        BY <1>t DEF Elements, DownElements
      <4>2. down[j].rev \in Nat
        BY <1>m, <2>3, <4>1 DEF Misses
      <4> QED
        BY <2>3, <3>1, <4>1, <4>2 DEF NativeInv, OncesForward
    <3> QED
      BY <3>1, <3>2
  <2> QED
    BY <2>1, <2>4 DEF Drainable, Replaces
<1>f7. /\ native'.phase = native.phase /\ native'.base = native.base /\ native'.once = native.once /\ native'.next = native.next /\ native'.failed = TRUE
  <2>1. ASSUME native' = [native EXCEPT !.failed = TRUE]
        PROVE  /\ native'.phase = native.phase /\ native'.base = native.base /\ native'.once = native.once /\ native'.next = native.next /\ native'.failed = TRUE
    BY <2>1, <1>f2
  <2> QED
    BY <2>1, <1>f5
<1>f8. native' \in [phase : {"load", "initial", "ready", "serving", "exited"},
                  base : Nat, once : Nat, next : 0..MaxRequests, failed : BOOLEAN]
  <2>1. ASSUME native' = [native EXCEPT !.failed = TRUE]
        PROVE  native' \in [phase : {"load", "initial", "ready", "serving", "exited"},
                       base : Nat, once : Nat, next : 0..MaxRequests, failed : BOOLEAN]
    BY <2>1, <1>f2
  <2> QED
    BY <2>1, <1>f5
<1>f9. /\ \A u \in Threads : u # t => op'[u] = op[u]
       /\ op'[t].phase = "denied" /\ op'[t].target = op[t].target /\ op'[t].begun = op[t].begun /\ op'[t].req = op[t].req
       /\ op'[t].base = op[t].base /\ op'[t].once = op[t].once
  <2>1. ASSUME op' = [op EXCEPT ![t].phase = "denied"]
        PROVE  /\ \A u \in Threads : u # t => op'[u] = op[u]
               /\ op'[t].phase = "denied" /\ op'[t].target = op[t].target /\ op'[t].begun = op[t].begun /\ op'[t].req = op[t].req
               /\ op'[t].base = op[t].base /\ op'[t].once = op[t].once
    BY <2>1, <1>f1 DEF OpRecords
  <2> QED
    BY <2>1, <1>f5
<1>f10. op' \in [Threads -> OpRecords]
  <2>1. ASSUME op' = [op EXCEPT ![t].phase = "denied"]
        PROVE  op' \in [Threads -> OpRecords]
    BY <2>1, <1>f1 DEF OpRecords
  <2> QED
    BY <2>1, <1>f5
<1>f11. lock' = NoThread
  BY <1>f5
<1>s. /\ QueuesTyped' /\ FileCurrent' /\ UpKnown' /\ InboxKnown' /\ CurrentKnown' /\ EvalsKnown'
      /\ AnswersKnown' /\ FirstRevision' /\ ReadyFirst' /\ Idling' /\ UpUnasked' /\ InboxUnasked'
      /\ ActiveIsCurrent' /\ OneActive' /\ DoneIsCurrent' /\ Decided' /\ PublishedKnown'
      /\ QueueForward' /\ QueueOwners' /\ QueueOnce' /\ ResolvePublished' /\ CurrentSays'
      /\ AnswersSay' /\ CalmEvals' /\ AbortCaused' /\ QuietCurrent' /\ QuietAnswers' /\ LogStays'
      /\ EngineStays' /\ GrantsBacked'
  BY <1>u, SameQueuesTyped, SameFileCurrent, SameUpKnown, SameInboxKnown, SameCurrentKnown,
     SameEvalsKnown, SameAnswersKnown, SameFirstRevision, SameReadyFirst, SameIdling,
     SameUpUnasked, SameInboxUnasked, SameActiveIsCurrent, SameOneActive, SameDoneIsCurrent,
     SameDecided, SamePublishedKnown, SameQueueForward, SameQueueOwners, SameQueueOnce,
     SameResolvePublished, SameCurrentSays, SameAnswersSay, SameCalmEvals, SameAbortCaused,
     SameQuietCurrent, SameQuietAnswers, SameLogStays, SameEngineStays, SameGrantsBacked DEF
     NativeInv
<1>TypeOK. TypeOK'
  BY <1>u, <1>f8, <1>f10, <1>f11 DEF NativeInv, TypeOK, baseRevision, OpRecords
<1>NativeBehind. NativeBehind'
  BY <1>t, <1>u, <1>f4, <1>f7 DEF NativeInv, Fields, LogFields, NativeFields, NativeBehind,
     onceRevision
<1>OpsKnown. OpsKnown'
  BY <1>t, <1>u, <1>f4, <1>f7, <1>f9 DEF NativeInv, Fields, LogFields, NativeFields, OpFields,
     OpsKnown, baseRevision
<1>NotSynchronized. NotSynchronized'
  BY <1>t, <1>u, <1>f4, <1>f7 DEF NativeInv, Fields, Elements, QueueElements, DownElements,
     NativeFields, NotSynchronized
<1>NotServing. NotServing'
  BY <1>t, <1>u, <1>f4, <1>f7, <1>f9 DEF NativeInv, Fields, NativeFields, OpFields, NotServing
<1>NothingAsked. NothingAsked'
  BY <1>t, <1>u, <1>f4, <1>f7 DEF NativeInv, Fields, LogFields, NativeFields, NothingAsked,
     onceRevision
<1>AskedAfterSent. AskedAfterSent'
  BY <1>t, <1>u, <1>f4, <1>f7 DEF NativeInv, Fields, EvalFields, NativeFields, AskedAfterSent
<1>LockHeld. LockHeld'
  BY <1>f4, <1>f9, <1>f11, MountAssumption DEF LockHeld
<1>AwaitsLast. AwaitsLast'
  BY <1>t, <1>u, <1>f4, <1>f7, <1>f9 DEF NativeInv, Fields, NativeFields, OpFields, AwaitsLast,
     Nobody
<1>RequestLeft. RequestLeft'
  <2>1. IsFiniteSet(MayAsk) /\ MayAsk \subseteq Threads
    BY MountAssumption, FS_Subset DEF MayAsk
  <2>2. MayAsk' \subseteq MayAsk
    BY <1>f9, <1>f4 DEF MayAsk
  <2>3. Cardinality(MayAsk') <= Cardinality(MayAsk) /\ Cardinality(MayAsk) \in Nat /\ Cardinality(MayAsk') \in Nat
    BY <2>1, <2>2, FS_Subset, FS_CardinalityType
  <2> QED
    BY <1>f7, <1>t, <2>3, BoundsAssumption DEF NativeInv, RequestLeft, Fields, NativeFields
<1>UpInLine. UpInLine'
  BY <1>t, <1>m, <1>u, <1>f4, <1>f7 DEF NativeInv, Fields, NativeFields, Misses, UpInLine
<1>InboxInLine. InboxInLine'
  BY <1>t, <1>m, <1>u, <1>f4, <1>f7 DEF NativeInv, Fields, NativeFields, Misses, InboxInLine
<1>CurrentInLine. CurrentInLine'
  BY <1>t, <1>m, <1>u, <1>f4, <1>f7 DEF NativeInv, Fields, CurrentFields, NativeFields, Misses,
     CurrentInLine, Nobody
<1>AnswersInLine. AnswersInLine'
  BY <1>t, <1>m, <1>u, <1>f4, <1>f7 DEF NativeInv, Fields, CurrentFields, NativeFields, Misses,
     AnswersInLine, Nobody
<1>NativePublished. NativePublished'
  BY <1>t, <1>u, <1>f4, <1>f7 DEF NativeInv, Fields, NativeFields, NativePublished
<1>OncesForward. OncesForward'
  BY <1>t, <1>m, <1>u, <1>f4, <1>f7 DEF NativeInv, Fields, NativeFields, Misses, OncesForward
<1>LastArrives. LastArrives'
  BY <1>t, <1>m, <1>u, <1>f4, <1>f7 DEF NativeInv, Fields, NativeFields, Misses, LastArrives
<1>AnswersCovered. AnswersCovered'
  BY <1>t, <1>m, <1>u, <1>f4, <1>f7 DEF NativeInv, Fields, NativeFields, Misses, AnswersCovered
<1>LookupFresh. LookupFresh'
  BY <1>t, <1>u, <1>f4, <1>f7, <1>f9 DEF NativeInv, Fields, NativeFields, OpFields, LookupFresh
<1>AwaitFresh. AwaitFresh'
  BY <1>t, <1>u, <1>f4, <1>f9 DEF NativeInv, Fields, OpFields, AwaitFresh
<1>EvaluatedLater. EvaluatedLater'
  BY <1>t, <1>u, <1>f4, <1>f9 DEF NativeInv, Fields, EvalFields, OpFields, EvaluatedLater
<1>CurrentLater. CurrentLater'
  BY <1>t, <1>u, <1>f4, <1>f9 DEF NativeInv, Fields, CurrentFields, OpFields, CurrentLater
<1>AnswersLater. AnswersLater'
  BY <1>t, <1>m, <1>u, <1>f4, <1>f9 DEF NativeInv, Fields, OpFields, Misses, AnswersLater
<1>CalmMount. CalmMount'
  BY <1>t, <1>u, <1>f4, <1>f6, <1>f7 DEF NativeInv, Fields, NativeFields, CalmMount, Calm
<1>CalmUp. CalmUp'
  BY <1>t, <1>m, <1>u, <1>f4, <1>f6, <1>f7, <1>f9 DEF NativeInv, Fields, NativeFields, OpFields,
     Misses, CalmUp, Calm, Awaited
<1>CalmInbox. CalmInbox'
  BY <1>t, <1>m, <1>u, <1>f4, <1>f6, <1>f7, <1>f9 DEF NativeInv, Fields, NativeFields, OpFields,
     Misses, CalmInbox, Calm, Awaited
<1>CalmCurrent. CalmCurrent'
  BY <1>t, <1>u, <1>f4, <1>f6, <1>f7, <1>f9 DEF NativeInv, Fields, CurrentFields, NativeFields,
     OpFields, CalmCurrent, Calm, Nobody, Awaited
<1>CalmAnswers. CalmAnswers'
  BY <1>t, <1>m, <1>u, <1>f4, <1>f6, <1>f7, <1>f9 DEF NativeInv, Fields, NativeFields, OpFields,
     Misses, CalmAnswers, Calm, Awaited
<1>QuietDenied. QuietDenied'
  BY <1>t, <1>u, <1>f4, <1>f6, <1>f9 DEF NativeInv, Fields, EvalFields, OpFields, QuietDenied,
     Nobody
<1>TargetEvaluated. TargetEvaluated'
  BY <1>t, <1>u, <1>f4, <1>f9 DEF NativeInv, Fields, EvalFields, OpFields, TargetEvaluated, Nobody
<1>TargetSent. TargetSent'
  BY <1>t, <1>m, <1>u, <1>f4, <1>f9 DEF NativeInv, Fields, OpFields, Misses, TargetSent, Nobody
<1>TargetTaken. TargetTaken'
  BY <1>t, <1>m, <1>u, <1>f4, <1>f9 DEF NativeInv, Fields, OpFields, Misses, TargetTaken, Nobody
<1>LetThrough. LetThrough'
  BY <1>t, <1>u, <1>f4, <1>f9 DEF NativeInv, Fields, EvalFields, OpFields, LetThrough, Nobody
<1>AllowedInForce. AllowedInForce'
  <2> SUFFICES ASSUME NEW u \in Threads, op'[u].phase = "allowed"
               PROVE  /\ op'[u].base \in op'[u].begun..baseRevision
                      /\ op'[u].req # Nobody => op'[u].base >= evals[op'[u].req].base
                      /\ Lookup(op'[u].base, op'[u].once, op'[u].target) = "allow"
    BY <1>u, <1>f3 DEF AllowedInForce, Lookup, BaseAt, OnceAt
  <2>1. op'[u] = op[u]
    BY <1>f9
  <2> QED
    BY <2>1 DEF NativeInv, AllowedInForce
<1>GrantNotLost. GrantNotLost'
  BY <1>t, <1>u, <1>f4, <1>f6, <1>f9 DEF NativeInv, Fields, LogFields, EvalFields, OpFields,
     GrantNotLost, Nobody, baseRevision
<1> QED
  BY <1>s, <1>TypeOK, <1>NativeBehind, <1>OpsKnown, <1>NotSynchronized, <1>NotServing,
     <1>NothingAsked, <1>AskedAfterSent, <1>LockHeld, <1>AwaitsLast, <1>RequestLeft, <1>UpInLine,
     <1>InboxInLine, <1>CurrentInLine, <1>AnswersInLine, <1>NativePublished, <1>OncesForward,
     <1>LastArrives, <1>AnswersCovered, <1>LookupFresh, <1>AwaitFresh, <1>EvaluatedLater,
     <1>CurrentLater, <1>AnswersLater, <1>CalmMount, <1>CalmUp, <1>CalmInbox, <1>CalmCurrent,
     <1>CalmAnswers, <1>QuietDenied, <1>TargetEvaluated, <1>TargetSent, <1>TargetTaken,
     <1>LetThrough, <1>AllowedInForce, <1>GrantNotLost DEF NativeInv

\* a known decision is final,
LEMMA LookupKnownKeeps ==
    ASSUME NativeInv, NEW t \in Threads, LookupPolicy(t), Drainable, Lookup(native.base, Drained, op[t].target) # "none"
    PROVE  NativeInv'
<1>t. Fields /\ Elements
  BY FieldsHold, ElementsHold DEF NativeInv
<1>q. QueuesTyped
  BY DEF NativeInv
<1>u. /\ baseLog' = baseLog /\ file' = file /\ baseClosed' = baseClosed /\ onceEngine' = onceEngine
      /\ onceLog' = onceLog /\ viewClosed' = viewClosed /\ evals' = evals /\ aborted' = aborted
      /\ open' = open /\ inbox' = inbox /\ current' = current /\ publications' = publications
      /\ published' = published /\ synchronized' = synchronized /\ cause' = cause
  BY DEF LookupPolicy, baseVars, viewVars, bridgeVars, nativeVars
<1>m. /\ Misses /\ InboxMisses' = InboxMisses
  BY <1>u, MissesHold DEF NativeInv, InboxMisses
<1>f1. op \in [Threads -> OpRecords]
  BY DEF NativeInv, TypeOK, OpRecords
<1>f2. native \in [phase : {"load", "initial", "ready", "serving", "exited"},
                  base : Nat, once : Nat, next : 0..MaxRequests, failed : BOOLEAN]
  BY DEF NativeInv, TypeOK
<1>f3. baseRevision \in Nat /\ onceRevision \in Nat /\ baseRevision' = baseRevision /\ onceRevision' = onceRevision
  BY <1>t, <1>u DEF baseRevision, onceRevision, Fields, LogFields
<1>f4. /\ op[t].phase = "lookup" /\ lock = t /\ op[t].req = Nobody /\ t # NoThread /\ native.phase = "serving"
       /\ \A u \in Threads : op[u].phase \in {"lookup", "await"} => u = t
  <2>1. op[t].phase = "lookup"
    BY DEF LookupPolicy
  <2>2. \A u \in Threads : op[u].phase \in {"lookup", "await"} => u = t
    BY <2>1 DEF NativeInv, LockHeld
  <2> QED
    BY <2>1, <2>2, MountAssumption DEF NativeInv, LockHeld, AwaitsLast, NotServing
<1>f5. PICK v \in Nat : v = Drained
  <2>1. down # <<>> => down[Len(down)].rev \in Nat
    BY <1>t, LastIndex DEF NativeInv, QueuesTyped, Drainable, Elements, DownElements
  <2> QED
    BY <1>t, <2>1 DEF Drained, Fields, NativeFields
<1>f6. /\ open /\ \A i \in 1..Len(down) : i \in Onces
  BY DEF Drainable, Onces
<1>f7. /\ native.once <= v /\ v <= published /\ \A i \in Onces : down[i].rev <= v
       /\ published \in Int /\ published <= onceRevision
  <2>1. Len(down) \in Nat /\ native.once \in Nat /\ native.once <= published /\ published \in Int /\ published <= onceRevision
    BY <1>t, <1>f3, <1>f4 DEF NativeInv, TypeOK, NativePublished, PublishedKnown, Elements, DownElements, Fields, NativeFields
  <2>2. CASE down = <<>>
    <3>1. v = native.once /\ \A i \in Onces : FALSE
      BY <2>2, <1>f5 DEF Drained, Onces
    <3> QED
      BY <2>1, <3>1
  <2>3. CASE down # <<>>
    <3>1. Len(down) \in 1..Len(down)
      BY <2>1, <2>3, LastIndex DEF NativeInv, QueuesTyped
    <3>2. Len(down) \in Onces /\ v = down[Len(down)].rev
      BY <2>3, <3>1, <1>f5, <1>f6 DEF Drained
    <3>3. \A i \in Onces : i \in 1..Len(down) /\ down[i].rev \in Nat
      BY <1>m DEF Onces, Misses
    <3>4. ASSUME NEW i \in Onces PROVE down[i].rev <= v
      <4>1. i = Len(down) \/ i < Len(down)
        BY <2>1, <3>3
      <4>2. CASE i = Len(down)
        BY <3>2, <3>3, <4>2
      <4>3. CASE i < Len(down)
        BY <3>2, <4>3 DEF NativeInv, OncesForward
      <4> QED
        BY <4>1, <4>2, <4>3
    <3> QED
      BY <2>1, <3>2, <3>4 DEF NativeInv, OncesForward
  <2> QED
    BY <2>2, <2>3
<1>f8. /\ Resolutions' = {} /\ Onces' = {} /\ Resolutions = {}
  <2>1. down' = <<>>
    BY DEF LookupPolicy
  <2>2. \A i \in Resolutions : i \in 1..Len(down) /\ i \notin Onces
    BY DEF Resolutions, Onces
  <2> QED
    BY <1>f6, <2>1, <2>2 DEF Resolutions, Onces
<1>f9. \A i \in Onces : down[i].rev \in Nat
  BY <1>m DEF Misses
<1>f10. /\ native' = [native EXCEPT !.once = v] /\ lock' = NoThread /\ down' = <<>>
  BY <1>f5 DEF LookupPolicy
<1>f11. PICK ph \in {"allowed", "denied"} :
          /\ op' = [op EXCEPT ![t].phase = ph, ![t].base = native.base, ![t].once = v]
          /\ ph = "allowed" => Lookup(native.base, v, op[t].target) = "allow"
  BY <1>f5 DEF LookupPolicy
<1>f12. native.base \in Nat /\ native.base <= file /\ file \in 0..baseRevision
  BY <1>t DEF NativeInv, TypeOK, NativeBehind, Fields, NativeFields
<1>f13. /\ native'.phase = native.phase /\ native'.base = native.base /\ native'.once = v /\ native'.next = native.next /\ native'.failed = native.failed
  <2>1. ASSUME NEW w \in Nat, native' = [native EXCEPT !.once = w]
        PROVE  /\ native'.phase = native.phase /\ native'.base = native.base /\ native'.once = w /\ native'.next = native.next /\ native'.failed = native.failed
    BY <2>1, <1>f2
  <2> QED
    BY <2>1, <1>f10
<1>f14. native' \in [phase : {"load", "initial", "ready", "serving", "exited"},
                   base : Nat, once : Nat, next : 0..MaxRequests, failed : BOOLEAN]
  <2>1. ASSUME NEW w \in Nat, native' = [native EXCEPT !.once = w]
        PROVE  native' \in [phase : {"load", "initial", "ready", "serving", "exited"},
                       base : Nat, once : Nat, next : 0..MaxRequests, failed : BOOLEAN]
    BY <2>1, <1>f2
  <2> QED
    BY <2>1, <1>f10
<1>f15. /\ \A u \in Threads : u # t => op'[u] = op[u]
        /\ op'[t].phase = ph /\ op'[t].target = op[t].target /\ op'[t].begun = op[t].begun /\ op'[t].req = op[t].req
        /\ op'[t].base = native.base /\ op'[t].once = v
  <2>1. ASSUME NEW p \in {"allowed", "denied"}, NEW b \in Nat, NEW w \in Nat, op' = [op EXCEPT ![t].phase = p, ![t].base = b, ![t].once = w]
        PROVE  /\ \A u \in Threads : u # t => op'[u] = op[u]
               /\ op'[t].phase = p /\ op'[t].target = op[t].target /\ op'[t].begun = op[t].begun /\ op'[t].req = op[t].req
               /\ op'[t].base = b /\ op'[t].once = w
    BY <2>1, <1>f1 DEF OpRecords
  <2> QED
    BY <2>1, <1>f11, <1>f12
<1>f16. op' \in [Threads -> OpRecords]
  <2>1. ASSUME NEW p \in {"allowed", "denied"}, NEW b \in Nat, NEW w \in Nat, op' = [op EXCEPT ![t].phase = p, ![t].base = b, ![t].once = w]
        PROVE  op' \in [Threads -> OpRecords]
    <3> DEFINE g == [[[op[t] EXCEPT !.phase = p] EXCEPT !.base = b] EXCEPT !.once = w]
    <3>1. op' = [op EXCEPT ![t] = g]
      BY <2>1
    <3>2. [op[t] EXCEPT !.phase = p] \in OpRecords
      BY <1>f1 DEF OpRecords
    <3>3. [[op[t] EXCEPT !.phase = p] EXCEPT !.base = b] \in OpRecords
      BY <3>2 DEF OpRecords
    <3>4. [[[op[t] EXCEPT !.phase = p] EXCEPT !.base = b] EXCEPT !.once = w] \in OpRecords
      BY <3>3 DEF OpRecords
    <3>5. g \in OpRecords
      BY <3>4
    <3> HIDE DEF g
    <3> QED
      BY <1>f1, <3>1, <3>5
  <2> QED
    BY <2>1, <1>f11, <1>f12
<1>f17. lock' = NoThread
  BY <1>f10
<1>f18. /\ up' \in Seq(UpFrames)
        /\ \A i \in 1..Len(up') : (i \in 1..Len(up) /\ up'[i] = up[i]) \/ up'[i].kind = "denial"
        /\ \A i \in UpMisses' : i \in UpMisses /\ up'[i] = up[i]
  <2> DEFINE f == [kind |-> "denial"]
  <2>1. CASE up' = Append(up, f)
    <3>1. f \in UpFrames /\ f.kind = "denial"
      BY DEF UpFrames
    <3>2. /\ up' \in Seq(UpFrames)
          /\ \A i \in 1..Len(up') : \/ i \in 1..Len(up) /\ up'[i] = up[i]
                                    \/ i = Len(up) + 1 /\ up'[i] = f
          /\ \A i \in UpMisses' : \/ i \in UpMisses /\ i \in Nat /\ i < Len(up) + 1 /\ up'[i] = up[i]
                                  \/ i = Len(up) + 1 /\ up'[i] = f /\ f.kind = "miss"
      BY <2>1, <3>1, UpGiven, <1>q
    <3> HIDE DEF f
    <3> QED
      BY <3>1, <3>2
  <2>2. CASE up' = up
    BY <2>2 DEF NativeInv, QueuesTyped, UpMisses
  <2> QED
    BY <2>1, <2>2 DEF LookupPolicy
<1>s. /\ FileCurrent' /\ InboxKnown' /\ CurrentKnown' /\ EvalsKnown' /\ FirstRevision' /\ Idling'
      /\ InboxUnasked' /\ ActiveIsCurrent' /\ OneActive' /\ DoneIsCurrent' /\ Decided'
      /\ PublishedKnown' /\ QueueForward' /\ QueueOwners' /\ QueueOnce' /\ ResolvePublished'
      /\ CurrentSays' /\ CalmEvals' /\ AbortCaused' /\ QuietCurrent' /\ LogStays' /\ EngineStays'
      /\ GrantsBacked'
  BY <1>u, SameFileCurrent, SameInboxKnown, SameCurrentKnown, SameEvalsKnown, SameFirstRevision,
     SameIdling, SameInboxUnasked, SameActiveIsCurrent, SameOneActive, SameDoneIsCurrent,
     SameDecided, SamePublishedKnown, SameQueueForward, SameQueueOwners, SameQueueOnce,
     SameResolvePublished, SameCurrentSays, SameCalmEvals, SameAbortCaused, SameQuietCurrent,
     SameLogStays, SameEngineStays, SameGrantsBacked DEF NativeInv
<1>TypeOK. TypeOK'
  BY <1>u, <1>f14, <1>f16, <1>f17 DEF NativeInv, TypeOK, baseRevision, OpRecords
<1>QueuesTyped. QueuesTyped'
  <2>1. down' \in Seq(DownFrames)
    BY <1>f10
  <2> QED
    BY <1>u, <1>f18, <2>1 DEF NativeInv, QueuesTyped
<1>NativeBehind. NativeBehind'
  BY <1>t, <1>u, <1>f3, <1>f7, <1>f13 DEF NativeInv, NativeBehind, Fields, LogFields, NativeFields
<1>UpKnown. UpKnown'
  BY <1>f3, <1>f18 DEF NativeInv, UpKnown
<1>AnswersKnown. AnswersKnown'
  BY <1>f8 DEF AnswersKnown
<1>OpsKnown. OpsKnown'
  BY <1>t, <1>u, <1>f3, <1>f7, <1>f12, <1>f13, <1>f15 DEF NativeInv, OpsKnown, Fields, OpFields, NativeFields
<1>NotSynchronized. NotSynchronized'
  BY <1>u, <1>f4 DEF NativeInv, NotSynchronized
<1>NotServing. NotServing'
  BY <1>f4, <1>f13 DEF NotServing
<1>NothingAsked. NothingAsked'
  BY <1>t, <1>u, <1>f4, <1>f7, <1>f13, <1>f15 DEF NativeInv, Fields, LogFields, NativeFields,
     NothingAsked, onceRevision
<1>AskedAfterSent. AskedAfterSent'
  BY <1>t, <1>u, <1>f4, <1>f7, <1>f13, <1>f15 DEF NativeInv, Fields, EvalFields, NativeFields,
     AskedAfterSent
<1>ReadyFirst. ReadyFirst'
  BY <1>u, <1>f18 DEF NativeInv, ReadyFirst
<1>LockHeld. LockHeld'
  BY <1>f4, <1>f11, <1>f15, <1>f17, MountAssumption DEF LockHeld
<1>AwaitsLast. AwaitsLast'
  BY <1>t, <1>u, <1>f4, <1>f7, <1>f13, <1>f15 DEF NativeInv, Fields, NativeFields, OpFields,
     AwaitsLast, Nobody
<1>RequestLeft. RequestLeft'
  <2>1. IsFiniteSet(MayAsk) /\ MayAsk \subseteq Threads
    BY MountAssumption, FS_Subset DEF MayAsk
  <2>2. MayAsk' \subseteq MayAsk
    BY <1>f15, <1>f4 DEF MayAsk
  <2>3. Cardinality(MayAsk') <= Cardinality(MayAsk) /\ Cardinality(MayAsk) \in Nat /\ Cardinality(MayAsk') \in Nat
    BY <2>1, <2>2, FS_Subset, FS_CardinalityType
  <2> QED
    BY <1>f13, <1>t, <2>3, BoundsAssumption DEF NativeInv, RequestLeft, Fields, NativeFields
<1>UpInLine. UpInLine'
  BY <1>t, <1>m, <1>u, <1>f4, <1>f7, <1>f13, <1>f15, <1>f18 DEF NativeInv, Fields, NativeFields,
     Misses, UpInLine
<1>InboxInLine. InboxInLine'
  BY <1>t, <1>m, <1>u, <1>f4, <1>f7, <1>f13, <1>f15, <1>f18 DEF NativeInv, Fields, NativeFields,
     Misses, InboxInLine
<1>CurrentInLine. CurrentInLine'
  BY <1>t, <1>m, <1>u, <1>f4, <1>f7, <1>f13, <1>f15, <1>f18 DEF NativeInv, Fields, CurrentFields,
     NativeFields, Misses, CurrentInLine, Nobody
<1>AnswersInLine. AnswersInLine'
  BY <1>f8 DEF AnswersInLine
<1>UpUnasked. UpUnasked'
  BY <1>t, <1>m, <1>u, <1>f18 DEF NativeInv, Fields, EvalFields, Misses, UpUnasked
<1>NativePublished. NativePublished'
  BY <1>u, <1>f7, <1>f13 DEF NativePublished
<1>OncesForward. OncesForward'
  BY <1>f8 DEF OncesForward
<1>LastArrives. LastArrives'
  <2> SUFFICES published = -1 \/ published <= v
    BY <1>u, <1>f13 DEF LastArrives
  <2>1. CASE published <= native.once
    BY <1>t, <1>f7, <2>1 DEF Fields, NativeFields
  <2>2. CASE \E i \in Onces : down[i].rev = published
    BY <1>f7, <2>2
  <2> QED
    BY <2>1, <2>2 DEF NativeInv, LastArrives
<1>AnswersCovered. AnswersCovered'
  BY <1>f8 DEF AnswersCovered
<1>AnswersSay. AnswersSay'
  BY <1>f8 DEF AnswersSay
<1>LookupFresh. LookupFresh'
  BY <1>t, <1>u, <1>f4, <1>f6, <1>f7, <1>f13, <1>f15 DEF NativeInv, Fields, NativeFields, OpFields,
     LookupFresh
<1>AwaitFresh. AwaitFresh'
  BY <1>t, <1>u, <1>f4, <1>f15 DEF NativeInv, Fields, OpFields, AwaitFresh
<1>EvaluatedLater. EvaluatedLater'
  BY <1>t, <1>u, <1>f4, <1>f15 DEF NativeInv, Fields, EvalFields, OpFields, EvaluatedLater
<1>CurrentLater. CurrentLater'
  BY <1>t, <1>u, <1>f4, <1>f15 DEF NativeInv, Fields, CurrentFields, OpFields, CurrentLater
<1>AnswersLater. AnswersLater'
  BY <1>f8 DEF AnswersLater
<1>CalmMount. CalmMount'
  BY <1>t, <1>u, <1>f4, <1>f6, <1>f7, <1>f13, <1>f15 DEF NativeInv, Fields, NativeFields,
     CalmMount, Calm
<1>CalmUp. CalmUp'
  BY <1>t, <1>m, <1>u, <1>f4, <1>f7, <1>f13, <1>f15, <1>f18 DEF NativeInv, Fields, NativeFields,
     OpFields, Misses, CalmUp, Calm, Awaited
<1>CalmInbox. CalmInbox'
  BY <1>t, <1>m, <1>u, <1>f4, <1>f7, <1>f13, <1>f15 DEF NativeInv, Fields, NativeFields, OpFields,
     Misses, CalmInbox, Calm, Awaited
<1>CalmCurrent. CalmCurrent'
  BY <1>t, <1>u, <1>f4, <1>f7, <1>f13, <1>f15 DEF NativeInv, Fields, CurrentFields, NativeFields,
     OpFields, CalmCurrent, Calm, Nobody, Awaited
<1>CalmAnswers. CalmAnswers'
  BY <1>f8 DEF CalmAnswers
<1>QuietAnswers. QuietAnswers'
  BY <1>f8 DEF QuietAnswers
<1>QuietDenied. QuietDenied'
  BY <1>t, <1>u, <1>f4, <1>f15 DEF NativeInv, Fields, EvalFields, OpFields, QuietDenied, Nobody
<1>TargetEvaluated. TargetEvaluated'
  BY <1>t, <1>u, <1>f4, <1>f15 DEF NativeInv, Fields, EvalFields, OpFields, TargetEvaluated, Nobody
<1>TargetSent. TargetSent'
  BY <1>t, <1>m, <1>u, <1>f4, <1>f15, <1>f18, SMTT(20)
  DEF NativeInv, Fields, OpFields, Misses, TargetSent,
     Nobody
<1>TargetTaken. TargetTaken'
  BY <1>t, <1>m, <1>u, <1>f4, <1>f15 DEF NativeInv, Fields, OpFields, Misses, TargetTaken, Nobody
<1>LetThrough. LetThrough'
  BY <1>t, <1>u, <1>f4, <1>f15 DEF NativeInv, Fields, EvalFields, OpFields, LetThrough, Nobody
<1>AllowedInForce. AllowedInForce'
  <2> SUFFICES ASSUME NEW u \in Threads, op'[u].phase = "allowed"
               PROVE  /\ op'[u].base \in op'[u].begun..baseRevision
                      /\ op'[u].req # Nobody => op'[u].base >= evals[op'[u].req].base
                      /\ Lookup(op'[u].base, op'[u].once, op'[u].target) = "allow"
    BY <1>u, <1>f3 DEF AllowedInForce, Lookup, BaseAt, OnceAt
  <2>1. u # t => op'[u] = op[u]
    BY <1>f15
  <2>2. CASE u = t
    <3>1. op[t].begun <= native.base /\ native.base <= baseRevision /\ op[t].begun \in Nat /\ baseRevision \in Nat
      BY <1>t, <1>f3, <1>f4, <1>f6, <1>f12 DEF NativeInv, LookupFresh, Fields, OpFields
    <3> QED
      BY <1>f4, <1>f11, <1>f12, <1>f15, <2>2, <3>1
  <2> QED
    BY <2>1, <2>2 DEF NativeInv, AllowedInForce
<1>GrantNotLost. GrantNotLost'
  BY <1>t, <1>u, <1>f4, <1>f15 DEF NativeInv, Fields, LogFields, EvalFields, OpFields,
     GrantNotLost, Nobody, baseRevision
<1> QED
  BY <1>s, <1>TypeOK, <1>QueuesTyped, <1>NativeBehind, <1>UpKnown, <1>AnswersKnown, <1>OpsKnown,
     <1>NotSynchronized, <1>NotServing, <1>NothingAsked, <1>AskedAfterSent, <1>ReadyFirst,
     <1>LockHeld, <1>AwaitsLast, <1>RequestLeft, <1>UpInLine, <1>InboxInLine, <1>CurrentInLine,
     <1>AnswersInLine, <1>UpUnasked, <1>NativePublished, <1>OncesForward, <1>LastArrives,
     <1>AnswersCovered, <1>AnswersSay, <1>LookupFresh, <1>AwaitFresh, <1>EvaluatedLater,
     <1>CurrentLater, <1>AnswersLater, <1>CalmMount, <1>CalmUp, <1>CalmInbox, <1>CalmCurrent,
     <1>CalmAnswers, <1>QuietAnswers, <1>QuietDenied, <1>TargetEvaluated, <1>TargetSent,
     <1>TargetTaken, <1>LetThrough, <1>AllowedInForce, <1>GrantNotLost DEF NativeInv

\* and a miss is sent, the first one nobody has answered, while the mutex stays held.
LEMMA LookupMissKeeps ==
    ASSUME NativeInv, NEW t \in Threads, LookupPolicy(t), Drainable, Lookup(native.base, Drained, op[t].target) = "none"
    PROVE  NativeInv'
<1>t. Fields /\ Elements
  BY FieldsHold, ElementsHold DEF NativeInv
<1>q. QueuesTyped
  BY DEF NativeInv
<1>u. /\ baseLog' = baseLog /\ file' = file /\ baseClosed' = baseClosed /\ onceEngine' = onceEngine
      /\ onceLog' = onceLog /\ viewClosed' = viewClosed /\ evals' = evals /\ aborted' = aborted
      /\ open' = open /\ inbox' = inbox /\ current' = current /\ publications' = publications
      /\ published' = published /\ synchronized' = synchronized /\ lock' = lock /\ cause' = cause
  BY DEF LookupPolicy, baseVars, viewVars, bridgeVars, nativeVars
<1>m. /\ Misses /\ InboxMisses' = InboxMisses
  BY <1>u, MissesHold DEF NativeInv, InboxMisses
<1>f1. op \in [Threads -> OpRecords]
  BY DEF NativeInv, TypeOK, OpRecords
<1>f2. native \in [phase : {"load", "initial", "ready", "serving", "exited"},
                  base : Nat, once : Nat, next : 0..MaxRequests, failed : BOOLEAN]
  BY DEF NativeInv, TypeOK
<1>f3. baseRevision \in Nat /\ onceRevision \in Nat /\ baseRevision' = baseRevision /\ onceRevision' = onceRevision
  BY <1>t, <1>u DEF baseRevision, onceRevision, Fields, LogFields
<1>f4. /\ op[t].phase = "lookup" /\ lock = t /\ op[t].req = Nobody /\ t # NoThread /\ native.phase = "serving"
       /\ \A u \in Threads : op[u].phase \in {"lookup", "await"} => u = t
  <2>1. op[t].phase = "lookup"
    BY DEF LookupPolicy
  <2>2. \A u \in Threads : op[u].phase \in {"lookup", "await"} => u = t
    BY <2>1 DEF NativeInv, LockHeld
  <2> QED
    BY <2>1, <2>2, MountAssumption DEF NativeInv, LockHeld, AwaitsLast, NotServing
<1>f5. PICK v \in Nat : v = Drained
  <2>1. down # <<>> => down[Len(down)].rev \in Nat
    BY <1>t, LastIndex DEF NativeInv, QueuesTyped, Drainable, Elements, DownElements
  <2> QED
    BY <1>t, <2>1 DEF Drained, Fields, NativeFields
<1>f6. /\ open /\ \A i \in 1..Len(down) : i \in Onces
  BY DEF Drainable, Onces
<1>f7. /\ native.once <= v /\ v <= published /\ \A i \in Onces : down[i].rev <= v
       /\ published \in Int /\ published <= onceRevision
  <2>1. Len(down) \in Nat /\ native.once \in Nat /\ native.once <= published /\ published \in Int /\ published <= onceRevision
    BY <1>t, <1>f3, <1>f4 DEF NativeInv, TypeOK, NativePublished, PublishedKnown, Elements, DownElements, Fields, NativeFields
  <2>2. CASE down = <<>>
    <3>1. v = native.once /\ \A i \in Onces : FALSE
      BY <2>2, <1>f5 DEF Drained, Onces
    <3> QED
      BY <2>1, <3>1
  <2>3. CASE down # <<>>
    <3>1. Len(down) \in 1..Len(down)
      BY <2>1, <2>3, LastIndex DEF NativeInv, QueuesTyped
    <3>2. Len(down) \in Onces /\ v = down[Len(down)].rev
      BY <2>3, <3>1, <1>f5, <1>f6 DEF Drained
    <3>3. \A i \in Onces : i \in 1..Len(down) /\ down[i].rev \in Nat
      BY <1>m DEF Onces, Misses
    <3>4. ASSUME NEW i \in Onces PROVE down[i].rev <= v
      <4>1. i = Len(down) \/ i < Len(down)
        BY <2>1, <3>3
      <4>2. CASE i = Len(down)
        BY <3>2, <3>3, <4>2
      <4>3. CASE i < Len(down)
        BY <3>2, <4>3 DEF NativeInv, OncesForward
      <4> QED
        BY <4>1, <4>2, <4>3
    <3> QED
      BY <2>1, <3>2, <3>4 DEF NativeInv, OncesForward
  <2> QED
    BY <2>2, <2>3
<1>f8. /\ Resolutions' = {} /\ Onces' = {} /\ Resolutions = {}
  <2>1. down' = <<>>
    BY DEF LookupPolicy
  <2>2. \A i \in Resolutions : i \in 1..Len(down) /\ i \notin Onces
    BY DEF Resolutions, Onces
  <2> QED
    BY <1>f6, <2>1, <2>2 DEF Resolutions, Onces
<1>f9. \A i \in Onces : down[i].rev \in Nat
  BY <1>m DEF Misses
<1>f10. t \in MayAsk /\ IsFiniteSet(MayAsk) /\ Cardinality(MayAsk) \in Nat /\ MayAsk \subseteq Threads
        /\ Cardinality(MayAsk \ {t}) = Cardinality(MayAsk) - 1
  <2>1. IsFiniteSet(MayAsk) /\ MayAsk \subseteq Threads
    BY MountAssumption, FS_Subset DEF MayAsk
  <2>2. t \in MayAsk
    BY <1>f4 DEF MayAsk
  <2> QED
    BY <2>1, <2>2, FS_RemoveElement, FS_CardinalityType
<1>f11. PICK q \in Requests : /\ q = native.next + 1 /\ q \in Nat /\ q # Nobody /\ q \in 0..MaxRequests /\ native.next < q
                             /\ native.next \in Nat
  <2>1. native.next \in Nat /\ native.next + Cardinality(MayAsk) <= MaxRequests
    BY <1>t DEF NativeInv, RequestLeft, Fields, NativeFields
  <2>2. Cardinality(MayAsk) # 0
    BY <1>f10, FS_EmptySet
  <2> QED
    BY <1>f10, <2>1, <2>2, BoundsAssumption DEF Requests, Nobody
<1>f12. /\ native' = [native EXCEPT !.once = v, !.next = q] /\ lock' = lock /\ down' = <<>>
  BY <1>f5, <1>f11 DEF LookupPolicy
<1>f13. op' = [op EXCEPT ![t].phase = "await", ![t].req = q, ![t].base = native.base, ![t].once = v]
  BY <1>f5, <1>f11 DEF LookupPolicy
<1>f14. native.base \in Nat /\ native.base <= file /\ file \in 0..baseRevision /\ op[t].target \in Targets /\ native.base <= baseRevision /\ v <= onceRevision
  <2>1. native.base \in Nat /\ native.base <= file /\ file \in 0..baseRevision /\ op[t].target \in Targets
    BY <1>t DEF NativeInv, TypeOK, NativeBehind, Fields, NativeFields, OpFields
  <2> QED
    BY <1>f3, <1>f7, <2>1
<1>f15. /\ native'.phase = native.phase /\ native'.base = native.base /\ native'.once = v /\ native'.next = q /\ native'.failed = native.failed
  <2>1. ASSUME NEW w \in Nat, NEW z \in 0..MaxRequests, native' = [native EXCEPT !.once = w, !.next = z]
        PROVE  /\ native'.phase = native.phase /\ native'.base = native.base /\ native'.once = w /\ native'.next = z /\ native'.failed = native.failed
    BY <2>1, <1>f2
  <2> QED
    BY <2>1, <1>f12, <1>f11
<1>f16. native' \in [phase : {"load", "initial", "ready", "serving", "exited"},
                   base : Nat, once : Nat, next : 0..MaxRequests, failed : BOOLEAN]
  <2>1. ASSUME NEW w \in Nat, NEW z \in 0..MaxRequests, native' = [native EXCEPT !.once = w, !.next = z]
        PROVE  native' \in [phase : {"load", "initial", "ready", "serving", "exited"},
                       base : Nat, once : Nat, next : 0..MaxRequests, failed : BOOLEAN]
    BY <2>1, <1>f2
  <2> QED
    BY <2>1, <1>f12, <1>f11
<1>f17. /\ \A u \in Threads : u # t => op'[u] = op[u]
        /\ op'[t].phase = "await" /\ op'[t].target = op[t].target /\ op'[t].begun = op[t].begun /\ op'[t].req = q
        /\ op'[t].base = native.base /\ op'[t].once = v
  <2>1. ASSUME NEW z \in 0..MaxRequests, NEW b \in Nat, NEW w \in Nat, op' = [op EXCEPT ![t].phase = "await", ![t].req = z, ![t].base = b, ![t].once = w]
        PROVE  /\ \A u \in Threads : u # t => op'[u] = op[u]
               /\ op'[t].phase = "await" /\ op'[t].target = op[t].target /\ op'[t].begun = op[t].begun /\ op'[t].req = z
               /\ op'[t].base = b /\ op'[t].once = w
    BY <2>1, <1>f1 DEF OpRecords
  <2> QED
    BY <2>1, <1>f13, <1>f11, <1>f14
<1>f18. op' \in [Threads -> OpRecords]
  <2>1. ASSUME NEW z \in 0..MaxRequests, NEW b \in Nat, NEW w \in Nat, op' = [op EXCEPT ![t].phase = "await", ![t].req = z, ![t].base = b, ![t].once = w]
        PROVE  op' \in [Threads -> OpRecords]
    <3> DEFINE g == [[[[op[t] EXCEPT !.phase = "await"] EXCEPT !.req = z] EXCEPT !.base = b] EXCEPT !.once = w]
    <3>1. op' = [op EXCEPT ![t] = g]
      BY <2>1
    <3>2. [op[t] EXCEPT !.phase = "await"] \in OpRecords
      BY <1>f1 DEF OpRecords
    <3>3. [[op[t] EXCEPT !.phase = "await"] EXCEPT !.req = z] \in OpRecords
      BY <3>2 DEF OpRecords
    <3>4. [[[op[t] EXCEPT !.phase = "await"] EXCEPT !.req = z] EXCEPT !.base = b] \in OpRecords
      BY <3>3 DEF OpRecords
    <3>5. [[[[op[t] EXCEPT !.phase = "await"] EXCEPT !.req = z] EXCEPT !.base = b] EXCEPT !.once = w] \in OpRecords
      BY <3>4 DEF OpRecords
    <3>6. g \in OpRecords
      BY <3>5
    <3> HIDE DEF g
    <3> QED
      BY <1>f1, <3>1, <3>6
  <2> QED
    BY <2>1, <1>f13, <1>f11, <1>f14
<1>f19. PICK f \in UpFrames : /\ f.kind = "miss" /\ f.req = q /\ f.base = native.base /\ f.once = v /\ f.target = op[t].target
                            /\ up' = Append(up, f)
  <2> DEFINE g == [kind |-> "miss", req |-> q, base |-> native.base, once |-> v, target |-> op[t].target]
  <2>1. g \in UpFrames
    BY <1>f11, <1>f14 DEF UpFrames
  <2>2. up' = Append(up, g)
    BY <1>f5, <1>f11 DEF LookupPolicy
  <2> QED
    BY <2>1, <2>2
<1>f20. /\ up' \in Seq(UpFrames)
        /\ \A i \in 1..Len(up') : (i \in 1..Len(up) /\ up'[i] = up[i]) \/ up'[i] = f
  BY <1>f19, UpGiven, <1>q
<1>f21. PICK n \in Nat : n = Len(up) + 1
  BY <1>t DEF Elements, UpElements
<1>f22. /\ \A i \in UpMisses' : \/ i \in UpMisses /\ i \in Nat /\ i < n /\ up'[i] = up[i]
                                \/ i = n /\ up'[i].req = q /\ up'[i].target = op[t].target
  BY <1>f19, <1>f21, UpGiven, <1>q
<1>f23. evals[q].phase = "none"
  BY <1>t, <1>f11 DEF NativeInv, AskedAfterSent
<1>f24. Calm => /\ UpMisses = {} /\ InboxMisses = {} /\ current.req = Nobody
  BY <1>f4 DEF NativeInv, CalmUp, CalmInbox, CalmCurrent, Awaited
<1>f25. /\ current.req <= native.next /\ (\A j \in UpMisses : up[j].req <= native.next) /\ (\A i \in InboxMisses : inbox[i].req <= native.next)
  BY <1>f11 DEF NativeInv, CurrentInLine, UpInLine, InboxInLine, Nobody
<1>f26. /\ \A u \in Threads : op[u].req \in Nat /\ op[u].req <= native.next /\ op[u].req < q
        /\ \A u \in Threads : u # t => op'[u] = op[u] /\ op'[u].phase \notin {"lookup", "await"}
  BY <1>t, <1>f4, <1>f11, <1>f17 DEF NativeInv, AwaitsLast, Fields, OpFields
<1>f27. \A u \in Threads : op'[u].req = q => u = t
  BY <1>f11, <1>f26
<1>s. /\ FileCurrent' /\ InboxKnown' /\ CurrentKnown' /\ EvalsKnown' /\ FirstRevision' /\ Idling'
      /\ InboxUnasked' /\ ActiveIsCurrent' /\ OneActive' /\ DoneIsCurrent' /\ Decided'
      /\ PublishedKnown' /\ QueueForward' /\ QueueOwners' /\ QueueOnce' /\ ResolvePublished'
      /\ CurrentSays' /\ CalmEvals' /\ AbortCaused' /\ QuietCurrent' /\ LogStays' /\ EngineStays'
      /\ GrantsBacked'
  BY <1>u, SameFileCurrent, SameInboxKnown, SameCurrentKnown, SameEvalsKnown, SameFirstRevision,
     SameIdling, SameInboxUnasked, SameActiveIsCurrent, SameOneActive, SameDoneIsCurrent,
     SameDecided, SamePublishedKnown, SameQueueForward, SameQueueOwners, SameQueueOnce,
     SameResolvePublished, SameCurrentSays, SameCalmEvals, SameAbortCaused, SameQuietCurrent,
     SameLogStays, SameEngineStays, SameGrantsBacked DEF NativeInv
<1>TypeOK. TypeOK'
  BY <1>u, <1>f16, <1>f18 DEF NativeInv, TypeOK, baseRevision, OpRecords
<1>QueuesTyped. QueuesTyped'
  <2>1. down' \in Seq(DownFrames)
    BY <1>f12
  <2> QED
    BY <1>u, <1>f20, <2>1 DEF NativeInv, QueuesTyped
<1>NativeBehind. NativeBehind'
  BY <1>t, <1>u, <1>f3, <1>f7, <1>f15 DEF NativeInv, NativeBehind, Fields, LogFields, NativeFields
<1>UpKnown. UpKnown'
  BY <1>f3, <1>f14, <1>f19, <1>f20 DEF NativeInv, UpKnown
<1>AnswersKnown. AnswersKnown'
  BY <1>f8 DEF AnswersKnown
<1>OpsKnown. OpsKnown'
  BY <1>t, <1>u, <1>f3, <1>f7, <1>f14, <1>f15, <1>f17 DEF NativeInv, OpsKnown, Fields, OpFields, NativeFields
<1>NotSynchronized. NotSynchronized'
  BY <1>u, <1>f4 DEF NativeInv, NotSynchronized
<1>NotServing. NotServing'
  BY <1>f4, <1>f15 DEF NotServing
<1>NothingAsked. NothingAsked'
  BY <1>f11, <1>f15 DEF NothingAsked, Nobody
<1>AskedAfterSent. AskedAfterSent'
  <2> SUFFICES ASSUME NEW r \in Requests, evals[r].phase # "none" PROVE r <= q
    BY <1>u, <1>f15 DEF AskedAfterSent
  <2>1. r \in Nat /\ r <= native.next
    BY <1>t DEF NativeInv, AskedAfterSent, Fields, EvalFields
  <2> QED
    BY <1>f11, <2>1
<1>ReadyFirst. ReadyFirst'
  BY <1>u, <1>f19, <1>f20 DEF NativeInv, ReadyFirst
<1>LockHeld. LockHeld'
  BY <1>u, <1>f4, <1>f17 DEF NativeInv, LockHeld
<1>AwaitsLast. AwaitsLast'
  BY <1>t, <1>f4, <1>f11, <1>f15, <1>f17, <1>f26 DEF NativeInv, AwaitsLast
<1>RequestLeft. RequestLeft'
  <2>1. MayAsk' = MayAsk \ {t}
    BY <1>f17, <1>f26 DEF MayAsk
  <2> QED
    BY <1>t, <1>f10, <1>f11, <1>f15, <2>1, BoundsAssumption DEF NativeInv, RequestLeft
<1>UpInLine. UpInLine'
  <2> SUFFICES ASSUME NEW j \in UpMisses'
               PROVE  up'[j].req <= q /\ \A k \in UpMisses' : j < k => up'[j].req < up'[k].req
    BY <1>f15 DEF UpInLine
  <2>1. CASE j \in UpMisses /\ j \in Nat /\ j < n /\ up'[j] = up[j]
    <3>1. up[j].req \in Nat /\ up[j].req < q /\ up[j].req <= q
      <4>1. up[j].req \in Nat /\ up[j].req <= native.next
        BY <1>m, <1>f25, <2>1 DEF Misses
      <4> QED
        BY <1>f11, <4>1
    <3>2. ASSUME NEW k \in UpMisses', j < k PROVE up[j].req < up'[k].req
      BY <1>f22, <2>1, <3>1, <3>2 DEF NativeInv, UpInLine
    <3> QED
      BY <2>1, <3>1, <3>2
  <2>2. CASE j = n /\ up'[j].req = q
    <3>1. q <= q
      BY <1>f11
    <3>2. ASSUME NEW k \in UpMisses', j < k PROVE FALSE
      <4>1. k \in Nat /\ (k < n \/ k = n)
        BY <1>f21, <1>f22
      <4> QED
        BY <1>f21, <2>2, <3>2, <4>1
    <3> QED
      BY <2>2, <3>1, <3>2
  <2> QED
    BY <1>f22, <2>1, <2>2
<1>InboxInLine. InboxInLine'
  <2> SUFFICES ASSUME NEW i \in InboxMisses
               PROVE  /\ inbox[i].req <= q
                      /\ \A j \in UpMisses' : inbox[i].req < up'[j].req
                      /\ \A k \in InboxMisses : i < k => inbox[i].req < inbox[k].req
    BY <1>u, <1>m, <1>f15 DEF InboxInLine
  <2>1. inbox[i].req \in Nat /\ inbox[i].req < q /\ inbox[i].req <= q
    BY <1>m, <1>f11, <1>f25 DEF Misses
  <2> QED
    BY <1>f22, <2>1 DEF NativeInv, InboxInLine
<1>CurrentInLine. CurrentInLine'
  BY <1>t, <1>u, <1>m, <1>f11, <1>f15, <1>f22, <1>f25 DEF NativeInv, CurrentInLine, Misses, Fields, CurrentFields
<1>AnswersInLine. AnswersInLine'
  BY <1>f8 DEF AnswersInLine
<1>UpUnasked. UpUnasked'
  BY <1>u, <1>f22, <1>f23 DEF NativeInv, UpUnasked
<1>NativePublished. NativePublished'
  BY <1>u, <1>f7, <1>f15 DEF NativePublished
<1>OncesForward. OncesForward'
  BY <1>f8 DEF OncesForward
<1>LastArrives. LastArrives'
  <2> SUFFICES published = -1 \/ published <= v
    BY <1>u, <1>f15 DEF LastArrives
  <2>1. CASE published <= native.once
    BY <1>t, <1>f7, <2>1 DEF Fields, NativeFields
  <2>2. CASE \E i \in Onces : down[i].rev = published
    BY <1>f7, <2>2
  <2> QED
    BY <2>1, <2>2 DEF NativeInv, LastArrives
<1>AnswersCovered. AnswersCovered'
  BY <1>f8 DEF AnswersCovered
<1>AnswersSay. AnswersSay'
  BY <1>f8 DEF AnswersSay
<1>LookupFresh. LookupFresh'
  BY <1>f17, <1>f26 DEF LookupFresh
<1>AwaitFresh. AwaitFresh'
  BY <1>f4, <1>f6, <1>f17, <1>f26 DEF NativeInv, AwaitFresh, LookupFresh
<1>EvaluatedLater. EvaluatedLater'
  BY <1>u, <1>f17, <1>f23, <1>f26 DEF EvaluatedLater
<1>CurrentLater. CurrentLater'
  <2>1. current.req # q
    BY <1>t, <1>f11, <1>f25 DEF Fields, CurrentFields
  <2> QED
    BY <1>u, <1>f17, <1>f26, <2>1 DEF CurrentLater
<1>AnswersLater. AnswersLater'
  BY <1>f8 DEF AnswersLater
<1>CalmMount. CalmMount'
  BY <1>t, <1>u, <1>f4, <1>f6, <1>f7, <1>f11, <1>f15, <1>f17, <1>f25 DEF NativeInv, Fields,
     NativeFields, CalmMount, Calm
<1>CalmUp. CalmUp'
  BY <1>u, <1>f15, <1>f17, <1>f22, <1>f24 DEF CalmUp, Calm, Awaited
<1>CalmInbox. CalmInbox'
  BY <1>u, <1>m, <1>f24 DEF CalmInbox, Calm
<1>CalmCurrent. CalmCurrent'
  BY <1>u, <1>f24 DEF CalmCurrent, Calm
<1>CalmAnswers. CalmAnswers'
  BY <1>f8 DEF CalmAnswers
<1>QuietAnswers. QuietAnswers'
  BY <1>f8 DEF QuietAnswers
<1>QuietDenied. QuietDenied'
  BY <1>u, <1>f17 DEF NativeInv, QuietDenied
<1>TargetEvaluated. TargetEvaluated'
  BY <1>u, <1>f17, <1>f23 DEF NativeInv, TargetEvaluated
<1>TargetSent. TargetSent'
  <2> SUFFICES ASSUME NEW u \in Threads, op'[u].req # Nobody, NEW j \in UpMisses', up'[j].req = op'[u].req
               PROVE  up'[j].target = op'[u].target
    BY DEF TargetSent
  <2>1. CASE j \in UpMisses /\ up'[j] = up[j]
    <3>1. u # t
      BY <1>m, <1>f11, <1>f17, <1>f25, <2>1 DEF Misses
    <3> QED
      BY <1>f17, <2>1, <3>1 DEF NativeInv, TargetSent
  <2>2. CASE up'[j].req = q /\ up'[j].target = op[t].target
    BY <1>f17, <1>f27, <2>2
  <2> QED
    BY <1>f22, <2>1, <2>2
<1>TargetTaken. TargetTaken'
  <2> SUFFICES ASSUME NEW u \in Threads, op'[u].req # Nobody, NEW i \in InboxMisses, inbox[i].req = op'[u].req
               PROVE  inbox[i].target = op'[u].target
    BY <1>u, <1>m DEF TargetTaken
  <2>1. u # t
    BY <1>m, <1>f11, <1>f17, <1>f25 DEF Misses
  <2> QED
    BY <1>f17, <2>1 DEF NativeInv, TargetTaken
<1>LetThrough. LetThrough'
  BY <1>u, <1>f17 DEF NativeInv, LetThrough
<1>AllowedInForce. AllowedInForce'
  <2> SUFFICES ASSUME NEW u \in Threads, op'[u].phase = "allowed"
               PROVE  /\ op'[u].base \in op'[u].begun..baseRevision
                      /\ op'[u].req # Nobody => op'[u].base >= evals[op'[u].req].base
                      /\ Lookup(op'[u].base, op'[u].once, op'[u].target) = "allow"
    BY <1>u, <1>f3 DEF AllowedInForce, Lookup, BaseAt, OnceAt
  <2>1. u # t => op'[u] = op[u]
    BY <1>f17
  <2>2. op'[t].phase # "allowed"
    BY <1>f17
  <2> QED
    BY <2>1, <2>2 DEF NativeInv, AllowedInForce
<1>GrantNotLost. GrantNotLost'
  BY <1>u, <1>f3, <1>f17 DEF NativeInv, GrantNotLost
<1> QED
  BY <1>s, <1>TypeOK, <1>QueuesTyped, <1>NativeBehind, <1>UpKnown, <1>AnswersKnown, <1>OpsKnown,
     <1>NotSynchronized, <1>NotServing, <1>NothingAsked, <1>AskedAfterSent, <1>ReadyFirst,
     <1>LockHeld, <1>AwaitsLast, <1>RequestLeft, <1>UpInLine, <1>InboxInLine, <1>CurrentInLine,
     <1>AnswersInLine, <1>UpUnasked, <1>NativePublished, <1>OncesForward, <1>LastArrives,
     <1>AnswersCovered, <1>AnswersSay, <1>LookupFresh, <1>AwaitFresh, <1>EvaluatedLater,
     <1>CurrentLater, <1>AnswersLater, <1>CalmMount, <1>CalmUp, <1>CalmInbox, <1>CalmCurrent,
     <1>CalmAnswers, <1>QuietAnswers, <1>QuietDenied, <1>TargetEvaluated, <1>TargetSent,
     <1>TargetTaken, <1>LetThrough, <1>AllowedInForce, <1>GrantNotLost DEF NativeInv

\* resolution: a ONCE snapshot that comes before the answer is never older than the one held.
LEMMA AwaitOnceKeeps ==
    ASSUME NativeInv, NEW t \in Threads, AwaitOnce(t)
    PROVE  NativeInv'
<1>t. Fields /\ Elements
  BY FieldsHold, ElementsHold DEF NativeInv
<1>q. QueuesTyped
  BY DEF NativeInv
<1>u. /\ baseLog' = baseLog /\ file' = file /\ baseClosed' = baseClosed /\ onceEngine' = onceEngine
      /\ onceLog' = onceLog /\ viewClosed' = viewClosed /\ evals' = evals /\ aborted' = aborted
      /\ open' = open /\ inbox' = inbox /\ current' = current /\ publications' = publications
      /\ published' = published /\ synchronized' = synchronized /\ up' = up /\ cause' = cause
  BY DEF AwaitOnce, baseVars, viewVars, bridgeVars, nativeVars
<1>m. /\ Misses /\ UpMisses' = UpMisses /\ InboxMisses' = InboxMisses
  BY <1>u, MissesHold DEF NativeInv, UpMisses, InboxMisses
<1>f1. /\ 1 \in Onces /\ down # <<>> /\ down' = Tail(down) /\ down[1].rev \in Nat /\ Head(down) = down[1]
  <2>1. down # <<>> /\ down' = Tail(down) /\ Head(down).kind = "once"
    BY DEF AwaitOnce
  <2>2. Head(down) = down[1] /\ Len(down) \in Nat /\ Len(down) >= 1
    BY <2>1, DownTaken, <1>q
  <2>3. 1 \in Onces
    BY <2>1, <2>2 DEF Onces
  <2> QED
    BY <2>1, <2>2, <2>3, <1>m DEF Misses
<1>f2. PICK v \in Nat : v = down[1].rev
  BY <1>f1
<1>f3. down' \in Seq(DownFrames)
  BY <1>f1, DownTaken, <1>q
<1>f4. /\ \A j \in Resolutions' : j \in Nat /\ j + 1 \in Resolutions /\ down'[j] = down[j + 1] /\ j + 1 > 1
       /\ \A j \in Onces' : j \in Nat /\ j + 1 \in Onces /\ down'[j] = down[j + 1] /\ j + 1 > 1
  BY <1>f1, DownTaken, <1>q
<1>f5. \A j \in Onces : j \in Nat /\ (j = 1 \/ (j > 1 /\ j - 1 \in Onces' /\ j - 1 \in Nat /\ down'[j - 1] = down[j]))
  <2>1. \A j \in Onces : j \in Nat /\ (j > 1 => j - 1 \in Onces' /\ j - 1 \in Nat /\ down'[j - 1] = down[j])
    BY <1>f1, DownTaken, <1>q
  <2>2. \A j \in Onces : j \in 1..Len(down)
    BY DEF Onces
  <2>3. \A j \in Onces : j = 1 \/ j > 1
    BY <2>1, <2>2
  <2> QED
    BY <2>1, <2>3
<1>f6. /\ native.once <= v /\ v <= published /\ \A j \in Onces : v <= down[j].rev
       /\ published \in Int /\ published <= onceRevision /\ onceRevision \in Nat /\ onceRevision' = onceRevision /\ baseRevision' = baseRevision
  <2>1. onceRevision \in Nat /\ onceRevision' = onceRevision /\ baseRevision' = baseRevision
    BY <1>t, <1>u DEF onceRevision, baseRevision, Fields, LogFields
  <2>2. published \in Int /\ published <= onceRevision
    BY <2>1 DEF NativeInv, PublishedKnown
  <2>3. \A j \in Onces : v <= down[j].rev
    BY <1>f1, <1>f2, <1>f5 DEF NativeInv, OncesForward
  <2> QED
    BY <1>f1, <1>f2, <2>1, <2>2, <2>3 DEF NativeInv, OncesForward
<1>f7. synchronized # -1
  BY <1>f1 DEF NativeInv, NotSynchronized
<1>f8. native \in [phase : {"load", "initial", "ready", "serving", "exited"},
                  base : Nat, once : Nat, next : 0..MaxRequests, failed : BOOLEAN]
  BY DEF NativeInv, TypeOK
<1>f9. op \in [Threads -> OpRecords]
  BY DEF NativeInv, TypeOK, OpRecords
<1>f10. /\ native' = [native EXCEPT !.failed = FALSE, !.once = v] /\ lock' = lock
        /\ op' = [op EXCEPT ![t].phase = "await"] /\ op[t].phase = "await"
  BY <1>t, <1>f1, <1>f2, <1>f6 DEF AwaitOnce, Replaces, Fields, NativeFields
<1>f11. op' = op
  BY <1>f9, <1>f10 DEF OpRecords
<1>f12. native.phase = "serving"
  BY <1>f10 DEF NativeInv, NotServing
<1>f13. /\ native'.phase = native.phase /\ native'.base = native.base /\ native'.once = v /\ native'.next = native.next /\ native'.failed = FALSE
  <2>1. ASSUME NEW w \in Nat, native' = [native EXCEPT !.failed = FALSE, !.once = w]
        PROVE  /\ native'.phase = native.phase /\ native'.base = native.base /\ native'.once = w /\ native'.next = native.next /\ native'.failed = FALSE
    BY <2>1, <1>f8
  <2> QED
    BY <2>1, <1>f10
<1>f14. native' \in [phase : {"load", "initial", "ready", "serving", "exited"},
                   base : Nat, once : Nat, next : 0..MaxRequests, failed : BOOLEAN]
  <2>1. ASSUME NEW w \in Nat, native' = [native EXCEPT !.failed = FALSE, !.once = w]
        PROVE  native' \in [phase : {"load", "initial", "ready", "serving", "exited"},
                       base : Nat, once : Nat, next : 0..MaxRequests, failed : BOOLEAN]
    BY <2>1, <1>f8
  <2> QED
    BY <2>1, <1>f10
<1>s. /\ FileCurrent' /\ UpKnown' /\ InboxKnown' /\ CurrentKnown' /\ EvalsKnown' /\ FirstRevision'
      /\ ReadyFirst' /\ Idling' /\ UpUnasked' /\ InboxUnasked' /\ ActiveIsCurrent' /\ OneActive'
      /\ DoneIsCurrent' /\ Decided' /\ PublishedKnown' /\ QueueForward' /\ QueueOwners'
      /\ QueueOnce' /\ ResolvePublished' /\ CurrentSays' /\ CalmEvals' /\ AbortCaused'
      /\ QuietCurrent' /\ LogStays' /\ EngineStays' /\ GrantsBacked'
  BY <1>u, SameFileCurrent, SameUpKnown, SameInboxKnown, SameCurrentKnown, SameEvalsKnown,
     SameFirstRevision, SameReadyFirst, SameIdling, SameUpUnasked, SameInboxUnasked,
     SameActiveIsCurrent, SameOneActive, SameDoneIsCurrent, SameDecided, SamePublishedKnown,
     SameQueueForward, SameQueueOwners, SameQueueOnce, SameResolvePublished, SameCurrentSays,
     SameCalmEvals, SameAbortCaused, SameQuietCurrent, SameLogStays, SameEngineStays,
     SameGrantsBacked DEF NativeInv
<1>TypeOK. TypeOK'
  BY <1>u, <1>f10, <1>f11, <1>f14 DEF NativeInv, TypeOK, baseRevision
<1>QueuesTyped. QueuesTyped'
  BY <1>u, <1>f3 DEF NativeInv, QueuesTyped
<1>NativeBehind. NativeBehind'
  BY <1>t, <1>u, <1>f2, <1>f6, <1>f13 DEF NativeInv, NativeBehind, Fields, LogFields, NativeFields
<1>AnswersKnown. AnswersKnown'
  BY <1>t, <1>m, <1>u, <1>f4 DEF NativeInv, Fields, LogFields, Misses, AnswersKnown, baseRevision
<1>OpsKnown. OpsKnown'
  BY <1>t, <1>u, <1>f2, <1>f6, <1>f11, <1>f13 DEF NativeInv, OpsKnown, Fields, OpFields, NativeFields
<1>NotSynchronized. NotSynchronized'
  BY <1>u, <1>f7 DEF NotSynchronized
<1>NotServing. NotServing'
  BY <1>f12, <1>f13 DEF NotServing
<1>NothingAsked. NothingAsked'
  BY <1>t, <1>u, <1>f13 DEF NativeInv, Fields, LogFields, NativeFields, NothingAsked, onceRevision
<1>AskedAfterSent. AskedAfterSent'
  BY <1>t, <1>u, <1>f13 DEF NativeInv, Fields, EvalFields, NativeFields, AskedAfterSent
<1>LockHeld. LockHeld'
  BY <1>f10, <1>f11 DEF NativeInv, LockHeld
<1>AwaitsLast. AwaitsLast'
  BY <1>t, <1>u, <1>f11, <1>f13 DEF NativeInv, Fields, NativeFields, OpFields, AwaitsLast, Nobody
<1>RequestLeft. RequestLeft'
  BY <1>f11, <1>f13 DEF NativeInv, RequestLeft, MayAsk
<1>UpInLine. UpInLine'
  BY <1>t, <1>m, <1>u, <1>f13 DEF NativeInv, Fields, NativeFields, Misses, UpInLine
<1>InboxInLine. InboxInLine'
  BY <1>t, <1>m, <1>u, <1>f13 DEF NativeInv, Fields, NativeFields, Misses, InboxInLine
<1>CurrentInLine. CurrentInLine'
  BY <1>t, <1>m, <1>u, <1>f13 DEF NativeInv, Fields, CurrentFields, NativeFields, Misses,
     CurrentInLine, Nobody
<1>AnswersInLine. AnswersInLine'
  BY <1>t, <1>m, <1>u, <1>f4, <1>f13 DEF NativeInv, Fields, CurrentFields, NativeFields, Misses,
     AnswersInLine, Nobody
<1>NativePublished. NativePublished'
  BY <1>u, <1>f2, <1>f6, <1>f13 DEF NativePublished
<1>OncesForward. OncesForward'
  <2> SUFFICES ASSUME NEW i \in Onces'
               PROVE  /\ v <= down'[i].rev /\ down'[i].rev <= published
                      /\ \A j \in Onces' : i < j => down'[i].rev <= down'[j].rev
    BY <1>u, <1>f13 DEF OncesForward
  <2>1. PICK k \in Onces : k = i + 1 /\ down'[i] = down[k] /\ i \in Nat
    BY <1>f4
  <2>2. ASSUME NEW j \in Onces', i < j PROVE down[k].rev <= down'[j].rev
    <3>0. j \in Nat /\ j + 1 \in Onces /\ down'[j] = down[j + 1]
      BY <1>f4
    <3>1. PICK l \in Onces : l = j + 1 /\ down'[j] = down[l] /\ k < l
      BY <2>1, <2>2, <3>0
    <3> QED
      BY <3>1 DEF NativeInv, OncesForward
  <2> QED
    BY <1>f6, <2>1, <2>2 DEF NativeInv, OncesForward
<1>LastArrives. LastArrives'
  <2> SUFFICES ASSUME published # -1 PROVE published <= v \/ \E i \in Onces' : down'[i].rev = published
    BY <1>u, <1>f13 DEF LastArrives
  <2>1. CASE published <= native.once
    BY <1>t, <1>f2, <1>f6, <2>1 DEF Fields, NativeFields
  <2>2. ASSUME NEW i \in Onces, down[i].rev = published PROVE published <= v \/ \E j \in Onces' : down'[j].rev = published
    BY <1>f2, <1>f5, <1>f6, <2>2
  <2> QED
    BY <2>1, <2>2 DEF NativeInv, LastArrives
<1>AnswersCovered. AnswersCovered'
  <2> SUFFICES ASSUME NEW h \in Resolutions'
               PROVE  \/ down'[h].once <= v
                      \/ \E i \in Onces' : i < h /\ down'[h].once <= down'[i].rev
    BY <1>u, <1>f13 DEF AnswersCovered
  <2>1. PICK k \in Resolutions : k = h + 1 /\ down'[h] = down[k] /\ h \in Nat /\ down[k].once \in Nat
    BY <1>f4, <1>m DEF Misses
  <2>2. CASE down[k].once <= native.once
    BY <1>t, <1>f2, <1>f6, <2>1, <2>2 DEF Fields, NativeFields
  <2>3. ASSUME NEW i \in Onces, i < k, down[k].once <= down[i].rev
        PROVE  down[k].once <= v \/ \E j \in Onces' : j < h /\ down[k].once <= down'[j].rev
    <3>1. CASE i = 1
      BY <1>f2, <2>3, <3>1
    <3>2. CASE i > 1
      <4>1. PICK j \in Onces' : j = i - 1 /\ down'[j] = down[i] /\ j \in Nat /\ i \in Nat
        BY <1>f5, <3>2
      <4> QED
        BY <2>1, <2>3, <4>1
    <3> QED
      BY <1>f5, <3>1, <3>2
  <2> QED
    BY <2>1, <2>2, <2>3 DEF NativeInv, AnswersCovered
<1>AnswersSay. AnswersSay'
  BY <1>t, <1>m, <1>u, <1>f4 DEF NativeInv, Fields, EvalFields, Misses, AnswersSay, SaysEvaluated
<1>LookupFresh. LookupFresh'
  BY <1>u, <1>f11, <1>f13 DEF NativeInv, LookupFresh
<1>AwaitFresh. AwaitFresh'
  BY <1>t, <1>u, <1>f11 DEF NativeInv, Fields, OpFields, AwaitFresh
<1>EvaluatedLater. EvaluatedLater'
  BY <1>t, <1>u, <1>f11 DEF NativeInv, Fields, EvalFields, OpFields, EvaluatedLater
<1>CurrentLater. CurrentLater'
  BY <1>t, <1>u, <1>f11 DEF NativeInv, Fields, CurrentFields, OpFields, CurrentLater
<1>AnswersLater. AnswersLater'
  BY <1>t, <1>m, <1>u, <1>f4, <1>f11 DEF NativeInv, Fields, OpFields, Misses, AnswersLater
<1>CalmMount. CalmMount'
  BY <1>u, <1>f13 DEF NativeInv, CalmMount, Calm
<1>CalmUp. CalmUp'
  BY <1>t, <1>m, <1>u, <1>f11, <1>f13 DEF NativeInv, Fields, NativeFields, OpFields, Misses,
     CalmUp, Calm, Awaited
<1>CalmInbox. CalmInbox'
  BY <1>t, <1>m, <1>u, <1>f11, <1>f13 DEF NativeInv, Fields, NativeFields, OpFields, Misses,
     CalmInbox, Calm, Awaited
<1>CalmCurrent. CalmCurrent'
  BY <1>t, <1>u, <1>f11, <1>f13 DEF NativeInv, Fields, CurrentFields, NativeFields, OpFields,
     CalmCurrent, Calm, Nobody, Awaited
<1>CalmAnswers. CalmAnswers'
  BY <1>t, <1>m, <1>u, <1>f4, <1>f11, <1>f13 DEF NativeInv, Fields, NativeFields, OpFields, Misses,
     CalmAnswers, Calm, Awaited
<1>QuietAnswers. QuietAnswers'
  BY <1>t, <1>m, <1>u, <1>f4 DEF NativeInv, Fields, EvalFields, Misses, QuietAnswers, SaysEvaluated
<1>QuietDenied. QuietDenied'
  BY <1>t, <1>u, <1>f11 DEF NativeInv, Fields, EvalFields, OpFields, QuietDenied, Nobody
<1>TargetEvaluated. TargetEvaluated'
  BY <1>t, <1>u, <1>f11 DEF NativeInv, Fields, EvalFields, OpFields, TargetEvaluated, Nobody
<1>TargetSent. TargetSent'
  BY <1>t, <1>m, <1>u, <1>f11 DEF NativeInv, Fields, OpFields, Misses, TargetSent, Nobody
<1>TargetTaken. TargetTaken'
  BY <1>t, <1>m, <1>u, <1>f11 DEF NativeInv, Fields, OpFields, Misses, TargetTaken, Nobody
<1>LetThrough. LetThrough'
  BY <1>t, <1>u, <1>f11 DEF NativeInv, Fields, EvalFields, OpFields, LetThrough, Nobody
<1>AllowedInForce. AllowedInForce'
  BY <1>u, <1>f6, <1>f11 DEF NativeInv, AllowedInForce, Lookup, BaseAt, OnceAt
<1>GrantNotLost. GrantNotLost'
  BY <1>u, <1>f6, <1>f11 DEF NativeInv, GrantNotLost
<1> QED
  BY <1>s, <1>TypeOK, <1>QueuesTyped, <1>NativeBehind, <1>AnswersKnown, <1>OpsKnown,
     <1>NotSynchronized, <1>NotServing, <1>NothingAsked, <1>AskedAfterSent, <1>LockHeld,
     <1>AwaitsLast, <1>RequestLeft, <1>UpInLine, <1>InboxInLine, <1>CurrentInLine,
     <1>AnswersInLine, <1>NativePublished, <1>OncesForward, <1>LastArrives, <1>AnswersCovered,
     <1>AnswersSay, <1>LookupFresh, <1>AwaitFresh, <1>EvaluatedLater, <1>CurrentLater,
     <1>AnswersLater, <1>CalmMount, <1>CalmUp, <1>CalmInbox, <1>CalmCurrent, <1>CalmAnswers,
     <1>QuietAnswers, <1>QuietDenied, <1>TargetEvaluated, <1>TargetSent, <1>TargetTaken,
     <1>LetThrough, <1>AllowedInForce, <1>GrantNotLost DEF NativeInv

\* The control socket ends while an answer is awaited: the mount is failed.
LEMMA AwaitBrokenKeeps ==
    ASSUME NativeInv, NEW t \in Threads, AwaitBroken(t)
    PROVE  NativeInv'
<1>t. Fields /\ Elements
  BY FieldsHold, ElementsHold DEF NativeInv
<1>u. /\ baseLog' = baseLog /\ file' = file /\ baseClosed' = baseClosed /\ onceEngine' = onceEngine
      /\ onceLog' = onceLog /\ viewClosed' = viewClosed /\ evals' = evals /\ aborted' = aborted
      /\ open' = open /\ inbox' = inbox /\ current' = current /\ publications' = publications
      /\ published' = published /\ synchronized' = synchronized /\ up' = up /\ down' = down
      /\ cause' = cause
  BY DEF AwaitBroken, baseVars, viewVars, bridgeVars, nativeVars
<1>m. /\ Misses /\ UpMisses' = UpMisses /\ InboxMisses' = InboxMisses /\ Resolutions' = Resolutions
       /\ Onces' = Onces
  BY <1>u, MissesHold DEF NativeInv, UpMisses, InboxMisses, Resolutions, Onces
<1>f1. op \in [Threads -> OpRecords]
  BY DEF NativeInv, TypeOK, OpRecords
<1>f2. native \in [phase : {"load", "initial", "ready", "serving", "exited"},
                  base : Nat, once : Nat, next : 0..MaxRequests, failed : BOOLEAN]
  BY DEF NativeInv, TypeOK
<1>f3. baseRevision \in Nat /\ onceRevision \in Nat /\ baseRevision' = baseRevision /\ onceRevision' = onceRevision
  BY <1>t, <1>u DEF baseRevision, onceRevision, Fields, LogFields
<1>f4. /\ op[t].phase = "await" /\ lock = t /\ t # NoThread /\ native.phase = "serving" /\ op[t].req = native.next /\ op[t].req # Nobody /\ op[t].req \in Requests
       /\ \A u \in Threads : op[u].phase \in {"lookup", "await"} => u = t
  <2>1. op[t].phase = "await"
    BY DEF AwaitBroken
  <2>2. \A u \in Threads : op[u].phase \in {"lookup", "await"} => u = t
    BY <2>1 DEF NativeInv, LockHeld
  <2> QED
    BY <1>t, <2>1, <2>2, MountAssumption DEF NativeInv, LockHeld, AwaitsLast, NotServing, Fields, OpFields, Nobody
<1>f5. /\ native' = [native EXCEPT !.failed = TRUE] /\ lock' = NoThread
       /\ op' = [op EXCEPT ![t].phase = "denied"]
  BY DEF AwaitBroken
<1>f6. "fault" \in cause /\ cause # {}
  BY DEF AwaitBroken, NativeInv, CalmMount, Calm
<1>f7. /\ native'.phase = native.phase /\ native'.base = native.base /\ native'.once = native.once /\ native'.next = native.next /\ native'.failed = TRUE
  <2>1. ASSUME native' = [native EXCEPT !.failed = TRUE]
        PROVE  /\ native'.phase = native.phase /\ native'.base = native.base /\ native'.once = native.once /\ native'.next = native.next /\ native'.failed = TRUE
    BY <2>1, <1>f2
  <2> QED
    BY <2>1, <1>f5
<1>f8. native' \in [phase : {"load", "initial", "ready", "serving", "exited"},
                  base : Nat, once : Nat, next : 0..MaxRequests, failed : BOOLEAN]
  <2>1. ASSUME native' = [native EXCEPT !.failed = TRUE]
        PROVE  native' \in [phase : {"load", "initial", "ready", "serving", "exited"},
                       base : Nat, once : Nat, next : 0..MaxRequests, failed : BOOLEAN]
    BY <2>1, <1>f2
  <2> QED
    BY <2>1, <1>f5
<1>f9. /\ \A u \in Threads : u # t => op'[u] = op[u]
       /\ op'[t].phase = "denied" /\ op'[t].target = op[t].target /\ op'[t].begun = op[t].begun /\ op'[t].req = op[t].req
       /\ op'[t].base = op[t].base /\ op'[t].once = op[t].once
  <2>1. ASSUME op' = [op EXCEPT ![t].phase = "denied"]
        PROVE  /\ \A u \in Threads : u # t => op'[u] = op[u]
               /\ op'[t].phase = "denied" /\ op'[t].target = op[t].target /\ op'[t].begun = op[t].begun /\ op'[t].req = op[t].req
               /\ op'[t].base = op[t].base /\ op'[t].once = op[t].once
    BY <2>1, <1>f1 DEF OpRecords
  <2> QED
    BY <2>1, <1>f5
<1>f10. op' \in [Threads -> OpRecords]
  <2>1. ASSUME op' = [op EXCEPT ![t].phase = "denied"]
        PROVE  op' \in [Threads -> OpRecords]
    BY <2>1, <1>f1 DEF OpRecords
  <2> QED
    BY <2>1, <1>f5
<1>f11. lock' = NoThread
  BY <1>f5
<1>s. /\ QueuesTyped' /\ FileCurrent' /\ UpKnown' /\ InboxKnown' /\ CurrentKnown' /\ EvalsKnown'
      /\ AnswersKnown' /\ FirstRevision' /\ ReadyFirst' /\ Idling' /\ UpUnasked' /\ InboxUnasked'
      /\ ActiveIsCurrent' /\ OneActive' /\ DoneIsCurrent' /\ Decided' /\ PublishedKnown'
      /\ QueueForward' /\ QueueOwners' /\ QueueOnce' /\ ResolvePublished' /\ CurrentSays'
      /\ AnswersSay' /\ CalmEvals' /\ AbortCaused' /\ QuietCurrent' /\ QuietAnswers' /\ LogStays'
      /\ EngineStays' /\ GrantsBacked'
  BY <1>u, SameQueuesTyped, SameFileCurrent, SameUpKnown, SameInboxKnown, SameCurrentKnown,
     SameEvalsKnown, SameAnswersKnown, SameFirstRevision, SameReadyFirst, SameIdling,
     SameUpUnasked, SameInboxUnasked, SameActiveIsCurrent, SameOneActive, SameDoneIsCurrent,
     SameDecided, SamePublishedKnown, SameQueueForward, SameQueueOwners, SameQueueOnce,
     SameResolvePublished, SameCurrentSays, SameAnswersSay, SameCalmEvals, SameAbortCaused,
     SameQuietCurrent, SameQuietAnswers, SameLogStays, SameEngineStays, SameGrantsBacked DEF
     NativeInv
<1>TypeOK. TypeOK'
  BY <1>u, <1>f8, <1>f10, <1>f11 DEF NativeInv, TypeOK, baseRevision, OpRecords
<1>NativeBehind. NativeBehind'
  BY <1>t, <1>u, <1>f4, <1>f7 DEF NativeInv, Fields, LogFields, NativeFields, NativeBehind,
     onceRevision
<1>OpsKnown. OpsKnown'
  BY <1>t, <1>u, <1>f4, <1>f7, <1>f9 DEF NativeInv, Fields, LogFields, NativeFields, OpFields,
     OpsKnown, baseRevision
<1>NotSynchronized. NotSynchronized'
  BY <1>t, <1>u, <1>f4, <1>f7 DEF NativeInv, Fields, Elements, QueueElements, DownElements,
     NativeFields, NotSynchronized
<1>NotServing. NotServing'
  BY <1>f4, <1>f7 DEF NotServing
<1>NothingAsked. NothingAsked'
  BY <1>t, <1>u, <1>f4, <1>f7 DEF NativeInv, Fields, LogFields, NativeFields, NothingAsked,
     onceRevision
<1>AskedAfterSent. AskedAfterSent'
  BY <1>t, <1>u, <1>f4, <1>f7 DEF NativeInv, Fields, EvalFields, NativeFields, AskedAfterSent
<1>LockHeld. LockHeld'
  BY <1>f4, <1>f9, <1>f11, MountAssumption DEF LockHeld
<1>AwaitsLast. AwaitsLast'
  BY <1>t, <1>u, <1>f4, <1>f7, <1>f9 DEF NativeInv, Fields, NativeFields, OpFields, AwaitsLast,
     Nobody
<1>RequestLeft. RequestLeft'
  <2>1. IsFiniteSet(MayAsk) /\ MayAsk \subseteq Threads
    BY MountAssumption, FS_Subset DEF MayAsk
  <2>2. MayAsk' \subseteq MayAsk
    BY <1>f9, <1>f4 DEF MayAsk
  <2>3. Cardinality(MayAsk') <= Cardinality(MayAsk) /\ Cardinality(MayAsk) \in Nat /\ Cardinality(MayAsk') \in Nat
    BY <2>1, <2>2, FS_Subset, FS_CardinalityType
  <2> QED
    BY <1>f7, <1>t, <2>3, BoundsAssumption DEF NativeInv, RequestLeft, Fields, NativeFields
<1>UpInLine. UpInLine'
  BY <1>t, <1>m, <1>u, <1>f4, <1>f7 DEF NativeInv, Fields, NativeFields, Misses, UpInLine
<1>InboxInLine. InboxInLine'
  BY <1>t, <1>m, <1>u, <1>f4, <1>f7 DEF NativeInv, Fields, NativeFields, Misses, InboxInLine
<1>CurrentInLine. CurrentInLine'
  BY <1>t, <1>m, <1>u, <1>f4, <1>f7 DEF NativeInv, Fields, CurrentFields, NativeFields, Misses,
     CurrentInLine, Nobody
<1>AnswersInLine. AnswersInLine'
  BY <1>t, <1>m, <1>u, <1>f4, <1>f7 DEF NativeInv, Fields, CurrentFields, NativeFields, Misses,
     AnswersInLine, Nobody
<1>NativePublished. NativePublished'
  BY <1>t, <1>u, <1>f4, <1>f7 DEF NativeInv, Fields, NativeFields, NativePublished
<1>OncesForward. OncesForward'
  BY <1>t, <1>m, <1>u, <1>f4, <1>f7 DEF NativeInv, Fields, NativeFields, Misses, OncesForward
<1>LastArrives. LastArrives'
  BY <1>t, <1>m, <1>u, <1>f4, <1>f7 DEF NativeInv, Fields, NativeFields, Misses, LastArrives
<1>AnswersCovered. AnswersCovered'
  BY <1>t, <1>m, <1>u, <1>f4, <1>f7 DEF NativeInv, Fields, NativeFields, Misses, AnswersCovered
<1>LookupFresh. LookupFresh'
  BY <1>t, <1>u, <1>f4, <1>f7, <1>f9 DEF NativeInv, Fields, NativeFields, OpFields, LookupFresh
<1>AwaitFresh. AwaitFresh'
  BY <1>t, <1>u, <1>f4, <1>f9 DEF NativeInv, Fields, OpFields, AwaitFresh
<1>EvaluatedLater. EvaluatedLater'
  BY <1>t, <1>u, <1>f4, <1>f9 DEF NativeInv, Fields, EvalFields, OpFields, EvaluatedLater
<1>CurrentLater. CurrentLater'
  BY <1>t, <1>u, <1>f4, <1>f9 DEF NativeInv, Fields, CurrentFields, OpFields, CurrentLater
<1>AnswersLater. AnswersLater'
  BY <1>t, <1>m, <1>u, <1>f4, <1>f9 DEF NativeInv, Fields, OpFields, Misses, AnswersLater
<1>CalmMount. CalmMount'
  BY <1>t, <1>u, <1>f4, <1>f6, <1>f7 DEF NativeInv, Fields, NativeFields, CalmMount, Calm
<1>CalmUp. CalmUp'
  BY <1>t, <1>m, <1>u, <1>f4, <1>f6, <1>f7, <1>f9 DEF NativeInv, Fields, NativeFields, OpFields,
     Misses, CalmUp, Calm, Awaited
<1>CalmInbox. CalmInbox'
  BY <1>t, <1>m, <1>u, <1>f4, <1>f6, <1>f7, <1>f9 DEF NativeInv, Fields, NativeFields, OpFields,
     Misses, CalmInbox, Calm, Awaited
<1>CalmCurrent. CalmCurrent'
  BY <1>t, <1>u, <1>f4, <1>f6, <1>f7, <1>f9 DEF NativeInv, Fields, CurrentFields, NativeFields,
     OpFields, CalmCurrent, Calm, Nobody, Awaited
<1>CalmAnswers. CalmAnswers'
  BY <1>t, <1>m, <1>u, <1>f4, <1>f6, <1>f7, <1>f9 DEF NativeInv, Fields, NativeFields, OpFields,
     Misses, CalmAnswers, Calm, Awaited
<1>QuietDenied. QuietDenied'
  BY <1>u, <1>f6 DEF QuietDenied
<1>TargetEvaluated. TargetEvaluated'
  BY <1>t, <1>u, <1>f4, <1>f9 DEF NativeInv, Fields, EvalFields, OpFields, TargetEvaluated, Nobody
<1>TargetSent. TargetSent'
  BY <1>t, <1>m, <1>u, <1>f4, <1>f9 DEF NativeInv, Fields, OpFields, Misses, TargetSent, Nobody
<1>TargetTaken. TargetTaken'
  BY <1>t, <1>m, <1>u, <1>f4, <1>f9 DEF NativeInv, Fields, OpFields, Misses, TargetTaken, Nobody
<1>LetThrough. LetThrough'
  BY <1>t, <1>u, <1>f4, <1>f9 DEF NativeInv, Fields, EvalFields, OpFields, LetThrough, Nobody
<1>AllowedInForce. AllowedInForce'
  <2> SUFFICES ASSUME NEW u \in Threads, op'[u].phase = "allowed"
               PROVE  /\ op'[u].base \in op'[u].begun..baseRevision
                      /\ op'[u].req # Nobody => op'[u].base >= evals[op'[u].req].base
                      /\ Lookup(op'[u].base, op'[u].once, op'[u].target) = "allow"
    BY <1>u, <1>f3 DEF AllowedInForce, Lookup, BaseAt, OnceAt
  <2>1. op'[u] = op[u]
    BY <1>f9
  <2> QED
    BY <2>1 DEF NativeInv, AllowedInForce
<1>GrantNotLost. GrantNotLost'
  BY <1>u, <1>f6 DEF GrantNotLost
<1> QED
  BY <1>s, <1>TypeOK, <1>NativeBehind, <1>OpsKnown, <1>NotSynchronized, <1>NotServing,
     <1>NothingAsked, <1>AskedAfterSent, <1>LockHeld, <1>AwaitsLast, <1>RequestLeft, <1>UpInLine,
     <1>InboxInLine, <1>CurrentInLine, <1>AnswersInLine, <1>NativePublished, <1>OncesForward,
     <1>LastArrives, <1>AnswersCovered, <1>LookupFresh, <1>AwaitFresh, <1>EvaluatedLater,
     <1>CurrentLater, <1>AnswersLater, <1>CalmMount, <1>CalmUp, <1>CalmInbox, <1>CalmCurrent,
     <1>CalmAnswers, <1>QuietDenied, <1>TargetEvaluated, <1>TargetSent, <1>TargetTaken,
     <1>LetThrough, <1>AllowedInForce, <1>GrantNotLost DEF NativeInv

\* The callback performs its backing operation, or returns EACCES.
LEMMA ReturnKeeps ==
    ASSUME NativeInv, NEW t \in Threads, Return(t)
    PROVE  NativeInv'
<1>t. Fields /\ Elements
  BY FieldsHold, ElementsHold DEF NativeInv
<1>u. /\ baseLog' = baseLog /\ file' = file /\ baseClosed' = baseClosed /\ onceEngine' = onceEngine
      /\ onceLog' = onceLog /\ viewClosed' = viewClosed /\ evals' = evals /\ aborted' = aborted
      /\ open' = open /\ inbox' = inbox /\ current' = current /\ publications' = publications
      /\ published' = published /\ synchronized' = synchronized /\ up' = up /\ down' = down
      /\ native' = native /\ lock' = lock /\ cause' = cause
  BY DEF Return, baseVars, viewVars, bridgeVars, nativeVars
<1>m. /\ Misses /\ UpMisses' = UpMisses /\ InboxMisses' = InboxMisses /\ Resolutions' = Resolutions
       /\ Onces' = Onces
  BY <1>u, MissesHold DEF NativeInv, UpMisses, InboxMisses, Resolutions, Onces
<1>f1. op \in [Threads -> OpRecords]
  BY DEF NativeInv, TypeOK, OpRecords
<1>f2. baseRevision \in Nat /\ onceRevision \in Nat /\ baseRevision' = baseRevision /\ onceRevision' = onceRevision
  BY <1>t, <1>u DEF baseRevision, onceRevision, Fields, LogFields
<1>f3. /\ op[t].phase \in {"allowed", "denied"}
  BY DEF Return
<1>f4. op' = [op EXCEPT ![t] = NoOp] /\ NoOp \in OpRecords
  BY NoneTyped, BoundsAssumption DEF Return, NoOp, Nobody, OpRecords
<1>f5. op' \in [Threads -> OpRecords]
  BY <1>f1, <1>f4
<1>f6. /\ \A u \in Threads : u # t => op'[u] = op[u]
       /\ op'[t].phase = "idle" /\ op'[t].begun = 0 /\ op'[t].req = Nobody /\ op'[t].base = 0 /\ op'[t].once = 0
  BY <1>f1, <1>f4, NoneTyped
<1>s. /\ QueuesTyped' /\ NativeBehind' /\ FileCurrent' /\ UpKnown' /\ InboxKnown' /\ CurrentKnown'
      /\ EvalsKnown' /\ AnswersKnown' /\ FirstRevision' /\ NotSynchronized' /\ NothingAsked'
      /\ AskedAfterSent' /\ ReadyFirst' /\ UpInLine' /\ InboxInLine' /\ CurrentInLine'
      /\ AnswersInLine' /\ Idling' /\ UpUnasked' /\ InboxUnasked' /\ ActiveIsCurrent' /\ OneActive'
      /\ DoneIsCurrent' /\ Decided' /\ PublishedKnown' /\ QueueForward' /\ QueueOwners'
      /\ QueueOnce' /\ ResolvePublished' /\ NativePublished' /\ OncesForward' /\ LastArrives'
      /\ AnswersCovered' /\ CurrentSays' /\ AnswersSay' /\ CalmMount' /\ CalmEvals' /\ AbortCaused'
      /\ QuietCurrent' /\ QuietAnswers' /\ LogStays' /\ EngineStays' /\ GrantsBacked'
  BY <1>u, SameQueuesTyped, SameNativeBehind, SameFileCurrent, SameUpKnown, SameInboxKnown,
     SameCurrentKnown, SameEvalsKnown, SameAnswersKnown, SameFirstRevision, SameNotSynchronized,
     SameNothingAsked, SameAskedAfterSent, SameReadyFirst, SameUpInLine, SameInboxInLine,
     SameCurrentInLine, SameAnswersInLine, SameIdling, SameUpUnasked, SameInboxUnasked,
     SameActiveIsCurrent, SameOneActive, SameDoneIsCurrent, SameDecided, SamePublishedKnown,
     SameQueueForward, SameQueueOwners, SameQueueOnce, SameResolvePublished, SameNativePublished,
     SameOncesForward, SameLastArrives, SameAnswersCovered, SameCurrentSays, SameAnswersSay,
     SameCalmMount, SameCalmEvals, SameAbortCaused, SameQuietCurrent, SameQuietAnswers,
     SameLogStays, SameEngineStays, SameGrantsBacked DEF NativeInv
<1>TypeOK. TypeOK'
  BY <1>u, <1>f5 DEF NativeInv, TypeOK, baseRevision, OpRecords
<1>OpsKnown. OpsKnown'
  BY <1>t, <1>u, <1>f2, <1>f6 DEF NativeInv, OpsKnown, Fields, OpFields, NativeFields
<1>NotServing. NotServing'
  BY <1>t, <1>u, <1>f3, <1>f6 DEF NativeInv, Fields, NativeFields, OpFields, NotServing
<1>LockHeld. LockHeld'
  BY <1>t, <1>u, <1>f3, <1>f6 DEF NativeInv, Fields, OpFields, LockHeld
<1>AwaitsLast. AwaitsLast'
  BY <1>t, <1>u, <1>f6 DEF NativeInv, AwaitsLast, Fields, NativeFields, Nobody
<1>RequestLeft. RequestLeft'
  <2>1. IsFiniteSet(MayAsk) /\ MayAsk \subseteq Threads
    BY MountAssumption, FS_Subset DEF MayAsk
  <2>2. MayAsk' \subseteq MayAsk
    BY <1>f6, <1>f3 DEF MayAsk
  <2>3. Cardinality(MayAsk') <= Cardinality(MayAsk) /\ Cardinality(MayAsk) \in Nat /\ Cardinality(MayAsk') \in Nat
    BY <2>1, <2>2, FS_Subset, FS_CardinalityType
  <2> QED
    BY <1>u, <1>t, <2>3, BoundsAssumption DEF NativeInv, RequestLeft, Fields, NativeFields
<1>LookupFresh. LookupFresh'
  BY <1>t, <1>u, <1>f3, <1>f6 DEF NativeInv, Fields, NativeFields, OpFields, LookupFresh
<1>AwaitFresh. AwaitFresh'
  BY <1>t, <1>u, <1>f3, <1>f6 DEF NativeInv, Fields, OpFields, AwaitFresh
<1>EvaluatedLater. EvaluatedLater'
  BY <1>t, <1>u, <1>f3, <1>f6 DEF NativeInv, Fields, EvalFields, OpFields, EvaluatedLater
<1>CurrentLater. CurrentLater'
  BY <1>t, <1>u, <1>f3, <1>f6 DEF NativeInv, Fields, CurrentFields, OpFields, CurrentLater
<1>AnswersLater. AnswersLater'
  BY <1>t, <1>m, <1>u, <1>f3, <1>f6 DEF NativeInv, Fields, OpFields, Misses, AnswersLater
<1>CalmUp. CalmUp'
  BY <1>t, <1>m, <1>u, <1>f3, <1>f6 DEF NativeInv, Fields, NativeFields, OpFields, Misses, CalmUp,
     Calm, Awaited
<1>CalmInbox. CalmInbox'
  BY <1>t, <1>m, <1>u, <1>f3, <1>f6 DEF NativeInv, Fields, NativeFields, OpFields, Misses,
     CalmInbox, Calm, Awaited
<1>CalmCurrent. CalmCurrent'
  BY <1>t, <1>u, <1>f3, <1>f6 DEF NativeInv, Fields, CurrentFields, NativeFields, OpFields,
     CalmCurrent, Calm, Nobody, Awaited
<1>CalmAnswers. CalmAnswers'
  BY <1>t, <1>m, <1>u, <1>f3, <1>f6 DEF NativeInv, Fields, NativeFields, OpFields, Misses,
     CalmAnswers, Calm, Awaited
<1>QuietDenied. QuietDenied'
  BY <1>t, <1>u, <1>f3, <1>f6 DEF NativeInv, Fields, EvalFields, OpFields, QuietDenied, Nobody
<1>TargetEvaluated. TargetEvaluated'
  BY <1>t, <1>u, <1>f3, <1>f6 DEF NativeInv, Fields, EvalFields, OpFields, TargetEvaluated, Nobody
<1>TargetSent. TargetSent'
  BY <1>t, <1>m, <1>u, <1>f3, <1>f6 DEF NativeInv, Fields, OpFields, Misses, TargetSent, Nobody
<1>TargetTaken. TargetTaken'
  BY <1>t, <1>m, <1>u, <1>f3, <1>f6 DEF NativeInv, Fields, OpFields, Misses, TargetTaken, Nobody
<1>LetThrough. LetThrough'
  BY <1>t, <1>u, <1>f3, <1>f6 DEF NativeInv, Fields, EvalFields, OpFields, LetThrough, Nobody
<1>AllowedInForce. AllowedInForce'
  <2> SUFFICES ASSUME NEW u \in Threads, op'[u].phase = "allowed"
               PROVE  /\ op'[u].base \in op'[u].begun..baseRevision
                      /\ op'[u].req # Nobody => op'[u].base >= evals[op'[u].req].base
                      /\ Lookup(op'[u].base, op'[u].once, op'[u].target) = "allow"
    BY <1>u, <1>f2 DEF AllowedInForce, Lookup, BaseAt, OnceAt
  <2>1. op'[u] = op[u]
    BY <1>f6
  <2> QED
    BY <2>1 DEF NativeInv, AllowedInForce
<1>GrantNotLost. GrantNotLost'
  BY <1>t, <1>u, <1>f3, <1>f6 DEF NativeInv, Fields, LogFields, EvalFields, OpFields, GrantNotLost,
     Nobody, baseRevision
<1> QED
  BY <1>s, <1>TypeOK, <1>OpsKnown, <1>NotServing, <1>LockHeld, <1>AwaitsLast, <1>RequestLeft,
     <1>LookupFresh, <1>AwaitFresh, <1>EvaluatedLater, <1>CurrentLater, <1>AnswersLater, <1>CalmUp,
     <1>CalmInbox, <1>CalmCurrent, <1>CalmAnswers, <1>QuietDenied, <1>TargetEvaluated,
     <1>TargetSent, <1>TargetTaken, <1>LetThrough, <1>AllowedInForce, <1>GrantNotLost DEF NativeInv

\* The answer: the base is refreshed, request and revisions are checked, and the native snapshots must allow it too.
LEMMA AwaitResolutionKeeps ==
    ASSUME NativeInv, NEW t \in Threads, AwaitResolution(t)
    PROVE  NativeInv'
<1>t. Fields /\ Elements
  BY FieldsHold, ElementsHold DEF NativeInv
<1>q. QueuesTyped
  BY DEF NativeInv
<1>u. /\ baseLog' = baseLog /\ file' = file /\ baseClosed' = baseClosed /\ onceEngine' = onceEngine
      /\ onceLog' = onceLog /\ viewClosed' = viewClosed /\ evals' = evals /\ aborted' = aborted
      /\ open' = open /\ inbox' = inbox /\ current' = current /\ publications' = publications
      /\ published' = published /\ synchronized' = synchronized /\ up' = up /\ cause' = cause
  BY DEF AwaitResolution, baseVars, viewVars, bridgeVars, nativeVars
<1>m. /\ Misses /\ UpMisses' = UpMisses /\ InboxMisses' = InboxMisses
  BY <1>u, MissesHold DEF NativeInv, UpMisses, InboxMisses
<1>f1. /\ 1 \in Resolutions /\ down # <<>> /\ down' = Tail(down) /\ Head(down) = down[1]
  <2>1. down # <<>> /\ down' = Tail(down) /\ Head(down).kind = "resolution"
    BY DEF AwaitResolution
  <2>2. Head(down) = down[1] /\ Len(down) \in Nat /\ Len(down) >= 1
    BY <2>1, DownTaken, <1>q
  <2>3. 1 \in Resolutions
    BY <2>1, <2>2 DEF Resolutions
  <2> QED
    BY <2>1, <2>2, <2>3
<1>f2. PICK m \in DownFrames : m = down[1] /\ m.req \in Requests /\ m.req \in Nat /\ m.base \in Nat /\ m.once \in Nat /\ m.decision \in {"allow", "deny"}
  BY <1>f1, <1>m, DownTaken DEF Misses, NativeInv
<1>f3. down' \in Seq(DownFrames)
  BY <1>f1, DownTaken, <1>q
<1>f4. /\ op[t].phase = "await" /\ lock = t /\ t # NoThread /\ native.phase = "serving" /\ op[t].req = native.next /\ op[t].req # Nobody /\ op[t].req \in Requests
       /\ \A u \in Threads : op[u].phase \in {"lookup", "await"} => u = t
  <2>1. op[t].phase = "await"
    BY DEF AwaitResolution
  <2>2. \A u \in Threads : op[u].phase \in {"lookup", "await"} => u = t
    BY <2>1 DEF NativeInv, LockHeld
  <2> QED
    BY <1>t, <2>1, <2>2, MountAssumption DEF NativeInv, LockHeld, AwaitsLast, NotServing, Fields, OpFields, Nobody
<1>f5. /\ \A j \in Resolutions' : j \in Nat /\ j + 1 \in Resolutions /\ down'[j] = down[j + 1] /\ j + 1 > 1
       /\ \A j \in Onces' : j \in Nat /\ j + 1 \in Onces /\ down'[j] = down[j + 1] /\ j + 1 > 1
  BY <1>f1, DownTaken, <1>q
<1>f6. \A j \in Onces : j \in Nat /\ j > 1 /\ j - 1 \in Onces' /\ j - 1 \in Nat /\ down'[j - 1] = down[j]
  <2>1. \A j \in Onces : j \in Nat /\ (j > 1 => j - 1 \in Onces' /\ j - 1 \in Nat /\ down'[j - 1] = down[j])
    BY <1>f1, DownTaken, <1>q
  <2>2. \A j \in Onces : j \in 1..Len(down) /\ j # 1
    BY <1>f1 DEF Onces, Resolutions
  <2>3. \A j \in Onces : j > 1
    BY <2>1, <2>2
  <2> QED
    BY <2>1, <2>3
<1>f7. baseRevision \in Nat /\ onceRevision \in Nat /\ baseRevision' = baseRevision /\ onceRevision' = onceRevision
  BY <1>t, <1>u DEF baseRevision, onceRevision, Fields, LogFields
<1>f8. op \in [Threads -> OpRecords]
  BY DEF NativeInv, TypeOK, OpRecords
<1>f9. native \in [phase : {"load", "initial", "ready", "serving", "exited"},
                  base : Nat, once : Nat, next : 0..MaxRequests, failed : BOOLEAN]
  BY DEF NativeInv, TypeOK
<1>f10. /\ file \in Nat /\ native.base <= file
  BY <1>t DEF NativeInv, NativeBehind, Fields, LogFields
<1>f11. Calm => /\ open /\ file = baseRevision /\ m.req = op[t].req /\ Valid(t, m, file)
  <2> SUFFICES ASSUME Calm PROVE open /\ file = baseRevision /\ m.req = op[t].req /\ Valid(t, m, file)
    OBVIOUS
  <2>1. open /\ file = baseRevision
    BY DEF NativeInv, CalmMount, FileCurrent
  <2>2. m.req = op[t].req
    BY <1>f1, <1>f2, <1>f4 DEF NativeInv, CalmAnswers, Awaited
  <2>3. op[t].base <= m.base /\ op[t].once <= m.once /\ m.base <= baseRevision
    BY <1>f1, <1>f2, <1>f4, <2>2 DEF NativeInv, AnswersLater, AnswersKnown
  <2>4. m.once <= native.once
    BY <1>f1, <1>f2, <1>f6 DEF NativeInv, AnswersCovered
  <2>5. op[t].base \in Nat /\ op[t].once \in Nat /\ native.once \in Nat /\ file \in Nat
    BY <1>t, <1>f10 DEF Fields, OpFields, NativeFields
  <2> QED
    BY <1>f2, <2>1, <2>2, <2>3, <2>4, <2>5 DEF Valid
<1>f12. PICK bad \in BOOLEAN : /\ bad = ~Valid(t, m, file)
          /\ native' = [native EXCEPT !.failed = bad, !.base = file]
  BY <1>t, <1>f1, <1>f2, <1>f10 DEF AwaitResolution, Refreshable, Replaces, Fields, NativeFields
<1>f13. lock' = NoThread /\ (bad => "fault" \in cause) /\ bad \in BOOLEAN
  BY <1>f11, <1>f12 DEF AwaitResolution, Calm
<1>f14. /\ native'.phase = native.phase /\ native'.base = file /\ native'.once = native.once /\ native'.next = native.next /\ native'.failed = bad
  <2>1. ASSUME NEW x \in BOOLEAN, NEW b \in Nat, native' = [native EXCEPT !.failed = x, !.base = b]
        PROVE  /\ native'.phase = native.phase /\ native'.base = b /\ native'.once = native.once /\ native'.next = native.next /\ native'.failed = x
    BY <2>1, <1>f9
  <2> QED
    BY <2>1, <1>f12, <1>f10
<1>f15. native' \in [phase : {"load", "initial", "ready", "serving", "exited"},
                   base : Nat, once : Nat, next : 0..MaxRequests, failed : BOOLEAN]
  <2>1. ASSUME NEW x \in BOOLEAN, NEW b \in Nat, native' = [native EXCEPT !.failed = x, !.base = b]
        PROVE  native' \in [phase : {"load", "initial", "ready", "serving", "exited"},
                       base : Nat, once : Nat, next : 0..MaxRequests, failed : BOOLEAN]
    BY <2>1, <1>f9
  <2> QED
    BY <2>1, <1>f12, <1>f10
<1>f16. PICK ph \in {"allowed", "denied"} : /\ op' = [op EXCEPT ![t].phase = ph, ![t].base = file, ![t].once = native.once]
          /\ (ph = "allowed" => ~bad /\ Granted(t, m, file)) /\ (ph = "denied" => ~(~bad /\ Granted(t, m, file)))
  <2>1. Refreshable
    BY <1>t, <1>f10 DEF Refreshable, Replaces, Fields, NativeFields
  <2>2. op' = [op EXCEPT ![t].phase = IF ~bad /\ Granted(t, m, file) THEN "allowed" ELSE "denied",
                         ![t].base = native'.base, ![t].once = native.once]
    BY <1>f1, <1>f2, <1>f12, <2>1 DEF AwaitResolution
  <2>3. CASE ~bad /\ Granted(t, m, file)
    BY <1>f14, <2>2, <2>3
  <2>4. CASE ~(~bad /\ Granted(t, m, file))
    BY <1>f14, <2>2, <2>4
  <2> QED
    BY <2>3, <2>4
<1>f17. native.once \in Nat
  BY <1>t DEF Fields, NativeFields
<1>f18. /\ \A u \in Threads : u # t => op'[u] = op[u]
        /\ op'[t].phase = ph /\ op'[t].target = op[t].target /\ op'[t].begun = op[t].begun /\ op'[t].req = op[t].req
        /\ op'[t].base = file /\ op'[t].once = native.once
  <2>1. ASSUME NEW p \in {"allowed", "denied"}, NEW b \in Nat, NEW w \in Nat, op' = [op EXCEPT ![t].phase = p, ![t].base = b, ![t].once = w]
        PROVE  /\ \A u \in Threads : u # t => op'[u] = op[u]
               /\ op'[t].phase = p /\ op'[t].target = op[t].target /\ op'[t].begun = op[t].begun /\ op'[t].req = op[t].req
               /\ op'[t].base = b /\ op'[t].once = w
    BY <2>1, <1>f8 DEF OpRecords
  <2> QED
    BY <2>1, <1>f16, <1>f10, <1>f17
<1>f19. op' \in [Threads -> OpRecords]
  <2>1. ASSUME NEW p \in {"allowed", "denied"}, NEW b \in Nat, NEW w \in Nat, op' = [op EXCEPT ![t].phase = p, ![t].base = b, ![t].once = w]
        PROVE  op' \in [Threads -> OpRecords]
    <3> DEFINE g == [[[op[t] EXCEPT !.phase = p] EXCEPT !.base = b] EXCEPT !.once = w]
    <3>1. op' = [op EXCEPT ![t] = g]
      BY <2>1
    <3>2. [op[t] EXCEPT !.phase = p] \in OpRecords
      BY <1>f8 DEF OpRecords
    <3>3. [[op[t] EXCEPT !.phase = p] EXCEPT !.base = b] \in OpRecords
      BY <3>2 DEF OpRecords
    <3>4. [[[op[t] EXCEPT !.phase = p] EXCEPT !.base = b] EXCEPT !.once = w] \in OpRecords
      BY <3>3 DEF OpRecords
    <3>5. g \in OpRecords
      BY <3>4
    <3> HIDE DEF g
    <3> QED
      BY <1>f8, <3>1, <3>5
  <2> QED
    BY <2>1, <1>f16, <1>f10, <1>f17
<1>f20. Calm => /\ UpMisses = {} /\ InboxMisses = {} /\ current.req = Nobody /\ Resolutions' = {}
  <2> SUFFICES ASSUME Calm PROVE UpMisses = {} /\ InboxMisses = {} /\ current.req = Nobody /\ Resolutions' = {}
    OBVIOUS
  <2>1. m.req = native.next /\ native.next \in Nat
    BY <1>t, <1>f4, <1>f11 DEF Fields, NativeFields
  <2>2. ASSUME NEW j \in UpMisses PROVE FALSE
    <3>1. up[j].req \in Nat /\ m.req < up[j].req /\ up[j].req <= native.next
      BY <1>m, <1>f1, <1>f2, <2>2 DEF NativeInv, AnswersInLine, UpInLine, Misses
    <3> QED
      BY <2>1, <3>1
  <2>3. ASSUME NEW j \in InboxMisses PROVE FALSE
    <3>1. inbox[j].req \in Nat /\ m.req < inbox[j].req /\ inbox[j].req <= native.next
      BY <1>m, <1>f1, <1>f2, <2>3 DEF NativeInv, AnswersInLine, InboxInLine, Misses
    <3> QED
      BY <2>1, <3>1
  <2>4. ASSUME current.req # Nobody PROVE FALSE
    <3>1. current.req \in Nat /\ m.req < current.req /\ current.req <= native.next
      BY <1>t, <1>f1, <1>f2, <2>4 DEF NativeInv, AnswersInLine, CurrentInLine, Fields, CurrentFields
    <3> QED
      BY <2>1, <3>1
  <2>5. ASSUME NEW h \in Resolutions' PROVE FALSE
    <3>1. PICK k \in Resolutions : k = h + 1 /\ 1 < k
      BY <1>f5, <2>5
    <3>2. down[k].req \in Nat /\ m.req < down[k].req /\ down[k].req <= native.next
      BY <1>m, <1>f1, <1>f2, <3>1 DEF NativeInv, AnswersInLine, Misses
    <3> QED
      BY <2>1, <3>2
  <2> QED
    BY <2>2, <2>3, <2>4, <2>5
<1>f21. ph = "allowed" => /\ m.req = op[t].req /\ m.base <= file /\ evals[op[t].req].phase = "done" /\ evals[op[t].req].base = m.base
          /\ Lookup(file, native.once, op[t].target) = "allow"
  <2> SUFFICES ASSUME ph = "allowed"
               PROVE  /\ m.req = op[t].req /\ m.base <= file /\ evals[op[t].req].phase = "done" /\ evals[op[t].req].base = m.base
                      /\ Lookup(file, native.once, op[t].target) = "allow"
    OBVIOUS
  <2>1. Valid(t, m, file) /\ Granted(t, m, file)
    BY <1>f12, <1>f16
  <2>2. m.req = op[t].req /\ m.base <= file /\ m.decision = "allow" /\ Lookup(file, native.once, op[t].target) = "allow"
    BY <2>1 DEF Valid, Granted
  <2> QED
    BY <1>f1, <1>f2, <2>2 DEF NativeInv, AnswersSay, SaysEvaluated
<1>f22. cause = {} => /\ Calm /\ evals[op[t].req].phase = "done" /\ evals[op[t].req].result = m.decision /\ evals[op[t].req].once = m.once
  <2> SUFFICES ASSUME cause = {}
               PROVE  /\ Calm /\ evals[op[t].req].phase = "done" /\ evals[op[t].req].result = m.decision
                      /\ evals[op[t].req].once = m.once
    OBVIOUS
  <2>1. Calm /\ m.req = op[t].req
    BY <1>f11 DEF Calm
  <2> QED
    BY <1>f1, <1>f2, <2>1 DEF NativeInv, QuietAnswers, SaysEvaluated
<1>f23. \A u \in Threads : op'[u].req = op[u].req /\ op'[u].target = op[u].target /\ op'[u].phase \notin {"await", "lookup"}
  BY <1>f4, <1>f16, <1>f18
<1>f24. (cause = {} /\ ph = "denied" /\ evals[op[t].req].result = "allow") => baseRevision > evals[op[t].req].at
  <2> SUFFICES ASSUME cause = {}, ph = "denied", evals[op[t].req].result = "allow", ~(baseRevision > evals[op[t].req].at)
               PROVE  FALSE
    OBVIOUS
  <2> DEFINE e == evals[op[t].req]
  <2>1. /\ file = baseRevision /\ Valid(t, m, file) /\ m.decision = "allow" /\ e.phase = "done" /\ e.once = m.once
    BY <1>f11, <1>f22
  <2>2. Lookup(file, native.once, op[t].target) # "allow"
    BY <1>f12, <1>f16, <2>1 DEF Granted
  <2>3. e.at = file
    BY <1>t, <1>f4, <1>f7, <2>1 DEF NativeInv, EvalsKnown, Fields, EvalFields
  <2>4. GrantBacked(e) /\ e.target = op[t].target /\ op[t].target \in Targets
    BY <1>t, <1>f4, <2>1 DEF NativeInv, GrantsBacked, TargetEvaluated, Fields, OpFields
  <2>5. /\ e.once <= native.once /\ e.once \in Nat /\ native.once <= onceRevision /\ Len(onceLog) \in Nat
    BY <1>t, <1>f2, <2>1 DEF Valid, NativeInv, NativeBehind, Fields, LogFields
  <2>6. OnceAt(e.once)[op[t].target] = "allow" => OnceAt(native.once)[op[t].target] = "allow"
    <3>1. e.once + 1 \in 1..Len(onceLog) /\ native.once + 1 \in 1..Len(onceLog) /\ e.once + 1 <= native.once + 1
      BY <1>f17, <2>5 DEF onceRevision
    <3>2. Stays(onceLog[e.once + 1], onceLog[native.once + 1])
      BY <3>1 DEF NativeInv, LogStays
    <3> QED
      BY <2>4, <3>2 DEF Stays, OnceAt
  <2> HIDE DEF e
  <2> QED
    BY <2>1, <2>2, <2>3, <2>4, <2>6 DEF GrantBacked, Lookup
<1>s. /\ FileCurrent' /\ UpKnown' /\ InboxKnown' /\ CurrentKnown' /\ EvalsKnown' /\ FirstRevision'
      /\ ReadyFirst' /\ Idling' /\ UpUnasked' /\ InboxUnasked' /\ ActiveIsCurrent' /\ OneActive'
      /\ DoneIsCurrent' /\ Decided' /\ PublishedKnown' /\ QueueForward' /\ QueueOwners'
      /\ QueueOnce' /\ ResolvePublished' /\ CurrentSays' /\ CalmEvals' /\ AbortCaused'
      /\ QuietCurrent' /\ LogStays' /\ EngineStays' /\ GrantsBacked'
  BY <1>u, SameFileCurrent, SameUpKnown, SameInboxKnown, SameCurrentKnown, SameEvalsKnown,
     SameFirstRevision, SameReadyFirst, SameIdling, SameUpUnasked, SameInboxUnasked,
     SameActiveIsCurrent, SameOneActive, SameDoneIsCurrent, SameDecided, SamePublishedKnown,
     SameQueueForward, SameQueueOwners, SameQueueOnce, SameResolvePublished, SameCurrentSays,
     SameCalmEvals, SameAbortCaused, SameQuietCurrent, SameLogStays, SameEngineStays,
     SameGrantsBacked DEF NativeInv
<1>TypeOK. TypeOK'
  BY <1>u, <1>f13, <1>f15, <1>f19 DEF NativeInv, TypeOK, baseRevision, OpRecords
<1>QueuesTyped. QueuesTyped'
  BY <1>u, <1>f3 DEF NativeInv, QueuesTyped
<1>NativeBehind. NativeBehind'
  BY <1>t, <1>u, <1>f7, <1>f14 DEF NativeInv, NativeBehind, Fields, LogFields
<1>AnswersKnown. AnswersKnown'
  BY <1>t, <1>m, <1>u, <1>f5, <1>f6 DEF NativeInv, Fields, LogFields, Misses, AnswersKnown,
     baseRevision
<1>OpsKnown. OpsKnown'
  BY <1>t, <1>u, <1>f7, <1>f10, <1>f14, <1>f17, <1>f18 DEF NativeInv, OpsKnown, Fields, OpFields, NativeFields
<1>NotSynchronized. NotSynchronized'
  BY <1>u, <1>f1 DEF NativeInv, NotSynchronized
<1>NotServing. NotServing'
  BY <1>f4, <1>f14 DEF NotServing
<1>NothingAsked. NothingAsked'
  BY <1>t, <1>u, <1>f4, <1>f10, <1>f14, <1>f18 DEF NativeInv, Fields, LogFields, NativeFields,
     NothingAsked, onceRevision
<1>AskedAfterSent. AskedAfterSent'
  BY <1>t, <1>u, <1>f4, <1>f10, <1>f14, <1>f18 DEF NativeInv, Fields, EvalFields, NativeFields,
     AskedAfterSent
<1>LockHeld. LockHeld'
  BY <1>f4, <1>f13, <1>f23, MountAssumption DEF LockHeld
<1>AwaitsLast. AwaitsLast'
  BY <1>f4, <1>f14, <1>f16, <1>f18, <1>f23 DEF NativeInv, AwaitsLast
<1>RequestLeft. RequestLeft'
  <2>1. IsFiniteSet(MayAsk) /\ MayAsk \subseteq Threads
    BY MountAssumption, FS_Subset DEF MayAsk
  <2>2. MayAsk' \subseteq MayAsk
    BY <1>f18, <1>f16 DEF MayAsk
  <2>3. Cardinality(MayAsk') <= Cardinality(MayAsk) /\ Cardinality(MayAsk) \in Nat /\ Cardinality(MayAsk') \in Nat
    BY <2>1, <2>2, FS_Subset, FS_CardinalityType
  <2> QED
    BY <1>f14, <1>t, <2>3, BoundsAssumption DEF NativeInv, RequestLeft, Fields, NativeFields
<1>UpInLine. UpInLine'
  BY <1>t, <1>m, <1>u, <1>f4, <1>f10, <1>f14, <1>f18 DEF NativeInv, Fields, NativeFields, Misses,
     UpInLine
<1>InboxInLine. InboxInLine'
  BY <1>t, <1>m, <1>u, <1>f4, <1>f10, <1>f14, <1>f18 DEF NativeInv, Fields, NativeFields, Misses,
     InboxInLine
<1>CurrentInLine. CurrentInLine'
  BY <1>t, <1>m, <1>u, <1>f4, <1>f10, <1>f14, <1>f18 DEF NativeInv, Fields, CurrentFields,
     NativeFields, Misses, CurrentInLine, Nobody
<1>AnswersInLine. AnswersInLine'
  BY <1>t, <1>m, <1>u, <1>f4, <1>f5, <1>f6, <1>f10, <1>f14, <1>f18 DEF NativeInv, Fields,
     CurrentFields, NativeFields, Misses, AnswersInLine, Nobody
<1>NativePublished. NativePublished'
  BY <1>t, <1>u, <1>f4, <1>f10, <1>f14, <1>f18 DEF NativeInv, Fields, NativeFields, NativePublished
<1>OncesForward. OncesForward'
  <2> SUFFICES ASSUME NEW i \in Onces'
               PROVE  /\ native.once <= down'[i].rev /\ down'[i].rev <= published
                      /\ \A j \in Onces' : i < j => down'[i].rev <= down'[j].rev
    BY <1>u, <1>f14 DEF OncesForward
  <2>1. PICK k \in Onces : k = i + 1 /\ down'[i] = down[k] /\ i \in Nat
    BY <1>f5
  <2>2. ASSUME NEW j \in Onces', i < j PROVE down[k].rev <= down'[j].rev
    <3>1. PICK l \in Onces : l = j + 1 /\ down'[j] = down[l] /\ k < l
      BY <1>f5, <2>1, <2>2
    <3> QED
      BY <3>1 DEF NativeInv, OncesForward
  <2> QED
    BY <2>1, <2>2 DEF NativeInv, OncesForward
<1>LastArrives. LastArrives'
  BY <1>u, <1>f6, <1>f14 DEF NativeInv, LastArrives
<1>AnswersCovered. AnswersCovered'
  <2> SUFFICES ASSUME NEW h \in Resolutions'
               PROVE  \/ down'[h].once <= native.once
                      \/ \E i \in Onces' : i < h /\ down'[h].once <= down'[i].rev
    BY <1>u, <1>f14 DEF AnswersCovered
  <2>1. PICK k \in Resolutions : k = h + 1 /\ down'[h] = down[k] /\ h \in Nat
    BY <1>f5
  <2>2. ASSUME NEW i \in Onces, i < k, down[k].once <= down[i].rev
        PROVE  \E j \in Onces' : j < h /\ down[k].once <= down'[j].rev
    <3>1. PICK j \in Onces' : j = i - 1 /\ down'[j] = down[i] /\ i \in Nat
      BY <1>f6, <2>2
    <3> QED
      BY <2>1, <2>2, <3>1
  <2> QED
    BY <2>1, <2>2 DEF NativeInv, AnswersCovered
<1>AnswersSay. AnswersSay'
  BY <1>t, <1>m, <1>u, <1>f5, <1>f6 DEF NativeInv, Fields, EvalFields, Misses, AnswersSay,
     SaysEvaluated
<1>LookupFresh. LookupFresh'
  BY <1>f23 DEF LookupFresh
<1>AwaitFresh. AwaitFresh'
  BY <1>f23 DEF AwaitFresh
<1>EvaluatedLater. EvaluatedLater'
  BY <1>f23 DEF EvaluatedLater
<1>CurrentLater. CurrentLater'
  BY <1>f23 DEF CurrentLater
<1>AnswersLater. AnswersLater'
  BY <1>f23 DEF AnswersLater
<1>CalmMount. CalmMount'
  BY <1>u, <1>f13, <1>f14 DEF NativeInv, CalmMount, Calm
<1>CalmUp. CalmUp'
  BY <1>u, <1>m, <1>f20 DEF CalmUp, Calm
<1>CalmInbox. CalmInbox'
  BY <1>u, <1>m, <1>f20 DEF CalmInbox, Calm
<1>CalmCurrent. CalmCurrent'
  BY <1>u, <1>f20 DEF CalmCurrent, Calm
<1>CalmAnswers. CalmAnswers'
  BY <1>u, <1>f20 DEF CalmAnswers, Calm
<1>QuietAnswers. QuietAnswers'
  BY <1>t, <1>m, <1>u, <1>f5, <1>f6 DEF NativeInv, Fields, EvalFields, Misses, QuietAnswers,
     SaysEvaluated
<1>QuietDenied. QuietDenied'
  BY <1>u, <1>f18, <1>f22, <1>f23 DEF NativeInv, QuietDenied
<1>TargetEvaluated. TargetEvaluated'
  BY <1>u, <1>f23 DEF NativeInv, TargetEvaluated
<1>TargetSent. TargetSent'
  BY <1>u, <1>m, <1>f23 DEF NativeInv, TargetSent
<1>TargetTaken. TargetTaken'
  BY <1>u, <1>m, <1>f23 DEF NativeInv, TargetTaken
<1>LetThrough. LetThrough'
  BY <1>u, <1>f18, <1>f21, <1>f23 DEF NativeInv, LetThrough
<1>AllowedInForce. AllowedInForce'
  <2> SUFFICES ASSUME NEW u \in Threads, op'[u].phase = "allowed"
               PROVE  /\ op'[u].base \in op'[u].begun..baseRevision
                      /\ op'[u].req # Nobody => op'[u].base >= evals[op'[u].req].base
                      /\ Lookup(op'[u].base, op'[u].once, op'[u].target) = "allow"
    BY <1>u, <1>f7 DEF AllowedInForce, Lookup, BaseAt, OnceAt
  <2>1. u # t => op'[u] = op[u]
    BY <1>f18
  <2>2. CASE u = t
    <3>1. ph = "allowed" /\ op[t].begun <= file /\ file <= baseRevision /\ op[t].begun \in Nat
      <4>1. op[t].begun <= op[t].base /\ op[t].base <= native.base /\ file \in 0..baseRevision
        BY <1>f4 DEF NativeInv, AwaitFresh, OpsKnown, TypeOK
      <4>2. op[t].begun \in Nat /\ op[t].base \in Nat /\ native.base \in Nat
        BY <1>t DEF Fields, OpFields, NativeFields
      <4> QED
        BY <1>f7, <1>f10, <1>f18, <2>2, <4>1, <4>2
    <3> QED
      BY <1>f2, <1>f7, <1>f10, <1>f18, <1>f21, <2>2, <3>1
  <2> QED
    BY <2>1, <2>2 DEF NativeInv, AllowedInForce
<1>GrantNotLost. GrantNotLost'
  BY <1>u, <1>f7, <1>f18, <1>f24 DEF NativeInv, GrantNotLost
<1> QED
  BY <1>s, <1>TypeOK, <1>QueuesTyped, <1>NativeBehind, <1>AnswersKnown, <1>OpsKnown,
     <1>NotSynchronized, <1>NotServing, <1>NothingAsked, <1>AskedAfterSent, <1>LockHeld,
     <1>AwaitsLast, <1>RequestLeft, <1>UpInLine, <1>InboxInLine, <1>CurrentInLine,
     <1>AnswersInLine, <1>NativePublished, <1>OncesForward, <1>LastArrives, <1>AnswersCovered,
     <1>AnswersSay, <1>LookupFresh, <1>AwaitFresh, <1>EvaluatedLater, <1>CurrentLater,
     <1>AnswersLater, <1>CalmMount, <1>CalmUp, <1>CalmInbox, <1>CalmCurrent, <1>CalmAnswers,
     <1>QuietAnswers, <1>QuietDenied, <1>TargetEvaluated, <1>TargetSent, <1>TargetTaken,
     <1>LetThrough, <1>AllowedInForce, <1>GrantNotLost DEF NativeInv

\* The invariant holds at first,
LEMMA InitHolds == ASSUME Init PROVE NativeInv
<1> USE BoundsAssumption
<1>1. /\ Len(baseLog) = 1 /\ baseLog \in Seq(Rules) /\ Len(onceLog) = 1 /\ onceLog \in Seq(Rules) /\ onceLog # <<>>
      /\ onceEngine \in Rules /\ onceLog[1] = onceEngine
  <2>1. onceEngine \in Rules
    BY DEF Init, Rules, Decisions
  <2>2. PICK r \in Rules : baseLog = <<r>>
    BY DEF Init
  <2>3. onceLog = <<onceEngine>>
    BY DEF Init
  <2> QED
    BY <2>1, <2>2, <2>3
<1>2. baseRevision = 0 /\ onceRevision = 0 /\ 0 \in 0..baseRevision
  BY <1>1 DEF baseRevision, onceRevision
<1>3. /\ \A r \in Requests : /\ evals[r].phase = "none" /\ evals[r].base = 0 /\ evals[r].once = 0 /\ evals[r].at = 0
      /\ NoEval \in EvalRecords
  BY NoneTyped DEF Init, NoEval, EvalRecords, Decisions
<1>4. /\ \A t \in Threads : /\ op[t].phase = "idle" /\ op[t].req = 0 /\ op[t].begun = 0 /\ op[t].base = 0 /\ op[t].once = 0
      /\ NoOp \in OpRecords
  BY NoneTyped DEF Init, NoOp, OpRecords, Nobody
<1>5. /\ UpMisses = {} /\ InboxMisses = {} /\ Onces = {} /\ Resolutions = {} /\ MayAsk = {}
      /\ up = <<>> /\ inbox = <<>> /\ down = <<>> /\ publications = <<>>
      /\ \A i \in 1..Len(up) : FALSE
      /\ \A i \in 1..Len(publications) : FALSE
  BY <1>4 DEF Init, UpMisses, InboxMisses, Onces, Resolutions, MayAsk
<1>6. /\ current = NoMiss /\ current.req = 0 /\ current.phase = "idle" /\ current.base = 0 /\ current.once = 0
  BY NoneTyped DEF Init, Nobody
<1>7. /\ native.phase = "load" /\ native.base = 0 /\ native.once = 0 /\ native.next = 0 /\ native.failed = FALSE
      /\ file = 0 /\ published = -1 /\ synchronized = -1 /\ open = TRUE /\ aborted = FALSE /\ cause = {}
      /\ viewClosed = FALSE /\ baseClosed = FALSE /\ lock = NoThread
  BY DEF Init
<1>TypeOK. TypeOK
  <2>1. current \in [req : 0..MaxRequests, phase : {"idle", "evaluating", "publish", "resolve"},
                     base : Nat, once : Nat, decision : {"allow", "deny"}]
    BY <1>6 DEF NoMiss, Nobody
  <2>2. native \in [phase : {"load", "initial", "ready", "serving", "exited"},
                    base : Nat, once : Nat, next : 0..MaxRequests, failed : BOOLEAN]
    BY DEF Init
  <2>3. evals \in [Requests -> EvalRecords] /\ op \in [Threads -> OpRecords]
    BY <1>3, <1>4 DEF Init
  <2>4. /\ Len(baseLog) \in 1..(MaxBase + 1) /\ file \in 0..baseRevision
        /\ published \in Int /\ synchronized \in Int
    BY <1>1, <1>2, <1>7
  <2>5. {baseClosed, viewClosed, aborted, open} \subseteq BOOLEAN /\ cause \subseteq {"abort", "fault"}
    BY <1>7
  <2>6. lock \in Threads \cup {NoThread}
    BY <1>7
  <2> QED
    BY <1>1, <2>1, <2>2, <2>3, <2>4, <2>5, <2>6 DEF TypeOK, EvalRecords, OpRecords
<1>QueuesTyped. QueuesTyped
  BY <1>5 DEF QueuesTyped
<1>NativeBehind. NativeBehind
  BY <1>2, <1>7 DEF NativeBehind
<1>FileCurrent. FileCurrent
  BY <1>2, <1>7 DEF FileCurrent
<1>UpKnown. UpKnown
  BY <1>2, <1>5 DEF UpKnown
<1>InboxKnown. InboxKnown
  BY <1>2, <1>5 DEF InboxKnown
<1>CurrentKnown. CurrentKnown
  BY <1>2, <1>6 DEF CurrentKnown
<1>EvalsKnown. EvalsKnown
  BY <1>2, <1>3 DEF EvalsKnown
<1>AnswersKnown. AnswersKnown
  BY <1>2, <1>5 DEF AnswersKnown
<1>OpsKnown. OpsKnown
  BY <1>2, <1>4, <1>7 DEF OpsKnown
<1>FirstRevision. FirstRevision
  BY <1>7 DEF FirstRevision
<1>NotSynchronized. NotSynchronized
  BY <1>5, <1>7 DEF NotSynchronized
<1>NotServing. NotServing
  BY <1>4, <1>7 DEF NotServing
<1>NothingAsked. NothingAsked
  BY <1>2, <1>7 DEF NothingAsked
<1>AskedAfterSent. AskedAfterSent
  BY <1>3, <1>7 DEF AskedAfterSent
<1>ReadyFirst. ReadyFirst
  BY <1>5, <1>7 DEF ReadyFirst
<1>LockHeld. LockHeld
  BY <1>4, <1>7, MountAssumption DEF LockHeld
<1>AwaitsLast. AwaitsLast
  BY <1>4, <1>7 DEF AwaitsLast, Nobody
<1>RequestLeft. RequestLeft
  BY <1>5, <1>7, FS_EmptySet DEF RequestLeft
<1>UpInLine. UpInLine
  BY <1>5, <1>7 DEF UpInLine
<1>InboxInLine. InboxInLine
  BY <1>5, <1>7 DEF InboxInLine
<1>CurrentInLine. CurrentInLine
  BY <1>5, <1>6, <1>7 DEF CurrentInLine, Nobody
<1>AnswersInLine. AnswersInLine
  BY <1>5, <1>6, <1>7 DEF AnswersInLine, Nobody
<1>Idling. Idling
  BY <1>6 DEF Idling, Nobody
<1>UpUnasked. UpUnasked
  BY <1>3, <1>5 DEF UpUnasked
<1>InboxUnasked. InboxUnasked
  BY <1>3, <1>5 DEF InboxUnasked
<1>ActiveIsCurrent. ActiveIsCurrent
  BY <1>3, <1>6, <1>7 DEF ActiveIsCurrent, Active
<1>OneActive. OneActive
  BY <1>3 DEF OneActive, Active
<1>DoneIsCurrent. DoneIsCurrent
  BY <1>2, <1>3, <1>6 DEF DoneIsCurrent, Active
<1>Decided. Decided
  BY <1>3 DEF Decided
<1>PublishedKnown. PublishedKnown
  BY <1>2, <1>7 DEF PublishedKnown
<1>QueueForward. QueueForward
  BY <1>2, <1>5, <1>7 DEF QueueForward
<1>QueueOwners. QueueOwners
  BY <1>3, <1>5, <1>6 DEF QueueOwners, Nobody
<1>QueueOnce. QueueOnce
  BY <1>5 DEF QueueOnce
<1>ResolvePublished. ResolvePublished
  BY <1>6, <1>7 DEF ResolvePublished
<1>NativePublished. NativePublished
  BY <1>7 DEF NativePublished
<1>OncesForward. OncesForward
  BY <1>5, <1>7 DEF OncesForward
<1>LastArrives. LastArrives
  BY <1>5, <1>7 DEF LastArrives
<1>AnswersCovered. AnswersCovered
  BY <1>5, <1>7 DEF AnswersCovered
<1>CurrentSays. CurrentSays
  BY <1>3, <1>6 DEF CurrentSays
<1>AnswersSay. AnswersSay
  BY <1>3, <1>5 DEF AnswersSay
<1>LookupFresh. LookupFresh
  BY <1>4, <1>7 DEF LookupFresh
<1>AwaitFresh. AwaitFresh
  BY <1>4 DEF AwaitFresh
<1>EvaluatedLater. EvaluatedLater
  BY <1>3, <1>4 DEF EvaluatedLater
<1>CurrentLater. CurrentLater
  BY <1>4, <1>6 DEF CurrentLater
<1>AnswersLater. AnswersLater
  BY <1>4, <1>5 DEF AnswersLater
<1>CalmMount. CalmMount
  BY <1>7 DEF CalmMount, Calm
<1>CalmUp. CalmUp
  BY <1>4, <1>5, <1>7 DEF CalmUp, Calm
<1>CalmInbox. CalmInbox
  BY <1>4, <1>5, <1>7 DEF CalmInbox, Calm
<1>CalmCurrent. CalmCurrent
  BY <1>4, <1>6, <1>7 DEF CalmCurrent, Calm, Nobody
<1>CalmAnswers. CalmAnswers
  BY <1>4, <1>5, <1>7 DEF CalmAnswers, Calm
<1>CalmEvals. CalmEvals
  BY <1>3, <1>7 DEF CalmEvals, Calm
<1>AbortCaused. AbortCaused
  BY <1>7 DEF AbortCaused
<1>QuietCurrent. QuietCurrent
  BY <1>3, <1>6, <1>7 DEF QuietCurrent
<1>QuietAnswers. QuietAnswers
  BY <1>3, <1>5, <1>7 DEF QuietAnswers
<1>QuietDenied. QuietDenied
  BY <1>3, <1>4, <1>7 DEF QuietDenied, Nobody
<1>LogStays. LogStays
  BY <1>1 DEF LogStays, Stays
<1>EngineStays. EngineStays
  BY <1>1, <1>2 DEF EngineStays, Stays, OnceAt
<1>GrantsBacked. GrantsBacked
  BY <1>2, <1>3 DEF GrantsBacked
<1>TargetEvaluated. TargetEvaluated
  BY <1>3, <1>4 DEF TargetEvaluated, Nobody
<1>TargetSent. TargetSent
  BY <1>4, <1>5 DEF TargetSent, Nobody
<1>TargetTaken. TargetTaken
  BY <1>4, <1>5 DEF TargetTaken, Nobody
<1>LetThrough. LetThrough
  BY <1>3, <1>4 DEF LetThrough, Nobody
<1>AllowedInForce. AllowedInForce
  BY <1>2, <1>3, <1>4 DEF AllowedInForce, Nobody
<1>GrantNotLost. GrantNotLost
  BY <1>2, <1>3, <1>4, <1>7 DEF GrantNotLost, Nobody
<1> QED
  BY <1>TypeOK, <1>QueuesTyped, <1>NativeBehind, <1>FileCurrent, <1>UpKnown, <1>InboxKnown,
     <1>CurrentKnown, <1>EvalsKnown, <1>AnswersKnown, <1>OpsKnown, <1>FirstRevision,
     <1>NotSynchronized, <1>NotServing, <1>NothingAsked, <1>AskedAfterSent, <1>ReadyFirst,
     <1>LockHeld, <1>AwaitsLast, <1>RequestLeft, <1>UpInLine, <1>InboxInLine, <1>CurrentInLine,
     <1>AnswersInLine, <1>Idling, <1>UpUnasked, <1>InboxUnasked, <1>ActiveIsCurrent, <1>OneActive,
     <1>DoneIsCurrent, <1>Decided, <1>PublishedKnown, <1>QueueForward, <1>QueueOwners,
     <1>QueueOnce, <1>ResolvePublished, <1>NativePublished, <1>OncesForward, <1>LastArrives,
     <1>AnswersCovered, <1>CurrentSays, <1>AnswersSay, <1>LookupFresh, <1>AwaitFresh,
     <1>EvaluatedLater, <1>CurrentLater, <1>AnswersLater, <1>CalmMount, <1>CalmUp, <1>CalmInbox,
     <1>CalmCurrent, <1>CalmAnswers, <1>CalmEvals, <1>AbortCaused, <1>QuietCurrent,
     <1>QuietAnswers, <1>QuietDenied, <1>LogStays, <1>EngineStays, <1>GrantsBacked,
     <1>TargetEvaluated, <1>TargetSent, <1>TargetTaken, <1>LetThrough, <1>AllowedInForce,
     <1>GrantNotLost DEF NativeInv

\* and every step keeps it.
LEMMA NextKeeps == ASSUME NativeInv, [Next]_vars PROVE NativeInv'
<1>1. CASE UNCHANGED vars
  <2>1. /\ baseLog' = baseLog /\ file' = file /\ baseClosed' = baseClosed
        /\ onceEngine' = onceEngine /\ onceLog' = onceLog /\ viewClosed' = viewClosed
        /\ evals' = evals /\ aborted' = aborted /\ open' = open /\ inbox' = inbox
        /\ current' = current /\ publications' = publications /\ published' = published
        /\ synchronized' = synchronized /\ up' = up /\ down' = down /\ native' = native
        /\ lock' = lock /\ op' = op /\ cause' = cause
    BY <1>1 DEF vars, baseVars, viewVars, bridgeVars, nativeVars
  <2>2. /\ TypeOK' /\ QueuesTyped' /\ NativeBehind' /\ FileCurrent' /\ UpKnown' /\ InboxKnown'
        /\ CurrentKnown' /\ EvalsKnown' /\ AnswersKnown' /\ OpsKnown' /\ FirstRevision'
        /\ NotSynchronized' /\ NotServing' /\ NothingAsked' /\ AskedAfterSent' /\ ReadyFirst'
        /\ LockHeld' /\ AwaitsLast' /\ RequestLeft' /\ UpInLine' /\ InboxInLine' /\ CurrentInLine'
        /\ AnswersInLine' /\ Idling' /\ UpUnasked' /\ InboxUnasked' /\ ActiveIsCurrent'
        /\ OneActive' /\ DoneIsCurrent' /\ Decided' /\ PublishedKnown' /\ QueueForward'
        /\ QueueOwners' /\ QueueOnce' /\ ResolvePublished' /\ NativePublished' /\ OncesForward'
        /\ LastArrives' /\ AnswersCovered' /\ CurrentSays' /\ AnswersSay' /\ LookupFresh'
        /\ AwaitFresh' /\ EvaluatedLater' /\ CurrentLater' /\ AnswersLater' /\ CalmMount'
        /\ CalmUp' /\ CalmInbox' /\ CalmCurrent' /\ CalmAnswers' /\ CalmEvals' /\ AbortCaused'
        /\ QuietCurrent' /\ QuietAnswers' /\ QuietDenied' /\ LogStays' /\ EngineStays'
        /\ GrantsBacked' /\ TargetEvaluated' /\ TargetSent' /\ TargetTaken' /\ LetThrough'
        /\ AllowedInForce' /\ GrantNotLost'
    BY <2>1, SameTypeOK, SameQueuesTyped, SameNativeBehind, SameFileCurrent, SameUpKnown,
       SameInboxKnown, SameCurrentKnown, SameEvalsKnown, SameAnswersKnown, SameOpsKnown,
       SameFirstRevision, SameNotSynchronized, SameNotServing, SameNothingAsked,
       SameAskedAfterSent, SameReadyFirst, SameLockHeld, SameAwaitsLast, SameRequestLeft,
       SameUpInLine, SameInboxInLine, SameCurrentInLine, SameAnswersInLine, SameIdling,
       SameUpUnasked, SameInboxUnasked, SameActiveIsCurrent, SameOneActive, SameDoneIsCurrent,
       SameDecided, SamePublishedKnown, SameQueueForward, SameQueueOwners, SameQueueOnce,
       SameResolvePublished, SameNativePublished, SameOncesForward, SameLastArrives,
       SameAnswersCovered, SameCurrentSays, SameAnswersSay, SameLookupFresh, SameAwaitFresh,
       SameEvaluatedLater, SameCurrentLater, SameAnswersLater, SameCalmMount, SameCalmUp,
       SameCalmInbox, SameCalmCurrent, SameCalmAnswers, SameCalmEvals, SameAbortCaused,
       SameQuietCurrent, SameQuietAnswers, SameQuietDenied, SameLogStays, SameEngineStays,
       SameGrantsBacked, SameTargetEvaluated, SameTargetSent, SameTargetTaken, SameLetThrough,
       SameAllowedInForce, SameGrantNotLost DEF NativeInv
  <2> QED
    BY <2>2 DEF NativeInv
<1>2. CASE BridgeStep
  <2>1. CASE SynchronizeSnapshot
    BY <2>1, SynchronizeKeeps
  <2>2. CASE PublishOnceSnapshot
    BY <2>2, PublishKeeps
  <2>3. CASE HandleData
    BY <2>3, HandleReadyKeeps, HandleRequestKeeps
  <2>4. CASE ReportKnownDenial
    BY <2>4, ReportDenialKeeps
  <2>5. CASE ResolveMiss
    BY <2>5, ResolveMissKeeps
  <2>6. CASE ResumeMiss(TRUE)
    BY <2>6, ResumeEvaluatedKeeps
  <2>7. CASE ResumeMiss(FALSE)
    <3>1. CASE viewClosed \/ baseClosed
      BY <2>7, <3>1, ResumeClosedKeeps
    <3>2. CASE ~viewClosed /\ ~baseClosed
      BY <2>7, <3>2, ResumeRefusedKeeps
    <3> QED
      BY <3>1, <3>2
  <2>8. CASE WriteResolution
    BY <2>8, WriteLostKeeps, WriteResolutionKeeps
  <2> QED
    BY <1>2, <2>1, <2>2, <2>3, <2>4, <2>5, <2>6, <2>7, <2>8 DEF BridgeStep
<1>3. ASSUME NEW r \in Requests, EvaluateKnown(r) PROVE NativeInv'
  BY <1>3, EvaluateKnownKeeps
<1>4. ASSUME NEW r \in Requests, FinishEvaluate(r) PROVE NativeInv'
  <2>1. CASE viewClosed \/ baseClosed
    BY <1>4, <2>1, FinishFailsKeeps
  <2>2. CASE ~viewClosed /\ ~baseClosed
    BY <1>4, <2>2, FinishKnownKeeps, FinishPublishesKeeps
  <2> QED
    BY <2>1, <2>2
<1>5. ASSUME NEW r \in Requests, AnswerRefused(r) PROVE NativeInv'
  BY <1>5, AnswerRefusedKeeps
<1>6. ASSUME NEW r \in Requests, NEW d \in {"allow", "deny"}, AnswerOnce(r, d) \/ AnswerStored(r, d)
      PROVE  NativeInv'
  BY <1>6, AnswerOnceKeeps, AnswerStoredKeeps
<1>7. CASE LoadBase
  BY <1>7, LoadBaseKeeps
<1>8. CASE InitialOnce
  BY <1>8, InitialOnceKeeps, InitialFailsKeeps DEF FrameRead
<1>9. CASE Ready
  BY <1>9, ReadyKeeps
<1>10. ASSUME NEW t \in Threads, Authorize(t) PROVE NativeInv'
  BY <1>10, AuthorizeKeeps
<1>11. ASSUME NEW t \in Threads, LookupPolicy(t) PROVE NativeInv'
  <2>1. CASE ~Drainable
    BY <1>11, <2>1, LookupFailsKeeps
  <2>2. CASE Drainable /\ Lookup(native.base, Drained, op[t].target) # "none"
    BY <1>11, <2>2, LookupKnownKeeps
  <2>3. CASE Drainable /\ Lookup(native.base, Drained, op[t].target) = "none"
    BY <1>11, <2>3, LookupMissKeeps
  <2> QED
    BY <2>1, <2>2, <2>3
<1>12. ASSUME NEW t \in Threads, AwaitOnce(t) \/ AwaitResolution(t) \/ AwaitBroken(t) \/ Return(t) PROVE NativeInv'
  BY <1>12, AwaitOnceKeeps, AwaitResolutionKeeps, AwaitBrokenKeeps, ReturnKeeps
<1>13. ASSUME NEW x \in Targets, NEW d \in Decisions, PolicyStateChanged(x, d) \/ PublicationFails(x, d)
       PROVE  NativeInv'
  BY <1>13, BaseChangeKeeps, PublicationFailureKeeps
<1>14. CASE Disturb
  BY <1>14, DisturbanceKeeps
<1>15. ASSUME NEW t \in Threads, NEW x \in Targets, Callback(t, x) PROVE NativeInv'
  BY <1>15, CallbackKeeps
<1> QED
  BY <1>1, <1>2, <1>3, <1>4, <1>5, <1>6, <1>7, <1>8, <1>9, <1>10, <1>11, <1>12, <1>13, <1>14, <1>15 DEF
     Next, ViewStep, Answer, NativeStep, BaseStep

\* The mount follows the policy of its agent: an operation is let through only by
\* rules that were in force since its callback began, no grant is lost while nothing
\* disturbs the mount, and the mount fails only when something does (authorize in
\* control.rs, resolveMiss and publishOnceSnapshot of the bridge, evaluate of the view).
THEOREM PolicyInForceTheorem == Spec => []PolicyInForce
<1>1. Init => NativeInv
  BY InitHolds
<1>2. NativeInv /\ [Next]_vars => NativeInv'
  BY NextKeeps
<1>3. NativeInv => PolicyInForce
  <2> SUFFICES ASSUME NativeInv PROVE PolicyInForce
    OBVIOUS
  <2>1. OnlyDisturbedFails
    BY DEF NativeInv, CalmMount, Calm, AbortCaused, OnlyDisturbedFails
  <2> QED
    BY <2>1 DEF NativeInv, PolicyInForce
<1> QED
  BY <1>1, <1>2, <1>3, PTL DEF Spec

-----------------------------------------------------------------------------
(* The run of one command                                                  *)

RunnerSpec == RunnerInit /\ [][RunnerNext]_runnerVars

\* The steps before the daemon is spawned, and those before the worker is.
BeforeDaemon == {"realpath", "mkdtemp", "mkdir", "publish", "spawn"}
BeforeWorker == BeforeDaemon \cup {"sync", "ready", "run"}
\* The steps after stopDaemon() has seen the daemon settle.
DaemonGone == {"check", "again", "verify", "remove", "settle", "done"}
RunnerSteps == BeforeWorker \cup {"running", "leave", "unmount", "stop", "killing"} \cup DaemonGone

RunnerRecords == [at : RunnerSteps, mounted : BOOLEAN, timedOut : BOOLEAN, runError : BOOLEAN,
                  unmountError : BOOLEAN, removalError : BOOLEAN,
                  outcome : {"none", "threw", "returned"}]

RunnerTypeOK ==
    /\ runner \in RunnerRecords
    /\ fuseDaemon \in {"none", "starting", "mounted", "serving", "exited"}
    /\ worker \in {"none", "running", "killed", "exited"}
    /\ workdir \in {"none", "made", "removed"}

\* What the run knows at each of its steps: a mount has a daemon behind it or
\* behind its death, only the worker's own step has a worker, and what ends the
\* cleanup without an error has removed the directory.
RunnerInv ==
    /\ RunnerTypeOK
    /\ runner.at \in BeforeDaemon => fuseDaemon = "none"
    /\ inTable => fuseDaemon # "none"
    /\ runner.at \in DaemonGone => ~Alive
    /\ runner.at \in BeforeWorker => worker = "none"
    /\ runner.at # "running" => worker \in {"none", "exited"}
    /\ runner.at = "remove" => ~inTable
    /\ workdir = "removed" => runner.at \in {"settle", "done"} /\ ~inTable
    /\ runner.at = "settle" => \/ workdir = "removed"
                               \/ runner.unmountError \/ runner.removalError
    /\ runner.outcome # "none" <=> runner.at = "done"
    /\ runner.outcome = "returned" => workdir = "removed"

-----------------------------------------------------------------------------
\* The run starts with nothing made, spawned or mounted.
LEMMA RunnerInitInv == RunnerInit => RunnerInv
BY DEF RunnerInit, RunnerInv, RunnerTypeOK, RunnerRecords, RunnerSteps, BeforeDaemon, BeforeWorker, DaemonGone, Alive

\* The steps up to the daemon's readiness keep the invariant
\* (native-fuse-runner.ts:48-120): none of them has a worker, and a run that
\* ends before the temporary directory is made has nothing to clean up.
LEMMA SettingUpKeepsInv ==
    ASSUME RunnerInv,
           \/ ResolveCwd \/ MakeDirectory \/ Setup("mkdir", "publish") \/ Setup("publish", "spawn")
           \/ SpawnDaemon \/ SendSnapshot \/ WaitForReady
    PROVE  RunnerInv'
<1> USE DEF RunnerInv, RunnerTypeOK, RunnerRecords, RunnerSteps, BeforeDaemon, BeforeWorker, DaemonGone, Alive,
            At, Go, Outcome, Threw, Throw, Rest, HostUnchanged
<1>1. CASE ResolveCwd
  BY <1>1 DEF ResolveCwd
<1>2. CASE MakeDirectory
  BY <1>2 DEF MakeDirectory
<1>3. CASE Setup("mkdir", "publish")
  BY <1>3 DEF Setup
<1>4. CASE Setup("publish", "spawn")
  BY <1>4 DEF Setup
<1>5. CASE SpawnDaemon
  BY <1>5 DEF SpawnDaemon
<1>6. CASE SendSnapshot
  BY <1>6 DEF SendSnapshot
<1>7. CASE WaitForReady
  BY <1>7 DEF WaitForReady
<1> QED BY <1>1, <1>2, <1>3, <1>4, <1>5, <1>6, <1>7

\* The worker's own steps and the abort of the run keep the invariant: the
\* cleanup starts only once the worker has exited.
LEMMA WorkerKeepsInv ==
    ASSUME RunnerInv,
           SpawnWorker \/ WorkerTimesOut \/ WorkerReturns \/ WorkerExits \/ StopRun \/ Leave
    PROVE  RunnerInv'
<1> USE DEF RunnerInv, RunnerTypeOK, RunnerRecords, RunnerSteps, BeforeDaemon, BeforeWorker, DaemonGone, Alive,
            At, Go, Outcome, Threw, Throw, Rest, HostUnchanged
<1>1. CASE SpawnWorker
  BY <1>1 DEF SpawnWorker
<1>2. CASE WorkerTimesOut
  BY <1>2 DEF WorkerTimesOut
<1>3. CASE WorkerReturns
  <2>1. /\ runner \in RunnerRecords /\ At("running") /\ worker = "exited"
        /\ runner' = Threw(runner) \/ runner' = [runner EXCEPT !.at = "leave"]
    BY <1>3 DEF WorkerReturns
  <2>2. runner' \in RunnerRecords /\ runner'.at = "leave" /\ runner'.outcome = runner.outcome
    BY <2>1
  <2> QED BY <1>3, <2>1, <2>2 DEF WorkerReturns
<1>4. CASE WorkerExits
  BY <1>4 DEF WorkerExits
<1>5. CASE StopRun
  BY <1>5 DEF StopRun
<1>6. CASE Leave
  BY <1>6 DEF Leave
<1> QED BY <1>1, <1>2, <1>3, <1>4, <1>5, <1>6

\* fusermount3 -u, whether it succeeds or not, keeps the invariant: it moves the
\* run on and takes at most the mount away.
LEMMA UnmountedKeepsInv ==
    ASSUME RunnerInv, Unmount \/ UnmountAgain
    PROVE  RunnerInv'
<1>1. runner \in RunnerRecords
  BY DEF RunnerInv, RunnerTypeOK
<1>2. runner' \in RunnerRecords
  BY <1>1 DEF Unmount, UnmountAgain, Unmounted, RunnerRecords, RunnerSteps, DaemonGone
<1>3. /\ \/ runner.at = "unmount" /\ runner'.at = "stop"
         \/ runner.at = "again" /\ runner'.at = "verify"
      /\ runner'.outcome = runner.outcome
  BY <1>1 DEF Unmount, UnmountAgain, Unmounted, RunnerRecords, At
<1>4. UNCHANGED <<fuseDaemon, worker, workdir>>
  BY DEF Unmount, UnmountAgain, Unmounted
<1>5. inTable' => inTable
  <2>1. inTable' = inTable \/ inTable' = FALSE
    BY DEF Unmount, UnmountAgain, Unmounted
  <2> QED BY <2>1
<1> QED BY <1>2, <1>3, <1>4, <1>5
        DEF RunnerInv, RunnerTypeOK, BeforeDaemon, BeforeWorker, DaemonGone, Alive

\* Reading the mount table keeps the invariant, and the directory is on its way
\* to removal only when the table was read and the mountpoint is not in it.
LEMMA ReadingTheTableKeepsInv ==
    ASSUME RunnerInv, CheckMounted \/ VerifyRemovable
    PROVE  RunnerInv'
<1>1. runner \in RunnerRecords
  BY DEF RunnerInv, RunnerTypeOK
<1>2. runner' \in RunnerRecords
  BY <1>1 DEF CheckMounted, VerifyRemovable, Go, RunnerRecords, RunnerSteps, DaemonGone
<1>3. /\ \/ runner.at = "check" /\ runner'.at \in {"again", "verify"}
         \/ runner.at = "verify" /\ runner'.at = "remove" /\ ~inTable
         \/ runner.at = "verify" /\ runner'.at = "settle" /\ runner'.unmountError
      /\ runner'.outcome = runner.outcome
  BY <1>1 DEF CheckMounted, VerifyRemovable, Free, Go, At, RunnerRecords
<1>4. UNCHANGED <<fuseDaemon, worker, workdir, inTable>>
  BY DEF CheckMounted, VerifyRemovable, Rest
<1> QED BY <1>2, <1>3, <1>4
        DEF RunnerInv, RunnerTypeOK, BeforeDaemon, BeforeWorker, DaemonGone, Alive

\* The recursive removal keeps the invariant: the daemon is gone and the mount is
\* not in the table, so neither can come back behind it.
LEMMA RemovalKeepsInv ==
    ASSUME RunnerInv, RemoveDirectory
    PROVE  RunnerInv'
<1>1. runner \in RunnerRecords
  BY DEF RunnerInv, RunnerTypeOK
<1>2. runner' \in RunnerRecords
  BY <1>1 DEF RemoveDirectory, Go, RunnerRecords, RunnerSteps, DaemonGone
<1>3. /\ runner.at = "remove" /\ runner'.at = "settle" /\ runner'.outcome = runner.outcome
      /\ workdir' = "removed" \/ (workdir' = workdir /\ runner'.removalError)
  BY <1>1 DEF RemoveDirectory, Go, At, RunnerRecords
<1>4. UNCHANGED <<fuseDaemon, worker, inTable>>
  BY DEF RemoveDirectory, HostUnchanged
<1> QED BY <1>2, <1>3, <1>4
        DEF RunnerInv, RunnerTypeOK, BeforeDaemon, BeforeWorker, DaemonGone, Alive

\* Stopping the daemon and settling the run keep the invariant: the daemon is
\* settled before the mount table is read.
LEMMA SettlingKeepsInv ==
    ASSUME RunnerInv, DaemonSettled \/ StopTimesOut \/ Settle
    PROVE  RunnerInv'
<1> USE DEF RunnerInv, RunnerTypeOK, RunnerRecords, RunnerSteps, BeforeDaemon, BeforeWorker,
            DaemonGone, Alive, At, Go, Outcome, Rest
<1>1. CASE DaemonSettled
  BY <1>1 DEF DaemonSettled
<1>2. CASE StopTimesOut
  BY <1>2 DEF StopTimesOut
<1>3. CASE Settle
  BY <1>3 DEF Settle
<1> QED BY <1>1, <1>2, <1>3

\* What the daemon and its helper do by themselves keeps the invariant: a daemon
\* that has exited mounts nothing any more.
LEMMA DaemonKeepsInv ==
    ASSUME RunnerInv, DaemonMounts \/ DaemonReady \/ DaemonExits \/ HelperUnmounts
    PROVE  RunnerInv'
BY DEF RunnerInv, RunnerTypeOK, RunnerRecords, RunnerSteps, BeforeDaemon, BeforeWorker, DaemonGone, Alive,
       DaemonMounts, DaemonReady, DaemonExits, HelperUnmounts

\* The invariant says at least what the property says.
LEMMA RunnerInvImplies == RunnerInv => RemovalIsSafe
BY DEF RunnerInv, RunnerTypeOK, RemovalIsSafe, DaemonGone, BeforeWorker, BeforeDaemon, RunnerSteps, Alive, At

\* The directory is removed only once its mount is out of the kernel's table for
\* good and the daemon is gone; an ended run leaves neither daemon nor worker,
\* and success means the directory and the mount are gone
\* (native-fuse-runner.ts:143-214), for every interleaving with the daemon, the
\* kernel's table and the worker.
THEOREM RemovalIsSafeTheorem == RunnerSpec => []RemovalIsSafe
<1>1. RunnerInv /\ [RunnerNext]_runnerVars => RunnerInv'
  <2> SUFFICES ASSUME RunnerInv, [RunnerNext]_runnerVars PROVE RunnerInv'
    OBVIOUS
  <2>1. CASE RunnerNext
    BY <2>1, SettingUpKeepsInv, WorkerKeepsInv, UnmountedKeepsInv,
       ReadingTheTableKeepsInv, RemovalKeepsInv, SettlingKeepsInv, DaemonKeepsInv
       DEF RunnerNext, RunnerStep
  <2>2. CASE UNCHANGED runnerVars
    BY <2>2 DEF runnerVars, RunnerInv, RunnerTypeOK, Alive
  <2> QED BY <2>1, <2>2
<1> QED BY <1>1, RunnerInitInv, RunnerInvImplies, PTL DEF RunnerSpec
=============================================================================
