--------------------- MODULE SubagentCoordinatorProofs ---------------------
(***************************************************************************)
(* Safety of the subagent coordinator for any jobs, messages and limits,   *)
(* and of the prompts to the user for any requests, fields and terminals.  *)
(***************************************************************************)
EXTENDS SubagentCoordinator, DecisionPrompt, FiniteSetTheorems, SequenceTheorems, TLAPS, SumTheorems

-----------------------------------------------------------------------------
(* pump()                                                                  *)

\* One more entry of the queue starts at most one more turn.
LEMMA StartedGrowsByOne ==
    ASSUME NEW q \in Seq(Jobs), NEW st, NEW k \in 1..Len(q)
    PROVE  /\ IsFiniteSet(StartedIn(q, st, k))
           /\ Cardinality(StartedIn(q, st, k)) <= Cardinality(StartedIn(q, st, k - 1)) + 1
<1> DEFINE A == StartedIn(q, st, k - 1)
           B == StartedIn(q, st, k)
<1>1. IsFiniteSet(A) /\ IsFiniteSet(B)
  <2>1. A \subseteq Jobs /\ B \subseteq Jobs
    BY DEF StartedIn
  <2> QED BY <2>1, JobsAssumption, FS_Subset
<1>2. B \subseteq A \cup {q[k]}
  BY DEF StartedIn
<1>3. /\ IsFiniteSet(A \cup {q[k]})
      /\ Cardinality(A \cup {q[k]}) <= Cardinality(A) + 1
  <2>1. Cardinality(A) \in Nat
    BY <1>1, FS_CardinalityType
  <2>2. /\ IsFiniteSet(A \cup {q[k]})
        /\ \/ Cardinality(A \cup {q[k]}) = Cardinality(A)
           \/ Cardinality(A \cup {q[k]}) = Cardinality(A) + 1
    BY <1>1, FS_AddElement
  <2> QED BY <2>1, <2>2
<1>4. Cardinality(B) <= Cardinality(A \cup {q[k]})
  BY <1>2, <1>3, FS_Subset
<1>5. Cardinality(A) \in Nat /\ Cardinality(B) \in Nat /\ Cardinality(A \cup {q[k]}) \in Nat
  BY <1>1, <1>3, FS_CardinalityType
<1> QED BY <1>1, <1>3, <1>4, <1>5

\* pump() never exceeds the limit, whatever the queue holds.
LEMMA PumpWithinLimit ==
    ASSUME NEW q \in Seq(Jobs), NEW st, NEW ac \in Int, ac <= MaxConcurrency,
           NEW k \in 0..Len(q), PumpEndsAt(q, st, ac, k)
    PROVE  /\ Cardinality(StartedIn(q, st, k)) \in Nat
           /\ ac + Cardinality(StartedIn(q, st, k)) <= MaxConcurrency
<1>1. IsFiniteSet(StartedIn(q, st, k))
  <2>1. StartedIn(q, st, k) \subseteq Jobs
    BY DEF StartedIn
  <2> QED BY <2>1, JobsAssumption, FS_Subset
<1>2. Cardinality(StartedIn(q, st, k)) \in Nat
  BY <1>1, FS_CardinalityType
<1>3. CASE k = 0
  <2>1. StartedIn(q, st, k) = {}
    BY <1>3 DEF StartedIn
  <2> QED BY <1>2, <2>1, FS_EmptySet
<1>4. CASE k # 0
  <2>1. k - 1 \in 0..(k - 1) /\ k \in 1..Len(q)
    BY <1>4
  <2>2. ~PumpStops(q, st, ac, k - 1)
    BY <2>1 DEF PumpEndsAt
  <2>3. StartedIn(q, st, k - 1) \subseteq Jobs
    BY DEF StartedIn
  <2>4. Cardinality(StartedIn(q, st, k - 1)) \in Nat
    BY <2>3, JobsAssumption, FS_Subset, FS_CardinalityType
  <2>5. ac + Cardinality(StartedIn(q, st, k - 1)) < MaxConcurrency
    BY <2>2, <2>4, LimitsAssumption DEF PumpStops
  <2> QED BY <1>2, <2>1, <2>4, <2>5, LimitsAssumption, StartedGrowsByOne
<1> QED BY <1>3, <1>4

\* The effect of pump() keeps every variable it assigns in its type.
LEMMA PumpTyped ==
    ASSUME TypeOK,
           NEW q \in Seq(Jobs), NEW st \in [Jobs -> Statuses],
           NEW ac \in Int, ac <= MaxConcurrency, NEW fresh,
           Pump(q, st, ac, fresh)
    PROVE  /\ queue' \in Seq(Jobs)
           /\ activeCount' \in Int /\ activeCount' <= MaxConcurrency
           /\ status' \in [Jobs -> Statuses]
           /\ pc' \in [Jobs -> Phases]
           /\ session' \subseteq Jobs /\ aborted' \subseteq Jobs
           /\ stopRequested' \subseteq Jobs /\ timedOut' \subseteq Jobs
           /\ abort' \in [Jobs -> {"none", "pending", "done"}]
           /\ steering' \in [Jobs -> Seq(Messages)]
           /\ pendingSteering' \in [Jobs -> Seq(Messages)]
<1>1. PICK k \in 0..Len(q) : PumpEndsAt(q, st, ac, k) /\ StartTurns(q, st, ac, fresh, k)
  BY DEF Pump
<1>2. activeCount' \in Int /\ activeCount' <= MaxConcurrency
  BY <1>1, PumpWithinLimit, LimitsAssumption DEF StartTurns
<1>3. queue' \in Seq(Jobs)
  BY <1>1 DEF StartTurns
<1>4. status' \in [Jobs -> Statuses]
  BY <1>1 DEF StartTurns, Statuses
<1>5. pc' \in [Jobs -> Phases]
  BY <1>1 DEF StartTurns, TypeOK, Phases
<1>6. abort' \in [Jobs -> {"none", "pending", "done"}]
  BY <1>1 DEF StartTurns, TypeOK
<1>7. steering' \in [Jobs -> Seq(Messages)] /\ pendingSteering' \in [Jobs -> Seq(Messages)]
  BY <1>1 DEF StartTurns, TypeOK
<1> QED BY <1>1, <1>2, <1>3, <1>4, <1>5, <1>6, <1>7 DEF StartTurns, TypeOK
-----------------------------------------------------------------------------
(* Type correctness                                                        *)

\* A message handed to session.steer() knows its job.
TargetKnown == \A m \in Messages : msg[m] = "steering" => target[m] \in Jobs

\* message() after its await, or for a job that is not running.
LEMMA DeliverTyped ==
    ASSUME TypeOK, NEW m \in Messages, NEW j \in Jobs, Deliver(m, j),
           UNCHANGED <<treeVars, released, closeVars, settling, stop>>,
           target' \in [Messages -> Jobs \cup {None}]
    PROVE  TypeOK' /\ \A n \in Messages \ {m} : msg'[n] = msg[n]
<1>1. CASE /\ status[j] = "idle"
           /\ msg' = [msg EXCEPT ![m] = "task"]
           /\ Pump(Append(queue, j), [status EXCEPT ![j] = "queued"], activeCount, {j})
           /\ UNCHANGED queuedTasks
  <2>1. Append(queue, j) \in Seq(Jobs) /\ [status EXCEPT ![j] = "queued"] \in [Jobs -> Statuses]
    BY DEF TypeOK, Statuses
  <2>2. activeCount \in Int /\ activeCount <= MaxConcurrency
    BY DEF TypeOK
  <2> QED BY <1>1, <2>1, <2>2, PumpTyped DEF TypeOK, MessageStates, treeVars, closeVars
<1>2. CASE /\ status[j] \in {"queued", "running"}
           /\ msg' = [msg EXCEPT ![m] = "held"]
           /\ queuedTasks' = [queuedTasks EXCEPT ![j] = Append(@, m)]
           /\ UNCHANGED <<status, queue, activeCount, turnVars, pendingSteering, steering>>
  <2>1. Append(queuedTasks[j], m) \in Seq(Messages)
    BY AppendProperties DEF TypeOK
  <2>2. queuedTasks' \in [Jobs -> Seq(Messages)]
    BY <1>2, <2>1 DEF TypeOK
  <2> QED BY <1>2, <2>2 DEF TypeOK, MessageStates, treeVars, closeVars, turnVars
<1>3. CASE /\ status[j] \notin {"idle", "queued", "running"}
           /\ msg' = [msg EXCEPT ![m] = "refused"]
           /\ UNCHANGED <<status, queue, activeCount, turnVars, inboxVars>>
  BY <1>3 DEF TypeOK, MessageStates, treeVars, closeVars, turnVars, inboxVars
<1> QED BY <1>1, <1>2, <1>3 DEF Deliver

\* releaseTerminalPrincipals() releases jobs only.
LEMMA ReleaseTyped ==
    ASSUME NEW st, ReleaseTerminalPrincipals(st), released \subseteq Jobs
    PROVE  released' \subseteq Jobs /\ released \subseteq released'
  BY DEF ReleaseTerminalPrincipals, Releasable

\* stopOne() on a set of jobs, the queue and the principals aside.
LEMMA StopOneTyped ==
    ASSUME TypeOK, NEW S \in SUBSET Jobs, StopOne(S), queue' \in Seq(Jobs), released' \subseteq Jobs,
           closePhase' \in {"open", "closing", "closed"}, closeWait' \subseteq Jobs,
           stop' \in [Stoppers -> StopCalls]
    PROVE  TypeOK'
<1>1. status' \in [Jobs -> Statuses]
  BY DEF StopOne, TypeOK, Statuses, Terminal
<1>2. pendingSteering' \in [Jobs -> Seq(Messages)] /\ queuedTasks' \in [Jobs -> Seq(Messages)]
  BY DEF StopOne, TypeOK
<1>3. abort' \in [Jobs -> {"none", "pending", "done"}]
  BY DEF StopOne, RequestAbort, AbortsStarted, TypeOK
<1>4. session' \subseteq Jobs /\ aborted' \subseteq Jobs /\ stopRequested' \subseteq Jobs
  BY DEF StopOne, RequestAbort, DisposeSession, TypeOK
<1> QED BY <1>1, <1>2, <1>3, <1>4 DEF StopOne, TypeOK, treeVars, msgVars

\* Taking a job out of the queue leaves a queue of jobs.
LEMMA DequeueTyped ==
    ASSUME TypeOK, NEW j
    PROVE  Dequeue(j) \in Seq(Jobs)
<1>1. CASE \E i \in 1..Len(queue) : queue[i] = j
  <2> DEFINE i == CHOOSE i \in 1..Len(queue) : queue[i] = j
  <2>1. i \in 1..Len(queue)
    BY <1>1
  <2> HIDE DEF i
  <2>2. SubSeq(queue, 1, i - 1) \in Seq(Jobs) /\ SubSeq(queue, i + 1, Len(queue)) \in Seq(Jobs)
    <3>1. queue \in Seq(Jobs) /\ Len(queue) \in Nat
      BY LenProperties DEF TypeOK
    <3>2. \A x \in 1..(i - 1) : queue[x] \in Jobs
      BY <2>1, <3>1, ElementOfSeq
    <3>3. \A x \in (i + 1)..Len(queue) : queue[x] \in Jobs
      BY <2>1, <3>1, ElementOfSeq
    <3>4. i - 1 \in Int /\ i + 1 \in Int /\ Len(queue) \in Int
      BY <2>1, <3>1
    <3> QED BY <3>2, <3>3, <3>4, SubSeqProperties
  <2>3. Dequeue(j) = SubSeq(queue, 1, i - 1) \o SubSeq(queue, i + 1, Len(queue))
    BY <1>1 DEF Dequeue, i
  <2> QED BY <2>2, <2>3, ConcatProperties
<1>2. CASE ~\E i \in 1..Len(queue) : queue[i] = j
  BY <1>2 DEF Dequeue, TypeOK
<1> QED BY <1>1, <1>2
LEMMA StopStepTyped ==
    ASSUME TypeOK, NEW s \in Stoppers, NEW victims \in SUBSET Jobs,
           NEW root \in Jobs \cup {None}, NEW todo \in SUBSET Jobs,
           StopStep(s, victims, root, todo)
    PROVE  TypeOK'
<1>1. PICK j \in Deepest(todo) :
        /\ StopOne({j})
        /\ queue' = IF status[j] = "queued" THEN Dequeue(j) ELSE queue
        /\ stop' = [stop EXCEPT ![s] =
                      [phase |-> IF status[j] = "running" THEN "waiting" ELSE "next",
                       root |-> root, victims |-> victims, todo |-> todo \ {j}, at |-> j]]
        /\ IF status[j] \in {"queued", "idle"}
           THEN ReleaseTerminalPrincipals(status') ELSE UNCHANGED released
        /\ UNCHANGED closeVars
  BY DEF StopStep
<1>2. j \in Jobs
  BY DEF Deepest
<1>3. queue' \in Seq(Jobs)
  BY <1>1, DequeueTyped DEF TypeOK
<1>4. released' \subseteq Jobs
  BY <1>1, ReleaseTyped DEF TypeOK
<1>5. stop' \in [Stoppers -> StopCalls]
  BY <1>1, <1>2 DEF TypeOK, StopCalls
<1> QED BY <1>1, <1>2, <1>3, <1>4, <1>5, StopOneTyped DEF TypeOK, closeVars

\* A turn that took its first follow-up off the list.
LEMMA PromotionTyped ==
    ASSUME TypeOK, NEW j \in Jobs, queuedTasks[j] # <<>>
    PROVE  /\ [queuedTasks EXCEPT ![j] = Tail(@)] \in [Jobs -> Seq(Messages)]
           /\ [msg EXCEPT ![Head(queuedTasks[j])] = "task"] \in
                [Messages -> MessageStates]
           /\ Append(queue, j) \in Seq(Jobs)
<1>1. Tail(queuedTasks[j]) \in Seq(Messages)
  BY HeadTailProperties DEF TypeOK
<1>2. Append(queue, j) \in Seq(Jobs)
  BY AppendProperties DEF TypeOK
<1> QED BY <1>1, <1>2 DEF TypeOK, MessageStates

LEMMA InitTyped == Init => TypeOK
  BY LimitsAssumption, EmptySeq DEF Init, TypeOK, Statuses, Phases, MessageStates, StopCalls

\* Every step keeps every variable in its type.
LEMMA NextTyped == TypeOK /\ TargetKnown /\ [Next]_vars => TypeOK'
<1> SUFFICES ASSUME TypeOK, TargetKnown, [Next]_vars PROVE TypeOK'
  OBVIOUS
<1>1. ASSUME NEW j \in Jobs, NEW p \in Jobs \cup {None}, NEW ms \in Grants, Spawn(j, p, ms)
      PROVE  TypeOK'
  <2>1. PICK gone \in Evictions :
          Pump(Append(queue, j),
               [x \in Jobs |-> IF x \in gone THEN "evicted"
                               ELSE IF x = j THEN "queued" ELSE status[x]],
               activeCount, {})
    BY <1>1 DEF Spawn
  <2> DEFINE st == [x \in Jobs |-> IF x \in gone THEN "evicted"
                                   ELSE IF x = j THEN "queued" ELSE status[x]]
  <2>2. Append(queue, j) \in Seq(Jobs)
    BY AppendProperties DEF TypeOK
  <2>3. st \in [Jobs -> Statuses]
    BY DEF TypeOK, Statuses
  <2>4. activeCount \in Int /\ activeCount <= MaxConcurrency
    BY DEF TypeOK
  <2> HIDE DEF st
  <2>5. depth' \in [Jobs -> 0..MaxDepth]
    BY <1>1, LimitsAssumption DEF Spawn, MaySpawn, TypeOK
  <2>6. parent' \in [Jobs -> Jobs \cup {None}] /\ mech' \in [Jobs -> Grants \cup {{}}]
    BY <1>1 DEF Spawn, TypeOK
  <2>7. UNCHANGED <<released, closeVars, settling, queuedTasks, msgVars, stop>>
    BY <1>1 DEF Spawn
  <2>8. Pump(Append(queue, j), st, activeCount, {})
    BY <2>1 DEF st
  <2>9. /\ queue' \in Seq(Jobs)
        /\ activeCount' \in Int /\ activeCount' <= MaxConcurrency
        /\ status' \in [Jobs -> Statuses]
        /\ pc' \in [Jobs -> Phases]
        /\ session' \subseteq Jobs /\ aborted' \subseteq Jobs
        /\ stopRequested' \subseteq Jobs /\ timedOut' \subseteq Jobs
        /\ abort' \in [Jobs -> {"none", "pending", "done"}]
        /\ steering' \in [Jobs -> Seq(Messages)]
        /\ pendingSteering' \in [Jobs -> Seq(Messages)]
    BY <2>2, <2>3, <2>4, <2>8, PumpTyped
  <2> QED BY <2>5, <2>6, <2>7, <2>9 DEF TypeOK, closeVars, msgVars
<1>2. ASSUME NEW j \in Jobs, TurnStep(j) PROVE TypeOK'
  <2>1. CASE SessionCreated(j)
    <3>1. <<>> \in Seq(Messages)
      BY EmptySeq
    <3>2. pc' \in [Jobs -> Phases] /\ abort' \in [Jobs -> {"none", "pending", "done"}]
      BY <2>1 DEF SessionCreated, TypeOK, Phases
    <3>3. pendingSteering' \in [Jobs -> Seq(Messages)] /\ steering' \in [Jobs -> Seq(Messages)]
      <4>1. CASE j \in aborted
        BY <2>1, <4>1 DEF SessionCreated, TypeOK
      <4>2. CASE j \notin aborted
        <5>1. /\ steering' = [steering EXCEPT ![j] = pendingSteering[j]]
              /\ pendingSteering' = [pendingSteering EXCEPT ![j] = <<>>]
          BY <2>1, <4>2 DEF SessionCreated
        <5>2. /\ pendingSteering \in [Jobs -> Seq(Messages)]
              /\ steering \in [Jobs -> Seq(Messages)]
          BY DEF TypeOK
        <5> QED BY <3>1, <5>1, <5>2
      <4> QED BY <4>1, <4>2
    <3> QED BY <2>1, <3>2, <3>3 DEF SessionCreated, TypeOK, treeVars, closeVars, msgVars
  <2>2. CASE \E n \in 0..Len(steering[j]) :
               \E declined \in [1..n -> 1..Len(steering[j])] : SteeringSettled(j, declined)
    <3>0. PICK n \in 0..Len(steering[j]) :
            \E declined \in [1..n -> 1..Len(steering[j])] : SteeringSettled(j, declined)
      BY <2>2
    <3>1. PICK declined \in [1..n -> 1..Len(steering[j])] : SteeringSettled(j, declined)
      BY <3>0
    <3>2. steering[j] \in Seq(Messages) /\ queuedTasks[j] \in Seq(Messages)
      BY DEF TypeOK
    <3>3. n \in Nat /\ declined \in Seq(1..Len(steering[j])) /\ Len(declined) = n
      BY <3>2, LenProperties, SeqDef
    <3> DEFINE refused == [i \in 1..Len(declined) |-> steering[j][declined[i]]]
    <3>4. \A i \in 1..n : steering[j][declined[i]] \in Messages
      BY <3>2, ElementOfSeq
    <3>5. refused \in [1..n -> Messages]
      BY <3>3, <3>4
    <3>6. refused \in Seq(Messages)
      BY <3>3, <3>5, SeqDef
    <3> HIDE DEF refused
    <3>7. queuedTasks[j] \o refused \in Seq(Messages)
      BY <3>2, <3>6, ConcatProperties
    <3>8. queuedTasks' \in [Jobs -> Seq(Messages)]
      BY <3>1, <3>7 DEF SteeringSettled, TypeOK, refused
    <3>9. steering' \in [Jobs -> Seq(Messages)]
      BY <3>1, EmptySeq DEF SteeringSettled, TypeOK
    <3>10. msg' \in [Messages -> MessageStates]
      BY <3>1 DEF SteeringSettled, TypeOK, MessageStates
    <3> QED BY <3>1, <3>8, <3>9, <3>10
            DEF SteeringSettled, TypeOK, treeVars, turnVars, closeVars
  <2>3. CASE TurnFails(j)
    BY <2>3 DEF TurnFails, Caught, TypeOK, Phases, treeVars, closeVars, msgVars
  <2>4. CASE TurnTimesOut(j)
    BY <2>4 DEF TurnTimesOut, RequestAbort, AbortsStarted, TypeOK, treeVars, closeVars,
                inboxVars, msgVars
  <2>5. CASE AbortSettles(j)
    BY <2>5 DEF AbortSettles, TypeOK, treeVars, closeVars, inboxVars, msgVars
  <2>6. CASE TurnCompletes(j)
    <3>1. released' \subseteq Jobs
      BY <2>6, ReleaseTyped DEF TurnCompletes, TypeOK
    <3>2. status' \in [Jobs -> Statuses] /\ pc' \in [Jobs -> Phases]
      BY <2>6 DEF TurnCompletes, TypeOK, Statuses, Phases
    <3>3. settling' \in [Jobs -> Nat]
      BY <2>6 DEF TurnCompletes, TypeOK
    <3>4. /\ queue' \in Seq(Jobs) /\ queuedTasks' \in [Jobs -> Seq(Messages)]
          /\ msg' \in [Messages -> MessageStates]
      <4>1. CASE queuedTasks[j] = <<>>
        BY <2>6, <4>1 DEF TurnCompletes, TypeOK
      <4>2. CASE queuedTasks[j] # <<>>
        <5>1. /\ queue' = Append(queue, j)
              /\ queuedTasks' = [queuedTasks EXCEPT ![j] = Tail(@)]
              /\ msg' = [msg EXCEPT ![Head(queuedTasks[j])] = "task"]
          BY <2>6, <4>2 DEF TurnCompletes
        <5> QED BY <4>2, <5>1, PromotionTyped
      <4> QED BY <4>1, <4>2
    <3>5. stopRequested' \subseteq Jobs /\ timedOut' \subseteq Jobs
      BY <2>6 DEF TurnCompletes, TypeOK
    <3> QED BY <2>6, <3>1, <3>2, <3>3, <3>4, <3>5
            DEF TurnCompletes, TypeOK, treeVars, closeVars
  <2>7. CASE TurnFinalizationFails(j)
    <3>1. released' \subseteq Jobs
      BY <2>7, ReleaseTyped DEF TurnFinalizationFails, TypeOK
    <3>2. status' \in [Jobs -> Statuses] /\ pc' \in [Jobs -> Phases]
      BY <2>7 DEF TurnFinalizationFails, TypeOK, Statuses, Terminal, Phases
    <3>3. settling' \in [Jobs -> Nat]
      BY <2>7 DEF TurnFinalizationFails, TypeOK
    <3>4. /\ queue' \in Seq(Jobs) /\ queuedTasks' \in [Jobs -> Seq(Messages)]
          /\ msg' \in [Messages -> MessageStates]
      <4>1. CASE queuedTasks[j] = <<>>
        BY <2>7, <4>1 DEF TurnFinalizationFails, TypeOK
      <4>2. CASE queuedTasks[j] # <<>>
        <5>1. /\ queue' = Append(queue, j)
              /\ queuedTasks' = [queuedTasks EXCEPT ![j] = Tail(@)]
              /\ msg' = [msg EXCEPT ![Head(queuedTasks[j])] = "task"]
          BY <2>7, <4>2 DEF TurnFinalizationFails
        <5> QED BY <4>2, <5>1, PromotionTyped
      <4> QED BY <4>1, <4>2
    <3>5. stopRequested' \subseteq Jobs /\ timedOut' \subseteq Jobs
      BY <2>7 DEF TurnFinalizationFails, TypeOK
    <3> QED BY <2>7, <3>1, <3>2, <3>3, <3>4, <3>5
            DEF TurnFinalizationFails, DisposeSession, TypeOK, treeVars, closeVars
  <2>8. CASE TurnUnwinds(j)
    <3>1. released' \subseteq Jobs
      BY <2>8, ReleaseTyped DEF TurnUnwinds, TypeOK
    <3>2. status' \in [Jobs -> Statuses] /\ pc' \in [Jobs -> Phases]
      BY <2>8 DEF TurnUnwinds, TypeOK, Statuses, Terminal, Phases
    <3>3. settling' \in [Jobs -> Nat]
      BY <2>8 DEF TurnUnwinds, TypeOK
    <3>4. pendingSteering' \in [Jobs -> Seq(Messages)] /\ queuedTasks' \in [Jobs -> Seq(Messages)]
      BY <2>8, EmptySeq DEF TurnUnwinds, TypeOK
    <3> QED BY <2>8, <3>1, <3>2, <3>3, <3>4
            DEF TurnUnwinds, DisposeSession, TypeOK, treeVars, closeVars, msgVars
  <2>9. CASE TurnFinally(j)
    <3>1. Pump(queue, status, activeCount - 1, {})
      BY <2>9 DEF TurnFinally, FreedSlots
    <3>2. settling' \in [Jobs -> Nat]
      BY <2>9 DEF TurnFinally, TypeOK
    <3>3. activeCount - 1 \in Int /\ activeCount - 1 <= MaxConcurrency
      BY LimitsAssumption DEF TypeOK
    <3>4. queue \in Seq(Jobs) /\ status \in [Jobs -> Statuses]
      BY DEF TypeOK
    <3> QED BY <2>9, <3>1, <3>2, <3>3, <3>4, PumpTyped
            DEF TurnFinally, TypeOK, treeVars, closeVars, msgVars
  <2> QED BY <1>2, <2>1, <2>2, <2>3, <2>4, <2>5, <2>6, <2>7, <2>8, <2>9 DEF TurnStep
<1>3. ASSUME NEW m \in Messages, MessageStep(m) PROVE TypeOK'
  <2>1. ASSUME NEW j \in Jobs, Message(m, j) PROVE TypeOK'
    <3>1. target' \in [Messages -> Jobs \cup {None}]
      BY <2>1 DEF Message, TypeOK
    <3>2. CASE status[j] # "running"
      BY <2>1, <3>1, <3>2, DeliverTyped DEF Message
    <3>3. CASE status[j] = "running" /\ j \notin session
      <4>1. Append(pendingSteering[j], m) \in Seq(Messages)
        BY AppendProperties DEF TypeOK
      <4>2. pendingSteering' \in [Jobs -> Seq(Messages)]
        BY <2>1, <3>3, <4>1 DEF Message, TypeOK
      <4>3. msg' \in [Messages -> MessageStates]
        BY <2>1, <3>3 DEF Message, TypeOK, MessageStates
      <4> QED BY <2>1, <3>1, <3>3, <4>2, <4>3
              DEF Message, TypeOK, treeVars, turnVars, closeVars
    <3>4. CASE status[j] = "running" /\ j \in session
      BY <2>1, <3>1, <3>4 DEF Message, TypeOK, MessageStates, treeVars, turnVars, closeVars, inboxVars
    <3> QED BY <3>2, <3>3, <3>4
  <2>2. CASE SteerAccepted(m)
    BY <2>2 DEF SteerAccepted, TypeOK, MessageStates, treeVars, closeVars, turnVars, inboxVars
  <2>3. CASE SteerDeclined(m)
    <3>1. target[m] \in Jobs
      BY <2>3 DEF SteerDeclined, TargetKnown
    <3> QED BY <2>3, <3>1, DeliverTyped DEF SteerDeclined, TypeOK
  <2>4. CASE SteerRejected(m)
    BY <2>4 DEF SteerRejected, TypeOK, MessageStates, treeVars, closeVars, turnVars, inboxVars
  <2> QED BY <1>3, <2>1, <2>2, <2>3, <2>4 DEF MessageStep
<1>4. ASSUME NEW s \in Stoppers, StopCallStep(s) PROVE TypeOK'
  <2>1. ASSUME NEW j \in Jobs, StopCalled(s, j) PROVE TypeOK'
    <3>1. Descendants(j) \cup {j} \in SUBSET Jobs
      BY DEF Descendants
    <3> QED BY <2>1, <3>1, StopStepTyped DEF StopCalled
  <2>2. CASE StopNext(s)
    <3>1. /\ stop[s].victims \in SUBSET Jobs /\ stop[s].todo \in SUBSET Jobs
          /\ stop[s].root \in Jobs \cup {None}
      BY DEF TypeOK, StopCalls
    <3> QED BY <2>2, <3>1, StopStepTyped DEF StopNext
  <2>3. CASE StopUnwound(s)
    <3>1. stop' \in [Stoppers -> StopCalls]
      <4>1. stop[s] \in StopCalls
        BY DEF TypeOK
      <4>2. [stop[s] EXCEPT !.phase = "next"] \in StopCalls
        BY <4>1 DEF StopCalls
      <4>3. stop' = [stop EXCEPT ![s] = [stop[s] EXCEPT !.phase = "next"]]
        BY <2>3 DEF StopUnwound
      <4> QED BY <4>2, <4>3 DEF TypeOK
    <3> QED BY <2>3, <3>1 DEF StopUnwound, TypeOK, treeVars, closeVars, turnVars, inboxVars, msgVars
  <2>4. CASE StopReturns(s)
    <3>1. stop' \in [Stoppers -> StopCalls]
      <4>1. stop[s] \in StopCalls
        BY DEF TypeOK
      <4>2. [stop[s] EXCEPT !.phase = "done"] \in StopCalls
        BY <4>1 DEF StopCalls
      <4>3. stop' = [stop EXCEPT ![s] = [stop[s] EXCEPT !.phase = "done"]]
        BY <2>4 DEF StopReturns
      <4> QED BY <4>2, <4>3 DEF TypeOK
    <3>2. released' \subseteq Jobs
      BY <2>4, ReleaseTyped DEF StopReturns, TypeOK
    <3> QED BY <2>4, <3>1, <3>2
            DEF StopReturns, TypeOK, treeVars, closeVars, turnVars, inboxVars, msgVars
  <2> QED BY <1>4, <2>1, <2>2, <2>3, <2>4 DEF StopCallStep
<1>5. CASE Close
  <2> DEFINE S == {j \in Jobs : InMap(j)}
  <2>1. StopOne(S) /\ S \in SUBSET Jobs
    BY <1>5 DEF Close
  <2>2. queue' \in Seq(Jobs)
    BY <1>5, EmptySeq DEF Close
  <2>3. released' \subseteq Jobs
    BY <1>5, ReleaseTyped DEF Close, TypeOK
  <2> HIDE DEF S
  <2> QED BY <1>5, <2>1, <2>2, <2>3, StopOneTyped DEF Close, TypeOK
<1>6. CASE CloseReturns
  BY <1>6, ReleaseTyped DEF CloseReturns, TypeOK, treeVars, turnVars, inboxVars, msgVars
<1>7. CASE UNCHANGED vars
  BY <1>7 DEF vars, TypeOK, treeVars, turnVars, inboxVars, msgVars, closeVars
<1> QED BY <1>1, <1>2, <1>3, <1>4, <1>5, <1>6, <1>7 DEF Next
-----------------------------------------------------------------------------
(* What a step may do to a job                                             *)

\* A job is running exactly while its turn is suspended somewhere.
PcStatus == \A j \in Jobs : status[j] = "running" <=> pc[j] # "none"

\* The job keeps its status; a running one keeps its stop request and its abort,
\* and gets a stop request or a timeout only together with an abort.
Stays(j) ==
    /\ status'[j] = status[j]
    /\ pc'[j] = "none" <=> pc[j] = "none"
    /\ j \in session' => j \in session \/ status[j] = "running"
    /\ status[j] = "running" =>
         /\ j \in stopRequested => j \in stopRequested'
         /\ j \in aborted => j \in aborted'
         /\ j \in stopRequested' \cup timedOut' => j \in stopRequested \cup timedOut \cup aborted'

\* A turn starts, with nothing left of an earlier stop or timeout.
Starts(j) ==
    /\ ~Closed /\ status[j] \in {"unborn", "queued", "idle"} /\ status'[j] = "running"
    /\ pc'[j] # "none"
    /\ j \notin stopRequested' \cup timedOut'

\* The job is spawned or gets a follow-up, and waits for a slot.
Waits(j) ==
    /\ status[j] = "idle" \/ (~Closed /\ status[j] = "unborn")
    /\ status'[j] = "queued" /\ pc'[j] = "none"
    /\ j \in session' => j \in session

\* The turn succeeds: it was not aborted.
Succeeds(j) ==
    /\ status[j] = "running" /\ j \notin aborted
    /\ status'[j] \in {"queued", "idle"} /\ pc'[j] = "none"

\* The conversation ends and gives up its session.
Ends(j) ==
    /\ status[j] \in {"queued", "running", "idle"} /\ status'[j] \in Terminal
    /\ pc'[j] = "none" /\ j \notin session'

\* The job is evicted: its principal is released and it has no child.
Evicted(j) ==
    /\ status[j] \in Terminal /\ j \in released /\ status'[j] = "evicted"
    /\ pc'[j] = pc[j] /\ session' = session
    /\ \A c \in Jobs : InMap(c) => parent[c] # j

JobStep(j) == Stays(j) \/ Starts(j) \/ Waits(j) \/ Succeeds(j) \/ Ends(j) \/ Evicted(j)

\* The effect of pump() on one job.
LEMMA PumpEffect ==
    ASSUME NEW q \in Seq(Jobs), NEW st \in [Jobs -> Statuses], NEW ac, NEW fresh,
           Pump(q, st, ac, fresh), NEW j \in Jobs
    PROVE  /\ session' = session
           /\ \/ /\ ~Closed /\ st[j] = "queued" /\ status'[j] = "running"
                 /\ pc'[j] # "none"
                 /\ j \notin stopRequested' \cup timedOut'
              \/ /\ status'[j] = st[j] /\ pc'[j] = pc[j]
                 /\ j \in aborted' <=> j \in aborted
                 /\ j \notin fresh =>
                      /\ j \in stopRequested' <=> j \in stopRequested
                      /\ j \in timedOut' <=> j \in timedOut
<1>1. PICK k \in 0..Len(q) : PumpEndsAt(q, st, ac, k) /\ StartTurns(q, st, ac, fresh, k)
  BY DEF Pump
<1>2. CASE j \in StartedIn(q, st, k)
  <2>1. st[j] = "queued"
    BY <1>2 DEF StartedIn
  <2>2. k # 0
    BY <1>2 DEF StartedIn
  <2>3. ~Closed
    <3>1. 0 \in 0..(k - 1)
      BY <2>2
    <3> QED BY <1>1, <3>1 DEF PumpEndsAt, PumpStops
  <2> QED BY <1>1, <1>2, <2>1, <2>3 DEF StartTurns
<1>3. CASE j \notin StartedIn(q, st, k)
  BY <1>1, <1>3 DEF StartTurns
<1> QED BY <1>2, <1>3

\* The same when no job was promoted.
LEMMA PlainPumpEffect ==
    ASSUME NEW q \in Seq(Jobs), NEW st \in [Jobs -> Statuses], NEW ac,
           Pump(q, st, ac, {}), NEW j \in Jobs
    PROVE  /\ session' = session
           /\ \/ /\ ~Closed /\ st[j] = "queued" /\ status'[j] = "running"
                 /\ pc'[j] # "none"
                 /\ j \notin stopRequested' \cup timedOut'
              \/ /\ status'[j] = st[j] /\ pc'[j] = pc[j]
                 /\ j \in aborted' <=> j \in aborted
                 /\ j \in stopRequested' <=> j \in stopRequested
                 /\ j \in timedOut' <=> j \in timedOut
<1> DEFINE fresh == {}
<1>1. Pump(q, st, ac, fresh) /\ j \notin fresh
  OBVIOUS
<1> HIDE DEF fresh
<1> QED BY <1>1, PumpEffect

LEMMA DeliverJobStep ==
    ASSUME TypeOK, PcStatus, NEW m, NEW i \in Jobs, Deliver(m, i), NEW j \in Jobs
    PROVE  JobStep(j)
<1>1. CASE status[i] = "idle"
  <2> DEFINE st == [status EXCEPT ![i] = "queued"]
  <2>1. Append(queue, i) \in Seq(Jobs) /\ st \in [Jobs -> Statuses]
    BY AppendProperties DEF TypeOK, Statuses
  <2>2. Pump(Append(queue, i), st, activeCount, {i})
    BY <1>1 DEF Deliver
  <2>3. st[j] = (IF j = i THEN "queued" ELSE status[j]) /\ (j = i => pc[j] = "none")
    BY <1>1 DEF TypeOK, PcStatus
  <2> HIDE DEF st
  <2>4. /\ session' = session
        /\ \/ /\ ~Closed /\ st[j] = "queued" /\ status'[j] = "running"
              /\ pc'[j] # "none"
              /\ j \notin stopRequested' \cup timedOut'
           \/ /\ status'[j] = st[j] /\ pc'[j] = pc[j]
              /\ j \in aborted' <=> j \in aborted
              /\ j \notin {i} => /\ j \in stopRequested' <=> j \in stopRequested
                                 /\ j \in timedOut' <=> j \in timedOut
    BY <2>1, <2>2, PumpEffect
  <2> QED BY <1>1, <2>3, <2>4 DEF JobStep, Stays, Starts, Waits
<1>2. CASE status[i] # "idle"
  BY <1>2 DEF Deliver, JobStep, Stays, turnVars
<1> QED BY <1>1, <1>2

\* stopOne() ends the queued and idle jobs of S and asks the running ones to stop.
LEMMA StopOneJobStep ==
    ASSUME TypeOK, PcStatus, NEW S \in SUBSET Jobs, StopOne(S), NEW j \in Jobs
    PROVE  JobStep(j)
<1>1. CASE j \in S /\ status[j] \in {"queued", "idle"}
  <2>1. status'[j] = "cancelled" /\ j \notin session'
    BY <1>1 DEF StopOne, DisposeSession
  <2>2. pc'[j] = "none"
    BY <1>1 DEF StopOne, PcStatus
  <2> QED BY <1>1, <2>1, <2>2 DEF JobStep, Ends, Terminal
<1>2. CASE ~(j \in S /\ status[j] \in {"queued", "idle"})
  BY <1>2 DEF StopOne, RequestAbort, DisposeSession, JobStep, Stays
<1> QED BY <1>1, <1>2

\* Every step takes every job along one of these ways.
LEMMA NextJobStep ==
    ASSUME TypeOK, TargetKnown, PcStatus, [Next]_vars, NEW j \in Jobs
    PROVE  JobStep(j)
<1>1. ASSUME NEW i \in Jobs, NEW p \in Jobs \cup {None}, NEW ms \in Grants, Spawn(i, p, ms)
      PROVE  JobStep(j)
  <2>1. PICK gone \in Evictions :
          Pump(Append(queue, i),
               [x \in Jobs |-> IF x \in gone THEN "evicted"
                               ELSE IF x = i THEN "queued" ELSE status[x]],
               activeCount, {})
    BY <1>1 DEF Spawn
  <2> DEFINE st == [x \in Jobs |-> IF x \in gone THEN "evicted"
                                   ELSE IF x = i THEN "queued" ELSE status[x]]
  <2>2. Append(queue, i) \in Seq(Jobs) /\ st \in [Jobs -> Statuses]
    BY AppendProperties DEF TypeOK, Statuses
  <2>3. st[j] = IF j \in gone THEN "evicted" ELSE IF j = i THEN "queued" ELSE status[j]
    OBVIOUS
  <2>4. Pump(Append(queue, i), st, activeCount, {})
    BY <2>1
  <2> HIDE DEF st
  <2>5. /\ session' = session
        /\ \/ /\ ~Closed /\ st[j] = "queued" /\ status'[j] = "running"
              /\ pc'[j] # "none"
              /\ j \notin stopRequested' \cup timedOut'
           \/ /\ status'[j] = st[j] /\ pc'[j] = pc[j]
              /\ j \in aborted' <=> j \in aborted
              /\ j \in stopRequested' <=> j \in stopRequested
              /\ j \in timedOut' <=> j \in timedOut
    BY <2>2, <2>4, PlainPumpEffect
  <2>6. status[i] = "unborn" /\ ~Closed
    BY <1>1 DEF Spawn
  <2>7. gone \subseteq Evictable
    BY DEF Evictions
  <2>8. CASE j \in gone
    <3>1. status[j] \in Terminal /\ j \in released /\ Descendants(j) = {}
      BY <2>7, <2>8 DEF Evictable
    <3>2. \A c \in Jobs : InMap(c) => parent[c] # j
      BY <3>1 DEF Descendants, IsDescendant
    <3> QED BY <2>3, <2>5, <2>8, <3>1, <3>2 DEF JobStep, Evicted
  <2>9. CASE j \notin gone /\ j = i
    BY <2>3, <2>5, <2>6, <2>9 DEF PcStatus, JobStep, Starts, Waits
  <2>10. CASE j \notin gone /\ j # i
    BY <2>3, <2>5, <2>10 DEF JobStep, Stays, Starts
  <2> QED BY <2>8, <2>9, <2>10
<1>2. ASSUME NEW i \in Jobs, TurnStep(i) PROVE JobStep(j)
  <2>1. CASE SessionCreated(i)
    BY <2>1 DEF SessionCreated, TypeOK, PcStatus, JobStep, Stays
  <2>2. CASE \E n \in 0..Len(steering[i]) :
               \E declined \in [1..n -> 1..Len(steering[i])] : SteeringSettled(i, declined)
    BY <2>2 DEF SteeringSettled, JobStep, Stays, turnVars
  <2>3. CASE TurnFails(i)
    <3>1. Caught(i) # "none"
      BY DEF Caught
    <3>2. pc[i] # "none" /\ pc' = [pc EXCEPT ![i] = Caught(i)]
      BY <2>3 DEF TurnFails
    <3>3. pc'[j] = "none" <=> pc[j] = "none"
      BY <3>1, <3>2 DEF TypeOK
    <3> QED BY <2>3, <3>3 DEF TurnFails, JobStep, Stays
  <2>4. CASE TurnTimesOut(i)
    BY <2>4 DEF TurnTimesOut, RequestAbort, JobStep, Stays
  <2>5. CASE AbortSettles(i)
    BY <2>5 DEF AbortSettles, JobStep, Stays
  <2>6. CASE TurnCompletes(i)
    <3>1. status[i] = "running"
      BY <2>6 DEF TurnCompletes, PromptResolved, PcStatus
    <3> QED BY <2>6, <3>1 DEF TurnCompletes, PromptResolved, TypeOK, JobStep, Stays, Succeeds
  <2>7. CASE TurnFinalizationFails(i)
    <3>1. status[i] = "running"
      BY <2>7 DEF TurnFinalizationFails, PromptResolved, PcStatus
    <3> QED BY <2>7, <3>1 DEF TurnFinalizationFails, PromptResolved, DisposeSession, TypeOK,
                              Terminal, JobStep, Stays, Succeeds, Ends
  <2>8. CASE TurnUnwinds(i)
    <3>1. status[i] = "running"
      BY <2>8 DEF TurnUnwinds, PcStatus
    <3> QED BY <2>8, <3>1 DEF TurnUnwinds, DisposeSession, TypeOK, Terminal, JobStep, Stays, Ends
  <2>9. CASE TurnFinally(i)
    <3>1. Pump(queue, status, FreedSlots, {}) /\ queue \in Seq(Jobs) /\ status \in [Jobs -> Statuses]
      BY <2>9 DEF TurnFinally, TypeOK
    <3>2. /\ session' = session
          /\ \/ /\ ~Closed /\ status[j] = "queued" /\ status'[j] = "running"
                /\ pc'[j] # "none"
                /\ j \notin stopRequested' \cup timedOut'
             \/ /\ status'[j] = status[j] /\ pc'[j] = pc[j]
                /\ j \in aborted' <=> j \in aborted
                /\ j \in stopRequested' <=> j \in stopRequested
                /\ j \in timedOut' <=> j \in timedOut
      BY <3>1, PlainPumpEffect
    <3> QED BY <3>2 DEF JobStep, Stays, Starts
  <2> QED BY <1>2, <2>1, <2>2, <2>3, <2>4, <2>5, <2>6, <2>7, <2>8, <2>9 DEF TurnStep
<1>3. ASSUME NEW m \in Messages, MessageStep(m) PROVE JobStep(j)
  <2>1. ASSUME NEW i \in Jobs, Message(m, i) PROVE JobStep(j)
    <3>1. CASE status[i] # "running"
      BY <2>1, <3>1, DeliverJobStep DEF Message
    <3>2. CASE status[i] = "running"
      BY <2>1, <3>2 DEF Message, JobStep, Stays, turnVars
    <3> QED BY <3>1, <3>2
  <2>2. CASE SteerAccepted(m)
    BY <2>2 DEF SteerAccepted, JobStep, Stays, turnVars
  <2>3. CASE SteerDeclined(m)
    <3>1. target[m] \in Jobs
      BY <2>3 DEF SteerDeclined, TargetKnown
    <3> QED BY <2>3, <3>1, DeliverJobStep DEF SteerDeclined
  <2>4. CASE SteerRejected(m)
    BY <2>4 DEF SteerRejected, JobStep, Stays, turnVars
  <2> QED BY <1>3, <2>1, <2>2, <2>3, <2>4 DEF MessageStep
<1>4. ASSUME NEW s \in Stoppers, StopCallStep(s) PROVE JobStep(j)
  <2>1. ASSUME NEW victims \in SUBSET Jobs, NEW root, NEW todo \in SUBSET Jobs,
               StopStep(s, victims, root, todo)
        PROVE  JobStep(j)
    <3>1. PICK i \in Deepest(todo) : StopOne({i})
      BY <2>1 DEF StopStep
    <3>2. {i} \in SUBSET Jobs
      BY DEF Deepest
    <3> QED BY <3>1, <3>2, StopOneJobStep
  <2>2. ASSUME NEW i \in Jobs, StopCalled(s, i) PROVE JobStep(j)
    <3>1. Descendants(i) \cup {i} \in SUBSET Jobs
      BY DEF Descendants
    <3> QED BY <2>1, <2>2, <3>1 DEF StopCalled
  <2>3. CASE StopNext(s)
    <3>1. stop[s].victims \in SUBSET Jobs /\ stop[s].todo \in SUBSET Jobs
      BY DEF TypeOK, StopCalls
    <3> QED BY <2>1, <2>3, <3>1 DEF StopNext
  <2>4. CASE StopUnwound(s)
    BY <2>4 DEF StopUnwound, JobStep, Stays, turnVars
  <2>5. CASE StopReturns(s)
    BY <2>5 DEF StopReturns, JobStep, Stays, turnVars
  <2> QED BY <1>4, <2>2, <2>3, <2>4, <2>5 DEF StopCallStep
<1>5. CASE Close
  <2>1. {x \in Jobs : InMap(x)} \in SUBSET Jobs
    OBVIOUS
  <2> QED BY <1>5, <2>1, StopOneJobStep DEF Close
<1>6. CASE CloseReturns
  BY <1>6 DEF CloseReturns, JobStep, Stays, turnVars
<1>7. CASE UNCHANGED vars
  BY <1>7 DEF vars, JobStep, Stays, turnVars
<1> QED BY <1>1, <1>2, <1>3, <1>4, <1>5, <1>6, <1>7 DEF Next
LEMMA DeliverMessage ==
    ASSUME NEW m \in Messages, NEW j, Deliver(m, j), msg \in [Messages -> MessageStates]
    PROVE  \A n \in Messages : msg'[n] = "steering" => msg[n] = "steering"
  BY DEF Deliver

LEMMA NextTargetKnown == TypeOK /\ TargetKnown /\ [Next]_vars => TargetKnown'
<1> SUFFICES ASSUME TypeOK, TargetKnown, [Next]_vars PROVE TargetKnown'
  OBVIOUS
<1>0. msg \in [Messages -> MessageStates] /\ target \in [Messages -> Jobs \cup {None}]
  BY DEF TypeOK
<1>1. ASSUME NEW j \in Jobs, NEW p \in Jobs \cup {None}, NEW ms \in Grants, Spawn(j, p, ms)
      PROVE  TargetKnown'
  BY <1>1 DEF Spawn, msgVars, TargetKnown
<1>2. ASSUME NEW j \in Jobs, TurnStep(j) PROVE TargetKnown'
  BY <1>0, <1>2 DEF TurnStep, SessionCreated, SteeringSettled, TurnFails, TurnTimesOut,
       AbortSettles, TurnCompletes, TurnFinalizationFails, TurnUnwinds, TurnFinally, msgVars,
       TargetKnown
<1>3. ASSUME NEW m \in Messages, MessageStep(m) PROVE TargetKnown'
  <2>1. ASSUME NEW j \in Jobs, Message(m, j) PROVE TargetKnown'
    BY <1>0, <2>1, DeliverMessage DEF Message, TargetKnown
  <2>2. CASE SteerDeclined(m)
    BY <1>0, <2>2, DeliverMessage DEF SteerDeclined, TargetKnown
  <2>3. CASE SteerAccepted(m) \/ SteerRejected(m)
    BY <1>0, <2>3 DEF SteerAccepted, SteerRejected, TargetKnown
  <2> QED BY <1>3, <2>1, <2>2, <2>3 DEF MessageStep
<1>4. ASSUME NEW s \in Stoppers, StopCallStep(s) PROVE TargetKnown'
  BY <1>4 DEF StopCallStep, StopCalled, StopNext, StopStep, StopOne, StopUnwound, StopReturns,
       msgVars, TargetKnown
<1>5. CASE Close \/ CloseReturns \/ UNCHANGED vars
  BY <1>5 DEF Close, StopOne, CloseReturns, vars, msgVars, TargetKnown
<1> QED BY <1>1, <1>2, <1>3, <1>4, <1>5 DEF Next

-----------------------------------------------------------------------------
(* Turns, sessions and stop requests                                       *)

\* A stop request or a timeout of a running turn comes with an abort.
AbortFlags ==
    \A j \in Jobs : (status[j] = "running" /\ j \in stopRequested \cup timedOut) => j \in aborted

TurnInv == TypeOK /\ TargetKnown /\ PcStatus /\ NoSessionLeak /\ AbortFlags

LEMMA InitTurnInv == Init => TurnInv
<1> SUFFICES ASSUME Init PROVE TurnInv
  OBVIOUS
<1>1. TypeOK
  BY InitTyped
<1>2. TargetKnown /\ PcStatus /\ NoSessionLeak /\ AbortFlags
  BY DEF Init, TargetKnown, PcStatus, NoSessionLeak, AbortFlags
<1> QED BY <1>1, <1>2 DEF TurnInv

LEMMA NextTurnInv == TurnInv /\ [Next]_vars => TurnInv'
<1> SUFFICES ASSUME TurnInv, [Next]_vars PROVE TurnInv'
  OBVIOUS
<1>1. TypeOK' /\ TargetKnown'
  BY NextTyped, NextTargetKnown DEF TurnInv
<1>2. \A j \in Jobs : JobStep(j)
  BY NextJobStep DEF TurnInv
<1>3. PcStatus'
  BY <1>2 DEF TurnInv, PcStatus, JobStep, Stays, Starts, Waits, Succeeds, Ends, Evicted, Terminal
<1>4. NoSessionLeak'
  <2> SUFFICES ASSUME NEW j \in session' PROVE status'[j] \in {"queued", "running", "idle"}
    BY DEF NoSessionLeak
  <2>1. j \in Jobs /\ JobStep(j)
    BY <1>1, <1>2 DEF TypeOK
  <2> QED BY <2>1 DEF TurnInv, NoSessionLeak, JobStep, Stays, Starts, Waits, Succeeds, Ends,
                      Evicted, Terminal
<1>5. AbortFlags'
  BY <1>2 DEF TurnInv, AbortFlags, JobStep, Stays, Starts, Waits, Succeeds, Ends, Evicted, Terminal
<1> QED BY <1>1, <1>3, <1>4, <1>5 DEF TurnInv

LEMMA TurnInvariant == Spec => []TurnInv
  BY InitTurnInv, NextTurnInv, PTL DEF Spec

\* Every variable keeps its type; in particular the coordinator's active count
\* never exceeds options.maxConcurrency, whatever is queued, promoted or stopped.
THEOREM TypeCorrect == Spec => []TypeOK
  BY TurnInvariant, PTL DEF TurnInv

\* No conversation that ended holds a child session.
THEOREM SessionsDisposed == Spec => []NoSessionLeak
  BY TurnInvariant, PTL DEF TurnInv

\* A finished conversation is never revived.
THEOREM FinishedStaysFinished == Spec => TerminalFinal
<1>1. TurnInv /\ [Next]_vars =>
        [\A j \in Jobs : Gone(j) => status'[j] \in {status[j], "evicted"}]_vars
  <2> SUFFICES ASSUME TurnInv, [Next]_vars, NEW j \in Jobs, Gone(j)
               PROVE  status'[j] \in {status[j], "evicted"}
    OBVIOUS
  <2>1. JobStep(j)
    BY NextJobStep DEF TurnInv
  <2> QED BY <2>1 DEF Gone, JobStep, Stays, Starts, Waits, Succeeds, Ends, Evicted, Terminal
<1> QED BY <1>1, TurnInvariant, PTL DEF Spec, TerminalFinal

\* A turn that was asked to stop or timed out does not end as a success.
THEOREM StopRequestsHonoured == Spec => StopRequestHonoured
<1>1. TurnInv /\ [Next]_vars =>
        [\A j \in Jobs : (status[j] = "running" /\ j \in stopRequested \cup timedOut)
            => status'[j] \in {"running"} \cup Terminal]_vars
  <2> SUFFICES ASSUME TurnInv, [Next]_vars, NEW j \in Jobs, status[j] = "running",
                      j \in stopRequested \cup timedOut
               PROVE  status'[j] \in {"running"} \cup Terminal
    OBVIOUS
  <2>1. JobStep(j) /\ j \in aborted
    BY NextJobStep DEF TurnInv, AbortFlags
  <2> QED BY <2>1 DEF JobStep, Stays, Starts, Waits, Succeeds, Ends, Evicted, Terminal
<1> QED BY <1>1, TurnInvariant, PTL DEF Spec, StopRequestHonoured
-----------------------------------------------------------------------------
(* Policy principals                                                       *)

\* Only conversations that ended have lost their principal.
ReleasedGone == \A j \in released : Gone(j)

\* A job that was never spawned has no parent.
UnbornOrphan == \A j \in Jobs : status[j] = "unborn" => parent[j] = None

TreeInv == TurnInv /\ ReleasedGone /\ UnbornOrphan /\ PrincipalTree

\* What a step may do to the principals: release jobs that ended, together with
\* all their retained children, and hang a new job below a running one.
TreeStep ==
    /\ released \subseteq released'
    /\ \A j \in released' \ released :
         /\ status'[j] \in Terminal
         /\ \A c \in Jobs : (parent'[c] = j /\ InMap(c)') => c \in released'
    /\ \A j \in Jobs :
         \/ parent'[j] = parent[j]
         \/ /\ status'[j] # "unborn"
            /\ parent'[j] # None =>
                 /\ parent'[j] \in Jobs \ released
                 /\ status[parent'[j]] = "running"

LEMMA ReleaseStep ==
    ASSUME ReleaseTerminalPrincipals(status'), parent' = parent
    PROVE  TreeStep
<1>1. PICK bad \in SUBSET Flaky : released' = released \cup Releasable(status', bad)
  BY DEF ReleaseTerminalPrincipals
<1>2. ASSUME NEW j \in released' \ released
      PROVE  /\ status'[j] \in Terminal
             /\ \A c \in Jobs : (parent'[c] = j /\ InMap(c)') => c \in released'
  <2> DEFINE candidates == {x \in Jobs : status'[x] \in Terminal} \ (released \cup bad)
             ready(S) == \A x \in S, c \in Jobs :
                           (/\ parent[c] = x
                            /\ status'[c] \notin {"unborn", "evicted"}
                            /\ c \notin released) => c \in S
  <2>1. j \in UNION {S \in SUBSET candidates : ready(S)}
    BY <1>1, <1>2 DEF Releasable
  <2>2. PICK S \in SUBSET candidates : ready(S) /\ j \in S
    BY <2>1
  <2>3. S \subseteq UNION {T \in SUBSET candidates : ready(T)}
    BY <2>2
  <2>4. S \subseteq released'
    BY <1>1, <2>3 DEF Releasable
  <2> QED BY <1>1, <2>2, <2>4 DEF InMap
<1> QED BY <1>1, <1>2 DEF TreeStep

LEMMA UnchangedTreeStep ==
    ASSUME released' = released, parent' = parent
    PROVE  TreeStep
  BY DEF TreeStep

LEMMA NextTreeStep ==
    ASSUME TypeOK, [Next]_vars, \A j \in Jobs : JobStep(j)
    PROVE  TreeStep
<1>1. ASSUME NEW i \in Jobs, NEW p \in Jobs \cup {None}, NEW ms \in Grants, Spawn(i, p, ms)
      PROVE  TreeStep
  <2>1. released' = released /\ parent' = [parent EXCEPT ![i] = p] /\ MaySpawn(p, ms)
    BY <1>1 DEF Spawn
  <2>2. status'[i] # "unborn"
    <3>1. PICK gone \in Evictions :
            Pump(Append(queue, i),
                 [x \in Jobs |-> IF x \in gone THEN "evicted"
                                 ELSE IF x = i THEN "queued" ELSE status[x]],
                 activeCount, {})
      BY <1>1 DEF Spawn
    <3> DEFINE st == [x \in Jobs |-> IF x \in gone THEN "evicted"
                                     ELSE IF x = i THEN "queued" ELSE status[x]]
    <3>2. st[i] \in {"evicted", "queued"}
      OBVIOUS
    <3>3. PICK k \in 0..Len(Append(queue, i)) : StartTurns(Append(queue, i), st, activeCount, {}, k)
      BY <3>1 DEF Pump
    <3> HIDE DEF st
    <3> QED BY <3>2, <3>3 DEF StartTurns
  <2>3. p # None => p \in Jobs \ released /\ status[p] = "running"
    BY <2>1 DEF MaySpawn
  <2> QED BY <2>1, <2>2, <2>3 DEF TreeStep, TypeOK
<1>2. ASSUME NEW i \in Jobs, TurnStep(i) PROVE TreeStep
  <2>1. CASE TurnCompletes(i) \/ TurnFinalizationFails(i) \/ TurnUnwinds(i)
    BY <2>1, ReleaseStep DEF TurnCompletes, TurnFinalizationFails, TurnUnwinds, treeVars
  <2>2. CASE ~(TurnCompletes(i) \/ TurnFinalizationFails(i) \/ TurnUnwinds(i))
    BY <1>2, <2>2, UnchangedTreeStep
       DEF TurnStep, SessionCreated, SteeringSettled, TurnFails, TurnTimesOut, AbortSettles,
           TurnFinally, treeVars
  <2> QED BY <2>1, <2>2
<1>3. ASSUME NEW m \in Messages, MessageStep(m) PROVE TreeStep
  BY <1>3, UnchangedTreeStep
     DEF MessageStep, Message, SteerAccepted, SteerDeclined, SteerRejected, treeVars
<1>4. ASSUME NEW s \in Stoppers, StopCallStep(s) PROVE TreeStep
  <2>1. ASSUME NEW victims, NEW root, NEW todo, StopStep(s, victims, root, todo)
        PROVE  TreeStep
    BY <2>1, ReleaseStep, UnchangedTreeStep DEF StopStep, StopOne, treeVars
  <2>2. CASE StopReturns(s)
    <3>1. ReleaseTerminalPrincipals(status') /\ parent' = parent
      BY <2>2 DEF StopReturns, treeVars
    <3> QED BY <3>1, ReleaseStep
  <2>3. CASE StopUnwound(s)
    BY <2>3, UnchangedTreeStep DEF StopUnwound, treeVars
  <2> QED BY <1>4, <2>1, <2>2, <2>3 DEF StopCallStep, StopCalled, StopNext
<1>5. CASE Close
  BY <1>5, ReleaseStep, UnchangedTreeStep DEF Close, StopOne, treeVars
<1>6. CASE CloseReturns
  <2>1. ReleaseTerminalPrincipals(status') /\ parent' = parent
    BY <1>6 DEF CloseReturns, treeVars
  <2> QED BY <2>1, ReleaseStep
<1>7. CASE UNCHANGED vars
  BY <1>7, UnchangedTreeStep DEF vars, treeVars
<1> QED BY <1>1, <1>2, <1>3, <1>4, <1>5, <1>6, <1>7 DEF Next

LEMMA NextTreeInv == TreeInv /\ [Next]_vars => TreeInv'
<1> SUFFICES ASSUME TreeInv, [Next]_vars PROVE TreeInv'
  OBVIOUS
<1> USE DEF TreeInv
<1>1. TurnInv'
  BY NextTurnInv
<1>2. \A j \in Jobs : JobStep(j)
  BY NextJobStep DEF TurnInv
<1>3. TreeStep
  BY <1>2, NextTreeStep DEF TurnInv
<1>4. ReleasedGone'
  <2> SUFFICES ASSUME NEW j \in released' PROVE Gone(j)'
    BY DEF ReleasedGone
  <2>1. j \in Jobs
    BY <1>1 DEF TurnInv, TypeOK
  <2>2. CASE j \in released
    BY <1>2, <2>1, <2>2 DEF ReleasedGone, Gone, JobStep, Stays, Starts, Waits, Succeeds, Ends,
                            Evicted, Terminal
  <2>3. CASE j \notin released
    BY <1>3, <2>3 DEF TreeStep, Gone
  <2> QED BY <2>2, <2>3
<1>5. UnbornOrphan'
  BY <1>2, <1>3 DEF TreeStep, UnbornOrphan, JobStep, Stays, Starts, Waits, Succeeds, Ends,
                    Evicted, Terminal
<1>6. PrincipalTree'
  <2> SUFFICES ASSUME NEW j \in Jobs, InMap(j)'
               PROVE  /\ j \in released' => status'[j] \in Terminal
                      /\ (j \notin released' /\ parent'[j] # None)
                            => InMap(parent[j])' /\ parent'[j] \notin released'
    BY DEF PrincipalTree
  <2>1. j \in released' => status'[j] \in Terminal
    BY <1>4 DEF ReleasedGone, Gone, InMap
  <2>2. ASSUME j \notin released', parent'[j] # None
        PROVE  InMap(parent[j])' /\ parent'[j] \notin released'
    <3> DEFINE q == parent'[j]
    <3>1. q \in Jobs
      BY <1>1, <2>2 DEF TurnInv, TypeOK
    <3>2. q \notin released /\ InMap(q)
      <4>1. CASE parent'[j] = parent[j]
        <5>1. InMap(j)
          BY <1>2, <2>2, <4>1 DEF UnbornOrphan, InMap, JobStep, Stays, Starts, Waits, Succeeds,
                                  Ends, Evicted, Terminal
        <5>2. j \notin released
          BY <1>3, <2>2 DEF TreeStep
        <5> QED BY <2>2, <4>1, <5>1, <5>2 DEF PrincipalTree
      <4>2. CASE parent'[j] # parent[j]
        BY <1>3, <2>2, <4>2 DEF TreeStep, InMap
      <4> QED BY <4>1, <4>2
    <3>3. status'[q] \notin {"unborn", "evicted"}
      BY <1>2, <3>1, <3>2 DEF InMap, JobStep, Stays, Starts, Waits, Succeeds, Ends, Evicted,
                              Terminal
    <3>4. q \notin released'
      BY <1>3, <2>2, <3>2 DEF TreeStep
    <3> QED BY <3>3, <3>4 DEF InMap
  <2> QED BY <2>1, <2>2
<1> QED BY <1>1, <1>4, <1>5, <1>6

LEMMA TreeInvariant == Spec => []TreeInv
<1>1. Init => TreeInv
  BY InitTurnInv DEF Init, TreeInv, ReleasedGone, UnbornOrphan, PrincipalTree, InMap
<1> QED BY <1>1, NextTreeInv, PTL DEF Spec

\* A policy principal is never removed before its children's: every job that is
\* not over has its own principal and its parent's, for any nesting of jobs, any
\* order in which they end, any evictions and any removals that throw.
THEOREM PrincipalsClosedUpwards == Spec => []PrincipalTree
  BY TreeInvariant, PTL DEF TreeInv

-----------------------------------------------------------------------------
(* stop() and close()                                                      *)

\* A running turn that was asked to stop.
Unwinding(j) == status[j] = "running" /\ j \in stopRequested

\* What a call of stop() has reached: the victims behind it have ended, the one it
\* waits for is unwinding.
StopCallOK(c) ==
    /\ c.todo \subseteq c.victims
    /\ \A v \in c.victims : status[v] # "unborn"
    /\ \A v \in c.victims \ (c.todo \cup {c.at}) : Gone(v)
    /\ c.phase # "idle" => c.root \in c.victims /\ c.at \in Jobs
    /\ c.phase \in {"next", "done"} => Gone(c.at)
    /\ c.phase = "waiting" => Gone(c.at) \/ Unwinding(c.at)
    /\ c.phase = "done" => c.todo = {}
StopsOK == \A s \in Stoppers : StopCallOK(stop[s])

\* A principal is retained for a reason: its own removal or a child's threw.
RetainedForCause ==
    \A j \in Jobs : (InMap(j) /\ j \notin released)
        => \/ j \in Flaky
           \/ \E k \in Jobs : InMap(k) /\ parent[k] = j /\ k \notin released

\* After close() was called every conversation has ended or unwinds, and close()
\* waits for those that unwind.
CloseOK ==
    /\ Closed => \A j \in Jobs : status[j] = "unborn" \/ Gone(j) \/ Unwinding(j)
    /\ closePhase = "closing" => \A j \in Jobs : status[j] = "running" => j \in closeWait
    /\ closePhase = "closed" => (\A j \in Jobs : status[j] # "running") /\ RetainedForCause

\* What a step may do to a job, as far as stop() and close() are concerned.
LEMMA JobMoves ==
    ASSUME TurnInv, [Next]_vars, NEW j \in Jobs
    PROVE  /\ Gone(j) => Gone(j)'
           /\ status[j] # "unborn" => status'[j] # "unborn"
           /\ Unwinding(j) => Gone(j)' \/ Unwinding(j)'
           /\ (Closed /\ status[j] = "unborn") => status'[j] = "unborn"
           /\ (Closed /\ status'[j] = "running") => status[j] = "running"
<1>1. JobStep(j) /\ (status[j] = "running" /\ j \in stopRequested => j \in aborted)
  BY NextJobStep DEF TurnInv, AbortFlags
<1>2. Gone(j) => Gone(j)'
  BY <1>1 DEF JobStep, Stays, Starts, Waits, Succeeds, Ends, Evicted, Terminal, Gone
<1>3. status[j] # "unborn" => status'[j] # "unborn"
  BY <1>1 DEF JobStep, Stays, Starts, Waits, Succeeds, Ends, Evicted, Terminal
<1>4. Unwinding(j) => Gone(j)' \/ Unwinding(j)'
  BY <1>1 DEF JobStep, Stays, Starts, Waits, Succeeds, Ends, Evicted, Terminal, Gone, Unwinding
<1>5. (Closed /\ status[j] = "unborn") => status'[j] = "unborn"
  BY <1>1 DEF JobStep, Stays, Starts, Waits, Succeeds, Ends, Evicted, Terminal
<1>6. (Closed /\ status'[j] = "running") => status[j] = "running"
  BY <1>1 DEF JobStep, Stays, Starts, Waits, Succeeds, Ends, Evicted, Terminal
<1> QED BY <1>2, <1>3, <1>4, <1>5, <1>6

\* A call of stop() that does not move keeps what it has reached.
LEMMA StopCallRests ==
    ASSUME TurnInv, [Next]_vars, NEW s \in Stoppers, StopCallOK(stop[s]), stop'[s] = stop[s]
    PROVE  StopCallOK(stop[s])'
<1>1. PICK c \in StopCalls : c = stop[s]
  BY DEF TurnInv, TypeOK
<1>2. c.victims \subseteq Jobs /\ c = stop'[s]
  BY <1>1 DEF StopCalls
<1>3. StopCallOK(c)
  BY <1>1
<1>4. \A j \in Jobs : /\ Gone(j) => Gone(j)'
                      /\ status[j] # "unborn" => status'[j] # "unborn"
                      /\ Unwinding(j) => Gone(j)' \/ Unwinding(j)'
  BY JobMoves
<1>5. /\ c.todo \subseteq c.victims
      /\ \A v \in c.victims : status'[v] # "unborn"
      /\ \A v \in c.victims \ (c.todo \cup {c.at}) : Gone(v)'
      /\ c.phase # "idle" => c.root \in c.victims /\ c.at \in Jobs
      /\ c.phase \in {"next", "done"} => Gone(c.at)'
      /\ c.phase = "waiting" => Gone(c.at)' \/ Unwinding(c.at)'
      /\ c.phase = "done" => c.todo = {}
  BY <1>2, <1>3, <1>4 DEF StopCallOK
<1> QED BY <1>2, <1>5 DEF StopCallOK

\* One victim is taken: what is behind the call has ended, and the victim has
\* ended or been asked to unwind.
LEMMA StopStepOK ==
    ASSUME TurnInv, [Next]_vars, StopsOK, NEW s \in Stoppers,
           NEW victims \in SUBSET Jobs, NEW root \in victims, NEW todo \in SUBSET victims,
           \A v \in victims : status[v] # "unborn",
           \A v \in victims \ todo : Gone(v),
           StopStep(s, victims, root, todo)
    PROVE  StopsOK'
<1>1. PICK j \in Deepest(todo) :
        /\ StopOne({j})
        /\ stop' = [stop EXCEPT ![s] =
                      [phase |-> IF status[j] = "running" THEN "waiting" ELSE "next",
                       root |-> root, victims |-> victims, todo |-> todo \ {j}, at |-> j]]
  BY DEF StopStep
<1>2. j \in todo /\ j \in Jobs /\ status[j] # "unborn"
  BY DEF Deepest
<1>3. \A i \in Jobs : (Gone(i) => Gone(i)') /\ (status[i] # "unborn" => status'[i] # "unborn")
  BY JobMoves
<1>4. status[j] = "running" => Unwinding(j)'
  BY <1>1, <1>2 DEF StopOne, Unwinding
<1>5. status[j] # "running" => Gone(j)'
  <2>1. status[j] \in {"queued", "idle"} => status'[j] = "cancelled"
    BY <1>1, <1>2 DEF StopOne
  <2>2. status[j] \in {"queued", "idle", "running"} \/ Gone(j)
    BY <1>2 DEF TurnInv, TypeOK, Statuses, Gone
  <2> QED BY <1>2, <1>3, <2>1, <2>2 DEF Gone, Terminal
<1> DEFINE phase == IF status[j] = "running" THEN "waiting" ELSE "next"
<1>6. PICK c : c = [phase |-> phase, root |-> root, victims |-> victims, todo |-> todo \ {j}, at |-> j]
  OBVIOUS
<1>7. c.root = root /\ c.victims = victims /\ c.todo = todo \ {j} /\ c.at = j
  BY <1>6
<1>8. c.phase = phase
  BY <1>6
<1>9. stop'[s] = c /\ \A t \in Stoppers : t # s => stop'[t] = stop[t]
  BY <1>1, <1>6 DEF TurnInv, TypeOK
<1>10. c.phase = "waiting" => Unwinding(j)'
  BY <1>4, <1>8
<1>11. c.phase \in {"waiting", "next"} /\ (c.phase = "next" => Gone(j)')
  BY <1>5, <1>8
<1>12. StopCallOK(c)'
  <2>1. \A v \in c.victims : status'[v] # "unborn"
    BY <1>3, <1>7
  <2>2. \A v \in c.victims \ (c.todo \cup {c.at}) : Gone(v)'
    BY <1>3, <1>7
  <2>3. c.todo \subseteq c.victims /\ c.root \in c.victims /\ c.at \in Jobs
    BY <1>2, <1>7
  <2> QED BY <1>7, <1>10, <1>11, <2>1, <2>2, <2>3 DEF StopCallOK
<1>13. StopCallOK(stop[s])'
  BY <1>9, <1>12
<1>14. ASSUME NEW t \in Stoppers, t # s PROVE StopCallOK(stop[t])'
  BY <1>9, <1>14, StopCallRests DEF StopsOK
<1> QED BY <1>13, <1>14 DEF StopsOK

LEMMA StopsStep ==
    ASSUME TurnInv, [Next]_vars, StopsOK
    PROVE  StopsOK'
<1>1. ASSUME stop' = stop PROVE StopsOK'
  BY <1>1, StopCallRests DEF StopsOK
<1>2. ASSUME NEW s \in Stoppers, NEW j \in Jobs, StopCalled(s, j) PROVE StopsOK'
  <2> DEFINE victims == Descendants(j) \cup {j}
  <2>1. victims \in SUBSET Jobs /\ j \in victims /\ \A v \in victims : status[v] # "unborn"
    BY <1>2 DEF StopCalled, Descendants, InMap
  <2>2. StopStep(s, victims, j, victims)
    BY <1>2 DEF StopCalled
  <2>3. \A v \in victims \ victims : Gone(v)
    OBVIOUS
  <2> HIDE DEF victims
  <2> QED BY <2>1, <2>2, <2>3, StopStepOK
<1>3. ASSUME NEW s \in Stoppers, StopNext(s) PROVE StopsOK'
  <2>1. PICK c \in StopCalls : c = stop[s]
    BY DEF TurnInv, TypeOK
  <2>2. c.phase = "next" /\ StopStep(s, c.victims, c.root, c.todo) /\ StopCallOK(c)
    BY <1>3, <2>1 DEF StopNext, StopsOK
  <2>3. /\ c.victims \in SUBSET Jobs /\ c.root \in c.victims /\ c.todo \in SUBSET c.victims
        /\ \A v \in c.victims : status[v] # "unborn"
        /\ \A v \in c.victims \ c.todo : Gone(v)
    BY <2>1, <2>2 DEF StopCallOK, StopCalls
  <2> QED BY <2>2, <2>3, StopStepOK
<1>4. ASSUME NEW s \in Stoppers, NEW phase \in {"next", "done"}, stop' = [stop EXCEPT ![s].phase = phase],
             status' = status, Gone(stop[s].at), stop[s].phase # "idle", phase = "done" => stop[s].todo = {}
      PROVE  StopsOK'
  <2>1. PICK c \in StopCalls : c = stop[s]
    BY DEF TurnInv, TypeOK
  <2>2. PICK d \in StopCalls : d = [c EXCEPT !.phase = phase]
    BY DEF StopCalls
  <2>3. /\ d.root = c.root /\ d.victims = c.victims /\ d.todo = c.todo /\ d.at = c.at /\ d.phase = phase
    BY <2>1, <2>2 DEF StopCalls
  <2>4. stop'[s] = d /\ \A t \in Stoppers : t # s => stop'[t] = stop[t]
    BY <1>4, <2>1, <2>2 DEF TurnInv, TypeOK
  <2>5. StopCallOK(c)
    BY <2>1 DEF StopsOK
  <2>6. \A v : (Gone(v) => Gone(v)') /\ (status[v] # "unborn" => status'[v] # "unborn")
    BY <1>4 DEF Gone
  <2>7. StopCallOK(d)'
    BY <1>4, <2>1, <2>3, <2>5, <2>6 DEF StopCallOK
  <2>8. ASSUME NEW t \in Stoppers, t # s PROVE StopCallOK(stop[t])'
    BY <2>4, <2>8, StopCallRests DEF StopsOK
  <2> QED BY <2>4, <2>7, <2>8 DEF StopsOK
<1>5. ASSUME NEW s \in Stoppers, StopUnwound(s) PROVE StopsOK'
  <2>1. stop[s].phase = "waiting" /\ pc[stop[s].at] = "none" /\ stop' = [stop EXCEPT ![s].phase = "next"] /\ status' = status
    BY <1>5 DEF StopUnwound, Unwound
  <2>2. StopCallOK(stop[s])
    BY DEF StopsOK
  <2>3. stop[s].at \in Jobs /\ (Gone(stop[s].at) \/ Unwinding(stop[s].at))
    BY <2>1, <2>2 DEF StopCallOK
  <2>4. Gone(stop[s].at)
    BY <2>1, <2>3 DEF Unwinding, TurnInv, PcStatus
  <2> QED BY <1>4, <2>1, <2>4
<1>6. ASSUME NEW s \in Stoppers, StopReturns(s) PROVE StopsOK'
  <2>1. stop[s].phase = "next" /\ stop[s].todo = {} /\ stop' = [stop EXCEPT ![s].phase = "done"] /\ status' = status
    BY <1>6 DEF StopReturns
  <2>2. StopCallOK(stop[s])
    BY DEF StopsOK
  <2>3. Gone(stop[s].at)
    BY <2>1, <2>2 DEF StopCallOK
  <2> QED BY <1>4, <2>1, <2>3
<1>7. CASE Close \/ CloseReturns \/ UNCHANGED vars
  BY <1>1, <1>7 DEF Close, CloseReturns, vars
<1>8. ASSUME NEW j \in Jobs, NEW p \in Jobs \cup {None}, NEW ms \in Grants, Spawn(j, p, ms) PROVE StopsOK'
  BY <1>1, <1>8 DEF Spawn
<1>9. ASSUME NEW j \in Jobs, TurnStep(j) PROVE StopsOK'
  BY <1>1, <1>9 DEF TurnStep, SessionCreated, SteeringSettled, TurnFails, TurnTimesOut,
       AbortSettles, TurnCompletes, TurnFinalizationFails, TurnUnwinds, TurnFinally
<1>10. ASSUME NEW m \in Messages, MessageStep(m) PROVE StopsOK'
  BY <1>1, <1>10 DEF MessageStep, Message, SteerAccepted, SteerDeclined, SteerRejected
<1> QED BY <1>2, <1>3, <1>5, <1>6, <1>7, <1>8, <1>9, <1>10 DEF Next, StopCallStep

LEMMA StopsOrdered == ASSUME StopsOK PROVE StopOrder
<1> SUFFICES ASSUME NEW s \in Stoppers
             PROVE  /\ \A v \in stop[s].victims \ (stop[s].todo \cup {stop[s].at}) : Gone(v)
                    /\ stop[s].phase \in {"next", "done"} => Gone(stop[s].at)
                    /\ stop[s].phase = "done" => stop[s].todo = {} /\ Gone(stop[s].root)
  BY DEF StopOrder
<1>1. StopCallOK(stop[s])
  BY DEF StopsOK
<1> QED BY <1>1 DEF StopCallOK

-----------------------------------------------------------------------------
\* The passes of releaseTerminalPrincipals() end only when every job that is left
\* has a reason: its own removal threw, or a child is left.
LEMMA ReleaseExhausts ==
    ASSUME TypeOK, ReleaseTerminalPrincipals(status'), parent' = parent,
           \A j \in Jobs : InMap(j)' => status'[j] \in Terminal
    PROVE  RetainedForCause'
<1>1. PICK bad \in SUBSET Flaky : released' = released \cup Releasable(status', bad)
  BY DEF ReleaseTerminalPrincipals
<1> DEFINE candidates == {x \in Jobs : status'[x] \in Terminal} \ (released \cup bad)
           ready(S) == \A x \in S, c \in Jobs :
                         (/\ parent[c] = x
                          /\ status'[c] \notin {"unborn", "evicted"}
                          /\ c \notin released) => c \in S
           R == UNION {S \in SUBSET candidates : ready(S)}
<1>2. Releasable(status', bad) = R
  BY DEF Releasable
<1>3. R \in SUBSET candidates /\ ready(R)
  OBVIOUS
<1> SUFFICES ASSUME NEW j \in Jobs, InMap(j)', j \notin released', j \notin Flaky,
                    \A k \in Jobs : ~(InMap(k)' /\ parent'[k] = j /\ k \notin released')
             PROVE  FALSE
  BY DEF RetainedForCause
<1>4. j \in candidates
  BY <1>1
<1>5. \A c \in Jobs : (parent[c] = j /\ status'[c] \notin {"unborn", "evicted"} /\ c \notin released) => c \in R
  BY <1>1, <1>2 DEF InMap
<1> DEFINE S == R \cup {j}
<1>6. S \in SUBSET candidates
  BY <1>3, <1>4
<1>7. ready(S)
  BY <1>3, <1>5
<1>8. j \in R
  BY <1>6, <1>7
<1> QED BY <1>1, <1>2, <1>8

LEMMA ReleasesOrNot ==
    ASSUME [Next]_vars, Closed
    PROVE  parent' = parent /\ (released' = released \/ ReleaseTerminalPrincipals(status'))
<1>1. ASSUME NEW i \in Jobs, NEW p \in Jobs \cup {None}, NEW ms \in Grants, Spawn(i, p, ms) PROVE FALSE
  BY <1>1 DEF Spawn
<1>2. ASSUME NEW i \in Jobs, TurnStep(i)
      PROVE  parent' = parent /\ (released' = released \/ ReleaseTerminalPrincipals(status'))
  BY <1>2 DEF TurnStep, TurnCompletes, TurnFinalizationFails, TurnUnwinds, SessionCreated, SteeringSettled,
              TurnFails, TurnTimesOut, AbortSettles, TurnFinally, treeVars
<1>3. ASSUME NEW m \in Messages, MessageStep(m) PROVE parent' = parent /\ released' = released
  BY <1>3 DEF MessageStep, Message, SteerAccepted, SteerDeclined, SteerRejected, treeVars
<1>4. ASSUME NEW s \in Stoppers, StopCallStep(s)
      PROVE  parent' = parent /\ (released' = released \/ ReleaseTerminalPrincipals(status'))
  <2>1. ASSUME NEW victims, NEW root, NEW todo, StopStep(s, victims, root, todo)
        PROVE  parent' = parent /\ (released' = released \/ ReleaseTerminalPrincipals(status'))
    BY <2>1 DEF StopStep, StopOne, treeVars
  <2>2. CASE StopReturns(s)
    BY <2>2 DEF StopReturns, treeVars
  <2>3. CASE StopUnwound(s)
    BY <2>3 DEF StopUnwound, treeVars
  <2> QED BY <1>4, <2>1, <2>2, <2>3 DEF StopCallStep, StopCalled, StopNext
<1>5. CASE Close
  BY <1>5 DEF Close, Closed
<1>6. CASE CloseReturns
  BY <1>6 DEF CloseReturns, treeVars
<1>7. CASE UNCHANGED vars
  BY <1>7 DEF vars, treeVars
<1> QED BY <1>1, <1>2, <1>3, <1>4, <1>5, <1>6, <1>7 DEF Next

\* The phase of close() moves with close() only.
LEMMA ClosePhases ==
    ASSUME [Next]_vars
    PROVE  UNCHANGED closeVars \/ Close \/ CloseReturns
<1>1. ASSUME NEW i \in Jobs, NEW p \in Jobs \cup {None}, NEW ms \in Grants, Spawn(i, p, ms) PROVE UNCHANGED closeVars
  BY <1>1 DEF Spawn
<1>2. ASSUME NEW i \in Jobs, TurnStep(i) PROVE UNCHANGED closeVars
  BY <1>2 DEF TurnStep, TurnCompletes, TurnFinalizationFails, TurnUnwinds, SessionCreated, SteeringSettled,
              TurnFails, TurnTimesOut, AbortSettles, TurnFinally
<1>3. ASSUME NEW m \in Messages, MessageStep(m) PROVE UNCHANGED closeVars
  BY <1>3 DEF MessageStep, Message, SteerAccepted, SteerDeclined, SteerRejected
<1>4. ASSUME NEW s \in Stoppers, StopCallStep(s) PROVE UNCHANGED closeVars
  BY <1>4 DEF StopCallStep, StopCalled, StopNext, StopStep, StopUnwound, StopReturns
<1>5. CASE UNCHANGED vars
  BY <1>5 DEF vars
<1> QED BY <1>1, <1>2, <1>3, <1>4, <1>5 DEF Next

LEMMA CloseStep ==
    ASSUME TurnInv, [Next]_vars, CloseOK
    PROVE  CloseOK'
<1>1. \A j \in Jobs : /\ Gone(j) => Gone(j)'
                      /\ Unwinding(j) => Gone(j)' \/ Unwinding(j)'
                      /\ (Closed /\ status[j] = "unborn") => status'[j] = "unborn"
                      /\ (Closed /\ status'[j] = "running") => status[j] = "running"
  BY JobMoves
<1>2. Closed => \A j \in Jobs : status'[j] = "unborn" \/ Gone(j)' \/ Unwinding(j)'
  BY <1>1 DEF CloseOK
<1>3. ASSUME Closed, \A j \in Jobs : status'[j] # "running", ReleaseTerminalPrincipals(status')
      PROVE  RetainedForCause'
  <2>1. \A j \in Jobs : InMap(j)' => status'[j] \in Terminal
    BY <1>2, <1>3 DEF InMap, Gone, Unwinding
  <2>2. parent' = parent
    BY <1>3, ReleasesOrNot
  <2> QED BY <1>3, <2>1, <2>2, ReleaseExhausts DEF TurnInv
<1>4. CASE Close
  <2>1. /\ status' = [j \in Jobs |-> IF InMap(j) /\ status[j] \in {"queued", "idle"} THEN "cancelled" ELSE status[j]]
        /\ \A j \in Jobs : status[j] = "running" => j \in stopRequested'
        /\ closeWait' = {j \in Jobs : status[j] = "running"} /\ closePhase' = "closing"
    BY <1>4 DEF Close, StopOne, InMap
  <2>2. \A j \in Jobs : status'[j] = "unborn" \/ Gone(j)' \/ Unwinding(j)'
    BY <2>1 DEF TurnInv, TypeOK, Statuses, Gone, Unwinding, Terminal, InMap
  <2>3. \A j \in Jobs : status'[j] = "running" => j \in closeWait'
    BY <2>1
  <2> QED BY <2>1, <2>2, <2>3 DEF CloseOK
<1>5. CASE CloseReturns
  <2>1. closePhase = "closing" /\ closePhase' = "closed" /\ status' = status /\ ReleaseTerminalPrincipals(status')
    BY <1>5 DEF CloseReturns
  <2>2. \A j \in Jobs : status'[j] # "running"
    BY <1>5, <2>1 DEF CloseReturns, Unwound, CloseOK, TurnInv, PcStatus
  <2>3. RetainedForCause'
    BY <1>3, <2>1, <2>2 DEF Closed
  <2>4. \A j \in Jobs : status'[j] = "unborn" \/ Gone(j)' \/ Unwinding(j)'
    BY <1>2, <2>1 DEF Closed
  <2> QED BY <2>1, <2>2, <2>3, <2>4 DEF CloseOK
<1>6. CASE UNCHANGED closeVars
  <2>1. closePhase' = closePhase /\ closeWait' = closeWait /\ (Closed' <=> Closed)
    BY <1>6 DEF closeVars, Closed
  <2>2. Closed' => \A j \in Jobs : status'[j] = "unborn" \/ Gone(j)' \/ Unwinding(j)'
    BY <1>2, <2>1
  <2>3. closePhase' = "closing" => \A j \in Jobs : status'[j] = "running" => j \in closeWait'
    BY <1>1, <2>1 DEF CloseOK, Closed
  <2>4. ASSUME closePhase' = "closed" PROVE (\A j \in Jobs : status'[j] # "running") /\ RetainedForCause'
    <3>1. Closed /\ closePhase = "closed" /\ RetainedForCause /\ \A j \in Jobs : status[j] # "running"
      BY <2>1, <2>4 DEF CloseOK, Closed
    <3>2. \A j \in Jobs : status'[j] # "running"
      BY <1>1, <3>1
    <3>3. CASE ReleaseTerminalPrincipals(status')
      BY <1>3, <3>1, <3>2, <3>3
    <3>4. CASE released' = released
      <4>1. parent' = parent
        BY <3>1, ReleasesOrNot
      <4>2. \A j \in Jobs : JobStep(j)
        BY NextJobStep DEF TurnInv
      <4>3. \A j \in Jobs : InMap(j)' => InMap(j)
        BY <1>1, <3>1, <4>2 DEF InMap, JobStep, Stays, Starts, Waits, Succeeds, Ends, Evicted, Terminal
      <4>4. \A j \in Jobs : InMap(j) /\ j \notin released => InMap(j)'
        BY <4>2 DEF InMap, JobStep, Stays, Starts, Waits, Succeeds, Ends, Evicted, Terminal
      <4> QED BY <3>1, <3>2, <3>4, <4>1, <4>3, <4>4 DEF RetainedForCause
    <3> QED BY <3>1, <3>2, <3>3, <3>4, ReleasesOrNot
  <2> QED BY <2>2, <2>3, <2>4 DEF CloseOK
<1> QED BY <1>4, <1>5, <1>6, ClosePhases

LEMMA ClosedComplete == ASSUME TurnInv, CloseOK PROVE CloseComplete
<1> SUFFICES ASSUME closePhase = "closed"
             PROVE  /\ \A j \in Jobs : InMap(j) => status[j] \in Terminal
                    /\ session = {}
                    /\ \A j \in Jobs : (InMap(j) /\ j \notin released)
                          => \/ j \in Flaky
                             \/ \E k \in Jobs : InMap(k) /\ parent[k] = j /\ k \notin released
  BY DEF CloseComplete
<1>1. \A j \in Jobs : status[j] = "unborn" \/ Gone(j)
  BY DEF CloseOK, Closed, Unwinding
<1>2. session = {}
  BY <1>1 DEF TurnInv, TypeOK, NoSessionLeak, Gone, Terminal
<1> QED BY <1>1, <1>2 DEF CloseOK, RetainedForCause, InMap, Gone

-----------------------------------------------------------------------------
(* The queue                                                               *)

\* Every queued job has an entry, no job has two, and an entry that is not a
\* queued job is one that pump() skips.
QueueOK(q, st) ==
    /\ \A i, k \in 1..Len(q) : q[i] = q[k] => i = k
    /\ \A j \in Jobs : st[j] = "queued" => \E i \in 1..Len(q) : q[i] = j
    /\ \A i \in 1..Len(q) : st[q[i]] \in {"queued", "failed", "evicted"}

\* pump() takes the entries it starts or skips from the front.
LEMMA PumpQueue ==
    ASSUME NEW q \in Seq(Jobs), NEW st \in [Jobs -> Statuses], NEW ac, NEW fresh,
           Pump(q, st, ac, fresh), QueueOK(q, st)
    PROVE  QueueOK(queue', status')
<1>1. PICK k \in 0..Len(q) : StartTurns(q, st, ac, fresh, k)
  BY DEF Pump
<1> DEFINE started == StartedIn(q, st, k)
<1>2. queue' = SubSeq(q, k + 1, Len(q)) /\ status' = [j \in Jobs |-> IF j \in started THEN "running" ELSE st[j]]
  BY <1>1 DEF StartTurns
<1>3. Len(q) \in Nat /\ \A i \in 1..Len(q) : q[i] \in Jobs
  OBVIOUS
<1>4. Len(queue') = Len(q) - k /\ \A i \in 1..(Len(q) - k) : queue'[i] = q[i + k]
  BY <1>2, <1>3
<1>5. \A j \in started : st[j] = "queued" /\ \E i \in 1..k : q[i] = j
  BY DEF StartedIn
<1>6. \A j \in Jobs : st[j] = "queued" /\ (\E i \in 1..k : q[i] = j) => j \in started
  BY DEF StartedIn
<1> HIDE DEF started
<1>7. \A i, l \in 1..Len(queue') : queue'[i] = queue'[l] => i = l
  <2> SUFFICES ASSUME NEW i \in 1..Len(queue'), NEW l \in 1..Len(queue'), queue'[i] = queue'[l] PROVE i = l
    OBVIOUS
  <2>1. i + k \in 1..Len(q) /\ l + k \in 1..Len(q) /\ q[i + k] = q[l + k]
    BY <1>3, <1>4
  <2>2. i + k = l + k
    BY <2>1 DEF QueueOK
  <2> QED BY <1>4, <2>2, <1>3
<1>8. ASSUME NEW j \in Jobs, status'[j] = "queued" PROVE \E i \in 1..Len(queue') : queue'[i] = j
  <2>1. st[j] = "queued" /\ j \notin started
    BY <1>2, <1>8
  <2>2. PICK i \in 1..Len(q) : q[i] = j
    BY <2>1 DEF QueueOK
  <2>3. i \notin 1..k
    BY <1>6, <2>1, <2>2
  <2>4. i - k \in 1..Len(queue') /\ queue'[i - k] = q[i]
    <3>1. i - k \in 1..(Len(q) - k) /\ (i - k) + k = i
      BY <1>3, <2>3
    <3> QED BY <1>4, <3>1
  <2> QED BY <2>2, <2>4
<1>9. ASSUME NEW i \in 1..Len(queue') PROVE status'[queue'[i]] \in {"queued", "failed", "evicted"}
  <2>1. i + k \in 1..Len(q) /\ queue'[i] = q[i + k] /\ q[i + k] \in Jobs
    BY <1>3, <1>4, <1>9
  <2>2. q[i + k] \notin started
    <3> SUFFICES ASSUME q[i + k] \in started PROVE FALSE
      OBVIOUS
    <3>1. PICK l \in 1..k : q[l] = q[i + k]
      BY <1>5
    <3>2. l \in 1..Len(q) /\ l # i + k
      BY <1>3, <1>4, <1>9
    <3> QED BY <2>1, <3>1, <3>2 DEF QueueOK
  <2> QED BY <1>2, <2>1, <2>2 DEF QueueOK
<1> QED BY <1>7, <1>8, <1>9 DEF QueueOK

\* A job that was not in the queue joins it; others may be evicted.
LEMMA JoinQueue ==
    ASSUME NEW q \in Seq(Jobs), NEW st, NEW new, NEW j \in Jobs, QueueOK(q, st),
           st[j] \notin {"queued", "failed", "evicted"}, new[j] \in {"queued", "failed", "evicted"},
           \A x \in Jobs : x # j => new[x] = st[x] \/ new[x] = "evicted"
    PROVE  QueueOK(Append(q, j), new)
<1> DEFINE r == Append(q, j)
<1>1. Len(q) \in Nat /\ Len(r) = Len(q) + 1 /\ r[Len(q) + 1] = j
  OBVIOUS
<1>2. \A i \in 1..Len(q) : r[i] = q[i] /\ q[i] \in Jobs
  OBVIOUS
<1>3. \A i \in 1..Len(q) : q[i] # j
  BY DEF QueueOK
<1>4. \A i \in 1..Len(r) : i \in 1..Len(q) \/ i = Len(q) + 1
  BY <1>1
<1>5. Len(q) + 1 \in 1..Len(r) /\ 1..Len(q) \subseteq 1..Len(r)
  BY <1>1
<1> HIDE DEF r
<1>6. \A i, k \in 1..Len(r) : r[i] = r[k] => i = k
  BY <1>1, <1>2, <1>3, <1>4 DEF QueueOK
<1>7. \A x \in Jobs : new[x] = "queued" => \E i \in 1..Len(r) : r[i] = x
  <2> SUFFICES ASSUME NEW x \in Jobs, new[x] = "queued" PROVE \E i \in 1..Len(r) : r[i] = x
    OBVIOUS
  <2>1. CASE x = j
    BY <1>1, <1>5, <2>1
  <2>2. CASE x # j
    <3>1. st[x] = "queued"
      BY <2>2
    <3>2. PICK i \in 1..Len(q) : q[i] = x
      BY <3>1 DEF QueueOK
    <3> QED BY <1>2, <1>5, <3>2
  <2> QED BY <2>1, <2>2
<1>8. \A i \in 1..Len(r) : new[r[i]] \in {"queued", "failed", "evicted"}
  <2> SUFFICES ASSUME NEW i \in 1..Len(r) PROVE new[r[i]] \in {"queued", "failed", "evicted"}
    OBVIOUS
  <2>1. CASE i \in 1..Len(q)
    <3>1. r[i] = q[i] /\ q[i] \in Jobs /\ q[i] # j /\ st[q[i]] \in {"queued", "failed", "evicted"}
      BY <1>2, <1>3, <2>1 DEF QueueOK
    <3> QED BY <3>1
  <2>2. CASE i = Len(q) + 1
    BY <1>1, <2>2
  <2> QED BY <1>4, <2>1, <2>2
<1> QED BY <1>6, <1>7, <1>8 DEF QueueOK, r

\* Jobs outside the queue change among themselves.
LEMMA QueueRests ==
    ASSUME NEW q, NEW st, NEW new, QueueOK(q, st),
           \A x \in Jobs : new[x] = "queued" => st[x] = "queued",
           \A i \in 1..Len(q) : q[i] \in Jobs,
           \A x \in Jobs : st[x] \in {"queued", "failed", "evicted"} => new[x] = st[x]
    PROVE  QueueOK(q, new)
BY DEF QueueOK

\* stop() takes the entry of a queued job out.
LEMMA LeaveQueue ==
    ASSUME TypeOK, QueueOK(queue, status), NEW new, NEW j \in Jobs, status[j] = "queued",
           new[j] # "queued", \A x \in Jobs : x # j => new[x] = status[x]
    PROVE  QueueOK(Dequeue(j), new)
<1>1. \E i \in 1..Len(queue) : queue[i] = j
  BY DEF QueueOK
<1> DEFINE e == CHOOSE i \in 1..Len(queue) : queue[i] = j
           n == Len(queue)
           r == Dequeue(j)
<1>2. e \in 1..n /\ queue[e] = j
  BY <1>1
<1> HIDE DEF e
<1>3. queue \in Seq(Jobs) /\ n \in Nat /\ \A i \in 1..n : queue[i] \in Jobs
  BY DEF TypeOK
<1>4. r = SubSeq(queue, 1, e - 1) \o SubSeq(queue, e + 1, n)
  BY <1>1 DEF Dequeue, e
<1>5. /\ SubSeq(queue, 1, e - 1) \in Seq(Jobs) /\ Len(SubSeq(queue, 1, e - 1)) = e - 1
      /\ \A i \in 1..(e - 1) : SubSeq(queue, 1, e - 1)[i] = queue[i]
  BY <1>2, <1>3
<1>6. /\ SubSeq(queue, e + 1, n) \in Seq(Jobs) /\ Len(SubSeq(queue, e + 1, n)) = n - e
      /\ \A i \in 1..(n - e) : SubSeq(queue, e + 1, n)[i] = queue[i + e]
  BY <1>2, <1>3
<1> DEFINE a == SubSeq(queue, 1, e - 1)
           b == SubSeq(queue, e + 1, n)
<1>7. /\ Len(a \o b) = Len(a) + Len(b)
      /\ \A i \in 1..(Len(a) + Len(b)) : (a \o b)[i] = IF i <= Len(a) THEN a[i] ELSE b[i - Len(a)]
  <2> HIDE DEF a, b
  <2>1. a \in Seq(Jobs) /\ b \in Seq(Jobs)
    BY <1>5, <1>6 DEF a, b
  <2> QED BY <2>1, ConcatProperties
<1> DEFINE at(i) == IF i < e THEN i ELSE i + 1
<1> HIDE DEF n, r, a, b
<1>8. Len(r) = n - 1 /\ \A i \in 1..(n - 1) : r[i] = queue[at(i)] /\ at(i) \in 1..n /\ at(i) # e
  <2>1. Len(a) = e - 1 /\ Len(b) = n - e /\ r = a \o b
    BY <1>4, <1>5, <1>6 DEF a, b
  <2>2. Len(a) + Len(b) = n - 1
    BY <1>2, <1>3, <2>1
  <2>3. ASSUME NEW i \in 1..(n - 1) PROVE r[i] = queue[at(i)] /\ at(i) \in 1..n /\ at(i) # e
    <3>1. CASE i < e
      <4>1. i \in 1..(e - 1) /\ i <= Len(a) /\ at(i) = i
        BY <1>2, <1>3, <2>1, <3>1
      <4>2. r[i] = a[i]
        BY <1>7, <2>1, <2>2, <4>1
      <4> QED BY <1>2, <1>3, <1>5, <3>1, <4>1, <4>2 DEF a
    <3>2. CASE ~(i < e)
      <4>1. i - (e - 1) \in 1..(n - e) /\ ~(i <= Len(a)) /\ at(i) = i + 1 /\ (i - (e - 1)) + e = i + 1
        BY <1>2, <1>3, <2>1, <3>2
      <4>2. r[i] = b[i - (e - 1)]
        BY <1>7, <2>1, <2>2, <4>1
      <4> QED BY <1>2, <1>3, <1>6, <3>2, <4>1, <4>2 DEF b
    <3> QED BY <3>1, <3>2
  <2> QED BY <1>7, <2>1, <2>2, <2>3
<1>9. \A i, k \in 1..n : queue[i] = queue[k] => i = k
  BY DEF QueueOK, n
<1>10. \A i, k \in 1..(n - 1) : at(i) = at(k) => i = k
  BY <1>2, <1>3
<1>11. \A l \in 1..n : l # e => \E i \in 1..(n - 1) : at(i) = l
  <2> SUFFICES ASSUME NEW l \in 1..n, l # e PROVE \E i \in 1..(n - 1) : at(i) = l
    OBVIOUS
  <2>1. CASE l < e
    <3>1. l \in 1..(n - 1) /\ at(l) = l
      BY <1>2, <1>3, <2>1
    <3> QED BY <3>1
  <2>2. CASE ~(l < e)
    <3>1. l - 1 \in 1..(n - 1) /\ at(l - 1) = l
      BY <1>2, <1>3, <2>2
    <3> QED BY <3>1
  <2> QED BY <2>1, <2>2
<1>12. \A i \in 1..n : status[queue[i]] \in {"queued", "failed", "evicted"}
  BY DEF QueueOK, n
<1>13. \A x \in Jobs : status[x] = "queued" => \E i \in 1..n : queue[i] = x
  BY DEF QueueOK, n
<1> HIDE DEF at
<1>14. \A i, k \in 1..Len(r) : r[i] = r[k] => i = k
  BY <1>8, <1>9, <1>10
<1>15. \A x \in Jobs : new[x] = "queued" => \E i \in 1..Len(r) : r[i] = x
  <2> SUFFICES ASSUME NEW x \in Jobs, new[x] = "queued" PROVE \E i \in 1..Len(r) : r[i] = x
    OBVIOUS
  <2>1. x # j /\ status[x] = "queued"
    OBVIOUS
  <2>2. PICK l \in 1..n : queue[l] = x
    BY <1>13, <2>1
  <2>3. l # e
    BY <1>2, <2>1, <2>2
  <2>4. PICK i \in 1..(n - 1) : at(i) = l
    BY <1>11, <2>3
  <2> QED BY <1>8, <2>2, <2>4
<1>16. \A i \in 1..Len(r) : new[r[i]] \in {"queued", "failed", "evicted"}
  <2> SUFFICES ASSUME NEW i \in 1..Len(r) PROVE new[r[i]] \in {"queued", "failed", "evicted"}
    OBVIOUS
  <2>1. r[i] = queue[at(i)] /\ at(i) \in 1..n /\ at(i) # e
    BY <1>8
  <2>2. r[i] # j /\ r[i] \in Jobs
    BY <1>2, <1>3, <1>9, <2>1
  <2> QED BY <1>12, <2>1, <2>2
<1> QED BY <1>14, <1>15, <1>16 DEF QueueOK, r

-----------------------------------------------------------------------------
(* The queue and the slots together                                        *)

Running(st) == {j \in Jobs : st[j] = "running"}

\* Every slot belongs to a running turn or to a finished one whose .finally has
\* not run.
SlotsOK(st, ac, fin) == ac = Cardinality(Running(st)) + SumOf(Jobs, fin)
Books(q, st, ac, fin) == QueueOK(q, st) /\ SlotsOK(st, ac, fin)

LEMMA RunningFinite ==
    ASSUME NEW st
    PROVE  IsFiniteSet(Running(st)) /\ Cardinality(Running(st)) \in Nat
<1>1. Running(st) \subseteq Jobs
  BY DEF Running
<1>2. IsFiniteSet(Running(st))
  BY <1>1, FS_Subset, JobsAssumption
<1> QED BY <1>2, FS_CardinalityType

\* A slot is taken for every job that pump() starts.
LEMMA PumpBooks ==
    ASSUME NEW q \in Seq(Jobs), NEW st \in [Jobs -> Statuses], NEW ac, NEW fresh,
           NEW fin \in [Jobs -> Nat], Pump(q, st, ac, fresh), Books(q, st, ac, fin), settling' = fin
    PROVE  Books(queue, status, activeCount, settling)'
<1>1. QueueOK(queue', status')
  BY PumpQueue DEF Books
<1>2. PICK k \in 0..Len(q) : StartTurns(q, st, ac, fresh, k)
  BY DEF Pump
<1> DEFINE started == StartedIn(q, st, k)
<1>3. /\ status' = [j \in Jobs |-> IF j \in started THEN "running" ELSE st[j]]
      /\ activeCount' = ac + Cardinality(started)
  BY <1>2 DEF StartTurns
<1>4. started \subseteq Jobs /\ \A j \in started : st[j] = "queued"
  BY DEF StartedIn
<1> HIDE DEF started
<1>5. Running(status') = Running(st) \cup started /\ Running(st) \cap started = {}
  BY <1>3, <1>4 DEF Running
<1>6. IsFiniteSet(started) /\ Cardinality(started) \in Nat
  BY <1>4, FS_Subset, FS_CardinalityType, JobsAssumption
<1>7. Cardinality(Running(st) \cup started)
        = Cardinality(Running(st)) + Cardinality(started) - Cardinality(Running(st) \cap started)
  BY <1>6, RunningFinite, FS_Union
<1>8. Cardinality(Running(st) \cap started) = 0
  BY <1>5, FS_EmptySet
<1>9. SumOf(Jobs, fin) \in Nat
  BY SumIsCount, JobsAssumption
<1>10. activeCount' = Cardinality(Running(status')) + SumOf(Jobs, fin)
  <2> DEFINE a == Cardinality(Running(st))
             b == Cardinality(started)
             c == SumOf(Jobs, fin)
             d == Cardinality(Running(status'))
  <2>1. a \in Nat /\ b \in Nat /\ c \in Nat
    BY <1>6, <1>9, RunningFinite
  <2>2. ac = a + c /\ activeCount' = ac + b
    BY <1>3 DEF Books, SlotsOK
  <2>3. d = a + b - 0
    BY <1>5, <1>7, <1>8
  <2> HIDE DEF a, b, c, d
  <2>4. activeCount' = d + c
    BY <2>1, <2>2, <2>3
  <2> QED BY <2>4 DEF c, d
<1> QED BY <1>1, <1>10 DEF Books, SlotsOK

\* The turn of a job ends: its slot is kept until the .finally.
LEMMA TurnEndBooks ==
    ASSUME TypeOK, NEW j \in Jobs, status[j] = "running", SlotsOK(status, activeCount, settling),
           NEW s, s # "running", status' = [status EXCEPT ![j] = s],
           settling' = [settling EXCEPT ![j] = @ + 1], activeCount' = activeCount
    PROVE  SlotsOK(status, activeCount, settling)'
<1>1. Running(status') = Running(status) \ {j} /\ j \in Running(status)
  BY DEF TypeOK, Running
<1>2. Cardinality(Running(status) \ {j}) = Cardinality(Running(status)) - 1
  BY <1>1, RunningFinite, FS_RemoveElement
<1>3. SumOf(Jobs, settling') = SumOf(Jobs, settling) + 1
  BY SumPlus, JobsAssumption DEF TypeOK
<1>4. SumOf(Jobs, settling) \in Nat
  BY SumIsCount, JobsAssumption DEF TypeOK
<1> DEFINE a == Cardinality(Running(status))
           b == Cardinality(Running(status'))
           c == SumOf(Jobs, settling)
           d == SumOf(Jobs, settling')
<1>5. a \in Nat /\ b = a - 1 /\ c \in Nat /\ d = c + 1 /\ activeCount = a + c
  BY <1>1, <1>2, <1>3, <1>4, RunningFinite DEF SlotsOK
<1> HIDE DEF a, b, c, d
<1>6. activeCount = b + d
  BY <1>5
<1> QED BY <1>6 DEF SlotsOK, b, d

\* Jobs that do not run change their status among themselves.
LEMMA SlotsRest ==
    ASSUME SlotsOK(status, activeCount, settling), NEW new,
           \A j \in Jobs : new[j] = "running" <=> status[j] = "running"
    PROVE  SlotsOK(new, activeCount, settling)
<1>1. Running(new) = Running(status)
  BY DEF Running
<1> QED BY <1>1 DEF SlotsOK

LEMMA DeliverBooks ==
    ASSUME TypeOK, Books(queue, status, activeCount, settling), NEW m, NEW j \in Jobs, Deliver(m, j),
           settling' = settling
    PROVE  Books(queue, status, activeCount, settling)'
<1>1. CASE status[j] = "idle"
  <2> DEFINE st == [status EXCEPT ![j] = "queued"]
  <2>1. Append(queue, j) \in Seq(Jobs) /\ st \in [Jobs -> Statuses] /\ queue \in Seq(Jobs)
    BY AppendProperties DEF TypeOK, Statuses
  <2>2. Pump(Append(queue, j), st, activeCount, {j})
    BY <1>1 DEF Deliver
  <2>3. st[j] = "queued" /\ \A x \in Jobs : x # j => st[x] = status[x]
    BY DEF TypeOK
  <2> HIDE DEF st
  <2>4. QueueOK(Append(queue, j), st)
    BY <1>1, <2>1, <2>3, JoinQueue DEF Books
  <2>5. SlotsOK(st, activeCount, settling)
    BY <1>1, <2>3, SlotsRest DEF Books
  <2>6. settling \in [Jobs -> Nat]
    BY DEF TypeOK
  <2> QED BY <2>1, <2>2, <2>4, <2>5, <2>6, PumpBooks DEF Books
<1>2. CASE status[j] # "idle"
  BY <1>2 DEF Deliver, Books, QueueOK, SlotsOK
<1> QED BY <1>1, <1>2

LEMMA StopStepBooks ==
    ASSUME TypeOK, Books(queue, status, activeCount, settling), NEW s, NEW victims, NEW root,
           NEW todo \in SUBSET Jobs, StopStep(s, victims, root, todo)
    PROVE  Books(queue, status, activeCount, settling)'
<1>1. PICK j \in Deepest(todo) :
        StopOne({j}) /\ queue' = IF status[j] = "queued" THEN Dequeue(j) ELSE queue
  BY DEF StopStep
<1>2. j \in Jobs
  BY DEF Deepest
<1>3. /\ status'[j] = IF status[j] \in {"queued", "idle"} THEN "cancelled" ELSE status[j]
      /\ \A x \in Jobs : x # j => status'[x] = status[x]
      /\ activeCount' = activeCount /\ settling' = settling
  BY <1>1, <1>2 DEF StopOne
<1>4. SlotsOK(status', activeCount, settling)
  <2>1. \A x \in Jobs : status'[x] = "running" <=> status[x] = "running"
    BY <1>2, <1>3
  <2> QED BY <2>1, SlotsRest DEF Books
<1>5. QueueOK(queue', status')
  <2>1. CASE status[j] = "queued"
    BY <1>1, <1>2, <1>3, <2>1, LeaveQueue DEF Books
  <2>2. CASE status[j] # "queued"
    <3>1. queue' = queue /\ \A i \in 1..Len(queue) : queue[i] \in Jobs
      BY <1>1, <2>2 DEF TypeOK
    <3>2. /\ \A x \in Jobs : status'[x] = "queued" => status[x] = "queued"
          /\ \A x \in Jobs : status[x] \in {"queued", "failed", "evicted"} => status'[x] = status[x]
      BY <1>2, <1>3, <2>2
    <3> QED BY <3>1, <3>2, QueueRests DEF Books
  <2> QED BY <2>1, <2>2
<1> QED BY <1>3, <1>4, <1>5 DEF Books, SlotsOK

LEMMA TurnBooks ==
    ASSUME TypeOK, PcStatus, Books(queue, status, activeCount, settling), NEW j \in Jobs, TurnStep(j)
    PROVE  Books(queue, status, activeCount, settling)'
<1>0. queue \in Seq(Jobs) /\ \A i \in 1..Len(queue) : queue[i] \in Jobs
  BY DEF TypeOK
<1>1. ASSUME UNCHANGED <<queue, status, activeCount, settling>> PROVE Books(queue, status, activeCount, settling)'
  BY <1>1 DEF Books, QueueOK, SlotsOK
<1>2. CASE \/ SessionCreated(j) \/ TurnFails(j) \/ TurnTimesOut(j) \/ AbortSettles(j)
           \/ \E n \in 0..Len(steering[j]) :
                \E declined \in [1..n -> 1..Len(steering[j])] : SteeringSettled(j, declined)
  BY <1>1, <1>2 DEF SessionCreated, TurnFails, TurnTimesOut, AbortSettles, SteeringSettled
<1>3. ASSUME status[j] = "running", queue' = queue, NEW s \in {"idle", "cancelled", "timed_out", "failed"},
             status' = [status EXCEPT ![j] = s]
      PROVE  QueueOK(queue, status)'
  <2>1. /\ \A x \in Jobs : status'[x] = "queued" => status[x] = "queued"
        /\ \A x \in Jobs : status[x] \in {"queued", "failed", "evicted"} => status'[x] = status[x]
    BY <1>3 DEF TypeOK
  <2>2. QueueOK(queue, status')
    BY <1>0, <2>1, QueueRests DEF Books
  <2> QED BY <1>3, <2>2
<1>4. ASSUME status[j] = "running", queue' = Append(queue, j), NEW s \in {"queued", "failed"},
             status' = [status EXCEPT ![j] = s]
      PROVE  QueueOK(queue, status)'
  <2>1. status'[j] = s /\ \A x \in Jobs : x # j => status'[x] = status[x]
    BY <1>4 DEF TypeOK
  <2>2. QueueOK(Append(queue, j), status')
    BY <1>0, <1>4, <2>1, JoinQueue DEF Books
  <2> QED BY <1>4, <2>2
<1>5. CASE TurnCompletes(j) \/ TurnFinalizationFails(j)
  <2>1. /\ status[j] = "running" /\ settling' = [settling EXCEPT ![j] = @ + 1] /\ activeCount' = activeCount
        /\ \/ queue' = queue /\ status' = [status EXCEPT ![j] = "idle"]
           \/ queue' = Append(queue, j) /\ status' = [status EXCEPT ![j] = "queued"]
           \/ queue' = Append(queue, j) /\ status' = [status EXCEPT ![j] = "failed"]
    BY <1>5 DEF TurnCompletes, TurnFinalizationFails, PromptResolved, PcStatus
  <2>2. QueueOK(queue, status)'
    BY <1>3, <1>4, <2>1
  <2>3. SlotsOK(status, activeCount, settling)'
    BY <2>1, TurnEndBooks DEF Books
  <2> QED BY <2>2, <2>3 DEF Books
<1>6. CASE TurnUnwinds(j)
  <2> DEFINE s == IF j \in timedOut THEN "timed_out"
                  ELSE IF j \in stopRequested \cup aborted THEN "cancelled" ELSE "failed"
  <2>1. /\ status[j] = "running" /\ settling' = [settling EXCEPT ![j] = @ + 1] /\ activeCount' = activeCount
        /\ queue' = queue /\ status' = [status EXCEPT ![j] = s]
    BY <1>6 DEF TurnUnwinds, PcStatus
  <2>2. s \in {"idle", "cancelled", "timed_out", "failed"} /\ s # "running"
    OBVIOUS
  <2> HIDE DEF s
  <2>3. QueueOK(queue, status)'
    BY <1>3, <2>1, <2>2
  <2>4. SlotsOK(status, activeCount, settling)'
    BY <2>1, <2>2, TurnEndBooks DEF Books
  <2> QED BY <2>3, <2>4 DEF Books
<1>7. CASE TurnFinally(j)
  <2> DEFINE fin == [settling EXCEPT ![j] = @ - 1]
  <2>1. settling[j] > 0 /\ settling' = fin /\ Pump(queue, status, FreedSlots, {})
    BY <1>7 DEF TurnFinally
  <2>2. settling \in [Jobs -> Nat] /\ status \in [Jobs -> Statuses]
    BY DEF TypeOK
  <2>3. fin \in [Jobs -> Nat] /\ SumOf(Jobs, fin) = SumOf(Jobs, settling) - 1
    BY <2>1, <2>2, SumMinus, JobsAssumption
  <2> HIDE DEF fin
  <2>4. FreedSlots = Cardinality(Running(status)) + SumOf(Jobs, fin)
    <3>1. activeCount = Cardinality(Running(status)) + SumOf(Jobs, settling)
      BY DEF Books, SlotsOK
    <3>2. SumOf(Jobs, settling) \in Nat /\ Cardinality(Running(status)) \in Nat
      BY <2>2, SumIsCount, RunningFinite, JobsAssumption
    <3> QED BY <2>3, <3>1, <3>2 DEF FreedSlots
  <2>5. Books(queue, status, FreedSlots, fin)
    BY <2>4 DEF Books, SlotsOK
  <2> QED BY <1>0, <2>1, <2>2, <2>3, <2>5, PumpBooks
<1> QED BY <1>2, <1>5, <1>6, <1>7 DEF TurnStep

\* Every step keeps the queue and the slots.
LEMMA BooksStep ==
    ASSUME TurnInv, Books(queue, status, activeCount, settling), [Next]_vars
    PROVE  Books(queue, status, activeCount, settling)'
<1>0. TypeOK /\ TargetKnown /\ PcStatus
  BY DEF TurnInv
<1>1. ASSUME UNCHANGED <<queue, status, activeCount, settling>> PROVE Books(queue, status, activeCount, settling)'
  BY <1>1 DEF Books, QueueOK, SlotsOK
<1>2. ASSUME NEW j \in Jobs, NEW p \in Jobs \cup {None}, NEW ms \in Grants, Spawn(j, p, ms)
      PROVE  Books(queue, status, activeCount, settling)'
  <2>1. PICK gone \in Evictions :
          Pump(Append(queue, j),
               [x \in Jobs |-> IF x \in gone THEN "evicted"
                               ELSE IF x = j THEN "queued" ELSE status[x]],
               activeCount, {})
    BY <1>2 DEF Spawn
  <2>2. \A x \in gone : x \in Jobs /\ status[x] \in Terminal
    BY <2>1 DEF Evictions, Evictable
  <2>3. status[j] = "unborn" /\ settling' = settling
    BY <1>2 DEF Spawn
  <2> DEFINE st == [x \in Jobs |-> IF x \in gone THEN "evicted"
                                   ELSE IF x = j THEN "queued" ELSE status[x]]
  <2>4. Append(queue, j) \in Seq(Jobs) /\ st \in [Jobs -> Statuses] /\ queue \in Seq(Jobs) /\ settling \in [Jobs -> Nat]
    BY <1>0, AppendProperties DEF TypeOK, Statuses
  <2>5. st[j] = "queued" /\ \A x \in Jobs : x # j => st[x] = status[x] \/ st[x] = "evicted"
    BY <2>2, <2>3 DEF Terminal
  <2>6. \A x \in Jobs : st[x] = "running" <=> status[x] = "running"
    BY <2>2, <2>3 DEF Terminal
  <2>7. Pump(Append(queue, j), st, activeCount, {})
    BY <2>1
  <2> HIDE DEF st
  <2>8. QueueOK(Append(queue, j), st)
    BY <2>3, <2>4, <2>5, JoinQueue DEF Books
  <2>9. SlotsOK(st, activeCount, settling)
    BY <2>6, SlotsRest DEF Books
  <2> QED BY <2>3, <2>4, <2>7, <2>8, <2>9, PumpBooks DEF Books
<1>3. ASSUME NEW j \in Jobs, TurnStep(j) PROVE Books(queue, status, activeCount, settling)'
  BY <1>0, <1>3, TurnBooks
<1>4. ASSUME NEW m \in Messages, MessageStep(m) PROVE Books(queue, status, activeCount, settling)'
  <2>1. CASE SteerAccepted(m) \/ SteerRejected(m)
    BY <1>1, <2>1 DEF SteerAccepted, SteerRejected
  <2>2. CASE SteerDeclined(m)
    <3>1. target[m] \in Jobs /\ Deliver(m, target[m]) /\ settling' = settling
      BY <1>0, <2>2 DEF SteerDeclined, TargetKnown
    <3> QED BY <1>0, <3>1, DeliverBooks
  <2>3. ASSUME NEW j \in Jobs, Message(m, j) PROVE Books(queue, status, activeCount, settling)'
    <3>1. CASE Deliver(m, j)
      BY <1>0, <2>3, <3>1, DeliverBooks DEF Message
    <3>2. CASE ~Deliver(m, j)
      BY <1>1, <2>3, <3>2 DEF Message
    <3> QED BY <3>1, <3>2
  <2> QED BY <1>4, <2>1, <2>2, <2>3 DEF MessageStep
<1>5. ASSUME NEW s \in Stoppers, StopCallStep(s) PROVE Books(queue, status, activeCount, settling)'
  <2>1. CASE StopUnwound(s) \/ StopReturns(s)
    BY <1>1, <2>1 DEF StopUnwound, StopReturns
  <2>2. ASSUME NEW j \in Jobs, StopCalled(s, j) PROVE Books(queue, status, activeCount, settling)'
    <3> DEFINE victims == Descendants(j) \cup {j}
    <3>1. victims \in SUBSET Jobs /\ StopStep(s, victims, j, victims)
      BY <2>2 DEF StopCalled, Descendants
    <3> HIDE DEF victims
    <3> QED BY <1>0, <3>1, StopStepBooks
  <2>3. CASE StopNext(s)
    <3>1. stop[s].todo \in SUBSET Jobs /\ StopStep(s, stop[s].victims, stop[s].root, stop[s].todo)
      BY <1>0, <2>3 DEF StopNext, TypeOK, StopCalls
    <3> QED BY <1>0, <3>1, StopStepBooks
  <2> QED BY <1>5, <2>1, <2>2, <2>3 DEF StopCallStep
<1>6. CASE Close
  <2>1. /\ status' = [j \in Jobs |-> IF InMap(j) /\ status[j] \in {"queued", "idle"} THEN "cancelled" ELSE status[j]]
        /\ activeCount' = activeCount /\ settling' = settling /\ queue' = <<>>
    BY <1>6 DEF Close, StopOne
  <2>2. \A j \in Jobs : (status'[j] = "running" <=> status[j] = "running") /\ status'[j] # "queued"
    BY <2>1 DEF InMap
  <2>3. SlotsOK(status', activeCount, settling)
    BY <2>2, SlotsRest DEF Books
  <2>4. QueueOK(queue', status')
    BY <2>1, <2>2 DEF QueueOK
  <2> QED BY <2>1, <2>3, <2>4 DEF Books, SlotsOK
<1>7. CASE CloseReturns \/ UNCHANGED vars
  BY <1>1, <1>7 DEF CloseReturns, vars
<1> QED BY <1>2, <1>3, <1>4, <1>5, <1>6, <1>7 DEF Next

-----------------------------------------------------------------------------
\* What the books say of the queue and of the slots.
LEMMA BooksBalanced ==
    ASSUME TypeOK, PcStatus, Books(queue, status, activeCount, settling)
    PROVE  Accounting
<1>1. ASSUME NEW j \in Jobs, status[j] = "queued" PROVE Cardinality(Occurrences(queue, j)) = 1
  <2>1. PICK i \in 1..Len(queue) : queue[i] = j
    BY <1>1 DEF Books, QueueOK
  <2>2. Occurrences(queue, j) = {i}
    BY <2>1 DEF Occurrences, Books, QueueOK
  <2> QED BY <2>2, FS_Singleton
<1>2. QueueExact
  BY <1>1 DEF QueueExact, Books, QueueOK
<1>3. SlotsAccounted
  <2>1. \A j \in Jobs : (status[j] = "running") <=> (pc[j] # "none")
    BY DEF PcStatus
  <2>2. activeCount = Cardinality({j \in Jobs : status[j] = "running"}) + SumOf(Jobs, settling)
    BY DEF Books, SlotsOK, Running
  <2> QED BY <2>1, <2>2 DEF SlotsAccounted, SumOf, SumStep, AnyOf
<1> QED BY <1>2, <1>3 DEF Accounting

\* The inductive invariant behind TreeConsistent.
BookInv == TurnInv /\ StopsOK /\ CloseOK /\ Books(queue, status, activeCount, settling)

LEMMA InitBookInv == Init => BookInv
<1> SUFFICES ASSUME Init PROVE BookInv
  OBVIOUS
<1>1. TurnInv
  BY InitTurnInv
<1>2. StopsOK
  <2>1. PICK c : c = [phase |-> "idle", root |-> None, victims |-> {}, todo |-> {}, at |-> None]
    OBVIOUS
  <2>2. c.phase = "idle" /\ c.victims = {} /\ c.todo = {}
    BY <2>1
  <2>3. StopCallOK(c)
    BY <2>2 DEF StopCallOK
  <2>4. \A s \in Stoppers : stop[s] = c
    BY <2>1 DEF Init
  <2> QED BY <2>3, <2>4 DEF StopsOK
<1>3. CloseOK
  BY DEF Init, CloseOK, Closed
<1>4. QueueOK(queue, status)
  BY DEF Init, QueueOK
<1>5. SlotsOK(status, activeCount, settling)
  <2>1. Running(status) = {} /\ settling = [x \in Jobs |-> 0] /\ activeCount = 0
    BY DEF Init, Running
  <2>2. SumOf(Jobs, settling) = 0 /\ Cardinality(Running(status)) = 0
    BY <2>1, SumOfZero, FS_EmptySet, JobsAssumption
  <2> QED BY <2>1, <2>2 DEF SlotsOK
<1> QED BY <1>1, <1>2, <1>3, <1>4, <1>5 DEF BookInv, Books

LEMMA NextBookInv == BookInv /\ [Next]_vars => BookInv'
<1> SUFFICES ASSUME BookInv, [Next]_vars PROVE BookInv'
  OBVIOUS
<1>1. TurnInv /\ StopsOK /\ CloseOK /\ Books(queue, status, activeCount, settling)
  BY DEF BookInv
<1>2. TurnInv'
  BY <1>1, NextTurnInv
<1>3. StopsOK'
  BY <1>1, StopsStep
<1>4. CloseOK'
  BY <1>1, CloseStep
<1>5. Books(queue, status, activeCount, settling)'
  BY <1>1, BooksStep
<1> QED BY <1>2, <1>3, <1>4, <1>5 DEF BookInv

\* The coordinator's books balance, for any number of jobs, calls of message()
\* and stop() and any limits: a queued job has exactly one queue entry, activeCount
\* is the number of running turns plus the finished ones whose .finally has not
\* run, stop() leaves only ended victims behind it, and close() returns with
\* every conversation over and every principal released that could be.
THEOREM TreeConsistentTheorem == Spec => []TreeConsistent
<1>1. BookInv => TreeConsistent
  <2> SUFFICES ASSUME BookInv PROVE TreeConsistent
    OBVIOUS
  <2>1. TypeOK /\ PcStatus /\ TurnInv /\ StopsOK /\ CloseOK /\ Books(queue, status, activeCount, settling)
    BY DEF BookInv, TurnInv
  <2>2. StopOrder /\ CloseComplete /\ Accounting
    BY <2>1, StopsOrdered, ClosedComplete, BooksBalanced
  <2> QED BY <2>1, <2>2 DEF TreeConsistent
<1> QED BY <1>1, InitBookInv, NextBookInv, PTL DEF Spec

-----------------------------------------------------------------------------
(* Follow-ups                                                              *)

Absent(q, m) == \A i \in 1..Len(q) : q[i] # m
Once(q, m) == \E i \in 1..Len(q) : q[i] = m /\ \A k \in 1..Len(q) : q[k] = m => k = i

\* A message is in none of the three inboxes of a job, or once in one of them.
Nowhere(j, m) == Absent(pendingSteering[j], m) /\ Absent(steering[j], m) /\ Absent(queuedTasks[j], m)
Exactly(j, m) ==
    \/ Once(pendingSteering[j], m) /\ Absent(steering[j], m) /\ Absent(queuedTasks[j], m)
    \/ Absent(pendingSteering[j], m) /\ Once(steering[j], m) /\ Absent(queuedTasks[j], m)
    \/ Absent(pendingSteering[j], m) /\ Absent(steering[j], m) /\ Once(queuedTasks[j], m)

\* Only the target of a message that is held may have it, and a target that has
\* not ended will look there or is unwinding.
Elsewhere(m) == \A j \in Jobs : (msg[m] = "held" => target[m] # j) => Nowhere(j, m)
Unwinds(j) == pc[j] \in {"failing", "aborting"}
Waited(j, m) == status[j] \in {"queued", "running"} /\ (Unwinds(j) \/ Exactly(j, m))
Kept(m) == msg[m] = "held" => target[m] \in Jobs /\ (Gone(target[m]) \/ Waited(target[m], m))

\* A turn steers only while it prompts, and then nothing waits for its session.
Inboxes(j) ==
    /\ steering[j] # <<>> => pc[j] = "prompting"
    /\ pc[j] = "prompting" => pendingSteering[j] = <<>> /\ j \in session

MessagesKept == \A m \in Messages : Elsewhere(m) /\ Kept(m)
InboxInv == TurnInv /\ MessagesKept /\ \A j \in Jobs : Inboxes(j)

LEMMA EmptyInbox == ASSUME NEW m PROVE Absent(<<>>, m) /\ ~Once(<<>>, m)
BY DEF Absent, Once

LEMMA AppendInbox ==
    ASSUME NEW q \in Seq(Messages), NEW x \in Messages, NEW m
    PROVE  /\ x # m => (Absent(q, m) => Absent(Append(q, x), m)) /\ (Once(q, m) => Once(Append(q, x), m))
           /\ Absent(q, x) => Once(Append(q, x), x)
<1> DEFINE r == Append(q, x)
<1>1. Len(q) \in Nat /\ Len(r) = Len(q) + 1 /\ r[Len(q) + 1] = x /\ \A i \in 1..Len(q) : r[i] = q[i]
  OBVIOUS
<1>2. /\ \A i \in 1..Len(r) : i \in 1..Len(q) \/ i = Len(q) + 1
      /\ Len(q) + 1 \in 1..Len(r) /\ 1..Len(q) \subseteq 1..Len(r)
  BY <1>1
<1> HIDE DEF r
<1>3. ASSUME x # m, Absent(q, m) PROVE Absent(r, m)
  BY <1>1, <1>2, <1>3 DEF Absent
<1>4. ASSUME x # m, Once(q, m) PROVE Once(r, m)
  BY <1>1, <1>2, <1>4 DEF Once
<1>5. ASSUME Absent(q, x) PROVE Once(r, x)
  BY <1>1, <1>2, <1>5 DEF Once, Absent
<1> QED BY <1>3, <1>4, <1>5 DEF r

LEMMA TailInbox ==
    ASSUME NEW q \in Seq(Messages), q # <<>>, NEW m
    PROVE  /\ Absent(q, m) => Absent(Tail(q), m)
           /\ Head(q) # m /\ Once(q, m) => Once(Tail(q), m)
           /\ Once(q, Head(q)) => Absent(Tail(q), Head(q))
           /\ ~Absent(q, Head(q)) /\ Head(q) \in Messages
<1> DEFINE r == Tail(q)
           h == Head(q)
<1>1. Len(q) \in Nat /\ Len(q) # 0 /\ h = q[1] /\ h \in Messages /\ Len(r) = Len(q) - 1 /\ \A i \in 1..Len(r) : r[i] = q[i + 1]
  OBVIOUS
<1>2. /\ 1 \in 1..Len(q) /\ \A i \in 1..Len(r) : i + 1 \in 1..Len(q) /\ i + 1 # 1
      /\ \A i \in 1..Len(q) : i = 1 \/ (i - 1 \in 1..Len(r) /\ (i - 1) + 1 = i)
      /\ \A i, k \in 1..Len(r) : i + 1 = k + 1 => i = k
  BY <1>1
<1> HIDE DEF r, h
<1>3. ASSUME Absent(q, m) PROVE Absent(r, m)
  BY <1>1, <1>2, <1>3 DEF Absent
<1>4. ASSUME h # m, Once(q, m) PROVE Once(r, m)
  <2>1. PICK i \in 1..Len(q) : q[i] = m /\ \A k \in 1..Len(q) : q[k] = m => k = i
    BY <1>4 DEF Once
  <2>2. i - 1 \in 1..Len(r) /\ (i - 1) + 1 = i
    BY <1>1, <1>2, <1>4, <2>1
  <2>3. r[i - 1] = m
    BY <1>1, <2>1, <2>2
  <2>4. ASSUME NEW k \in 1..Len(r), r[k] = m PROVE k = i - 1
    <3>1. k + 1 = i
      BY <1>1, <1>2, <2>1, <2>4
    <3> QED BY <3>1, <1>1, <2>4
  <2> QED BY <2>2, <2>3, <2>4 DEF Once
<1>5. ASSUME Once(q, h) PROVE Absent(r, h)
  BY <1>1, <1>2, <1>5 DEF Once, Absent
<1>6. ~Absent(q, h)
  BY <1>1, <1>2 DEF Absent
<1> QED BY <1>1, <1>3, <1>4, <1>5, <1>6 DEF r, h

\* What SteeringSettled appends: the declined positions d of the calls s, in order.
Picks(d, n, s) == d \in [1..n -> 1..Len(s)] /\ \A a, b \in 1..n : a < b => d[a] < d[b]
Extends(r, q, s, d, n) ==
    /\ Len(r) = Len(q) + n
    /\ \A i \in 1..(Len(q) + n) : r[i] = IF i <= Len(q) THEN q[i] ELSE s[d[i - Len(q)]]
Inherits(r, q, s, d, n, m) ==
    /\ Absent(q, m) /\ (\A a \in 1..n : s[d[a]] # m) => Absent(r, m)
    /\ Once(q, m) /\ (\A a \in 1..n : s[d[a]] # m) => Once(r, m)
    /\ Absent(q, m) /\ Once(s, m) /\ (\E a \in 1..n : s[d[a]] = m) => Once(r, m)

\* A message is in the extended inbox as often as in the old one and among the
\* declined calls together.
LEMMA DeclinedInbox ==
    ASSUME NEW q \in Seq(Messages), NEW s \in Seq(Messages), NEW n \in Nat, NEW d, Picks(d, n, s),
           NEW m, NEW r, Extends(r, q, s, d, n)
    PROVE  Inherits(r, q, s, d, n, m)
<1>1. d \in [1..n -> 1..Len(s)] /\ \A a, b \in 1..n : a < b => d[a] < d[b]
  BY DEF Picks
<1>2. /\ Len(q) \in Nat /\ Len(r) = Len(q) + n
      /\ \A i \in 1..(Len(q) + n) : r[i] = IF i <= Len(q) THEN q[i] ELSE s[d[i - Len(q)]]
  BY DEF Extends
<1>3. /\ \A i \in 1..Len(q) : i \in 1..Len(r) /\ r[i] = q[i]
      /\ \A a \in 1..n : Len(q) + a \in 1..Len(r) /\ r[Len(q) + a] = s[d[a]]
  <2>1. ASSUME NEW i \in 1..Len(q) PROVE i \in 1..Len(r) /\ r[i] = q[i]
    BY <1>2, <2>1
  <2>2. ASSUME NEW a \in 1..n PROVE Len(q) + a \in 1..Len(r) /\ r[Len(q) + a] = s[d[a]]
    <3>1. Len(q) + a \in 1..(Len(q) + n) /\ ~(Len(q) + a <= Len(q)) /\ (Len(q) + a) - Len(q) = a
      BY <1>2, <2>2
    <3> QED BY <1>2, <3>1
  <2> QED BY <2>1, <2>2
<1>4. \A k \in 1..Len(r) : \/ k \in 1..Len(q) /\ r[k] = q[k]
                          \/ \E a \in 1..n : k = Len(q) + a /\ r[k] = s[d[a]]
  <2> SUFFICES ASSUME NEW k \in 1..Len(r), k \notin 1..Len(q)
               PROVE  \E a \in 1..n : k = Len(q) + a /\ r[k] = s[d[a]]
    BY <1>3
  <2>1. k - Len(q) \in 1..n /\ k = Len(q) + (k - Len(q))
    BY <1>2
  <2>2. PICK a \in 1..n : k = Len(q) + a
    BY <2>1
  <2> QED BY <1>3, <2>2
<1>5. ASSUME Absent(q, m), \A a \in 1..n : s[d[a]] # m PROVE Absent(r, m)
  <2>1. ASSUME NEW k \in 1..Len(r) PROVE r[k] # m
    <3>1. CASE k \in 1..Len(q) /\ r[k] = q[k]
      BY <1>5, <3>1 DEF Absent
    <3>2. ASSUME NEW a \in 1..n, r[k] = s[d[a]] PROVE r[k] # m
      BY <1>5, <3>2
    <3> QED BY <1>4, <3>1, <3>2
  <2> QED BY <2>1 DEF Absent
<1>6. ASSUME Once(q, m), \A a \in 1..n : s[d[a]] # m PROVE Once(r, m)
  <2>1. PICK i \in 1..Len(q) : q[i] = m /\ \A k \in 1..Len(q) : q[k] = m => k = i
    BY <1>6 DEF Once
  <2>2. i \in 1..Len(r) /\ r[i] = m
    BY <1>3, <2>1
  <2>3. ASSUME NEW k \in 1..Len(r), r[k] = m PROVE k = i
    <3>1. CASE k \in 1..Len(q) /\ r[k] = q[k]
      BY <2>1, <2>3, <3>1
    <3>2. ASSUME NEW a \in 1..n, r[k] = s[d[a]] PROVE FALSE
      BY <1>6, <2>3, <3>2
    <3> QED BY <1>4, <3>1, <3>2
  <2> QED BY <2>2, <2>3 DEF Once
<1>7. ASSUME Absent(q, m), Once(s, m), NEW a \in 1..n, s[d[a]] = m PROVE Once(r, m)
  <2>1. \A b \in 1..n : s[d[b]] = m => b = a
    <3> SUFFICES ASSUME NEW b \in 1..n, s[d[b]] = m, b # a PROVE FALSE
      OBVIOUS
    <3>1. d[a] = d[b]
      BY <1>1, <1>7 DEF Once
    <3>2. a < b \/ b < a
      OBVIOUS
    <3>3. d[a] \in Nat /\ d[b] \in Nat
      BY <1>1
    <3>4. d[a] < d[b] \/ d[b] < d[a]
      BY <1>1, <3>2
    <3> QED BY <3>1, <3>3, <3>4
  <2>2. Len(q) + a \in 1..Len(r) /\ r[Len(q) + a] = m
    BY <1>3, <1>7
  <2>3. ASSUME NEW k \in 1..Len(r), r[k] = m PROVE k = Len(q) + a
    <3>1. ~(k \in 1..Len(q) /\ r[k] = q[k])
      BY <1>7, <2>3 DEF Absent
    <3>2. PICK b \in 1..n : k = Len(q) + b /\ r[k] = s[d[b]]
      BY <1>4, <3>1
    <3>3. b = a
      BY <2>1, <2>3, <3>2
    <3> QED BY <3>2, <3>3
  <2> QED BY <2>2, <2>3 DEF Once
<1> QED BY <1>5, <1>6, <1>7 DEF Inherits

-----------------------------------------------------------------------------
\* What a step leaves a message n at a job j, if it does not deliver it.
Rests(j, n) ==
    /\ Gone(j) => Gone(j)'
    /\ status[j] \in {"queued", "running"} => Gone(j)' \/ status'[j] \in {"queued", "running"}
    /\ Unwinds(j) => Gone(j)' \/ Unwinds(j)'
    /\ Exactly(j, n) => Gone(j)' \/ Unwinds(j)' \/ Exactly(j, n)'

LEMMA RestsKept ==
    ASSUME NEW n \in Messages, Elsewhere(n), Kept(n), msg'[n] = msg[n], target'[n] = target[n],
           \A j \in Jobs : Nowhere(j, n) => Nowhere(j, n)',
           msg[n] = "held" => Rests(target[n], n)
    PROVE  Elsewhere(n)' /\ Kept(n)'
<1>1. Elsewhere(n)'
  BY DEF Elsewhere
<1>2. Kept(n)'
  <2> SUFFICES ASSUME msg[n] = "held" PROVE target[n] \in Jobs /\ (Gone(target[n])' \/ Waited(target[n], n)')
    BY DEF Kept, Gone, Waited, Unwinds, Exactly
  <2>1. PICK j \in Jobs : j = target[n]
    BY DEF Kept
  <2>2. Rests(j, n) /\ (Gone(j) \/ Waited(j, n)) /\ j = target'[n]
    BY <2>1 DEF Kept
  <2>3. Gone(j)' \/ Waited(j, n)'
    BY <2>2 DEF Rests, Waited
  <2> QED BY <2>1, <2>2, <2>3
<1> QED BY <1>1, <1>2

\* Inboxes that do not change, or that a turn takes over, keep their messages.
LEMMA SameInboxes ==
    ASSUME NEW j \in Jobs, NEW n,
           pendingSteering'[j] = pendingSteering[j], steering'[j] = steering[j], queuedTasks'[j] = queuedTasks[j]
    PROVE  (Nowhere(j, n) => Nowhere(j, n)') /\ (Exactly(j, n) => Exactly(j, n)')
BY DEF Nowhere, Exactly

LEMMA MovedInboxes ==
    ASSUME NEW j \in Jobs, NEW n, steering[j] = <<>>,
           pendingSteering'[j] = <<>>, steering'[j] = pendingSteering[j], queuedTasks'[j] = queuedTasks[j]
    PROVE  (Nowhere(j, n) => Nowhere(j, n)') /\ (Exactly(j, n) => Exactly(j, n)')
BY EmptyInbox DEF Nowhere, Exactly

LEMMA ClearedInboxes ==
    ASSUME NEW j \in Jobs, NEW n,
           pendingSteering'[j] \in {pendingSteering[j], <<>>}, steering'[j] \in {steering[j], <<>>},
           queuedTasks'[j] \in {queuedTasks[j], <<>>}
    PROVE  Nowhere(j, n) => Nowhere(j, n)'
BY EmptyInbox DEF Nowhere

\* What a step that delivers no message may do to a job.
Undelivered(j) ==
    /\ Gone(j) => Gone(j)'
    /\ status[j] \in {"queued", "running"} => Gone(j)' \/ status'[j] \in {"queued", "running"}
    /\ Unwinds(j) => Gone(j)' \/ Unwinds(j)'
    /\ \/ pendingSteering'[j] = pendingSteering[j] /\ steering'[j] = steering[j] /\ queuedTasks'[j] = queuedTasks[j]
       \/ /\ steering[j] = <<>> /\ queuedTasks'[j] = queuedTasks[j]
          /\ pendingSteering'[j] = <<>> /\ steering'[j] = pendingSteering[j]
       \/ /\ Gone(j)' \/ Unwinds(j)'
          /\ pendingSteering'[j] \in {pendingSteering[j], <<>>} /\ steering'[j] \in {steering[j], <<>>}
          /\ queuedTasks'[j] \in {queuedTasks[j], <<>>}
    /\ Inboxes(j)'

LEMMA UndeliveredRests ==
    ASSUME NEW j \in Jobs, NEW n, Undelivered(j)
    PROVE  Rests(j, n) /\ (Nowhere(j, n) => Nowhere(j, n)')
<1>1. CASE pendingSteering'[j] = pendingSteering[j] /\ steering'[j] = steering[j] /\ queuedTasks'[j] = queuedTasks[j]
  BY <1>1, SameInboxes DEF Undelivered, Rests
<1>2. CASE /\ steering[j] = <<>> /\ queuedTasks'[j] = queuedTasks[j]
           /\ pendingSteering'[j] = <<>> /\ steering'[j] = pendingSteering[j]
  BY <1>2, MovedInboxes DEF Undelivered, Rests
<1>3. CASE /\ Gone(j)' \/ Unwinds(j)'
           /\ pendingSteering'[j] \in {pendingSteering[j], <<>>} /\ steering'[j] \in {steering[j], <<>>}
           /\ queuedTasks'[j] \in {queuedTasks[j], <<>>}
  BY <1>3, ClearedInboxes DEF Undelivered, Rests
<1> QED BY <1>1, <1>2, <1>3 DEF Undelivered

LEMMA NothingDelivered ==
    ASSUME InboxInv, \A j \in Jobs : Undelivered(j), UNCHANGED msgVars
    PROVE  MessagesKept' /\ \A j \in Jobs : Inboxes(j)'
<1>1. \A j \in Jobs : Inboxes(j)'
  BY DEF Undelivered
<1>2. ASSUME NEW n \in Messages PROVE Elsewhere(n)' /\ Kept(n)'
  <2>1. Elsewhere(n) /\ Kept(n) /\ msg'[n] = msg[n] /\ target'[n] = target[n]
    BY DEF InboxInv, MessagesKept, msgVars
  <2>2. \A j \in Jobs : Rests(j, n) /\ (Nowhere(j, n) => Nowhere(j, n)')
    BY UndeliveredRests
  <2>3. msg[n] = "held" => Rests(target[n], n)
    BY <2>1, <2>2 DEF Kept
  <2> QED BY <2>1, <2>2, <2>3, RestsKept
<1> QED BY <1>1, <1>2 DEF MessagesKept

\* pump() delivers nothing: a job that starts a turn hands over its inbox.
LEMMA PumpUndelivered ==
    ASSUME InboxInv, NEW q \in Seq(Jobs), NEW st \in [Jobs -> Statuses], NEW ac, NEW fresh,
           Pump(q, st, ac, fresh), queuedTasks' = queuedTasks, NEW j \in Jobs,
           st[j] = "queued" => status[j] \in {"unborn", "queued", "idle"},
           Gone(j) => st[j] \in Terminal \cup {"evicted"},
           status[j] = "queued" => st[j] = "queued", status[j] = "running" => st[j] = "running"
    PROVE  Undelivered(j)
<1>1. PICK k \in 0..Len(q) : StartTurns(q, st, ac, fresh, k)
  BY DEF Pump
<1> DEFINE started == StartedIn(q, st, k)
<1>2. \A x \in started : st[x] = "queued"
  BY DEF StartedIn
<1>3. /\ status' = [x \in Jobs |-> IF x \in started THEN "running" ELSE st[x]]
      /\ pc' = [x \in Jobs |-> IF x \in started \cap session THEN "prompting"
                               ELSE IF x \in started THEN "creating" ELSE pc[x]]
      /\ steering' = [x \in Jobs |-> IF x \in started \cap session THEN pendingSteering[x] ELSE steering[x]]
      /\ pendingSteering' = [x \in Jobs |-> IF x \in started \cap session THEN <<>> ELSE pendingSteering[x]]
      /\ session' = session
  BY <1>1 DEF StartTurns
<1> HIDE DEF started
<1>4. Inboxes(j) /\ PcStatus /\ TypeOK
  BY DEF InboxInv, TurnInv
<1>5. j \in started => st[j] = "queued" /\ pc[j] = "none" /\ steering[j] = <<>>
  BY <1>2, <1>4 DEF PcStatus, Inboxes
<1>6. Inboxes(j)'
  BY <1>3, <1>4, <1>5 DEF Inboxes
<1>7. /\ Gone(j) => Gone(j)'
      /\ status[j] \in {"queued", "running"} => Gone(j)' \/ status'[j] \in {"queued", "running"}
  BY <1>3, <1>5 DEF Gone, Terminal
<1>8. Unwinds(j) => Unwinds(j)'
  BY <1>3, <1>5 DEF Unwinds
<1>9. \/ pendingSteering'[j] = pendingSteering[j] /\ steering'[j] = steering[j] /\ queuedTasks'[j] = queuedTasks[j]
      \/ /\ steering[j] = <<>> /\ queuedTasks'[j] = queuedTasks[j]
         /\ pendingSteering'[j] = <<>> /\ steering'[j] = pendingSteering[j]
  BY <1>3, <1>5
<1> QED BY <1>6, <1>7, <1>8, <1>9 DEF Undelivered

LEMMA UntouchedJob ==
    ASSUME NEW j \in Jobs, Inboxes(j), status'[j] = status[j], pc'[j] = pc[j], j \in session => j \in session',
           pendingSteering'[j] = pendingSteering[j], steering'[j] = steering[j], queuedTasks'[j] = queuedTasks[j]
    PROVE  Undelivered(j)
<1>1. Inboxes(j)'
  BY DEF Inboxes
<1>2. (Gone(j) <=> Gone(j)') /\ (Unwinds(j) <=> Unwinds(j)')
  BY DEF Gone, Unwinds
<1> QED BY <1>1, <1>2 DEF Undelivered

\* stopOne() delivers nothing: a job it cancels gives up its inbox.
LEMMA StopOneUndelivered ==
    ASSUME InboxInv, NEW S, StopOne(S), NEW j \in Jobs
    PROVE  Undelivered(j)
<1>0. TypeOK /\ PcStatus /\ Inboxes(j)
  BY DEF InboxInv, TurnInv
<1> DEFINE cancelled == j \in S /\ status[j] \in {"queued", "idle"}
<1>1. /\ status'[j] = (IF cancelled THEN "cancelled" ELSE status[j])
      /\ pendingSteering'[j] = (IF cancelled THEN <<>> ELSE pendingSteering[j])
      /\ queuedTasks'[j] = (IF cancelled THEN <<>> ELSE queuedTasks[j])
      /\ steering'[j] = steering[j] /\ pc'[j] = pc[j]
      /\ j \in session => cancelled \/ j \in session'
  BY DEF StopOne, DisposeSession
<1>2. CASE cancelled
  <2>1. Gone(j)' /\ pc[j] = "none"
    BY <1>0, <1>1, <1>2 DEF Gone, Terminal, PcStatus
  <2>2. Inboxes(j)'
    BY <1>0, <1>1, <2>1 DEF Inboxes
  <2> QED BY <1>1, <1>2, <2>1, <2>2 DEF Undelivered
<1>3. CASE ~cancelled
  BY <1>0, <1>1, <1>3, UntouchedJob
<1> QED BY <1>2, <1>3

\* Every part of a turn but its steering and its success.
LEMMA TurnUndelivered ==
    ASSUME InboxInv, NEW i \in Jobs, NEW j \in Jobs,
           \/ SessionCreated(i) \/ TurnFails(i) \/ TurnTimesOut(i) \/ AbortSettles(i) \/ TurnUnwinds(i) \/ TurnFinally(i)
    PROVE  Undelivered(j) /\ UNCHANGED msgVars
<1>0. TypeOK /\ PcStatus /\ Inboxes(j) /\ Inboxes(i)
  BY DEF InboxInv, TurnInv
<1>1. UNCHANGED msgVars
  BY DEF SessionCreated, TurnFails, TurnTimesOut, AbortSettles, TurnUnwinds, TurnFinally
<1>2. CASE SessionCreated(i)
  <2>1. pc[i] = "creating" /\ steering[i] = <<>> /\ status[i] = "running"
    BY <1>0, <1>2 DEF SessionCreated, Inboxes, PcStatus
  <2>2. status' = status /\ queuedTasks' = queuedTasks /\ session' = session \cup {i}
    BY <1>2 DEF SessionCreated
  <2>3. CASE j # i
    <3>1. pc'[j] = pc[j] /\ pendingSteering'[j] = pendingSteering[j] /\ steering'[j] = steering[j]
      BY <1>0, <1>2, <2>3 DEF SessionCreated, TypeOK
    <3> QED BY <1>1, <1>0, <2>2, <3>1, UntouchedJob
  <2>4. CASE j = i
    <3>1. \/ pc'[j] = "aborting" /\ pendingSteering'[j] = pendingSteering[j] /\ steering'[j] = steering[j]
          \/ pc'[j] = "prompting" /\ pendingSteering'[j] = <<>> /\ steering'[j] = pendingSteering[j]
      BY <1>0, <1>2, <2>4 DEF SessionCreated, TypeOK
    <3>2. Inboxes(j)'
      BY <2>1, <2>2, <2>4, <3>1 DEF Inboxes
    <3>3. (Gone(j) => Gone(j)') /\ ~Unwinds(j) /\ status'[j] = "running"
      BY <2>1, <2>2, <2>4 DEF Gone, Unwinds
    <3> QED BY <1>1, <2>1, <2>2, <2>4, <3>1, <3>2, <3>3 DEF Undelivered
  <2> QED BY <1>1, <2>3, <2>4
<1>3. CASE TurnFails(i)
  <2>1. /\ status' = status /\ queuedTasks' = queuedTasks /\ pendingSteering' = pendingSteering /\ session' = session
        /\ pc' = [pc EXCEPT ![i] = Caught(i)] /\ steering' = [steering EXCEPT ![i] = <<>>]
    BY <1>3 DEF TurnFails
  <2>2. CASE j # i
    <3>1. pc'[j] = pc[j] /\ steering'[j] = steering[j]
      BY <1>0, <2>1, <2>2 DEF TypeOK
    <3> QED BY <1>1, <1>0, <2>1, <3>1, UntouchedJob
  <2>3. CASE j = i
    <3>1. Unwinds(j)' /\ steering'[j] = <<>>
      BY <1>0, <2>1, <2>3 DEF TypeOK, Caught, Unwinds
    <3>2. Inboxes(j)'
      BY <3>1 DEF Inboxes, Unwinds
    <3>3. Gone(j) <=> Gone(j)'
      BY <2>1 DEF Gone
    <3> QED BY <1>1, <2>1, <3>1, <3>2, <3>3 DEF Undelivered
  <2> QED BY <1>1, <2>2, <2>3
<1>4. CASE TurnTimesOut(i) \/ AbortSettles(i)
  <2>1. UNCHANGED <<status, pc, session, pendingSteering, steering, queuedTasks>>
    BY <1>4 DEF TurnTimesOut, AbortSettles, inboxVars
  <2> QED BY <1>0, <1>1, <2>1, UntouchedJob
<1>5. CASE TurnUnwinds(i)
  <2>1. /\ status' = [status EXCEPT ![i] = IF i \in timedOut THEN "timed_out"
                                           ELSE IF i \in stopRequested \cup aborted THEN "cancelled" ELSE "failed"]
        /\ pc' = [pc EXCEPT ![i] = "none"] /\ pendingSteering' = [pendingSteering EXCEPT ![i] = <<>>]
        /\ queuedTasks' = [queuedTasks EXCEPT ![i] = <<>>] /\ steering' = steering /\ session' = session \ {i}
        /\ pc[i] # "prompting"
    BY <1>5 DEF TurnUnwinds, DisposeSession
  <2>2. CASE j # i
    <3>1. status'[j] = status[j] /\ pc'[j] = pc[j] /\ pendingSteering'[j] = pendingSteering[j]
          /\ queuedTasks'[j] = queuedTasks[j] /\ (j \in session => j \in session')
      BY <1>0, <2>1, <2>2 DEF TypeOK
    <3> QED BY <1>1, <1>0, <2>1, <3>1, UntouchedJob
  <2>3. CASE j = i
    <3>1. /\ status'[j] \in Terminal /\ pc'[j] = "none" /\ pendingSteering'[j] = <<>> /\ queuedTasks'[j] = <<>>
          /\ steering'[j] = <<>> /\ steering[j] = <<>>
      BY <1>0, <2>1, <2>3 DEF TypeOK, Terminal, Inboxes
    <3>2. Inboxes(j)' /\ Gone(j)'
      BY <3>1 DEF Inboxes, Gone
    <3> QED BY <1>1, <3>1, <3>2 DEF Undelivered
  <2> QED BY <1>1, <2>2, <2>3
<1>6. CASE TurnFinally(i)
  <2>1. Pump(queue, status, FreedSlots, {}) /\ queuedTasks' = queuedTasks
    BY <1>6 DEF TurnFinally
  <2>2. queue \in Seq(Jobs) /\ status \in [Jobs -> Statuses]
    BY <1>0 DEF TypeOK
  <2>3. Undelivered(j)
    BY <2>1, <2>2, PumpUndelivered DEF Gone
  <2> QED BY <1>1, <2>3
<1> QED BY <1>2, <1>3, <1>4, <1>5, <1>6

-----------------------------------------------------------------------------
\* A message that was not held is not held afterwards either.
LEMMA NotHeld ==
    ASSUME InboxInv, NEW m \in Messages, msg[m] # "held", msg'[m] # "held",
           \A n \in Messages : n # m => msg'[n] = msg[n] /\ target'[n] = target[n],
           \A x \in Jobs : Undelivered(x)
    PROVE  MessagesKept' /\ \A x \in Jobs : Inboxes(x)'
<1>1. \A x \in Jobs : Inboxes(x)'
  BY DEF Undelivered
<1>2. ASSUME NEW n \in Messages PROVE Elsewhere(n)' /\ Kept(n)'
  <2>1. Elsewhere(n) /\ Kept(n)
    BY DEF InboxInv, MessagesKept
  <2>2. \A j \in Jobs : Rests(j, n) /\ (Nowhere(j, n) => Nowhere(j, n)')
    BY UndeliveredRests
  <2>3. CASE n = m
    BY <2>1, <2>2, <2>3 DEF Elsewhere, Kept
  <2>4. CASE n # m
    <3>1. msg[n] = "held" => Rests(target[n], n)
      BY <2>1, <2>2 DEF Kept
    <3> QED BY <2>1, <2>2, <2>4, <3>1, RestsKept
  <2> QED BY <2>3, <2>4
<1> QED BY <1>1, <1>2 DEF MessagesKept

\* A message enters one of the inboxes of a job that will look there.
LEMMA NowHeld ==
    ASSUME InboxInv, NEW m \in Messages, NEW j \in Jobs, msg[m] # "held", msg'[m] = "held", target'[m] = j,
           \A n \in Messages : n # m => msg'[n] = msg[n] /\ target'[n] = target[n],
           status[j] \in {"queued", "running"}, UNCHANGED <<status, pc, session, steering>>,
           \/ /\ pendingSteering' = [pendingSteering EXCEPT ![j] = Append(@, m)] /\ queuedTasks' = queuedTasks
              /\ pc[j] # "prompting"
           \/ pendingSteering' = pendingSteering /\ queuedTasks' = [queuedTasks EXCEPT ![j] = Append(@, m)]
    PROVE  MessagesKept' /\ \A x \in Jobs : Inboxes(x)'
<1>0. TypeOK /\ MessagesKept /\ \A x \in Jobs : Inboxes(x)
  BY DEF InboxInv, TurnInv
<1>1. /\ pendingSteering[j] \in Seq(Messages) /\ queuedTasks[j] \in Seq(Messages)
      /\ \A x \in Jobs : x # j => pendingSteering'[x] = pendingSteering[x] /\ queuedTasks'[x] = queuedTasks[x]
      /\ \/ /\ pendingSteering'[j] = Append(pendingSteering[j], m) /\ queuedTasks'[j] = queuedTasks[j]
            /\ pc[j] # "prompting"
         \/ pendingSteering'[j] = pendingSteering[j] /\ queuedTasks'[j] = Append(queuedTasks[j], m)
      /\ steering'[j] = steering[j]
  BY <1>0 DEF TypeOK
<1>2. ASSUME NEW x \in Jobs PROVE Inboxes(x)'
  BY <1>0, <1>1 DEF Inboxes
<1>3. ASSUME NEW n \in Messages, n # m PROVE Elsewhere(n)' /\ Kept(n)'
  <2>1. Elsewhere(n) /\ Kept(n) /\ msg'[n] = msg[n] /\ target'[n] = target[n]
    BY <1>0, <1>3 DEF MessagesKept
  <2>2. ASSUME NEW x \in Jobs PROVE (Nowhere(x, n) => Nowhere(x, n)') /\ (Exactly(x, n) => Exactly(x, n)')
    <3>1. CASE x # j
      BY <1>1, <3>1, SameInboxes
    <3>2. CASE x = j
      <4>1. /\ Absent(pendingSteering[j], n) => Absent(Append(pendingSteering[j], m), n)
            /\ Once(pendingSteering[j], n) => Once(Append(pendingSteering[j], m), n)
            /\ Absent(queuedTasks[j], n) => Absent(Append(queuedTasks[j], m), n)
            /\ Once(queuedTasks[j], n) => Once(Append(queuedTasks[j], m), n)
        BY <1>1, <1>3, AppendInbox
      <4>2. CASE pendingSteering'[j] = Append(pendingSteering[j], m) /\ queuedTasks'[j] = queuedTasks[j]
        BY <1>1, <3>2, <4>1, <4>2 DEF Nowhere, Exactly
      <4>3. CASE pendingSteering'[j] = pendingSteering[j] /\ queuedTasks'[j] = Append(queuedTasks[j], m)
        BY <1>1, <3>2, <4>1, <4>3 DEF Nowhere, Exactly
      <4> QED BY <1>1, <4>2, <4>3
    <3> QED BY <3>1, <3>2
  <2>3. msg[n] = "held" => Rests(target[n], n)
    BY <2>1, <2>2 DEF Kept, Rests, Gone, Unwinds
  <2> QED BY <2>1, <2>2, <2>3, RestsKept
<1>4. Elsewhere(m)' /\ Kept(m)'
  <2>1. \A x \in Jobs : Nowhere(x, m)
    BY <1>0 DEF MessagesKept, Elsewhere
  <2>2. \A x \in Jobs : x # j => Nowhere(x, m)'
    BY <1>1, <2>1, SameInboxes
  <2>3. Exactly(j, m)'
    BY <1>1, <2>1, AppendInbox DEF Nowhere, Exactly
  <2>4. Elsewhere(m)'
    BY <2>2 DEF Elsewhere
  <2>5. Waited(j, m)'
    BY <2>3 DEF Waited
  <2> QED BY <2>4, <2>5 DEF Kept
<1> QED BY <1>2, <1>3, <1>4 DEF MessagesKept

LEMMA DeliverKeeps ==
    ASSUME InboxInv, NEW m \in Messages, NEW j \in Jobs, msg[m] # "held", target'[m] = j,
           \A n \in Messages : n # m => target'[n] = target[n], Deliver(m, j)
    PROVE  MessagesKept' /\ \A x \in Jobs : Inboxes(x)'
<1>0. TypeOK /\ \A x \in Jobs : Inboxes(x)
  BY DEF InboxInv, TurnInv
<1>1. CASE status[j] = "idle"
  <2> DEFINE st == [status EXCEPT ![j] = "queued"]
  <2>1. /\ Append(queue, j) \in Seq(Jobs) /\ st \in [Jobs -> Statuses]
        /\ st[j] = "queued" /\ \A x \in Jobs : x # j => st[x] = status[x]
    BY <1>0, AppendProperties DEF TypeOK, Statuses
  <2>2. Pump(Append(queue, j), st, activeCount, {j}) /\ queuedTasks' = queuedTasks /\ msg' = [msg EXCEPT ![m] = "task"]
    BY <1>1 DEF Deliver
  <2> HIDE DEF st
  <2>3. ASSUME NEW x \in Jobs PROVE Undelivered(x)
    <3>1. /\ st[x] = "queued" => status[x] \in {"unborn", "queued", "idle"}
          /\ Gone(x) => st[x] \in Terminal \cup {"evicted"}
          /\ status[x] = "queued" => st[x] = "queued" /\ (status[x] = "running" => st[x] = "running")
          /\ status[x] = "running" => st[x] = "running"
      BY <1>1, <2>1 DEF Gone, Terminal
    <3> QED BY <2>1, <2>2, <3>1, PumpUndelivered
  <2>4. msg'[m] = "task" /\ \A n \in Messages : n # m => msg'[n] = msg[n]
    BY <1>0, <2>2 DEF TypeOK
  <2> QED BY <2>3, <2>4, NotHeld
<1>2. CASE status[j] \in {"queued", "running"}
  <2>1. /\ msg' = [msg EXCEPT ![m] = "held"] /\ queuedTasks' = [queuedTasks EXCEPT ![j] = Append(@, m)]
        /\ UNCHANGED <<status, pc, session, pendingSteering, steering>>
    BY <1>2 DEF Deliver, turnVars
  <2>2. msg'[m] = "held" /\ \A n \in Messages : n # m => msg'[n] = msg[n]
    BY <1>0, <2>1 DEF TypeOK
  <2> QED BY <1>2, <2>1, <2>2, NowHeld
<1>3. CASE status[j] \notin {"idle", "queued", "running"}
  <2>1. msg' = [msg EXCEPT ![m] = "refused"] /\ UNCHANGED <<status, pc, session, pendingSteering, steering, queuedTasks>>
    BY <1>3 DEF Deliver, turnVars, inboxVars
  <2>2. msg'[m] = "refused" /\ \A n \in Messages : n # m => msg'[n] = msg[n]
    BY <1>0, <2>1 DEF TypeOK
  <2>3. \A x \in Jobs : Undelivered(x)
    BY <1>0, <2>1, UntouchedJob
  <2> QED BY <2>2, <2>3, NotHeld
<1> QED BY <1>1, <1>2, <1>3

LEMMA MessageKeeps ==
    ASSUME InboxInv, NEW m \in Messages, MessageStep(m)
    PROVE  MessagesKept' /\ \A x \in Jobs : Inboxes(x)'
<1>0. TypeOK /\ TargetKnown /\ PcStatus /\ \A x \in Jobs : Inboxes(x)
  BY DEF InboxInv, TurnInv
<1>1. ASSUME NEW s, s # "held", msg[m] # "held", msg' = [msg EXCEPT ![m] = s],
             \A n \in Messages : n # m => target'[n] = target[n],
             UNCHANGED <<status, pc, session, pendingSteering, steering, queuedTasks>>
      PROVE  MessagesKept' /\ \A x \in Jobs : Inboxes(x)'
  <2>1. msg'[m] = s /\ \A n \in Messages : n # m => msg'[n] = msg[n]
    BY <1>0, <1>1 DEF TypeOK
  <2>2. \A x \in Jobs : Undelivered(x)
    BY <1>0, <1>1, UntouchedJob
  <2> QED BY <1>1, <2>1, <2>2, NotHeld
<1>2. ASSUME NEW j \in Jobs, Message(m, j) PROVE MessagesKept' /\ \A x \in Jobs : Inboxes(x)'
  <2>1. msg[m] = "unsent" /\ target'[m] = j /\ \A n \in Messages : n # m => target'[n] = target[n]
    BY <1>0, <1>2 DEF Message, TypeOK
  <2>2. CASE Deliver(m, j)
    BY <2>1, <2>2, DeliverKeeps
  <2>3. CASE /\ status[j] = "running" /\ j \notin session
             /\ pendingSteering' = [pendingSteering EXCEPT ![j] = Append(@, m)]
             /\ msg' = [msg EXCEPT ![m] = "held"]
             /\ UNCHANGED <<status, queue, activeCount, turnVars, steering, queuedTasks>>
    <3>1. msg'[m] = "held" /\ \A n \in Messages : n # m => msg'[n] = msg[n]
      BY <1>0, <2>3 DEF TypeOK
    <3>2. pc[j] # "prompting"
      BY <1>0, <2>3 DEF Inboxes
    <3>3. UNCHANGED <<status, pc, session, steering>>
      BY <2>3 DEF turnVars
    <3> QED BY <2>1, <2>3, <3>1, <3>2, <3>3, NowHeld
  <2>4. CASE /\ status[j] = "running" /\ j \in session
             /\ msg' = [msg EXCEPT ![m] = "steering"]
             /\ UNCHANGED <<status, queue, activeCount, turnVars, inboxVars>>
    <3>1. UNCHANGED <<status, pc, session, pendingSteering, steering, queuedTasks>>
      BY <2>4 DEF turnVars, inboxVars
    <3> QED BY <1>1, <2>1, <2>4, <3>1
  <2> QED BY <1>2, <2>2, <2>3, <2>4 DEF Message
<1>3. CASE SteerAccepted(m)
  <2>1. msg[m] = "steering" /\ msg' = [msg EXCEPT ![m] = "accepted"] /\ target' = target
        /\ UNCHANGED <<status, pc, session, pendingSteering, steering, queuedTasks>>
    BY <1>3 DEF SteerAccepted, turnVars, inboxVars
  <2> QED BY <1>1, <2>1
<1>4. CASE SteerRejected(m)
  <2>1. msg[m] = "steering" /\ msg' = [msg EXCEPT ![m] = "refused"] /\ target' = target
        /\ UNCHANGED <<status, pc, session, pendingSteering, steering, queuedTasks>>
    BY <1>4 DEF SteerRejected, turnVars, inboxVars
  <2> QED BY <1>1, <2>1
<1>5. CASE SteerDeclined(m)
  <2>1. msg[m] = "steering" /\ target[m] \in Jobs /\ target' = target /\ Deliver(m, target[m])
    BY <1>0, <1>5 DEF SteerDeclined, TargetKnown
  <2> QED BY <2>1, DeliverKeeps
<1> QED BY <1>2, <1>3, <1>4, <1>5 DEF MessageStep

\* The turn succeeds: the job has nothing left to do, or the oldest follow-up leaves
\* its inbox.
LEMMA SuccessKeeps ==
    ASSUME InboxInv, NEW j \in Jobs, TurnCompletes(j) \/ TurnFinalizationFails(j)
    PROVE  MessagesKept' /\ \A x \in Jobs : Inboxes(x)'
<1>0. TypeOK /\ PcStatus /\ MessagesKept /\ \A x \in Jobs : Inboxes(x)
  BY DEF InboxInv, TurnInv
<1>1. /\ pc[j] = "prompting" /\ steering[j] = <<>> /\ pc' = [pc EXCEPT ![j] = "none"] /\ target' = target
      /\ pendingSteering' = pendingSteering /\ steering' = steering /\ session \ {j} \subseteq session'
      /\ \/ queuedTasks[j] = <<>> /\ status' = [status EXCEPT ![j] = "idle"] /\ queuedTasks' = queuedTasks /\ msg' = msg
         \/ /\ queuedTasks[j] # <<>> /\ queuedTasks' = [queuedTasks EXCEPT ![j] = Tail(@)]
            /\ msg' = [msg EXCEPT ![Head(queuedTasks[j])] = "task"]
            /\ \/ status' = [status EXCEPT ![j] = "queued"]
               \/ status' = [status EXCEPT ![j] = "failed"]
  BY DEF TurnCompletes, TurnFinalizationFails, PromptResolved, DisposeSession
<1>2. pendingSteering[j] = <<>> /\ status[j] = "running" /\ ~Gone(j) /\ ~Unwinds(j)
  BY <1>0, <1>1 DEF Inboxes, PcStatus, Gone, Terminal, Unwinds
<1>3. pc'[j] = "none" /\ \A x \in Jobs : x # j => pc'[x] = pc[x] /\ status'[x] = status[x] /\ (x \in session => x \in session')
  BY <1>0, <1>1 DEF TypeOK
<1>4. ASSUME NEW x \in Jobs PROVE Inboxes(x)'
  BY <1>0, <1>1, <1>3 DEF Inboxes
<1>5. ASSUME NEW n \in Messages, msg[n] = "held", target[n] = j
      PROVE  Once(queuedTasks[j], n) /\ Absent(pendingSteering[j], n) /\ Absent(steering[j], n)
  <2>1. Exactly(j, n)
    BY <1>0, <1>2, <1>5 DEF MessagesKept, Kept, Waited
  <2> QED BY <1>1, <1>2, <2>1, EmptyInbox DEF Exactly
<1>6. ASSUME NEW n \in Messages, NEW x \in Jobs, x # j, queuedTasks'[x] = queuedTasks[x]
      PROVE  Rests(x, n) /\ (Nowhere(x, n) => Nowhere(x, n)')
  <2>1. (Nowhere(x, n) => Nowhere(x, n)') /\ (Exactly(x, n) => Exactly(x, n)')
    BY <1>1, <1>6, SameInboxes
  <2> QED BY <1>3, <1>6, <2>1 DEF Rests, Gone, Unwinds
<1>7. CASE queuedTasks[j] = <<>> /\ status' = [status EXCEPT ![j] = "idle"] /\ queuedTasks' = queuedTasks /\ msg' = msg
  <2>1. ASSUME NEW n \in Messages PROVE Elsewhere(n)' /\ Kept(n)'
    <3>1. Elsewhere(n) /\ Kept(n) /\ msg'[n] = msg[n] /\ target'[n] = target[n]
      BY <1>0, <1>1, <1>7 DEF MessagesKept
    <3>2. \A x \in Jobs : Nowhere(x, n) => Nowhere(x, n)'
      BY <1>1, <1>7, SameInboxes
    <3>3. msg[n] = "held" => target[n] \in Jobs /\ target[n] # j
      BY <1>5, <1>7, <3>1, EmptyInbox DEF Kept
    <3>4. msg[n] = "held" => Rests(target[n], n)
      BY <1>6, <1>7, <3>3
    <3> QED BY <3>1, <3>2, <3>4, RestsKept
  <2> QED BY <1>4, <2>1 DEF MessagesKept
<1>8. CASE /\ queuedTasks[j] # <<>> /\ queuedTasks' = [queuedTasks EXCEPT ![j] = Tail(@)]
           /\ msg' = [msg EXCEPT ![Head(queuedTasks[j])] = "task"]
           /\ \/ status' = [status EXCEPT ![j] = "queued"]
              \/ status' = [status EXCEPT ![j] = "failed"]
  <2> DEFINE q == queuedTasks[j]
  <2>1. q \in Seq(Messages) /\ q # <<>> /\ queuedTasks'[j] = Tail(q) /\ \A x \in Jobs : x # j => queuedTasks'[x] = queuedTasks[x]
    BY <1>0, <1>8 DEF TypeOK
  <2>2. PICK h \in Messages : h = Head(q) /\ ~Absent(q, h)
    BY <2>1, TailInbox
  <2>3. msg'[h] = "task" /\ \A n \in Messages : n # h => msg'[n] = msg[n]
    BY <1>0, <1>8, <2>2 DEF TypeOK
  <2>4. status'[j] = "queued" \/ Gone(j)'
    BY <1>0, <1>8 DEF TypeOK, Gone, Terminal
  <2>5. msg[h] = "held" /\ target[h] = j
    BY <1>0, <2>2 DEF MessagesKept, Elsewhere, Nowhere
  <2>6. ASSUME NEW n \in Messages, n # h PROVE Elsewhere(n)' /\ Kept(n)'
    <3>1. Elsewhere(n) /\ Kept(n) /\ msg'[n] = msg[n] /\ target'[n] = target[n]
      BY <1>0, <1>1, <2>3, <2>6 DEF MessagesKept
    <3>2. (Absent(q, n) => Absent(Tail(q), n)) /\ (Once(q, n) => Once(Tail(q), n))
      BY <2>1, <2>2, <2>6, TailInbox
    <3>3. /\ Nowhere(j, n) => Nowhere(j, n)'
          /\ Exactly(j, n) => Exactly(j, n)'
      BY <1>1, <2>1, <3>2 DEF Nowhere, Exactly
    <3>4. Rests(j, n)
      BY <1>2, <2>4, <3>3 DEF Rests
    <3>5. \A x \in Jobs : Rests(x, n) /\ (Nowhere(x, n) => Nowhere(x, n)')
      BY <1>6, <2>1, <3>3, <3>4
    <3>6. msg[n] = "held" => Rests(target[n], n)
      BY <3>1, <3>5 DEF Kept
    <3> QED BY <3>1, <3>5, <3>6, RestsKept
  <2>7. Elsewhere(h)' /\ Kept(h)'
    <3>1. Once(q, h) /\ Absent(pendingSteering[j], h) /\ Absent(steering[j], h)
      BY <1>5, <2>2, <2>5
    <3>2. Absent(Tail(q), h)
      BY <2>1, <2>2, <3>1, TailInbox
    <3>3. Nowhere(j, h)'
      BY <1>1, <2>1, <3>1, <3>2 DEF Nowhere
    <3>4. \A x \in Jobs : x # j => Nowhere(x, h)
      BY <1>0, <2>2, <2>5 DEF MessagesKept, Elsewhere
    <3>5. \A x \in Jobs : Nowhere(x, h)'
      BY <1>6, <2>1, <2>2, <3>3, <3>4
    <3> QED BY <2>3, <3>5 DEF Elsewhere, Kept
  <2> QED BY <1>4, <2>6, <2>7 DEF MessagesKept
<1> QED BY <1>1, <1>7, <1>8

\* The steering calls of a turn are answered: what the session declined becomes a
\* follow-up, in the order in which it was sent.
LEMMA SteeringKeeps ==
    ASSUME InboxInv, NEW j \in Jobs, NEW n \in Nat, NEW d \in [1..n -> 1..Len(steering[j])], SteeringSettled(j, d)
    PROVE  MessagesKept' /\ \A x \in Jobs : Inboxes(x)'
<1>0. TypeOK /\ PcStatus /\ MessagesKept /\ \A x \in Jobs : Inboxes(x)
  BY DEF InboxInv, TurnInv
<1> DEFINE s == steering[j]
           q == queuedTasks[j]
           r == q \o [i \in 1..n |-> s[d[i]]]
<1>1. s \in Seq(Messages) /\ q \in Seq(Messages) /\ Len(d) = n /\ DOMAIN d = 1..n
  <2>1. d \in Seq(1..Len(s)) /\ Len(d) = n
    BY LenProperties, SeqDef
  <2> QED BY <1>0, <2>1 DEF TypeOK
<1>2. /\ pc[j] = "prompting" /\ \A a, b \in 1..n : a < b => d[a] < d[b]
      /\ queuedTasks' = [queuedTasks EXCEPT ![j] = @ \o [i \in 1..n |-> s[d[i]]]]
      /\ msg' = [m \in Messages |-> IF \E i \in 1..Len(s) : s[i] = m /\ \A a \in 1..n : d[a] # i THEN "accepted" ELSE msg[m]]
      /\ steering' = [steering EXCEPT ![j] = <<>>] /\ pendingSteering' = pendingSteering
      /\ target' = target /\ UNCHANGED <<status, pc, session>>
  BY <1>1 DEF SteeringSettled, turnVars
<1>3. /\ queuedTasks'[j] = r /\ steering'[j] = <<>>
      /\ \A x \in Jobs : x # j => queuedTasks'[x] = queuedTasks[x] /\ steering'[x] = steering[x]
  BY <1>0, <1>2 DEF TypeOK
<1>4. pendingSteering[j] = <<>> /\ status[j] = "running" /\ ~Gone(j) /\ ~Unwinds(j)
  BY <1>0, <1>2 DEF Inboxes, PcStatus, Gone, Terminal, Unwinds
<1>5. ASSUME NEW x \in Jobs PROVE Inboxes(x)'
  BY <1>0, <1>2, <1>3 DEF Inboxes
<1>6. ASSUME NEW m \in Messages, NEW x \in Jobs, x # j
      PROVE  Rests(x, m) /\ (Nowhere(x, m) => Nowhere(x, m)')
  <2>1. (Nowhere(x, m) => Nowhere(x, m)') /\ (Exactly(x, m) => Exactly(x, m)')
    BY <1>2, <1>3, <1>6, SameInboxes
  <2> QED BY <1>2, <2>1 DEF Rests, Gone, Unwinds
<1>7. ASSUME NEW m \in Messages
      PROVE  /\ Absent(q, m) /\ (\A a \in 1..n : s[d[a]] # m) => Absent(r, m)
             /\ Once(q, m) /\ (\A a \in 1..n : s[d[a]] # m) => Once(r, m)
             /\ Absent(q, m) /\ Once(s, m) /\ (\E a \in 1..n : s[d[a]] = m) => Once(r, m)
  <2>1. Picks(d, n, s)
    BY <1>2 DEF Picks
  <2> DEFINE t == [i \in 1..n |-> s[d[i]]]
  <2>2. r = q \o t /\ \A i \in 1..n : t[i] = s[d[i]]
    OBVIOUS
  <2>3. t \in Seq(Messages) /\ Len(t) = n
    <3>1. t \in [1..n -> Messages]
      BY <1>1
    <3>2. t \in Seq(Messages)
      BY <3>1, SeqDef
    <3> QED BY <3>1, <3>2, LenProperties
  <2> HIDE DEF s, q, r, t
  <2>4. /\ Len(q) \in Nat /\ Len(q \o t) = Len(q) + n
        /\ \A i \in 1..(Len(q) + n) : (q \o t)[i] = IF i <= Len(q) THEN q[i] ELSE t[i - Len(q)]
    <3>1. q \in Seq(Messages) /\ t \in Seq(Messages) /\ Len(t) = n
      BY <1>1, <2>3
    <3>2. /\ Len(q \o t) = Len(q) + Len(t)
          /\ \A i \in 1..(Len(q) + Len(t)) : (q \o t)[i] = IF i <= Len(q) THEN q[i] ELSE t[i - Len(q)]
      BY <3>1, ConcatProperties
    <3>3. Len(q) \in Nat
      BY <3>1
    <3> QED BY <3>1, <3>2, <3>3
  <2>5. Extends(r, q, s, d, n)
    <3>1. ASSUME NEW i \in 1..(Len(q) + n), ~(i <= Len(q)) PROVE t[i - Len(q)] = s[d[i - Len(q)]]
      <4>1. i - Len(q) \in 1..n
        BY <2>4, <3>1
      <4> QED BY <2>2, <4>1
    <3> QED BY <2>2, <2>4, <3>1 DEF Extends
  <2>6. Inherits(r, q, s, d, n, m)
    BY <1>1, <2>1, <2>5, DeclinedInbox
  <2> QED BY <2>6 DEF Inherits
<1>8. \A a \in 1..n : d[a] \in 1..Len(s)
  OBVIOUS
<1> HIDE DEF r, s, q
<1>9. ASSUME NEW m \in Messages, Absent(s, m) PROVE Elsewhere(m)' /\ Kept(m)'
  <2>1. \A a \in 1..n : s[d[a]] # m
    BY <1>8, <1>9 DEF Absent
  <2>2. Elsewhere(m) /\ Kept(m) /\ msg'[m] = msg[m] /\ target'[m] = target[m]
    BY <1>0, <1>2, <1>9 DEF MessagesKept, Absent
  <2>3. (Nowhere(j, m) => Nowhere(j, m)') /\ (Exactly(j, m) => Exactly(j, m)')
    <3>1. (Absent(q, m) => Absent(r, m)) /\ (Once(q, m) => Once(r, m))
      BY <1>7, <2>1
    <3>2. ~Once(s, m)
      BY <1>9 DEF Absent, Once
    <3> QED BY <1>2, <1>3, <1>9, <3>1, <3>2, EmptyInbox DEF Nowhere, Exactly, s, q
  <2>4. Rests(j, m)
    BY <1>2, <2>3 DEF Rests, Gone, Unwinds
  <2>5. \A x \in Jobs : Rests(x, m) /\ (Nowhere(x, m) => Nowhere(x, m)')
    BY <1>6, <2>3, <2>4
  <2>6. msg[m] = "held" => Rests(target[m], m)
    BY <2>2, <2>5 DEF Kept
  <2> QED BY <2>2, <2>5, <2>6, RestsKept
<1>10. ASSUME NEW m \in Messages, ~Absent(s, m) PROVE Elsewhere(m)' /\ Kept(m)'
  <2>1. msg[m] = "held" /\ target[m] = j
    BY <1>0, <1>10 DEF MessagesKept, Elsewhere, Nowhere, s
  <2>2. Exactly(j, m)
    BY <1>0, <1>4, <2>1 DEF MessagesKept, Kept, Waited
  <2>3. Once(s, m) /\ Absent(q, m) /\ Absent(pendingSteering[j], m)
    BY <1>10, <2>2 DEF Exactly, s, q
  <2>4. \A x \in Jobs : x # j => Nowhere(x, m)'
    <3>1. \A x \in Jobs : x # j => Nowhere(x, m)
      BY <1>0, <2>1 DEF MessagesKept, Elsewhere
    <3> QED BY <1>6, <3>1
  <2>5. PICK i \in 1..Len(s) : s[i] = m /\ \A k \in 1..Len(s) : s[k] = m => k = i
    BY <2>3 DEF Once
  <2>6. CASE \E a \in 1..n : d[a] = i
    <3>1. msg'[m] = "held" /\ target'[m] = j
      BY <1>2, <2>1, <2>5, <2>6
    <3>2. Once(r, m)
      BY <1>7, <2>3, <2>5, <2>6
    <3>3. Exactly(j, m)'
      BY <1>2, <1>3, <2>3, <3>2, EmptyInbox DEF Exactly
    <3>4. Waited(j, m)'
      BY <1>2, <1>4, <3>3 DEF Waited
    <3>5. Elsewhere(m)'
      BY <2>4, <3>1 DEF Elsewhere
    <3> QED BY <3>1, <3>4, <3>5 DEF Kept
  <2>7. CASE \A a \in 1..n : d[a] # i
    <3>1. msg'[m] = "accepted"
      BY <1>2, <2>5, <2>7
    <3>2. \A a \in 1..n : s[d[a]] # m
      BY <1>8, <2>5, <2>7
    <3>3. Absent(r, m)
      BY <1>7, <2>3, <3>2
    <3>4. Nowhere(j, m)'
      BY <1>2, <1>3, <2>3, <3>3, EmptyInbox DEF Nowhere
    <3> QED BY <2>4, <3>1, <3>4 DEF Elsewhere, Kept
  <2> QED BY <2>6, <2>7
<1> QED BY <1>5, <1>9, <1>10 DEF MessagesKept

LEMMA NextInboxInv == InboxInv /\ [Next]_vars => InboxInv'
<1> SUFFICES ASSUME InboxInv, [Next]_vars PROVE InboxInv'
  OBVIOUS
<1>0. TurnInv /\ TypeOK /\ PcStatus /\ \A x \in Jobs : Inboxes(x)
  BY DEF InboxInv, TurnInv
<1>a. TurnInv'
  BY <1>0, NextTurnInv
<1> SUFFICES MessagesKept' /\ \A x \in Jobs : Inboxes(x)'
  BY <1>a DEF InboxInv
<1>1. ASSUME NEW j \in Jobs, NEW p \in Jobs \cup {None}, NEW ms \in Grants, Spawn(j, p, ms)
      PROVE  MessagesKept' /\ \A x \in Jobs : Inboxes(x)'
  <2>1. PICK gone \in Evictions :
          Pump(Append(queue, j),
               [x \in Jobs |-> IF x \in gone THEN "evicted"
                               ELSE IF x = j THEN "queued" ELSE status[x]],
               activeCount, {})
    BY <1>1 DEF Spawn
  <2>2. \A x \in gone : x \in Jobs /\ status[x] \in Terminal
    BY <2>1 DEF Evictions, Evictable
  <2>3. status[j] = "unborn" /\ queuedTasks' = queuedTasks /\ UNCHANGED msgVars
    BY <1>1 DEF Spawn
  <2> DEFINE st == [x \in Jobs |-> IF x \in gone THEN "evicted"
                                   ELSE IF x = j THEN "queued" ELSE status[x]]
  <2>4. Append(queue, j) \in Seq(Jobs) /\ st \in [Jobs -> Statuses]
    BY <1>0, AppendProperties DEF TypeOK, Statuses
  <2>5. \A x \in Jobs : st[x] = IF x \in gone THEN "evicted" ELSE IF x = j THEN "queued" ELSE status[x]
    OBVIOUS
  <2>6. Pump(Append(queue, j), st, activeCount, {})
    BY <2>1
  <2> HIDE DEF st
  <2>7. ASSUME NEW x \in Jobs PROVE Undelivered(x)
    <3>1. /\ st[x] = "queued" => status[x] \in {"unborn", "queued", "idle"}
          /\ Gone(x) => st[x] \in Terminal \cup {"evicted"}
          /\ status[x] = "queued" => st[x] = "queued"
          /\ status[x] = "running" => st[x] = "running"
      BY <2>2, <2>3, <2>5 DEF Gone, Terminal
    <3> QED BY <2>3, <2>4, <2>6, <3>1, PumpUndelivered
  <2> QED BY <2>3, <2>7, NothingDelivered
<1>2. ASSUME NEW j \in Jobs, TurnStep(j) PROVE MessagesKept' /\ \A x \in Jobs : Inboxes(x)'
  <2>1. CASE \/ SessionCreated(j) \/ TurnFails(j) \/ TurnTimesOut(j) \/ AbortSettles(j) \/ TurnUnwinds(j) \/ TurnFinally(j)
    <3>1. \A x \in Jobs : Undelivered(x) /\ UNCHANGED msgVars
      BY <2>1, TurnUndelivered
    <3> QED BY <3>1, NothingDelivered
  <2>2. CASE TurnCompletes(j) \/ TurnFinalizationFails(j)
    BY <2>2, SuccessKeeps
  <2>3. CASE \E n \in 0..Len(steering[j]) :
               \E declined \in [1..n -> 1..Len(steering[j])] : SteeringSettled(j, declined)
    <3>1. PICK n \in 0..Len(steering[j]) :
            \E declined \in [1..n -> 1..Len(steering[j])] : SteeringSettled(j, declined)
      BY <2>3
    <3>2. PICK declined \in [1..n -> 1..Len(steering[j])] : SteeringSettled(j, declined)
      BY <3>1
    <3>3. n \in Nat
      BY <1>0 DEF TypeOK
    <3> QED BY <3>2, <3>3, SteeringKeeps
  <2> QED BY <1>2, <2>1, <2>2, <2>3 DEF TurnStep
<1>3. ASSUME NEW m \in Messages, MessageStep(m) PROVE MessagesKept' /\ \A x \in Jobs : Inboxes(x)'
  BY <1>3, MessageKeeps
<1>4. ASSUME NEW S, StopOne(S) PROVE MessagesKept' /\ \A x \in Jobs : Inboxes(x)'
  <2>1. UNCHANGED msgVars
    BY <1>4 DEF StopOne
  <2> QED BY <1>4, <2>1, StopOneUndelivered, NothingDelivered
<1>5. ASSUME UNCHANGED <<status, pc, session, pendingSteering, steering, queuedTasks, msgVars>>
      PROVE  MessagesKept' /\ \A x \in Jobs : Inboxes(x)'
  <2>1. \A x \in Jobs : Undelivered(x)
    BY <1>0, <1>5, UntouchedJob
  <2> QED BY <1>5, <2>1, NothingDelivered
<1>6. ASSUME NEW s \in Stoppers, StopCallStep(s) PROVE MessagesKept' /\ \A x \in Jobs : Inboxes(x)'
  <2>1. ASSUME NEW victims, NEW root, NEW todo, StopStep(s, victims, root, todo)
        PROVE  MessagesKept' /\ \A x \in Jobs : Inboxes(x)'
    <3>1. PICK j \in Deepest(todo) : StopOne({j})
      BY <2>1 DEF StopStep
    <3> QED BY <1>4, <3>1
  <2>2. CASE StopUnwound(s) \/ StopReturns(s)
    <3>1. UNCHANGED <<status, pc, session, pendingSteering, steering, queuedTasks, msgVars>>
      BY <2>2 DEF StopUnwound, StopReturns, turnVars, inboxVars
    <3> QED BY <1>5, <3>1
  <2> QED BY <1>6, <2>1, <2>2 DEF StopCallStep, StopCalled, StopNext
<1>7. CASE Close
  BY <1>4, <1>7 DEF Close
<1>8. CASE CloseReturns \/ UNCHANGED vars
  <2>1. UNCHANGED <<status, pc, session, pendingSteering, steering, queuedTasks, msgVars>>
    BY <1>8 DEF CloseReturns, vars, turnVars, inboxVars
  <2> QED BY <1>5, <2>1
<1> QED BY <1>1, <1>2, <1>3, <1>6, <1>7, <1>8 DEF Next

\* What the counts of the property say.
LEMMA CountsOnce ==
    ASSUME NEW q \in Seq(Messages), NEW m
    PROVE  /\ Absent(q, m) => Cardinality(Occurrences(q, m)) = 0
           /\ Once(q, m) => Cardinality(Occurrences(q, m)) = 1
<1>1. ASSUME Absent(q, m) PROVE Cardinality(Occurrences(q, m)) = 0
  <2>1. Occurrences(q, m) = {}
    BY <1>1 DEF Absent, Occurrences
  <2> QED BY <2>1, FS_EmptySet
<1>2. ASSUME Once(q, m) PROVE Cardinality(Occurrences(q, m)) = 1
  <2>1. PICK i \in 1..Len(q) : q[i] = m /\ \A k \in 1..Len(q) : q[k] = m => k = i
    BY <1>2 DEF Once
  <2>2. Occurrences(q, m) = {i}
    BY <2>1 DEF Occurrences
  <2> QED BY <2>2, FS_Singleton
<1> QED BY <1>1, <1>2

\* No follow-up is stranded or doubled, for any jobs, messages and answers of the
\* child session: a message the coordinator kept is, until its job ends or unwinds,
\* once in one of the job's inboxes, and the job will look there (message(),
\* executeTurn() and promoteFollowUp() of SubagentCoordinator.ts).
THEOREM FollowUpsHeldTheorem == Spec => []FollowUpsHeld
<1>1. Init => InboxInv
  <2> SUFFICES ASSUME Init PROVE InboxInv
    OBVIOUS
  <2>1. TurnInv
    BY InitTurnInv
  <2>2. \A m \in Messages : Elsewhere(m) /\ Kept(m)
    BY EmptyInbox DEF Init, Elsewhere, Nowhere, Kept
  <2>3. \A j \in Jobs : Inboxes(j)
    BY DEF Init, Inboxes
  <2> QED BY <2>1, <2>2, <2>3 DEF InboxInv, MessagesKept
<1>2. InboxInv => FollowUpsHeld
  <2> SUFFICES ASSUME InboxInv, NEW m \in Messages, msg[m] = "held", ~Gone(target[m])
               PROVE  /\ status[target[m]] \in {"queued", "running"}
                      /\ \/ pc[target[m]] \in {"failing", "aborting"}
                         \/ Cardinality(Occurrences(pendingSteering[target[m]], m))
                              + Cardinality(Occurrences(steering[target[m]], m))
                              + Cardinality(Occurrences(queuedTasks[target[m]], m)) = 1
    BY DEF FollowUpsHeld
  <2>1. PICK j \in Jobs : j = target[m] /\ Waited(j, m)
    BY DEF InboxInv, MessagesKept, Kept
  <2>2. pendingSteering[j] \in Seq(Messages) /\ steering[j] \in Seq(Messages) /\ queuedTasks[j] \in Seq(Messages)
    BY DEF InboxInv, TurnInv, TypeOK
  <2>3. ASSUME Exactly(j, m)
        PROVE  Cardinality(Occurrences(pendingSteering[j], m)) + Cardinality(Occurrences(steering[j], m))
                 + Cardinality(Occurrences(queuedTasks[j], m)) = 1
    <3>1. \/ /\ Cardinality(Occurrences(pendingSteering[j], m)) = 1 /\ Cardinality(Occurrences(steering[j], m)) = 0
             /\ Cardinality(Occurrences(queuedTasks[j], m)) = 0
          \/ /\ Cardinality(Occurrences(pendingSteering[j], m)) = 0 /\ Cardinality(Occurrences(steering[j], m)) = 1
             /\ Cardinality(Occurrences(queuedTasks[j], m)) = 0
          \/ /\ Cardinality(Occurrences(pendingSteering[j], m)) = 0 /\ Cardinality(Occurrences(steering[j], m)) = 0
             /\ Cardinality(Occurrences(queuedTasks[j], m)) = 1
      BY <2>2, <2>3, CountsOnce DEF Exactly
    <3> QED BY <3>1
  <2> QED BY <2>1, <2>3 DEF Waited, Unwinds
<1> QED BY <1>1, <1>2, NextInboxInv, PTL DEF Spec

-----------------------------------------------------------------------------
(* The prompts of DecisionPrompt, which share no state with the            *)
(* coordinator.                                                            *)

PromptSpec == PromptInit /\ [][PromptNext]_promptVars

-----------------------------------------------------------------------------
(* The inductive invariant                                                 *)

\* What a completion may be, and what a turn or a call may end with besides.
Scopes == Requests \cup {"all"}
Verdicts == [scope : Scopes, status : {"allowed", "denied"}, lifetime : Range(Lifetimes) \cup {"once"}]
Outcomes == Verdicts \cup {Nothing, Rejection, Shortcut("allowAll"), Shortcut("denyAll")}
DecisionKeys == {"scope", "status", "lifetime", "reason"}
FlowType ==
    [turn : {"none", "queued", "asking", "chosen", "finishing", "completing", "ended"}, key : DecisionKeys \cup {Nothing},
     state : [scope : Scopes \cup {Nothing}, status : {"allowed", "denied", Nothing},
              lifetime : Range(Lifetimes) \cup {Nothing}, reason : {"typed", Nothing}],
     aborted : BOOLEAN, cancellation : Verdicts \cup {Nothing}, result : Outcomes, resolved : Verdicts \cup {Nothing},
     returned : Outcomes, completion : Verdicts \cup {Nothing}, completing : {"no", "pending", "done", "failed"},
     answer : {"none", "awaited", "given", "rejected"}]

\* The options of a decision.
Offered(r, key) ==
    CASE key = "scope" -> {r, "all"}
      [] key = "status" -> {"allowed", "denied"}
      [] key = "lifetime" -> Range(Lifetimes)
      [] key = "reason" -> {"typed"}

\* A choice that the user made by confirming S, or nobody made and that grants nothing.
Supported(r, c, S) ==
    /\ c \in Verdicts
    /\ c.status = "allowed" => \/ c = Choice(r, "allowed", "once") /\ "allowAll" \in S
                               \/ {c.scope, "allowed", c.lifetime} \subseteq S
    /\ c.lifetime # "once" => /\ {c.scope, c.status, c.lifetime} \subseteq S
                              /\ c.status = "denied" => "typed" \in S
Refusal(c) == c \in Verdicts /\ c.status = "denied" /\ c.lifetime = "once"

\* The decisions that were taken before the one under way, and with it once it is chosen.
Past(f, key) == f.key = key /\ f.turn = "chosen"
Taken(f) ==
    /\ f.key \in DecisionKeys
    /\ f.key \in {"status", "lifetime", "reason"} \/ Past(f, "scope") => f.state.scope # Nothing
    /\ f.key \in {"lifetime", "reason"} \/ Past(f, "status") => f.state.status # Nothing
    /\ f.key = "reason" \/ Past(f, "lifetime") => f.state.lifetime # Nothing
    /\ f.key = "reason" => f.state.status = "denied"
TakenSaid(f, S) ==
    /\ f.key \in {"status", "lifetime", "reason"} \/ Past(f, "scope") => f.state.scope \in S
    /\ f.key \in {"lifetime", "reason"} \/ Past(f, "status") => f.state.status \in S
    /\ f.key = "reason" \/ Past(f, "lifetime") => f.state.lifetime \in S
    /\ Past(f, "reason") => "typed" \in S

\* The flow of request r, of which the user said S, and which is stopped or not.
FlowHolds(r, f, S, cut) ==
    /\ f \in FlowType
    /\ f.state.scope \in {r, "all", Nothing}
    /\ f.turn = "none" => f.completing = "no" /\ f.returned = Nothing
    /\ f.completing # "no" /\ f.turn \in {"queued", "asking", "chosen", "finishing"} => cut
    /\ f.returned # Nothing /\ f.turn # "ended" => cut
    /\ f.returned # Nothing /\ f.completing = "no" /\ f.resolved = Nothing => Refusal(f.returned)
    /\ f.cancellation # Nothing => Refusal(f.cancellation)
    /\ f.turn = "finishing" /\ f.resolved = Nothing /\ f.completing = "no" => Supported(r, PolicyChoice(r, f.result), S)
    /\ f.completing = "pending" => Supported(r, f.completion, S)
    /\ f.resolved # Nothing => f.completing = "no" /\ f.turn \in {"finishing", "completing", "ended"}
    /\ f.turn \in {"asking", "chosen"} => Taken(f)
    /\ f.turn \in {"asking", "chosen"} /\ f.completing = "no" => TakenSaid(f, S)

\* A dialog belongs to a decision under way; its value is an option or a shortcut,
\* which counts as said while the request is live.
DialogValues == (UNION {Offered(r, k) : r \in Requests, k \in DecisionKeys}) \cup Shortcuts \cup {Nothing}
DialogType == [owner : Requests, key : DecisionKeys, shortcuts : BOOLEAN, selected : Nat, request : BOOLEAN,
               offset : Int, completed : BOOLEAN,
               value : DialogValues]
DialogHolds(d, f, S, cut) ==
    /\ d \in DialogType
    /\ f.turn = "asking" /\ f.key = d.key
    /\ d.selected \in 1..Len(OptionsOf(d.owner, d.key))
    /\ d.value # Nothing => d.completed /\ d.value \in Offered(d.owner, d.key) \cup Shortcuts
    /\ d.value # Nothing /\ ~cut => d.value \in S

FlowsHold == \A r \in Requests : FlowHolds(r, prompt[r], said[r], Aborted(r))
DialogOpen ==
    dialog # NoDialog =>
        /\ dialog.owner \in Requests
        /\ DialogHolds(dialog, prompt[dialog.owner], said[dialog.owner], Aborted(dialog.owner))
Lists ==
    /\ DOMAIN prompt = Requests /\ prompt = [r \in Requests |-> prompt[r]]
    /\ said = [r \in Requests |-> said[r]]
    /\ promptsClosed \in BOOLEAN
    /\ installed \subseteq Verdicts
PromptInv == Lists /\ FlowsHold /\ DialogOpen

-----------------------------------------------------------------------------
(* The choices                                                             *)

\* A choice with a status is no shortcut: it is handed over as it is.
LEMMA ChoiceOfVerdict ==
    ASSUME NEW r, NEW c \in Verdicts
    PROVE  PolicyChoice(r, c) = c
<1>1. c.status # Nothing
  BY PromptAssumption DEF Verdicts
<1>2. c # Shortcut("allowAll") /\ c # Shortcut("denyAll")
  BY <1>1 DEF Shortcut, Choice
<1> QED BY <1>2 DEF PolicyChoice

\* A refusal needs nobody's word.
LEMMA RefusalSupported ==
    ASSUME NEW r, NEW S, NEW c, Refusal(c)
    PROVE  PolicyChoice(r, c) = c /\ Supported(r, c, S)
BY ChoiceOfVerdict DEF Refusal, Supported

\* The shortcuts are choices of the request itself.
LEMMA ShortcutSupported ==
    ASSUME NEW r \in Requests, NEW S, NEW v \in Shortcuts \cap S
    PROVE  Supported(r, PolicyChoice(r, Shortcut(v)), S)
<1>1. CASE v = "allowAll"
  <2>1. PolicyChoice(r, Shortcut(v)) = Choice(r, "allowed", "once")
    <3>1. Shortcut("denyAll") # Shortcut("allowAll")
      BY DEF Shortcut, Choice
    <3> QED BY <1>1, <3>1 DEF PolicyChoice
  <2>2. Choice(r, "allowed", "once") \in Verdicts
    BY DEF Choice, Verdicts, Scopes
  <2> QED BY <1>1, <2>1, <2>2 DEF Supported, Choice
<1>2. CASE v = "denyAll"
  <2>1. Shortcut("denyAll") # Shortcut("allowAll")
    BY DEF Shortcut, Choice
  <2>2. PolicyChoice(r, Shortcut(v)) = Choice(r, "denied", "once")
    BY <1>2, <2>1 DEF PolicyChoice
  <2>3. Choice(r, "denied", "once") \in Verdicts
    BY DEF Choice, Verdicts, Scopes
  <2> QED BY <2>2, <2>3 DEF Supported, Choice
<1> QED BY <1>1, <1>2 DEF Shortcuts

\* The cancellation is computed once, and is a refusal.
LEMMA CancelIsRefusal ==
    ASSUME NEW r \in Requests, NEW f, NEW S, NEW cut, FlowHolds(r, f, S, cut)
    PROVE  \E c : Refusal(c) /\ c \in Verdicts /\ WithCancel(r, f) = [f EXCEPT !.cancellation = c]
<1>1. f \in FlowType /\ f.state.scope \in {r, "all", Nothing} /\ (f.cancellation # Nothing => Refusal(f.cancellation))
  BY DEF FlowHolds
<1>2. Refusal(CancelledApproval(r, f.state))
  BY <1>1 DEF Refusal, CancelledApproval, Choice, Verdicts, Scopes
<1> DEFINE c == IF f.cancellation = Nothing THEN CancelledApproval(r, f.state) ELSE f.cancellation
<1>3. Refusal(c) /\ c \in Verdicts
  BY <1>1, <1>2 DEF Refusal
<1>4. WithCancel(r, f) = [f EXCEPT !.cancellation = c]
  BY DEF WithCancel
<1> QED BY <1>3, <1>4

-----------------------------------------------------------------------------
(* What becomes of a flow                                                  *)

\* A cancelled turn ends with a refusal.
LEMMA CancelsHold ==
    ASSUME NEW r \in Requests, NEW f, NEW S, NEW cut, FlowHolds(r, f, S, cut),
           f.turn \in {"queued", "asking", "chosen"}
    PROVE  /\ FlowHolds(r, Cancels(r, f), S, cut)
           /\ Cancels(r, f).aborted = f.aborted /\ Cancels(r, f).turn = "finishing"
<1>1. PICK c : Refusal(c) /\ c \in Verdicts /\ WithCancel(r, f) = [f EXCEPT !.cancellation = c]
  BY CancelIsRefusal
<1>2. f \in FlowType
  BY DEF FlowHolds
<1> DEFINE g == [f EXCEPT !.cancellation = c, !.result = c, !.turn = "finishing"]
<1>3. Cancels(r, f) = g
  BY <1>1, <1>2 DEF Cancels, FlowType
<1>4. /\ g \in FlowType /\ g.turn = "finishing" /\ g.cancellation = c /\ g.result = c
      /\ g.state = f.state /\ g.completing = f.completing /\ g.returned = f.returned
      /\ g.resolved = f.resolved /\ g.completion = f.completion /\ g.aborted = f.aborted
  BY <1>1, <1>2 DEF FlowType, Outcomes
<1>5. Supported(r, PolicyChoice(r, c), S)
  BY <1>1, RefusalSupported
<1> HIDE DEF g
<1>6. FlowHolds(r, g, S, cut)
  BY <1>1, <1>4, <1>5 DEF FlowHolds
<1> QED BY <1>3, <1>4, <1>6

\* A flow completes once; a first completion is one the user stands behind.
LEMMA CompletesHolds ==
    ASSUME NEW r \in Requests, NEW f, NEW S, NEW cut, NEW a, FlowHolds(r, f, S, cut), f.resolved = Nothing,
           f.turn # "none", f.turn \in {"queued", "asking", "chosen", "finishing"} => cut,
           f.completing = "no" => Supported(r, PolicyChoice(r, a), S)
    PROVE  FlowHolds(r, Completes(r, f, a), S, cut)
<1>1. CASE f.completing # "no"
  BY <1>1 DEF Completes
<1>2. CASE f.completing = "no"
  <2> DEFINE p == PolicyChoice(r, a)
             g == [f EXCEPT !.completion = p, !.completing = "pending"]
  <2>1. f \in FlowType /\ Supported(r, p, S) /\ p \in Verdicts
    BY <1>2 DEF FlowHolds, Supported
  <2>2. Completes(r, f, a) = g
    BY <1>2 DEF Completes
  <2>3. /\ g \in FlowType /\ g.turn = f.turn /\ g.key = f.key /\ g.cancellation = f.cancellation /\ g.result = f.result
        /\ g.state = f.state /\ g.completing = "pending" /\ g.returned = f.returned
        /\ g.resolved = f.resolved /\ g.completion = p /\ g.aborted = f.aborted
    BY <2>1 DEF FlowType
  <2> HIDE DEF g, p
  <2>4. FlowHolds(r, g, S, cut)
    BY <2>1, <2>3 DEF FlowHolds, Taken, Past
  <2> QED BY <2>2, <2>4
<1> QED BY <1>1, <1>2

\* An abort resolves the call with the cancellation.
LEMMA AbortHolds ==
    ASSUME NEW r \in Requests, NEW f, NEW S, NEW cut, FlowHolds(r, f, S, cut)
    PROVE  /\ FlowHolds(r, AbortResolved(r, f), S, TRUE)
           /\ AbortResolved(r, f).turn = f.turn /\ AbortResolved(r, f).key = f.key
           /\ AbortResolved(r, f).aborted = f.aborted
<1>1. CASE ~Unreturned(f)
  BY <1>1 DEF AbortResolved, FlowHolds
<1>2. CASE Unreturned(f)
  <2>1. PICK c : Refusal(c) /\ c \in Verdicts /\ WithCancel(r, f) = [f EXCEPT !.cancellation = c]
    BY CancelIsRefusal
  <2>2. f \in FlowType
    BY DEF FlowHolds
  <2> DEFINE g == [f EXCEPT !.cancellation = c, !.returned = c]
  <2>3. AbortResolved(r, f) = g
    BY <1>2, <2>1, <2>2 DEF AbortResolved, FlowType
  <2>4. /\ g \in FlowType /\ g.turn = f.turn /\ g.key = f.key /\ g.cancellation = c /\ g.result = f.result
        /\ g.state = f.state /\ g.completing = f.completing /\ g.returned = c
        /\ g.resolved = f.resolved /\ g.completion = f.completion /\ g.aborted = f.aborted
    BY <2>1, <2>2 DEF FlowType, Outcomes
  <2> HIDE DEF g
  <2>5. FlowHolds(r, g, S, TRUE)
    BY <1>2, <2>1, <2>4 DEF FlowHolds, Taken, TakenSaid, Past, Unreturned
  <2> QED BY <2>3, <2>4, <2>5
<1> QED BY <1>1, <1>2

\* A decision has options, and they are the ones on offer.
LEMMA OptionsOffered ==
    ASSUME NEW r, NEW key \in DecisionKeys
    PROVE  /\ Range(OptionsOf(r, key)) = Offered(r, key)
           /\ Len(OptionsOf(r, key)) \in Nat /\ Len(OptionsOf(r, key)) >= 1
           /\ \A i \in 1..Len(OptionsOf(r, key)) : OptionsOf(r, key)[i] \in Offered(r, key)
<1>1. CASE key = "scope"
  <2>1. OptionsOf(r, key) = <<r, "all">> /\ Offered(r, key) = {r, "all"}
    BY <1>1 DEF OptionsOf, Offered
  <2> QED BY <2>1 DEF Range
<1>2. CASE key = "status"
  <2>1. OptionsOf(r, key) = <<"allowed", "denied">> /\ Offered(r, key) = {"allowed", "denied"}
    BY <1>2 DEF OptionsOf, Offered
  <2> QED BY <2>1 DEF Range
<1>3. CASE key = "lifetime"
  <2>1. OptionsOf(r, key) = Lifetimes /\ Offered(r, key) = Range(Lifetimes)
    BY <1>3 DEF OptionsOf, Offered
  <2>2. Lifetimes \in Seq(Range(Lifetimes)) /\ Lifetimes # <<>>
    BY PromptAssumption
  <2>3. Len(Lifetimes) \in Nat /\ Len(Lifetimes) >= 1
    BY <2>2, EmptySeq
  <2>4. \A i \in 1..Len(Lifetimes) : Lifetimes[i] \in Range(Lifetimes)
    BY <2>2
  <2> QED BY <2>1, <2>3, <2>4
<1>4. CASE key = "reason"
  <2>1. OptionsOf(r, key) = <<"typed">> /\ Offered(r, key) = {"typed"}
    BY <1>4 DEF OptionsOf, Offered
  <2> QED BY <2>1 DEF Range
<1> QED BY <1>1, <1>2, <1>3, <1>4 DEF DecisionKeys

\* A choice is recorded under the decision it answers.
LEMMA ChosenHolds ==
    ASSUME NEW r \in Requests, NEW f, NEW S, NEW v, FlowHolds(r, f, S, FALSE), f.turn = "asking",
           v \in Offered(r, f.key), v \in S, v # Nothing
    PROVE  FlowHolds(r, [f EXCEPT !.state[f.key] = v, !.turn = "chosen"], S, FALSE)
<1>1. f \in FlowType /\ f.key \in DecisionKeys /\ Taken(f)
  BY DEF FlowHolds, Taken
<1> DEFINE h == [f.state EXCEPT ![f.key] = v]
           g == [f EXCEPT !.state = h, !.turn = "chosen"]
<1>2. [f EXCEPT !.state[f.key] = v, !.turn = "chosen"] = g
  BY <1>1 DEF FlowType
<1>a. f.state \in [scope : Scopes \cup {Nothing}, status : {"allowed", "denied", Nothing},
                   lifetime : Range(Lifetimes) \cup {Nothing}, reason : {"typed", Nothing}]
  BY <1>1 DEF FlowType
<1>3. /\ h \in [scope : Scopes \cup {Nothing}, status : {"allowed", "denied", Nothing},
                lifetime : Range(Lifetimes) \cup {Nothing}, reason : {"typed", Nothing}]
      /\ h.scope = IF f.key = "scope" THEN v ELSE f.state.scope
      /\ h.status = IF f.key = "status" THEN v ELSE f.state.status
      /\ h.lifetime = IF f.key = "lifetime" THEN v ELSE f.state.lifetime
  <2>1. CASE f.key = "scope"
    <3>1. h = [f.state EXCEPT !.scope = v] /\ v \in Scopes
      BY <2>1 DEF Offered, Scopes
    <3> QED BY <1>a, <2>1, <3>1
  <2>2. CASE f.key = "status"
    <3>1. h = [f.state EXCEPT !.status = v] /\ v \in {"allowed", "denied"}
      BY <2>2 DEF Offered
    <3> QED BY <1>a, <2>2, <3>1
  <2>3. CASE f.key = "lifetime"
    <3>1. h = [f.state EXCEPT !.lifetime = v] /\ v \in Range(Lifetimes)
      BY <2>3 DEF Offered
    <3> QED BY <1>a, <2>3, <3>1
  <2>4. CASE f.key = "reason"
    <3>1. h = [f.state EXCEPT !.reason = v] /\ v = "typed"
      BY <2>4 DEF Offered
    <3> QED BY <1>a, <2>4, <3>1
  <2> QED BY <1>1, <2>1, <2>2, <2>3, <2>4 DEF DecisionKeys
<1> HIDE DEF h
<1>4. /\ g \in FlowType /\ g.turn = "chosen" /\ g.key = f.key /\ g.cancellation = f.cancellation /\ g.result = f.result
      /\ g.state = h /\ g.completing = f.completing /\ g.returned = f.returned
      /\ g.resolved = f.resolved /\ g.completion = f.completion /\ g.aborted = f.aborted
  BY <1>1, <1>3 DEF FlowType
<1> HIDE DEF g
<1>5. h.scope \in {r, "all", Nothing}
  BY <1>3 DEF Offered, FlowHolds
<1>6. Taken(g)
  BY <1>1, <1>3, <1>4 DEF Taken, Past
<1>7. f.completing = "no" => TakenSaid(g, S)
  <2> SUFFICES ASSUME f.completing = "no" PROVE TakenSaid(g, S)
    OBVIOUS
  <2>1. TakenSaid(f, S)
    BY DEF FlowHolds
  <2>2. f.key = "reason" => v = "typed"
    BY DEF Offered
  <2> QED BY <1>1, <1>3, <1>4, <2>1, <2>2 DEF TakenSaid, Past, DecisionKeys
<1>8. FlowHolds(r, g, S, FALSE)
  BY <1>4, <1>5, <1>6, <1>7 DEF FlowHolds
<1> QED BY <1>2, <1>8

\* The end of the decisions: what they were is what is handed over.
LEMMA DecidedHolds ==
    ASSUME NEW r \in Requests, NEW f, NEW S, NEW cut, FlowHolds(r, f, S, cut), f.turn = "chosen",
           NextDecision(f.key, f.state) = Nothing
    PROVE  FlowHolds(r, [f EXCEPT !.result = Choice(f.state.scope, f.state.status, f.state.lifetime),
                                  !.turn = "finishing"], S, cut)
<1>1. f \in FlowType /\ f.key \in DecisionKeys /\ Taken(f)
  BY DEF FlowHolds, Taken
<1>2. f.key \in {"lifetime", "reason"} /\ (f.key = "lifetime" => f.state.status # "denied")
  BY <1>1, PromptAssumption DEF NextDecision, ReasonDecisionAfterDenial, DecisionKeys
<1>3. f.state.scope # Nothing /\ f.state.status # Nothing /\ f.state.lifetime # Nothing
  BY <1>1, <1>2 DEF Taken, Past
<1>c. PICK c : c = Choice(f.state.scope, f.state.status, f.state.lifetime)
  OBVIOUS
<1> DEFINE g == [f EXCEPT !.result = c, !.turn = "finishing"]
<1>4. /\ c \in Verdicts
      /\ c.scope = f.state.scope /\ c.status = f.state.status /\ c.lifetime = f.state.lifetime
  BY <1>1, <1>3, <1>c DEF FlowType, Verdicts, Choice
<1>5. PolicyChoice(r, c) = c
  BY <1>4, ChoiceOfVerdict
<1>6. f.completing = "no" => Supported(r, c, S)
  <2> SUFFICES ASSUME f.completing = "no" PROVE Supported(r, c, S)
    OBVIOUS
  <2>1. TakenSaid(f, S)
    BY DEF FlowHolds
  <2>2. c.scope \in S /\ c.status \in S /\ c.lifetime \in S /\ (f.key = "reason" => "typed" \in S)
    BY <1>2, <1>4, <2>1 DEF TakenSaid, Past
  <2>3. c.status \in {"allowed", "denied"}
    BY <1>4 DEF Verdicts
  <2> QED BY <1>2, <1>4, <2>2, <2>3 DEF Supported
<1>7. /\ g \in FlowType /\ g.turn = "finishing" /\ g.key = f.key /\ g.cancellation = f.cancellation /\ g.result = c
      /\ g.state = f.state /\ g.completing = f.completing /\ g.returned = f.returned
      /\ g.resolved = f.resolved /\ g.completion = f.completion /\ g.aborted = f.aborted
  <2>1. c \in Outcomes
    BY <1>4 DEF Outcomes
  <2>2. g \in FlowType
    BY <1>1, <2>1 DEF FlowType
  <2> QED BY <1>1, <2>2 DEF FlowType
<1> HIDE DEF g
<1>8. FlowHolds(r, g, S, cut)
  BY <1>5, <1>6, <1>7 DEF FlowHolds
<1> QED BY <1>8, <1>c DEF g

\* The next decision is asked.
LEMMA AskedHolds ==
    ASSUME NEW r \in Requests, NEW f, NEW S, NEW next, FlowHolds(r, f, S, FALSE), f.turn = "chosen",
           next = NextDecision(f.key, f.state), next # Nothing
    PROVE  /\ next \in DecisionKeys
           /\ FlowHolds(r, [f EXCEPT !.key = next, !.turn = "asking"], S, FALSE)
<1>1. f \in FlowType /\ f.key \in DecisionKeys /\ Taken(f)
  BY DEF FlowHolds, Taken
<1>2. \/ f.key = "scope" /\ next = "status"
      \/ f.key = "status" /\ next = "lifetime"
      \/ f.key = "lifetime" /\ next = "reason" /\ f.state.status = "denied"
  BY <1>1, PromptAssumption DEF NextDecision, ReasonDecisionAfterDenial, DecisionKeys
<1>3. next \in DecisionKeys
  BY <1>2 DEF DecisionKeys
<1> DEFINE g == [f EXCEPT !.key = next, !.turn = "asking"]
<1>4. /\ g \in FlowType /\ g.turn = "asking" /\ g.key = next /\ g.cancellation = f.cancellation /\ g.result = f.result
      /\ g.state = f.state /\ g.completing = f.completing /\ g.returned = f.returned
      /\ g.resolved = f.resolved /\ g.completion = f.completion /\ g.aborted = f.aborted
  BY <1>1, <1>3 DEF FlowType
<1> HIDE DEF g
<1>5. Taken(g)
  BY <1>1, <1>2, <1>3, <1>4 DEF Taken, Past
<1>6. f.completing = "no" => TakenSaid(g, S)
  <2> SUFFICES ASSUME f.completing = "no" PROVE TakenSaid(g, S)
    OBVIOUS
  <2>1. TakenSaid(f, S)
    BY DEF FlowHolds
  <2> QED BY <1>2, <1>4, <2>1 DEF TakenSaid, Past
<1>7. FlowHolds(r, g, S, FALSE)
  BY <1>4, <1>5, <1>6 DEF FlowHolds
<1> QED BY <1>3, <1>7 DEF g

-----------------------------------------------------------------------------
(* A step of one flow                                                      *)

\* A flow whose signal, or that of the queue, is aborted.
Cut(f) == f.aborted \/ promptsClosed

\* One flow moves; the others keep what holds of them.
LEMMA OneFlow ==
    ASSUME PromptInv, NEW r \in Requests, NEW g, prompt' = [prompt EXCEPT ![r] = g],
           FlowHolds(r, g, said[r], Cut(g)), UNCHANGED <<promptsClosed, installed, said>>
    PROVE  Lists' /\ FlowsHold'
<1>1. /\ DOMAIN prompt = Requests /\ prompt = [q \in Requests |-> prompt[q]]
      /\ said = [q \in Requests |-> said[q]] /\ promptsClosed \in BOOLEAN /\ installed \subseteq Verdicts
  BY DEF PromptInv, Lists
<1>2. /\ DOMAIN prompt' = Requests /\ prompt' = [q \in Requests |-> prompt'[q]]
      /\ prompt'[r] = g /\ \A q \in Requests \ {r} : prompt'[q] = prompt[q]
  BY <1>1
<1>3. Lists'
  BY <1>1, <1>2 DEF Lists
<1>4. ASSUME NEW q \in Requests PROVE FlowHolds(q, prompt'[q], said'[q], prompt'[q].aborted \/ promptsClosed')
  <2>1. CASE q = r
    BY <1>2, <2>1 DEF Cut
  <2>2. CASE q # r
    BY <1>2, <2>2 DEF PromptInv, FlowsHold, Aborted
  <2> QED BY <2>1, <2>2
<1>5. FlowsHold'
  BY <1>4 DEF FlowsHold, Aborted
<1> QED BY <1>3, <1>5

\* The dialog stays when the flow that moves is not the one asking.
LEMMA DialogElsewhere ==
    ASSUME PromptInv, NEW r \in Requests, NEW g, prompt' = [prompt EXCEPT ![r] = g],
           prompt[r].turn # "asking" \/ (g.turn = "asking" /\ g.key = prompt[r].key /\ g.aborted = prompt[r].aborted),
           UNCHANGED <<dialog, promptsClosed, said>>
    PROVE  DialogOpen'
<1> SUFFICES ASSUME dialog # NoDialog
             PROVE  /\ dialog.owner \in Requests
                    /\ DialogHolds(dialog, prompt'[dialog.owner], said[dialog.owner], prompt'[dialog.owner].aborted \/ promptsClosed)
  BY DEF DialogOpen, Aborted, NoDialog
<1> DEFINE o == dialog.owner
<1>1. o \in Requests /\ DialogHolds(dialog, prompt[o], said[o], prompt[o].aborted \/ promptsClosed)
  BY DEF PromptInv, DialogOpen, Aborted
<1>2. prompt'[r] = g /\ \A q \in Requests \ {r} : prompt'[q] = prompt[q]
  BY DEF PromptInv, Lists
<1> HIDE DEF o
<1>3. CASE o # r
  BY <1>1, <1>2, <1>3 DEF o
<1>4. CASE o = r
  <2>1. prompt[r].turn = "asking"
    BY <1>1, <1>4 DEF DialogHolds
  <2>2. DialogHolds(dialog, g, said[r], g.aborted \/ promptsClosed)
    BY <1>1, <1>4, <2>1 DEF DialogHolds
  <2> QED BY <1>2, <1>4, <2>2, <1>1 DEF o
<1> QED BY <1>3, <1>4

\* What the invariant says of one flow.
LEMMA OfFlow ==
    ASSUME PromptInv, NEW r \in Requests
    PROVE  /\ FlowHolds(r, prompt[r], said[r], Cut(prompt[r])) /\ prompt[r] \in FlowType
           /\ Aborted(r) = Cut(prompt[r])
           /\ prompt[r] = [prompt[r] EXCEPT !.turn = prompt[r].turn]
BY DEF PromptInv, FlowsHold, Aborted, Cut, FlowHolds, FlowType

\* runFlow queues the flow, or cancels it at once.
LEMMA RunFlowKeeps ==
    ASSUME PromptInv, NEW r \in Requests, RunFlow(r)
    PROVE  PromptInv'
<1>1. PICK f : f = prompt[r]
  OBVIOUS
<1>2. FlowHolds(r, f, said[r], Cut(f)) /\ f \in FlowType /\ f.turn = "none" /\ Aborted(r) = Cut(f)
  BY <1>1, OfFlow DEF RunFlow
<1>3. CASE Aborted(r)
  <2>1. PICK c : Refusal(c) /\ c \in Verdicts /\ WithCancel(r, f) = [f EXCEPT !.cancellation = c]
    BY <1>2, CancelIsRefusal
  <2> DEFINE g == [f EXCEPT !.cancellation = c, !.turn = "ended", !.returned = c]
  <2>2. prompt' = [prompt EXCEPT ![r] = g]
    BY <1>1, <1>2, <1>3, <2>1 DEF RunFlow, FlowType
  <2>3. /\ g \in FlowType /\ g.turn = "ended" /\ g.cancellation = c /\ g.result = f.result
        /\ g.state = f.state /\ g.completing = f.completing /\ g.returned = c
        /\ g.resolved = f.resolved /\ g.completion = f.completion /\ g.aborted = f.aborted
    BY <1>2, <2>1 DEF FlowType, Outcomes
  <2> HIDE DEF g
  <2>4. FlowHolds(r, g, said[r], Cut(g))
    BY <1>2, <2>1, <2>3 DEF FlowHolds, Cut
  <2> QED BY <1>1, <1>2, <2>2, <2>4, OneFlow, DialogElsewhere DEF RunFlow, PromptInv
<1>4. CASE ~Aborted(r)
  <2> DEFINE g == [f EXCEPT !.turn = "queued"]
  <2>2. prompt' = [prompt EXCEPT ![r] = g]
    BY <1>1, <1>2, <1>4 DEF RunFlow
  <2>3. /\ g \in FlowType /\ g.turn = "queued" /\ g.cancellation = f.cancellation /\ g.result = f.result
        /\ g.state = f.state /\ g.completing = f.completing /\ g.returned = f.returned
        /\ g.resolved = f.resolved /\ g.completion = f.completion /\ g.aborted = f.aborted
    BY <1>2 DEF FlowType
  <2> HIDE DEF g
  <2>4. FlowHolds(r, g, said[r], Cut(g))
    BY <1>2, <2>3 DEF FlowHolds, Cut
  <2> QED BY <1>1, <1>2, <2>2, <2>4, OneFlow, DialogElsewhere DEF RunFlow, PromptInv
<1> QED BY <1>3, <1>4

\* A dialog that opens has its first option selected and no value.
LEMMA OpenHolds ==
    ASSUME NEW r \in Requests, NEW key \in DecisionKeys, NEW g, NEW S, NEW cut, g.turn = "asking", g.key = key
    PROVE  Open(r, key) # NoDialog /\ Open(r, key).owner = r /\ DialogHolds(Open(r, key), g, S, cut)
<1> DEFINE d == Open(r, key)
<1>1. d \in DialogType /\ d.owner = r /\ d.key = key /\ d.selected = 1 /\ d.value = Nothing
  <2>1. PICK b \in BOOLEAN : b = (promptMode = "tui" /\ key # "reason")
    OBVIOUS
  <2>2. Nothing \in DialogValues
    BY DEF DialogValues
  <2>3. d = [owner |-> r, key |-> key, shortcuts |-> b, selected |-> 1, request |-> FALSE, offset |-> 0,
             completed |-> FALSE, value |-> Nothing]
    BY <2>1 DEF Open
  <2> QED BY <2>2, <2>3 DEF DialogType
<1>2. d # NoDialog
  BY <1>1, PromptAssumption DEF NoDialog
<1>3. 1 \in 1..Len(OptionsOf(r, key))
  BY OptionsOffered
<1> HIDE DEF d
<1>4. DialogHolds(d, g, S, cut)
  BY <1>1, <1>3 DEF DialogHolds
<1> QED BY <1>1, <1>2, <1>4 DEF d

\* The dialog that opens belongs to the flow that now asks.
LEMMA DialogOpens ==
    ASSUME PromptInv, NEW r \in Requests, NEW g, NEW key \in DecisionKeys, prompt' = [prompt EXCEPT ![r] = g],
           g.turn = "asking", g.key = key, dialog' = Open(r, key)
    PROVE  DialogOpen'
<1>1. prompt'[r] = g
  BY DEF PromptInv, Lists
<1>2. PICK d : d = Open(r, key)
  OBVIOUS
<1>3. d.owner = r /\ DialogHolds(d, g, said'[r], Aborted(r)')
  BY <1>2, OpenHolds
<1>4. dialog' = d
  BY <1>2
<1> QED BY <1>1, <1>3, <1>4 DEF DialogOpen

\* A turn is cancelled, answered by a stored policy, or asks for the scope.
LEMMA RunQueuedFlowKeeps ==
    ASSUME PromptInv, NEW r \in Requests, RunQueuedFlow(r)
    PROVE  PromptInv'
<1>1. PICK f : f = prompt[r]
  OBVIOUS
<1>2. FlowHolds(r, f, said[r], Cut(f)) /\ f \in FlowType /\ f.turn = "queued" /\ Aborted(r) = Cut(f)
  BY <1>1, OfFlow DEF RunQueuedFlow
<1>3. UNCHANGED <<promptsClosed, installed, said>>
  BY DEF RunQueuedFlow
<1>4. CASE prompt' = [prompt EXCEPT ![r] = Cancels(r, @)] /\ UNCHANGED dialog
  <2>1. PICK g : g = Cancels(r, f)
    OBVIOUS
  <2>2. prompt' = [prompt EXCEPT ![r] = g]
    BY <1>1, <1>4, <2>1
  <2>3. FlowHolds(r, g, said[r], Cut(f)) /\ Cut(g) = Cut(f)
    BY <1>2, <2>1, CancelsHold DEF Cut
  <2> QED BY <1>1, <1>2, <1>3, <1>4, <2>2, <2>3, OneFlow, DialogElsewhere DEF PromptInv
<1>5. ASSUME NEW p \in installed, ~Aborted(r),
             prompt' = [prompt EXCEPT ![r].resolved = p, ![r].result = p, ![r].turn = "finishing"], UNCHANGED dialog
      PROVE  PromptInv'
  <2> DEFINE g == [f EXCEPT !.resolved = p, !.result = p, !.turn = "finishing"]
  <2>1. prompt' = [prompt EXCEPT ![r] = g]
    BY <1>1, <1>5 DEF PromptInv, Lists
  <2>2. p \in Verdicts
    BY <1>5 DEF PromptInv, Lists
  <2>3. /\ g \in FlowType /\ g.turn = "finishing" /\ g.cancellation = f.cancellation /\ g.result = p
        /\ g.state = f.state /\ g.completing = f.completing /\ g.returned = f.returned
        /\ g.resolved = p /\ g.completion = f.completion /\ g.aborted = f.aborted
    BY <1>2, <2>2 DEF FlowType, Outcomes
  <2> HIDE DEF g
  <2>4. p # Nothing
    BY <2>2, PromptAssumption DEF Verdicts, Scopes
  <2>5. FlowHolds(r, g, said[r], Cut(g))
    BY <1>2, <1>5, <2>3, <2>4 DEF FlowHolds, Cut
  <2> QED BY <1>1, <1>2, <1>3, <1>5, <2>1, <2>5, OneFlow, DialogElsewhere DEF PromptInv
<1>6. ASSUME ~Aborted(r), prompt' = [prompt EXCEPT ![r].turn = "asking", ![r].key = "scope"],
             dialog' = Open(r, "scope")
      PROVE  PromptInv'
  <2> DEFINE g == [f EXCEPT !.turn = "asking", !.key = "scope"]
  <2>1. prompt' = [prompt EXCEPT ![r] = g]
    BY <1>1, <1>6 DEF PromptInv, Lists
  <2>3. /\ g \in FlowType /\ g.turn = "asking" /\ g.cancellation = f.cancellation /\ g.result = f.result
        /\ g.state = f.state /\ g.completing = f.completing /\ g.returned = f.returned /\ g.key = "scope"
        /\ g.resolved = f.resolved /\ g.completion = f.completion /\ g.aborted = f.aborted
    BY <1>2 DEF FlowType, DecisionKeys
  <2> HIDE DEF g
  <2>4. Taken(g) /\ TakenSaid(g, said[r])
    BY <2>3 DEF Taken, TakenSaid, Past, DecisionKeys
  <2>5. FlowHolds(r, g, said[r], Cut(g))
    BY <1>2, <1>6, <2>3, <2>4 DEF FlowHolds, Cut
  <2>6. DialogOpen'
    BY <1>6, <2>1, <2>3, DialogOpens DEF DecisionKeys
  <2> QED BY <1>3, <2>1, <2>5, <2>6, OneFlow DEF PromptInv
<1>7. /\ Covering(r) \subseteq installed
      /\ \/ prompt' = [prompt EXCEPT ![r] = Cancels(r, @)] /\ UNCHANGED dialog
         \/ /\ ~Aborted(r)
            /\ \E p \in Covering(r) :
                  /\ prompt' = [prompt EXCEPT ![r].resolved = p, ![r].result = p, ![r].turn = "finishing"]
                  /\ UNCHANGED dialog
         \/ /\ ~Aborted(r)
            /\ prompt' = [prompt EXCEPT ![r].turn = "asking", ![r].key = "scope"] /\ dialog' = Open(r, "scope")
  BY DEF RunQueuedFlow, Covering
<1> QED BY <1>4, <1>5, <1>6, <1>7

\* The value of a dialog arrives: it is dropped when the request is no longer live.
LEMMA ResolveDecisionKeeps ==
    ASSUME PromptInv, NEW r \in Requests, ResolveDecision(r)
    PROVE  PromptInv'
<1>1. PICK f : f = prompt[r]
  OBVIOUS
<1>2. FlowHolds(r, f, said[r], Cut(f)) /\ f \in FlowType /\ f.turn = "asking" /\ Aborted(r) = Cut(f)
  BY <1>1, OfFlow DEF ResolveDecision
<1>3. UNCHANGED <<promptsClosed, installed, said>> /\ dialog' = NoDialog /\ dialog.owner = r
  BY DEF ResolveDecision
<1>4. DialogOpen'
  BY <1>3 DEF DialogOpen
<1>5. PICK v : v = dialog.value
  OBVIOUS
<1>6. DialogHolds(dialog, f, said[r], Cut(f))
  <2>1. dialog # NoDialog
    BY <1>3, PromptAssumption DEF NoDialog
  <2> QED BY <1>1, <1>2, <1>3, <2>1 DEF PromptInv, DialogOpen
<1>7. (v # Nothing => v \in Offered(r, f.key) \cup Shortcuts) /\ (v # Nothing /\ ~Cut(f) => v \in said[r])
  BY <1>3, <1>5, <1>6 DEF DialogHolds
<1>8. PICK g : prompt' = [prompt EXCEPT ![r] = g] /\
               g = IF Rejected(r) THEN Cancels(r, f)
                   ELSE IF v \in Shortcuts THEN [f EXCEPT !.result = Shortcut(v), !.turn = "finishing"]
                   ELSE [f EXCEPT !.state[f.key] = v, !.turn = "chosen"]
  BY <1>1, <1>5 DEF ResolveDecision
<1>9. FlowHolds(r, g, said[r], Cut(g))
  <2>1. CASE Rejected(r)
    BY <1>2, <1>8, <2>1, CancelsHold DEF Cut
  <2>2. CASE ~Rejected(r) /\ v \in Shortcuts
    <3>1. v # Nothing /\ ~Cut(f) /\ v \in said[r]
      BY <1>2, <1>5, <1>7, <2>2 DEF Rejected
    <3>2. g = [f EXCEPT !.result = Shortcut(v), !.turn = "finishing"]
      BY <1>8, <2>2
    <3>3. Supported(r, PolicyChoice(r, Shortcut(v)), said[r])
      BY <2>2, <3>1, ShortcutSupported
    <3>4. PICK w : w = Shortcut(v) /\ w \in Outcomes
      BY <2>2 DEF Shortcuts, Outcomes
    <3>5. g = [f EXCEPT !.result = w, !.turn = "finishing"]
      BY <3>2, <3>4
    <3>6. /\ g \in FlowType /\ g.turn = "finishing" /\ g.key = f.key /\ g.cancellation = f.cancellation /\ g.result = w
          /\ g.state = f.state /\ g.completing = f.completing /\ g.returned = f.returned
          /\ g.resolved = f.resolved /\ g.completion = f.completion /\ g.aborted = f.aborted
      BY <1>2, <3>4, <3>5 DEF FlowType
    <3> QED BY <1>2, <3>1, <3>3, <3>4, <3>6 DEF FlowHolds, Cut
  <2>3. CASE ~Rejected(r) /\ v \notin Shortcuts
    <3>1. v # Nothing /\ ~Cut(f) /\ v \in said[r] /\ v \in Offered(r, f.key)
      BY <1>2, <1>5, <1>7, <2>3 DEF Rejected
    <3>2. g = [f EXCEPT !.state[f.key] = v, !.turn = "chosen"]
      BY <1>8, <2>3
    <3>3. FlowHolds(r, f, said[r], FALSE)
      BY <1>2, <3>1 DEF FlowHolds
    <3>4. FlowHolds(r, g, said[r], FALSE)
      BY <1>2, <3>1, <3>2, <3>3, ChosenHolds
    <3>5. g.aborted = f.aborted
      BY <1>2, <3>2 DEF FlowType
    <3> QED BY <3>1, <3>4, <3>5 DEF FlowHolds, Cut
  <2> QED BY <2>1, <2>2, <2>3
<1> QED BY <1>3, <1>4, <1>8, <1>9, OneFlow DEF PromptInv

\* The next decision is asked, or the decisions are the result.
LEMMA NextOfFlowKeeps ==
    ASSUME PromptInv, NEW r \in Requests, NextOfFlow(r)
    PROVE  PromptInv'
<1>1. PICK f : f = prompt[r]
  OBVIOUS
<1>2. FlowHolds(r, f, said[r], Cut(f)) /\ f \in FlowType /\ f.turn = "chosen" /\ Aborted(r) = Cut(f)
  BY <1>1, OfFlow DEF NextOfFlow
<1>3. UNCHANGED <<promptsClosed, installed, said>>
  BY DEF NextOfFlow
<1>n. PICK next : next = NextDecision(f.key, f.state)
  OBVIOUS
<1>4. CASE /\ next = Nothing
           /\ prompt' = [prompt EXCEPT ![r].result = Choice(f.state.scope, f.state.status, f.state.lifetime),
                                       ![r].turn = "finishing"]
           /\ UNCHANGED dialog
  <2>1. PICK g : g = [f EXCEPT !.result = Choice(f.state.scope, f.state.status, f.state.lifetime), !.turn = "finishing"]
    OBVIOUS
  <2>2. prompt' = [prompt EXCEPT ![r] = g]
    BY <1>1, <1>4, <2>1 DEF PromptInv, Lists
  <2>3. FlowHolds(r, g, said[r], Cut(f))
    BY <1>2, <1>4, <1>n, <2>1, DecidedHolds
  <2>4. Cut(g) = Cut(f)
    BY <1>2, <2>1 DEF Cut, FlowType
  <2> QED BY <1>1, <1>2, <1>3, <1>4, <2>2, <2>3, <2>4, OneFlow, DialogElsewhere DEF PromptInv
<1>5. CASE prompt' = [prompt EXCEPT ![r] = Cancels(r, @)] /\ UNCHANGED dialog
  <2>1. PICK g : g = Cancels(r, f)
    OBVIOUS
  <2>2. prompt' = [prompt EXCEPT ![r] = g]
    BY <1>1, <1>5, <2>1
  <2>3. FlowHolds(r, g, said[r], Cut(f)) /\ Cut(g) = Cut(f)
    BY <1>2, <2>1, CancelsHold DEF Cut
  <2> QED BY <1>1, <1>2, <1>3, <1>5, <2>2, <2>3, OneFlow, DialogElsewhere DEF PromptInv
<1>6. CASE /\ next # Nothing /\ ~Aborted(r)
           /\ prompt' = [prompt EXCEPT ![r].key = next, ![r].turn = "asking"]
           /\ dialog' = Open(r, next)
  <2>1. PICK g : g = [f EXCEPT !.key = next, !.turn = "asking"]
    OBVIOUS
  <2>2. prompt' = [prompt EXCEPT ![r] = g]
    BY <1>1, <1>6, <2>1 DEF PromptInv, Lists
  <2>3. FlowHolds(r, f, said[r], FALSE)
    BY <1>2, <1>6 DEF FlowHolds
  <2>4. FlowHolds(r, g, said[r], FALSE) /\ next \in DecisionKeys
    BY <1>2, <1>6, <1>n, <2>1, <2>3, AskedHolds
  <2>5. g.aborted = f.aborted /\ g.turn = "asking" /\ g.key = next
    BY <1>2, <2>1 DEF FlowType
  <2>6. FlowHolds(r, g, said[r], Cut(g))
    BY <1>2, <1>6, <2>4, <2>5 DEF FlowHolds, Cut
  <2>7. DialogOpen'
    BY <1>6, <2>2, <2>4, <2>5, DialogOpens
  <2> QED BY <1>3, <2>2, <2>6, <2>7, OneFlow DEF PromptInv
<1> QED BY <1>1, <1>n, <1>4, <1>5, <1>6 DEF NextOfFlow

\* The turn hands its result over, unless the call did so first.
LEMMA AfterFinishKeeps ==
    ASSUME PromptInv, NEW r \in Requests, AfterFinish(r)
    PROVE  PromptInv'
<1>1. PICK f : f = prompt[r]
  OBVIOUS
<1>2. FlowHolds(r, f, said[r], Cut(f)) /\ f \in FlowType /\ f.turn = "finishing"
  BY <1>1, OfFlow DEF AfterFinish
<1>3. UNCHANGED <<dialog, promptsClosed, installed, said>>
  BY DEF AfterFinish
<1>4. PICK c : c = IF f.resolved = Nothing THEN Completes(r, f, f.result) ELSE f
  OBVIOUS
<1>5. PICK g : g = [c EXCEPT !.turn = "completing"]
  OBVIOUS
<1>6. prompt' = [prompt EXCEPT ![r] = g]
  BY <1>1, <1>4, <1>5 DEF AfterFinish
<1>7. /\ c \in FlowType /\ c.cancellation = f.cancellation
      /\ c.state = f.state /\ c.returned = f.returned /\ c.resolved = f.resolved /\ c.aborted = f.aborted
      /\ (c.completing = "pending" => Supported(r, c.completion, said[r]))
      /\ (c.resolved # Nothing => c.completing = "no")
      /\ (c.completing = "no" => f.completing = "no")
  <2>1. CASE c = f
    BY <1>2, <2>1 DEF FlowHolds
  <2>2. CASE f.resolved = Nothing /\ f.completing = "no"
    <3>1. PICK p : p = PolicyChoice(r, f.result)
      OBVIOUS
    <3>2. Supported(r, p, said[r]) /\ p \in Verdicts
      BY <1>2, <2>2, <3>1 DEF FlowHolds, Supported
    <3>3. c = [f EXCEPT !.completion = p, !.completing = "pending"]
      BY <1>4, <2>2, <3>1 DEF Completes
    <3>4. /\ c \in FlowType /\ c.cancellation = f.cancellation /\ c.completion = p /\ c.completing = "pending"
          /\ c.state = f.state /\ c.returned = f.returned /\ c.resolved = f.resolved /\ c.aborted = f.aborted
      BY <1>2, <3>2, <3>3 DEF FlowType
    <3> QED BY <2>2, <3>2, <3>4
  <2> QED BY <1>4, <2>1, <2>2 DEF Completes
<1>8. /\ g \in FlowType /\ g.cancellation = c.cancellation /\ g.turn = "completing" /\ g.completing = c.completing
      /\ g.state = c.state /\ g.returned = c.returned /\ g.resolved = c.resolved /\ g.aborted = c.aborted
      /\ g.completion = c.completion
  BY <1>5, <1>7 DEF FlowType
<1>9. FlowHolds(r, g, said[r], Cut(g))
  BY <1>2, <1>7, <1>8 DEF FlowHolds, Cut
<1> QED BY <1>1, <1>2, <1>3, <1>6, <1>9, OneFlow, DialogElsewhere DEF PromptInv

\* The completion runs: what the user said is forgotten, and nothing still needs it.
LEMMA CompletionRunsKeeps ==
    ASSUME PromptInv, NEW r \in Requests, NEW ok \in BOOLEAN, CompletionRuns(r, ok)
    PROVE  PromptInv'
<1>1. PICK f : f = prompt[r]
  OBVIOUS
<1>2. FlowHolds(r, f, said[r], Cut(f)) /\ f \in FlowType /\ f.completing = "pending" /\ Aborted(r) = Cut(f)
  BY <1>1, OfFlow DEF CompletionRuns
<1>3. UNCHANGED <<dialog, promptsClosed>> /\ said' = [said EXCEPT ![r] = {}]
  BY DEF CompletionRuns
<1>4. PICK e \in {"done", "failed"} : e = IF ok THEN "done" ELSE "failed"
  OBVIOUS
<1>5. PICK g : g = [f EXCEPT !.completing = e]
  OBVIOUS
<1>6. prompt' = [prompt EXCEPT ![r] = g]
  BY <1>1, <1>4, <1>5 DEF CompletionRuns
<1>7. /\ g \in FlowType /\ g.turn = f.turn /\ g.key = f.key /\ g.cancellation = f.cancellation /\ g.result = f.result
      /\ g.state = f.state /\ g.completing = e /\ g.returned = f.returned
      /\ g.resolved = f.resolved /\ g.completion = f.completion /\ g.aborted = f.aborted
  BY <1>2, <1>5 DEF FlowType
<1>8. FlowHolds(r, g, {}, Cut(g))
  BY <1>2, <1>7 DEF FlowHolds, Cut, Taken, Past
<1>9. /\ prompt' = [q \in Requests |-> prompt'[q]] /\ DOMAIN prompt' = Requests /\ prompt'[r] = g
      /\ said' = [q \in Requests |-> said'[q]] /\ said'[r] = {}
      /\ \A q \in Requests \ {r} : prompt'[q] = prompt[q] /\ said'[q] = said[q]
  BY <1>3, <1>6 DEF PromptInv, Lists
<1>10. Lists'
  <2>1. installed \subseteq Verdicts /\ promptsClosed \in BOOLEAN
    BY DEF PromptInv, Lists
  <2>2. prompt[r].completion \in Verdicts
    BY <1>1, <1>2 DEF FlowHolds, Supported
  <2>3. installed' \subseteq Verdicts
    BY <2>1, <2>2 DEF CompletionRuns
  <2> QED BY <1>3, <1>9, <2>1, <2>3 DEF Lists
<1>11. FlowsHold'
  <2>1. ASSUME NEW q \in Requests PROVE FlowHolds(q, prompt'[q], said'[q], prompt'[q].aborted \/ promptsClosed')
    <3>1. CASE q = r
      BY <1>3, <1>8, <1>9, <3>1 DEF Cut
    <3>2. CASE q # r
      BY <1>3, <1>9, <3>2 DEF PromptInv, FlowsHold, Aborted
    <3> QED BY <3>1, <3>2
  <2> QED BY <2>1 DEF FlowsHold, Aborted
<1>12. DialogOpen'
  <2> SUFFICES ASSUME dialog # NoDialog
               PROVE  /\ dialog.owner \in Requests
                      /\ DialogHolds(dialog, prompt'[dialog.owner], said'[dialog.owner],
                                     prompt'[dialog.owner].aborted \/ promptsClosed)
    BY <1>3 DEF DialogOpen, Aborted, NoDialog
  <2>1. PICK o : o = dialog.owner
    OBVIOUS
  <2>2. o \in Requests /\ DialogHolds(dialog, prompt[o], said[o], prompt[o].aborted \/ promptsClosed)
    BY <2>1 DEF PromptInv, DialogOpen, Aborted
  <2>3. CASE o # r
    BY <1>9, <2>1, <2>2, <2>3
  <2>4. CASE o = r
    <3>1. f.turn = "asking" /\ Cut(f)
      BY <1>1, <1>2, <2>2, <2>4 DEF DialogHolds, FlowHolds
    <3>2. DialogHolds(dialog, g, {}, g.aborted \/ promptsClosed)
      BY <1>1, <1>7, <2>2, <2>4, <3>1 DEF DialogHolds, Cut
    <3> QED BY <1>9, <2>1, <2>2, <2>4, <3>2
  <2> QED BY <2>3, <2>4
<1> QED BY <1>10, <1>11, <1>12 DEF PromptInv

\* The turn ends with what its completion came to.
LEMMA TurnEndsKeeps ==
    ASSUME PromptInv, NEW r \in Requests, TurnEnds(r)
    PROVE  PromptInv'
<1>1. PICK f : f = prompt[r]
  OBVIOUS
<1>2. FlowHolds(r, f, said[r], Cut(f)) /\ f \in FlowType /\ f.turn = "completing"
  BY <1>1, OfFlow DEF TurnEnds
<1>3. UNCHANGED <<dialog, promptsClosed, installed, said>> /\ (f.resolved # Nothing \/ f.completing \in {"done", "failed"})
  BY <1>1 DEF TurnEnds
<1>4. PICK b : b = IF f.returned # Nothing THEN f.returned
                   ELSE IF f.completing = "failed" THEN Rejection ELSE f.result
  OBVIOUS
<1>5. b \in Outcomes
  BY <1>2, <1>4 DEF FlowType, Outcomes
<1>6. PICK g : g = [f EXCEPT !.turn = "ended", !.key = Nothing, !.state = Blank, !.cancellation = Nothing,
                             !.result = Nothing, !.returned = b]
  OBVIOUS
<1>7. prompt' = [prompt EXCEPT ![r] = g]
  <2>1. prompt' = [prompt EXCEPT ![r] =
                   [prompt[r] EXCEPT !.turn = "ended", !.key = Nothing, !.state = Blank, !.cancellation = Nothing,
                          !.result = Nothing,
                          !.returned = IF prompt[r].returned # Nothing THEN prompt[r].returned
                                       ELSE IF prompt[r].completing = "failed" THEN Rejection ELSE prompt[r].result]]
    BY DEF TurnEnds
  <2> QED BY <1>1, <1>4, <1>6, <2>1
<1>8. PICK h : h = Blank /\ h.scope = Nothing /\
               h \in [scope : Scopes \cup {Nothing}, status : {"allowed", "denied", Nothing},
                      lifetime : Range(Lifetimes) \cup {Nothing}, reason : {"typed", Nothing}]
  <2>1. PICK h : h = Blank
    OBVIOUS
  <2>2. h = [scope |-> Nothing, status |-> Nothing, lifetime |-> Nothing, reason |-> Nothing]
    BY <2>1 DEF Blank
  <2>3. h.scope = Nothing
    BY <2>2
  <2>4. h \in [scope : Scopes \cup {Nothing}, status : {"allowed", "denied", Nothing},
               lifetime : Range(Lifetimes) \cup {Nothing}, reason : {"typed", Nothing}]
    BY <2>2
  <2> QED BY <2>1, <2>3, <2>4
<1>9. /\ g.turn = "ended" /\ g.key = Nothing /\ g.cancellation = Nothing /\ g.result = Nothing
      /\ g.state = h /\ g.completing = f.completing /\ g.returned = b
      /\ g.resolved = f.resolved /\ g.completion = f.completion /\ g.aborted = f.aborted
  BY <1>2, <1>6, <1>8 DEF FlowType
<1>10. g \in FlowType
  <2>1. Nothing \in Outcomes
    BY DEF Outcomes
  <2>2. g = [f EXCEPT !.turn = "ended", !.key = Nothing, !.state = h, !.cancellation = Nothing,
                      !.result = Nothing, !.returned = b]
    BY <1>6, <1>8
  <2>3. PICK g1 : g1 = [f EXCEPT !.turn = "ended", !.key = Nothing, !.state = h]
    OBVIOUS
  <2>4. g1 \in FlowType
    <3>1. PICK g2 : g2 = [f EXCEPT !.turn = "ended", !.key = Nothing]
      OBVIOUS
    <3>2. g2 \in FlowType
      BY <1>2, <3>1 DEF FlowType
    <3>3. g1 = [g2 EXCEPT !.state = h]
      BY <1>2, <2>3, <3>1 DEF FlowType
    <3> QED BY <1>8, <3>2, <3>3 DEF FlowType
  <2>5. g = [g1 EXCEPT !.cancellation = Nothing, !.result = Nothing, !.returned = b]
    BY <1>2, <2>2, <2>3 DEF FlowType
  <2> QED BY <1>5, <2>1, <2>4, <2>5 DEF FlowType
<1>11. FlowHolds(r, g, said[r], Cut(g))
  BY <1>2, <1>3, <1>8, <1>9, <1>10 DEF FlowHolds
<1> QED BY <1>1, <1>2, <1>3, <1>7, <1>11, OneFlow, DialogElsewhere DEF PromptInv

\* Only the answer moves.
LEMMA AnswerHolds ==
    ASSUME NEW r, NEW f, NEW S, NEW cut, FlowHolds(r, f, S, cut),
           NEW a \in {"none", "awaited", "given", "rejected"}
    PROVE  /\ FlowHolds(r, [f EXCEPT !.answer = a], S, cut)
           /\ [f EXCEPT !.answer = a].aborted = f.aborted /\ [f EXCEPT !.answer = a].turn = f.turn
           /\ [f EXCEPT !.answer = a].key = f.key
<1> DEFINE g == [f EXCEPT !.answer = a]
<1>1. f \in FlowType
  BY DEF FlowHolds
<1>2. /\ g \in FlowType /\ g.turn = f.turn /\ g.key = f.key /\ g.cancellation = f.cancellation /\ g.result = f.result
      /\ g.state = f.state /\ g.completing = f.completing /\ g.returned = f.returned
      /\ g.resolved = f.resolved /\ g.completion = f.completion /\ g.aborted = f.aborted
  BY <1>1 DEF FlowType
<1> HIDE DEF g
<1>3. FlowHolds(r, g, S, cut)
  BY <1>2 DEF FlowHolds, Taken, TakenSaid, Past
<1> QED BY <1>2, <1>3 DEF g

\* The call returns: it hands over its cancellation, unless the turn did so first.
LEMMA FlowReturnsKeeps ==
    ASSUME PromptInv, NEW r \in Requests, FlowReturns(r)
    PROVE  PromptInv'
<1>1. PICK f : f = prompt[r]
  OBVIOUS
<1>2. FlowHolds(r, f, said[r], Cut(f)) /\ f \in FlowType /\ f.returned # Nothing
  BY <1>1, OfFlow DEF FlowReturns
<1>3. UNCHANGED <<dialog, promptsClosed, installed, said>>
  BY DEF FlowReturns
<1>4. PICK c : c = IF f.returned # Rejection /\ f.resolved = Nothing THEN Completes(r, f, f.returned) ELSE f
  OBVIOUS
<1>5. PICK a \in {"rejected", "given", "awaited"} : prompt' = [prompt EXCEPT ![r] = [c EXCEPT !.answer = a]]
  BY <1>1, <1>4 DEF FlowReturns
<1>6. FlowHolds(r, c, said[r], Cut(f)) /\ c.turn = f.turn /\ c.key = f.key /\ c.aborted = f.aborted
  <2>1. CASE c = f
    BY <1>2, <2>1
  <2>2. CASE f.resolved = Nothing /\ c = Completes(r, f, f.returned)
    <3>1. f.turn # "none" /\ (f.turn \in {"queued", "asking", "chosen", "finishing"} => Cut(f))
      BY <1>2 DEF FlowHolds
    <3>2. f.completing = "no" => Supported(r, PolicyChoice(r, f.returned), said[r])
      <4>1. f.completing = "no" => Refusal(f.returned)
        BY <1>2, <2>2 DEF FlowHolds
      <4> QED BY <4>1, RefusalSupported
    <3>3. FlowHolds(r, c, said[r], Cut(f))
      BY <1>2, <2>2, <3>1, <3>2, CompletesHolds
    <3>4. c.turn = f.turn /\ c.key = f.key /\ c.aborted = f.aborted
      BY <1>2, <2>2 DEF Completes, FlowType
    <3> QED BY <3>3, <3>4
  <2> QED BY <1>4, <2>1, <2>2
<1>7. PICK g : g = [c EXCEPT !.answer = a]
  OBVIOUS
<1>8. FlowHolds(r, g, said[r], Cut(f)) /\ g.turn = f.turn /\ g.key = f.key /\ g.aborted = f.aborted
  <2>1. a \in {"none", "awaited", "given", "rejected"}
    OBVIOUS
  <2>2. FlowHolds(r, g, said[r], Cut(f)) /\ g.turn = c.turn /\ g.key = c.key /\ g.aborted = c.aborted
    BY <1>6, <1>7, <2>1, AnswerHolds
  <2> QED BY <1>6, <2>2
<1>9. Cut(g) = Cut(f) /\ prompt' = [prompt EXCEPT ![r] = g]
  BY <1>5, <1>7, <1>8 DEF Cut
<1> QED BY <1>1, <1>3, <1>8, <1>9, OneFlow, DialogElsewhere DEF PromptInv

\* The caller learns how the completion ended.
LEMMA AnsweredKeeps ==
    ASSUME PromptInv, NEW r \in Requests, Answered(r)
    PROVE  PromptInv'
<1>1. PICK f : f = prompt[r]
  OBVIOUS
<1>2. FlowHolds(r, f, said[r], Cut(f)) /\ f \in FlowType
  BY <1>1, OfFlow
<1>3. UNCHANGED <<dialog, promptsClosed, installed, said>>
  BY DEF Answered
<1>4. PICK a \in {"given", "rejected"} : prompt' = [prompt EXCEPT ![r].answer = a]
  BY DEF Answered
<1>5. PICK g : g = [f EXCEPT !.answer = a]
  OBVIOUS
<1>6. FlowHolds(r, g, said[r], Cut(f)) /\ g.turn = f.turn /\ g.key = f.key /\ g.aborted = f.aborted
  BY <1>2, <1>5, AnswerHolds
<1>7. Cut(g) = Cut(f) /\ prompt' = [prompt EXCEPT ![r] = g]
  BY <1>1, <1>4, <1>5, <1>6 DEF Cut
<1> QED BY <1>1, <1>3, <1>6, <1>7, OneFlow, DialogElsewhere DEF PromptInv

-----------------------------------------------------------------------------
(* Aborts                                                                  *)

\* An abort moves the dialog only to its end, without a value.
LEMMA DialogAbortHolds ==
    ASSUME NEW rs, NEW f, NEW g, NEW S, NEW cut, DialogHolds(dialog, f, S, cut), g.turn = f.turn, g.key = f.key
    PROVE  /\ DialogAborted(rs).owner = dialog.owner
           /\ DialogHolds(DialogAborted(rs), g, S, TRUE)
<1>1. PICK d : d = dialog
  OBVIOUS
<1>2. DialogHolds(d, f, S, cut) /\ d \in DialogType
  BY <1>1 DEF DialogHolds
<1>3. PICK e : e = DialogAborted(rs)
  OBVIOUS
<1>4. e = d \/ e = [d EXCEPT !.completed = TRUE]
  BY <1>1, <1>3 DEF DialogAborted
<1>5. /\ e \in DialogType /\ e.owner = d.owner /\ e.key = d.key /\ e.selected = d.selected /\ e.value = d.value
      /\ (d.completed => e.completed)
  BY <1>2, <1>4 DEF DialogType
<1>6. DialogHolds(e, g, S, TRUE)
  BY <1>2, <1>5 DEF DialogHolds
<1> QED BY <1>1, <1>3, <1>5, <1>6

\* The request is aborted: its call resolves, its terminal dialog closes.
LEMMA AbortRequestKeeps ==
    ASSUME PromptInv, NEW r \in Requests, AbortRequest(r)
    PROVE  PromptInv'
<1>1. PICK f : f = prompt[r]
  OBVIOUS
<1>2. FlowHolds(r, f, said[r], Cut(f)) /\ f \in FlowType
  BY <1>1, OfFlow
<1>3. UNCHANGED <<promptsClosed, installed, said>>
  BY DEF AbortRequest
<1>4. PICK c : c = AbortResolved(r, f)
  OBVIOUS
<1>5. PICK g : g = [c EXCEPT !.aborted = TRUE]
  OBVIOUS
<1>6. prompt' = [prompt EXCEPT ![r] = g]
  BY <1>1, <1>4, <1>5 DEF AbortRequest
<1>7. FlowHolds(r, c, said[r], TRUE) /\ c.turn = f.turn /\ c.key = f.key /\ c \in FlowType
  BY <1>2, <1>4, AbortHolds DEF FlowHolds
<1>8. /\ g \in FlowType /\ g.turn = c.turn /\ g.key = c.key /\ g.cancellation = c.cancellation /\ g.result = c.result
      /\ g.state = c.state /\ g.completing = c.completing /\ g.returned = c.returned
      /\ g.resolved = c.resolved /\ g.completion = c.completion /\ g.aborted = TRUE
  BY <1>5, <1>7 DEF FlowType
<1>9. FlowHolds(r, g, said[r], Cut(g))
  BY <1>7, <1>8 DEF FlowHolds, Taken, TakenSaid, Past, Cut
<1>10. Lists' /\ FlowsHold'
  BY <1>3, <1>6, <1>9, OneFlow
<1>11. DialogOpen'
  <2>1. dialog' = DialogAborted({r})
    BY DEF AbortRequest
  <2>2. CASE dialog = NoDialog
    <3>1. dialog' = NoDialog
      <4>1. dialog.owner \notin {r}
        BY <2>2, PromptAssumption DEF NoDialog
      <4> QED BY <2>1, <2>2, <4>1 DEF DialogAborted
    <3> QED BY <3>1 DEF DialogOpen
  <2>3. CASE dialog # NoDialog
    <3>1. PICK o : o = dialog.owner
      OBVIOUS
    <3>2. o \in Requests /\ DialogHolds(dialog, prompt[o], said[o], prompt[o].aborted \/ promptsClosed)
      BY <2>3, <3>1 DEF PromptInv, DialogOpen, Aborted
    <3>3. prompt'[r] = g /\ \A q \in Requests \ {r} : prompt'[q] = prompt[q]
      BY <1>6 DEF PromptInv, Lists
    <3>4. CASE o = r
      <4>1. DialogAborted({r}).owner = o /\ DialogHolds(DialogAborted({r}), g, said[r], TRUE)
        BY <1>1, <1>7, <1>8, <3>1, <3>2, <3>4, DialogAbortHolds
      <4>2. dialog'.owner = r /\ DialogHolds(dialog', prompt'[r], said'[r], prompt'[r].aborted \/ promptsClosed')
        BY <1>3, <1>8, <2>1, <3>3, <3>4, <4>1
      <4> QED BY <4>2 DEF DialogOpen, Aborted
    <3>5. CASE o # r
      <4>1. dialog' = dialog
        BY <2>1, <3>1, <3>5 DEF DialogAborted
      <4>2. dialog'.owner = o /\ DialogHolds(dialog', prompt'[o], said'[o], prompt'[o].aborted \/ promptsClosed')
        BY <1>3, <3>1, <3>2, <3>3, <3>5, <4>1
      <4> QED BY <3>2, <4>2 DEF DialogOpen, Aborted
    <3> QED BY <3>4, <3>5
  <2> QED BY <2>2, <2>3
<1> QED BY <1>10, <1>11 DEF PromptInv

\* The queue is closed: every flow is aborted.
LEMMA CloseQueueKeeps ==
    ASSUME PromptInv, CloseQueue
    PROVE  PromptInv'
<1>1. /\ UNCHANGED <<installed, said>> /\ promptsClosed' = TRUE /\ dialog' = DialogAborted(Requests)
      /\ prompt' = [r \in Requests |-> AbortResolved(r, prompt[r])]
  BY DEF CloseQueue
<1>2. ASSUME NEW r \in Requests
      PROVE  /\ FlowHolds(r, prompt'[r], said[r], TRUE)
             /\ prompt'[r].turn = prompt[r].turn /\ prompt'[r].key = prompt[r].key
  <2>1. PICK f : f = prompt[r] /\ FlowHolds(r, f, said[r], Cut(f))
    BY OfFlow
  <2>2. prompt'[r] = AbortResolved(r, f)
    BY <1>1, <2>1
  <2>3. /\ FlowHolds(r, AbortResolved(r, f), said[r], TRUE)
        /\ AbortResolved(r, f).turn = f.turn /\ AbortResolved(r, f).key = f.key
    BY <2>1, AbortHolds
  <2> QED BY <2>1, <2>2, <2>3
<1>3. Lists'
  BY <1>1 DEF PromptInv, Lists
<1>4. FlowsHold'
  BY <1>1, <1>2 DEF FlowsHold, Aborted
<1>5. DialogOpen'
  <2>2. CASE dialog = NoDialog
    <3>1. dialog' = NoDialog
      <4>1. dialog.owner \notin Requests
        BY <2>2, PromptAssumption DEF NoDialog
      <4> QED BY <1>1, <2>2, <4>1 DEF DialogAborted
    <3> QED BY <3>1 DEF DialogOpen
  <2>3. CASE dialog # NoDialog
    <3>1. PICK o : o = dialog.owner
      OBVIOUS
    <3>2. o \in Requests /\ DialogHolds(dialog, prompt[o], said[o], prompt[o].aborted \/ promptsClosed)
      BY <2>3, <3>1 DEF PromptInv, DialogOpen, Aborted
    <3>3. PICK g : g = prompt'[o] /\ g.turn = prompt[o].turn /\ g.key = prompt[o].key
      BY <1>2, <3>2
    <3>4. DialogAborted(Requests).owner = o /\ DialogHolds(DialogAborted(Requests), g, said[o], TRUE)
      BY <3>1, <3>2, <3>3, DialogAbortHolds
    <3>5. dialog'.owner = o /\ DialogHolds(dialog', prompt'[o], said'[o], TRUE)
      BY <1>1, <3>3, <3>4
    <3> QED BY <1>1, <3>2, <3>5 DEF DialogOpen, Aborted
  <2> QED BY <2>2, <2>3
<1> QED BY <1>3, <1>4, <1>5 DEF PromptInv

-----------------------------------------------------------------------------
(* The dialog                                                              *)

\* What the user says more does not take away what was said.
LEMMA MoreSaid ==
    ASSUME NEW r, NEW f, NEW S, NEW T, NEW cut, FlowHolds(r, f, S, cut), S \subseteq T
    PROVE  FlowHolds(r, f, T, cut)
BY DEF FlowHolds, Supported, TakenSaid

\* A step of the dialog: it stays on its decision, and its value counts as said.
LEMMA DialogMoves ==
    ASSUME PromptInv, dialog # NoDialog, NEW d, dialog' = d, d \in DialogType,
           d.owner = dialog.owner, d.key = dialog.key,
           d.selected \in 1..Len(OptionsOf(dialog.owner, dialog.key)),
           d.value # Nothing => d.completed /\ d.value \in Offered(dialog.owner, dialog.key) \cup Shortcuts,
           d.value # Nothing /\ ~Aborted(dialog.owner) => d.value \in said'[dialog.owner],
           said' = [q \in Requests |-> said'[q]], \A q \in Requests : said[q] \subseteq said'[q],
           UNCHANGED <<prompt, promptsClosed, installed>>
    PROVE  PromptInv'
<1>1. PICK o : o = dialog.owner
  OBVIOUS
<1>2. o \in Requests /\ DialogHolds(dialog, prompt[o], said[o], Aborted(o))
  BY <1>1 DEF PromptInv, DialogOpen
<1>3. DialogHolds(d, prompt[o], said'[o], Aborted(o))
  BY <1>1, <1>2 DEF DialogHolds
<1>4. DialogOpen'
  BY <1>1, <1>2, <1>3 DEF DialogOpen, Aborted
<1>5. FlowsHold'
  <2>1. ASSUME NEW q \in Requests PROVE FlowHolds(q, prompt[q], said'[q], Aborted(q))
    BY MoreSaid DEF PromptInv, FlowsHold
  <2> QED BY <2>1 DEF FlowsHold, Aborted
<1>6. Lists'
  BY DEF PromptInv, Lists
<1> QED BY <1>4, <1>5, <1>6 DEF PromptInv

\* The user confirms an option, takes a shortcut, or leaves.
LEMMA CompleteKeeps ==
    ASSUME PromptInv, dialog # NoDialog, NEW v, Complete(v),
           v \in Offered(dialog.owner, dialog.key) \cup Shortcuts \cup {Nothing},
           UNCHANGED <<prompt, promptsClosed, installed>>
    PROVE  PromptInv'
<1>1. PICK o : o = dialog.owner
  OBVIOUS
<1>2. /\ o \in Requests /\ dialog \in DialogType /\ dialog.key \in DecisionKeys
      /\ dialog.selected \in 1..Len(OptionsOf(dialog.owner, dialog.key))
  BY <1>1 DEF PromptInv, DialogOpen, DialogHolds, DialogType
<1>3. said = [q \in Requests |-> said[q]]
  BY DEF PromptInv, Lists
<1>4. PICK d : d = [dialog EXCEPT !.completed = TRUE, !.value = v]
  OBVIOUS
<1>5. v \in DialogValues
  BY <1>1, <1>2 DEF DialogValues
<1>6. /\ d \in DialogType /\ d.owner = dialog.owner /\ d.key = dialog.key /\ d.selected = dialog.selected
      /\ d.value = v /\ d.completed
  BY <1>2, <1>4, <1>5 DEF DialogType
<1>7. dialog' = d /\ said' = IF Aborted(o) \/ v = Nothing THEN said ELSE [said EXCEPT ![o] = @ \union {v}]
  BY <1>1, <1>4 DEF Complete, Heard
<1>8. /\ said' = [q \in Requests |-> said'[q]] /\ \A q \in Requests : said[q] \subseteq said'[q]
      /\ (v # Nothing /\ ~Aborted(o) => v \in said'[o])
  BY <1>2, <1>3, <1>7
<1> QED BY <1>1, <1>2, <1>6, <1>7, <1>8, DialogMoves

\* The cursor wraps around and stays on an option.
LEMMA SelectionMoves ==
    ASSUME NEW i, NEW n \in Nat, n >= 1, i \in 1..n, NEW delta \in {-1, 1}
    PROVE  ((i - 1 + delta + n) % n) + 1 \in 1..n
<1>1. PICK x \in Int : x = i - 1 + delta + n
  OBVIOUS
<1>2. x % n \in 0..(n - 1)
  OBVIOUS
<1>3. PICK y : y = x % n /\ y \in Int /\ y >= 0 /\ y <= n - 1
  BY <1>2
<1> QED BY <1>1, <1>3

\* Moving the cursor decides nothing.
LEMMA MoveKeeps ==
    ASSUME PromptInv, dialog # NoDialog, NEW delta \in {-1, 1}, dialog' = MoveSelection(dialog, delta),
           UNCHANGED <<prompt, promptsClosed, installed, said>>
    PROVE  PromptInv'
<1>1. PICK n : n = Len(OptionsOf(dialog.owner, dialog.key))
  OBVIOUS
<1>2. /\ dialog.owner \in Requests /\ dialog \in DialogType /\ dialog.key \in DecisionKeys
      /\ dialog.selected \in 1..n
      /\ (dialog.value # Nothing => dialog.completed /\ dialog.value \in Offered(dialog.owner, dialog.key) \cup Shortcuts)
      /\ (dialog.value # Nothing /\ ~Aborted(dialog.owner) => dialog.value \in said[dialog.owner])
  BY <1>1 DEF PromptInv, DialogOpen, DialogHolds, DialogType
<1>3. n \in Nat /\ n >= 1
  BY <1>1, <1>2, OptionsOffered
<1>4. PICK i : i = ((dialog.selected - 1 + delta + n) % n) + 1
  OBVIOUS
<1>5. i \in 1..n /\ i \in Nat
  BY <1>2, <1>3, <1>4, SelectionMoves
<1>6. PICK d : d = [dialog EXCEPT !.selected = i]
  OBVIOUS
<1>7. dialog' = d
  BY <1>1, <1>4, <1>6 DEF MoveSelection
<1>8. /\ d \in DialogType /\ d.owner = dialog.owner /\ d.key = dialog.key /\ d.selected = i
      /\ d.value = dialog.value /\ d.completed = dialog.completed
  BY <1>2, <1>5, <1>6 DEF DialogType
<1>9. said' = [q \in Requests |-> said'[q]] /\ said' = said
  BY DEF PromptInv, Lists
<1> QED BY <1>1, <1>2, <1>5, <1>7, <1>8, <1>9, DialogMoves

\* The request's view, scrolled or turned, changes nothing that is decided on.
LEMMA ViewKeeps ==
    ASSUME PromptInv, dialog # NoDialog, NEW b \in BOOLEAN, NEW n \in Int,
           dialog' = [dialog EXCEPT !.request = b, !.offset = n],
           UNCHANGED <<prompt, promptsClosed, installed, said>>
    PROVE  PromptInv'
<1>2. /\ dialog.owner \in Requests /\ dialog \in DialogType /\ dialog.key \in DecisionKeys
      /\ dialog.selected \in 1..Len(OptionsOf(dialog.owner, dialog.key))
      /\ (dialog.value # Nothing => dialog.completed /\ dialog.value \in Offered(dialog.owner, dialog.key) \cup Shortcuts)
      /\ (dialog.value # Nothing /\ ~Aborted(dialog.owner) => dialog.value \in said[dialog.owner])
  BY DEF PromptInv, DialogOpen, DialogHolds, DialogType
<1>6. PICK d : d = [dialog EXCEPT !.request = b, !.offset = n]
  OBVIOUS
<1>8. /\ d \in DialogType /\ d.owner = dialog.owner /\ d.key = dialog.key /\ d.selected = dialog.selected
      /\ d.value = dialog.value /\ d.completed = dialog.completed
  BY <1>2, <1>6 DEF DialogType
<1>9. said' = [q \in Requests |-> said'[q]] /\ said' = said
  BY DEF PromptInv, Lists
<1> QED BY <1>2, <1>6, <1>8, <1>9, DialogMoves

\* The lesser and the greater of two numbers, and of three.
LEMMA LesserOfTwo == ASSUME NEW a \in Int, NEW b \in Int PROVE Min({a, b}) = IF a <= b THEN a ELSE b
BY DEF Min
LEMMA GreaterOfTwo == ASSUME NEW a \in Int, NEW b \in Int PROVE Max({a, b}) = IF a >= b THEN a ELSE b
BY DEF Max
LEMMA LeastOfThree ==
    ASSUME NEW a \in Int, NEW b \in Int, NEW c \in Int
    PROVE  /\ Min({a, b, c}) \in {a, b, c} /\ Min({a, b, c}) <= a /\ Min({a, b, c}) <= b /\ Min({a, b, c}) <= c
<1>1. \E x \in {a, b, c} : \A y \in {a, b, c} : x <= y
  <2>1. CASE a <= b /\ a <= c
    BY <2>1
  <2>2. CASE b <= a /\ b <= c
    BY <2>2
  <2>3. CASE c <= a /\ c <= b
    BY <2>3
  <2> QED BY <2>1, <2>2, <2>3
<1> QED BY <1>1 DEF Min

\* Every key of the terminal dialog.
LEMMA HandleInputKeeps ==
    ASSUME PromptInv, NEW k \in Keys, HandleInput(k)
    PROVE  PromptInv'
<1>1. dialog # NoDialog /\ UNCHANGED <<prompt, promptsClosed, installed>>
  BY DEF HandleInput
<1>2. /\ dialog.owner \in Requests /\ dialog \in DialogType /\ dialog.key \in DecisionKeys
      /\ dialog.selected \in 1..Len(OptionsOf(dialog.owner, dialog.key))
      /\ dialog.request \in BOOLEAN /\ dialog.offset \in Int
  BY <1>1 DEF PromptInv, DialogOpen, DialogHolds, DialogType
<1>3. ASSUME NEW b \in BOOLEAN, dialog' = [dialog EXCEPT !.request = b], UNCHANGED said
      PROVE  PromptInv'
  <2>1. dialog' = [dialog EXCEPT !.request = b, !.offset = dialog.offset]
    BY <1>2, <1>3 DEF DialogType
  <2> QED BY <1>1, <1>2, <1>3, <2>1, ViewKeeps
<1>4. ASSUME NEW n \in Int, dialog' = [dialog EXCEPT !.offset = n], UNCHANGED said
      PROVE  PromptInv'
  <2>1. dialog' = [dialog EXCEPT !.request = dialog.request, !.offset = n]
    BY <1>2, <1>4 DEF DialogType
  <2> QED BY <1>1, <1>2, <1>4, <2>1, ViewKeeps
<1>5. CASE k = "right" /\ Complete("allowAll")
  BY <1>1, <1>5, CompleteKeeps DEF Shortcuts
<1>6. CASE k = "left" /\ Complete("denyAll")
  BY <1>1, <1>6, CompleteKeeps DEF Shortcuts
<1>7. CASE k = "tab" /\ dialog' = [dialog EXCEPT !.request = ~@] /\ UNCHANGED said
  BY <1>2, <1>3, <1>7
<1>8. CASE k = "up" /\ dialog' = (IF dialog.request THEN [dialog EXCEPT !.offset = Max({0, @ - 1})]
                                  ELSE MoveSelection(dialog, -1)) /\ UNCHANGED said
  <2>1. Max({0, dialog.offset - 1}) \in Int
    BY <1>2, GreaterOfTwo
  <2>2. CASE dialog.request
    BY <1>4, <1>8, <2>1, <2>2
  <2>3. CASE ~dialog.request
    BY <1>1, <1>8, <2>3, MoveKeeps
  <2> QED BY <2>2, <2>3
<1>9. CASE k = "down" /\ dialog' = (IF dialog.request THEN [dialog EXCEPT !.offset = @ + 1]
                                    ELSE MoveSelection(dialog, 1)) /\ UNCHANGED said
  <2>1. dialog.offset + 1 \in Int
    BY <1>2
  <2>2. CASE dialog.request
    BY <1>4, <1>9, <2>1, <2>2
  <2>3. CASE ~dialog.request
    BY <1>1, <1>9, <2>3, MoveKeeps
  <2> QED BY <2>2, <2>3
<1>10. CASE k = "enter" /\ Complete(OptionsOf(dialog.owner, dialog.key)[dialog.selected])
  <2>1. OptionsOf(dialog.owner, dialog.key)[dialog.selected] \in Offered(dialog.owner, dialog.key)
    BY <1>2, OptionsOffered
  <2> QED BY <1>1, <1>10, <2>1, CompleteKeeps
<1>11. CASE k = "escape" /\ Complete(Nothing)
  BY <1>1, <1>11, CompleteKeeps
<1> QED BY <1>5, <1>6, <1>7, <1>8, <1>9, <1>10, <1>11 DEF HandleInput

\* An answer of the host's dialog.
LEMMA HostAnswersKeeps ==
    ASSUME PromptInv, HostAnswers
    PROVE  PromptInv'
<1>1. dialog # NoDialog /\ UNCHANGED <<prompt, promptsClosed, installed>>
  BY DEF HostAnswers
<1>2. PICK v \in Range(OptionsOf(dialog.owner, dialog.key)) \union {Nothing} : Complete(v)
  BY DEF HostAnswers
<1>3. dialog.key \in DecisionKeys
  BY <1>1 DEF PromptInv, DialogOpen, DialogHolds, DialogType
<1>4. v \in Offered(dialog.owner, dialog.key) \cup {Nothing}
  BY <1>2, <1>3, OptionsOffered
<1> QED BY <1>1, <1>2, <1>4, CompleteKeeps

-----------------------------------------------------------------------------
(* The layout                                                              *)

\* What is left for a request's summary and its options: at least two rows.
LEMMA LayoutRows ==
    ASSUME NEW s \in Screens
    PROVE  /\ s.height \in Nat /\ Heading(s) \in {1, 2} /\ Spacing(s) \in {0, 1} /\ RenderHints(s) \in {1, 2, 3}
           /\ s.height - Heading(s) - RenderHints(s) - 2 * Spacing(s) >= 2
<1>1. s.height \in Nat /\ s.height >= 4
  BY PromptAssumption
<1>2. PICK h \in Nat : h = s.height /\ h >= 4
  BY <1>1
<1>3. PICK t : t = IF s.wide THEN 2 ELSE 3
  OBVIOUS
<1>4. t \in {2, 3}
  BY <1>3
<1>5. /\ Heading(s) = IF h >= 8 THEN 2 ELSE 1
      /\ Spacing(s) = IF h >= 12 THEN 1 ELSE 0
      /\ RenderHints(s) = IF t <= h - Heading(s) - 2 THEN t ELSE IF h - Heading(s) - 2 >= 2 THEN 2 ELSE 1
  BY <1>2, <1>3 DEF Heading, Spacing, RenderHints
<1> QED BY <1>2, <1>4, <1>5

\* The rows of fields: a number, and at most one each when each has at most one.
LEMMA RowSumIsSum == ASSUME NEW rows PROVE RowSum(rows) = SumOf(DOMAIN rows, rows)
BY DEF RowSum, FoldFunction, FoldFunctionOnSet, MapThenFoldSet, SumOf, SumStep, AnyOf

\* The rows of wrapped fields, as a sum.
LEMMA FieldRows ==
    ASSUME NEW rows \in Seq(Nat), NEW most \in Nat
    PROVE  /\ RenderField(rows, most) \in [1..Len(rows) -> 0..most]
           /\ RowSum(RenderField(rows, most)) \in Nat
           /\ RowSum(RenderField(rows, most)) = Cardinality(Units(1..Len(rows), RenderField(rows, most)))
           /\ IsFiniteSet(Units(1..Len(rows), RenderField(rows, most)))
<1> DEFINE D == 1..Len(rows)
           g == RenderField(rows, most)
<1>1. DOMAIN rows = D /\ Len(rows) \in Nat /\ rows \in [D -> Nat]
  OBVIOUS
<1>2. ASSUME NEW i \in D PROVE Min({rows[i], most}) \in 0..most
  BY <1>1, LesserOfTwo
<1>3. g \in [D -> 0..most] /\ g \in [D -> Nat] /\ DOMAIN g = D
  BY <1>1, <1>2 DEF RenderField
<1>4. IsFiniteSet(D)
  BY <1>1, FS_Interval
<1> HIDE DEF g, D
<1>5. /\ RowSum(g) = SumOf(D, g)
      /\ IsFiniteSet(Units(D, g)) /\ SumOf(D, g) = Cardinality(Units(D, g)) /\ SumOf(D, g) \in Nat
  BY <1>3, <1>4, RowSumIsSum, SumIsCount
<1> QED BY <1>3, <1>5 DEF g, D

\* At most one row each: no more rows than fields.
LEMMA OneRowEach ==
    ASSUME NEW rows \in Seq(Nat)
    PROVE  RowSum(RenderField(rows, 1)) <= Len(rows)
<1> DEFINE D == 1..Len(rows)
           g == RenderField(rows, 1)
           P == D \X {1}
<1>1. /\ g \in [D -> 0..1] /\ IsFiniteSet(Units(D, g)) /\ RowSum(g) = Cardinality(Units(D, g))
  BY FieldRows
<1>2. Len(rows) \in Nat
  OBVIOUS
<1> HIDE DEF g
<1>3. Units(D, g) \subseteq P
  BY <1>1 DEF Units
<1>4. IsFiniteSet(P) /\ Cardinality(P) = Len(rows)
  <2>1. IsFiniteSet(D) /\ Cardinality(D) = Len(rows)
    <3>1. PICK n \in Nat : n = Len(rows)
      BY <1>2
    <3>2. IsFiniteSet(1..n) /\ Cardinality(1..n) = IF 1 > n THEN 0 ELSE n - 1 + 1
      BY FS_Interval
    <3>3. (IF 1 > n THEN 0 ELSE n - 1 + 1) = n
      OBVIOUS
    <3> QED BY <3>1, <3>2, <3>3
  <2>2. IsFiniteSet({1}) /\ Cardinality({1}) = 1
    BY FS_Singleton
  <2> HIDE DEF D
  <2>3. IsFiniteSet(P) /\ Cardinality(P) = Len(rows) * 1
    BY <2>1, <2>2, FS_Product
  <2> QED BY <1>2, <2>3
<1>5. Cardinality(Units(D, g)) <= Cardinality(P)
  BY <1>3, <1>4, FS_Subset
<1> QED BY <1>1, <1>4, <1>5 DEF g

\* The numbers of the layout, one after the other.
LEMMA ViewFits ==
    ASSUME NEW d, NEW s \in Screens, NEW n \in Nat, n = Len(OptionsOf(d.owner, d.key)), n >= 1, d.selected \in 1..n
    PROVE  /\ RenderChoices(d, s).rows <= s.height
           /\ RenderChoices(d, s).start < d.selected
           /\ d.selected <= RenderChoices(d, s).start + RenderChoices(d, s).count
           /\ Len(Essential) < RenderChoices(d, s).capacity => RenderChoices(d, s).summary >= RenderChoices(d, s).critical
<1>1. PICK H \in {1, 2} : H = Heading(s)
  BY LayoutRows
<1>2. PICK T \in {1, 2, 3} : T = RenderHints(s)
  BY LayoutRows
<1>3. PICK G \in {0, 1} : G = Spacing(s)
  BY LayoutRows
<1>4. PICK h \in Nat : h = s.height
  BY LayoutRows
<1>5. PICK capacity \in Int : capacity = h - H - T - 2 * G /\ capacity >= 2
  BY <1>1, <1>2, <1>3, <1>4, LayoutRows
<1>6. Essential \in Seq(Nat) /\ Optional \in Seq(Nat)
  BY PromptAssumption
<1>7. PICK wanted \in Nat : wanted = RowSum(RenderField(Essential, 3))
  BY <1>6, FieldRows
<1>8. PICK least \in Nat : least = RowSum(RenderField(Essential, 1)) /\ least <= Len(Essential)
  BY <1>6, FieldRows, OneRowEach
<1>9. PICK others \in Nat : others = RowSum(RenderField(Optional, 3))
  BY <1>6, FieldRows
<1>10. PICK critical \in Nat : critical = IF wanted > capacity - 1 THEN least ELSE wanted
  OBVIOUS
<1>11. RowSum(IF wanted > capacity - 1 THEN RenderField(Essential, 1) ELSE RenderField(Essential, 3)) = critical
  BY <1>7, <1>8, <1>10
<1>12. PICK preview \in Nat : preview = critical + others
  OBVIOUS
<1>13. PICK preferred \in Int : preferred = PreferredSummary(preview, critical, capacity) /\ critical <= preferred /\ preferred <= preview
  <2>1. PICK m \in Int : m = Max({critical, capacity - 6}) /\ m >= critical
    BY GreaterOfTwo
  <2>2. Min({preview, m}) = IF preview <= m THEN preview ELSE m
    BY LesserOfTwo
  <2> QED BY <1>12, <2>1, <2>2 DEF PreferredSummary
<1>14. PICK room \in Int : room = Max({1, capacity - preferred - 1}) /\ room >= 1 /\ (room = 1 \/ room = capacity - preferred - 1)
  BY GreaterOfTwo
<1>15. PICK count \in Int : count = Min({n, 5, room}) /\ count >= 1 /\ count <= n /\ count <= room
  <2>1. PICK m : m = Min({n, 5, room})
    OBVIOUS
  <2>2. m \in {n, 5, room} /\ m <= n /\ m <= 5 /\ m <= room
    <3>1. n \in Int /\ 5 \in Int /\ room \in Int
      OBVIOUS
    <3>2. /\ Min({n, 5, room}) \in {n, 5, room}
          /\ Min({n, 5, room}) <= n /\ Min({n, 5, room}) <= 5 /\ Min({n, 5, room}) <= room
      BY <3>1, LeastOfThree, Zenon
    <3> QED BY <2>1, <3>2, Zenon
  <2>3. m \in Int /\ m >= 1
    BY <1>14, <2>2
  <2> QED BY <2>1, <2>2, <2>3
<1>16. PICK more \in Int : more = IF count < n /\ capacity - count > preferred THEN 1 ELSE 0
  OBVIOUS
<1>17. PICK available \in Int : /\ available = Max({0, capacity - count - more})
                                /\ available = IF 0 >= capacity - count - more THEN 0 ELSE capacity - count - more
  BY GreaterOfTwo
<1>18. PICK summary \in Int : summary = Min({preview, available}) /\ summary = IF preview <= available THEN preview ELSE available
  BY LesserOfTwo
<1>19. PICK sel \in Int : sel = d.selected /\ 1 <= sel /\ sel <= n
  OBVIOUS
<1>20. PICK half \in Int : half = count \div 2 /\ 0 <= half /\ half < count
  BY <1>15
<1>21. PICK low \in Int : /\ low = Min({sel - 1 - half, n - count})
                          /\ low = IF sel - 1 - half <= n - count THEN sel - 1 - half ELSE n - count
  BY LesserOfTwo
<1>22. PICK start \in Int : start = Max({0, low}) /\ start = IF 0 >= low THEN 0 ELSE low
  BY GreaterOfTwo
<1>23. RenderChoices(d, s) = [capacity |-> capacity, count |-> count, critical |-> critical, start |-> start,
                              summary |-> summary, rows |-> H + summary + 2 * G + count + more + T]
  <2>1. /\ s.height - Heading(s) - RenderHints(s) - 2 * Spacing(s) = capacity
        /\ RowSum(RenderField(Essential, 3)) = wanted
    BY <1>1, <1>2, <1>3, <1>4, <1>5, <1>7
  <2>2. RowSum(IF RowSum(RenderField(Essential, 3)) > capacity - 1 THEN RenderField(Essential, 1)
               ELSE RenderField(Essential, 3)) = critical
    BY <1>7, <1>11
  <2>3. critical + RowSum(RenderField(Optional, 3)) = preview
    BY <1>9, <1>12
  <2>4. RenderChoices(d, s) =
          LET count1 == Min({n, 5, Max({1, capacity - preferred - 1})})
              more1 == IF count1 < n /\ capacity - count1 > preferred THEN 1 ELSE 0
              available1 == Max({0, capacity - count1 - more1})
          IN  [capacity |-> capacity, count |-> count1, critical |-> critical,
               start |-> Max({0, Min({d.selected - 1 - (count1 \div 2), n - count1})}),
               summary |-> Min({preview, available1}),
               rows |-> Heading(s) + Min({preview, available1}) + 2 * Spacing(s) + count1 + more1 + RenderHints(s)]
    BY <1>13, <2>1, <2>2, <2>3 DEF RenderChoices
  <2>5. Min({n, 5, Max({1, capacity - preferred - 1})}) = count
    BY <1>14, <1>15
  <2>6. RenderChoices(d, s) =
          LET available1 == Max({0, capacity - count - more})
          IN  [capacity |-> capacity, count |-> count, critical |-> critical,
               start |-> Max({0, Min({d.selected - 1 - (count \div 2), n - count})}),
               summary |-> Min({preview, available1}),
               rows |-> Heading(s) + Min({preview, available1}) + 2 * Spacing(s) + count + more + RenderHints(s)]
    BY <1>16, <2>4, <2>5
  <2>7. Max({0, Min({d.selected - 1 - (count \div 2), n - count})}) = start
    BY <1>19, <1>20, <1>21, <1>22
  <2>8. Min({preview, Max({0, capacity - count - more})}) = summary
    BY <1>17, <1>18
  <2> QED BY <1>1, <1>2, <1>3, <2>6, <2>7, <2>8
<1>24. /\ summary + count + more <= capacity
       /\ critical <= capacity - 1 => summary >= critical
  <2>1. count <= capacity - preferred - 1 \/ count = 1
    BY <1>14, <1>15
  <2>2. preview >= critical
    BY <1>12
  <2>3. preferred >= 0 /\ capacity - count >= 1
    BY <1>5, <1>13, <2>1
  <2>4. more \in {0, 1} /\ (more = 1 => capacity - count > preferred)
    BY <1>16
  <2>5. capacity - count - more >= 0 /\ available = capacity - count - more
    BY <1>17, <2>3, <2>4
  <2>6. summary <= available /\ (summary = preview \/ summary = available)
    BY <1>18
  <2>7. critical <= capacity - 1 => available >= critical
    BY <1>13, <2>1, <2>4, <2>5
  <2> QED BY <2>2, <2>5, <2>6, <2>7
<1>25. start < sel /\ sel <= start + count
  <2>1. 0 <= half /\ half < count /\ 1 <= sel /\ sel <= n /\ count <= n
    BY <1>15, <1>19, <1>20
  <2>2. low = IF sel - 1 - half <= n - count THEN sel - 1 - half ELSE n - count
    BY <1>21
  <2>3. start = IF 0 >= low THEN 0 ELSE low
    BY <1>22
  <2>4. low <= sel - 1 - half /\ (low = sel - 1 - half \/ low = n - count)
    BY <2>2
  <2>5. start >= low /\ (start = 0 \/ start = low) /\ start >= 0
    BY <2>3
  <2> QED BY <2>1, <2>4, <2>5
<1>26. Len(Essential) < capacity => critical <= capacity - 1
  <2>1. Len(Essential) \in Nat
    BY <1>6
  <2> QED BY <1>8, <1>10, <2>1
<1>27. H + summary + 2 * G + count + more + T <= h
  BY <1>5, <1>24
<1>28. PICK rows : rows = H + summary + 2 * G + count + more + T
  OBVIOUS
<1>29. PICK view : view = [capacity |-> capacity, count |-> count, critical |-> critical, start |-> start,
                           summary |-> summary, rows |-> rows]
  OBVIOUS
<1>30. /\ view.capacity = capacity /\ view.count = count /\ view.critical = critical /\ view.start = start
       /\ view.summary = summary /\ view.rows = rows /\ view = RenderChoices(d, s)
  BY <1>23, <1>28, <1>29
<1> QED BY <1>4, <1>19, <1>24, <1>25, <1>26, <1>27, <1>28, <1>30

\* Rendering moves only the scroll.
LEMMA RenderKeeps ==
    ASSUME PromptInv, NEW s \in Screens, Render(s)
    PROVE  PromptInv'
<1>1. dialog # NoDialog /\ UNCHANGED <<prompt, promptsClosed, installed, said>> /\ dialog' = Rendered(dialog, s)
  BY DEF Render
<1>2. dialog \in DialogType /\ dialog.request \in BOOLEAN /\ dialog.offset \in Int
  BY <1>1 DEF PromptInv, DialogOpen, DialogHolds, DialogType
<1>3. PICK rows \in Int : rows = RequestRows(s)
  <2>1. PICK x \in Int : x = s.height - Heading(s) - RenderHints(s) - Spacing(s) - 1
    BY LayoutRows
  <2> QED BY <2>1, GreaterOfTwo DEF RequestRows
<1>4. PICK last \in Int : last = Max({0, Details - rows})
  <2>1. PICK x \in Int : x = Details - rows
    BY PromptAssumption
  <2> QED BY <2>1, GreaterOfTwo
<1>5. PICK n \in Int : n = Min({dialog.offset, last})
  BY <1>2, LesserOfTwo
<1>6. CASE dialog.request
  <2>1. dialog' = [dialog EXCEPT !.offset = n]
    BY <1>1, <1>3, <1>4, <1>5, <1>6 DEF Rendered
  <2>2. dialog' = [dialog EXCEPT !.request = dialog.request, !.offset = n]
    BY <1>2, <2>1 DEF DialogType
  <2> QED BY <1>1, <1>2, <2>2, ViewKeeps
<1>7. CASE ~dialog.request
  <2>1. dialog' = dialog
    BY <1>1, <1>7 DEF Rendered
  <2> QED BY <1>1, <2>1 DEF PromptInv, Lists, FlowsHold, DialogOpen, Aborted
<1> QED BY <1>2, <1>6, <1>7

-----------------------------------------------------------------------------
(* The theorems                                                            *)

\* The invariant holds initially,
LEMMA PromptInitHolds == PromptInit => PromptInv
<1> SUFFICES ASSUME PromptInit PROVE PromptInv
  OBVIOUS
<1>1. /\ prompt = [r \in Requests |-> Unstarted] /\ dialog = NoDialog /\ promptsClosed = FALSE /\ installed = {}
      /\ said = [r \in Requests |-> {}]
  BY DEF PromptInit
<1>2. Unstarted \in FlowType
  <2>1. PICK h : h = Blank /\
                 h \in [scope : Scopes \cup {Nothing}, status : {"allowed", "denied", Nothing},
                        lifetime : Range(Lifetimes) \cup {Nothing}, reason : {"typed", Nothing}]
    <3>1. PICK h : h = [scope |-> Nothing, status |-> Nothing, lifetime |-> Nothing, reason |-> Nothing]
      OBVIOUS
    <3>2. h \in [scope : Scopes \cup {Nothing}, status : {"allowed", "denied", Nothing},
                 lifetime : Range(Lifetimes) \cup {Nothing}, reason : {"typed", Nothing}]
      BY <3>1
    <3> QED BY <3>1, <3>2 DEF Blank
  <2>2. Nothing \in Outcomes
    BY DEF Outcomes
  <2> QED BY <2>1, <2>2 DEF Unstarted, FlowType
<1>3. ASSUME NEW r \in Requests PROVE FlowHolds(r, Unstarted, {}, FALSE)
  <2>1. /\ Unstarted.turn = "none" /\ Unstarted.state.scope = Nothing /\ Unstarted.completing = "no"
        /\ Unstarted.returned = Nothing /\ Unstarted.cancellation = Nothing /\ Unstarted.resolved = Nothing
    BY DEF Unstarted, Blank
  <2> QED BY <1>2, <2>1 DEF FlowHolds
<1>4. Unstarted.aborted = FALSE
  BY DEF Unstarted
<1>5. FlowsHold
  BY <1>1, <1>3, <1>4 DEF FlowsHold, Aborted
<1> QED BY <1>1, <1>5 DEF PromptInv, Lists, DialogOpen

\* is kept by every step,
LEMMA PromptNextKeeps == PromptInv /\ [PromptNext]_promptVars => PromptInv'
<1> SUFFICES ASSUME PromptInv, [PromptNext]_promptVars PROVE PromptInv'
  OBVIOUS
<1>1. CASE UNCHANGED promptVars
  BY <1>1 DEF promptVars, PromptInv, Lists, FlowsHold, DialogOpen, Aborted
<1>2. ASSUME NEW r \in Requests, RunFlow(r) \/ FlowStep(r) \/ AbortRequest(r) PROVE PromptInv'
  BY <1>2, RunFlowKeeps, RunQueuedFlowKeeps, ResolveDecisionKeeps, NextOfFlowKeeps, AfterFinishKeeps, CompletionRunsKeeps,
     TurnEndsKeeps, FlowReturnsKeeps, AnsweredKeeps, AbortRequestKeeps DEF FlowStep
<1>3. CASE CloseQueue
  BY <1>3, CloseQueueKeeps
<1>4. CASE \E k \in Keys : HandleInput(k)
  BY <1>4, HandleInputKeeps
<1>5. CASE HostAnswers
  BY <1>5, HostAnswersKeeps
<1>6. CASE \E s \in Screens : Render(s)
  BY <1>6, RenderKeeps
<1> QED BY <1>1, <1>2, <1>3, <1>4, <1>5, <1>6 DEF PromptNext

\* and so always holds.
LEMMA PromptInvHolds == PromptSpec => []PromptInv
BY PromptInitHolds, PromptNextKeeps, PTL DEF PromptSpec

\* It implies the property.
LEMMA FaithfulByInv == PromptInv => PromptFaithful
<1> SUFFICES ASSUME PromptInv PROVE PromptFaithful
  OBVIOUS
<1>1. AnswerIsTheUsers
  BY DEF PromptInv, FlowsHold, FlowHolds, Supported, AnswerIsTheUsers
<1>2. DialogFits
  <2> SUFFICES ASSUME dialog # NoDialog, NEW s \in Screens
               PROVE  /\ RenderChoices(dialog, s).rows <= s.height
                      /\ RenderChoices(dialog, s).start < dialog.selected
                      /\ dialog.selected <= RenderChoices(dialog, s).start + RenderChoices(dialog, s).count
                      /\ Len(Essential) < RenderChoices(dialog, s).capacity =>
                            RenderChoices(dialog, s).summary >= RenderChoices(dialog, s).critical
    BY DEF DialogFits
  <2>1. /\ dialog.key \in DecisionKeys /\ dialog.selected \in 1..Len(OptionsOf(dialog.owner, dialog.key))
    BY DEF PromptInv, DialogOpen, DialogHolds, DialogType
  <2>2. PICK n \in Nat : n = Len(OptionsOf(dialog.owner, dialog.key)) /\ n >= 1
    BY <2>1, OptionsOffered
  <2> QED BY <2>1, <2>2, ViewFits
<1> QED BY <1>1, <1>2 DEF PromptFaithful

\* What a flow hands over is what the user said while the request was live, and a dialog fits
\* in its terminal with the option under the cursor and the essential fields on screen, for
\* any set of requests, lifetimes, fields and terminals (UiDecisionFlowManager.ts,
\* PolicyDecisionFlow.ts).
THEOREM PromptFaithfulTheorem == PromptSpec => []PromptFaithful
BY PromptInvHolds, FaithfulByInv, PTL

-----------------------------------------------------------------------------
(* A request is completed once                                             *)

\* Nothing replaces a completion that was handed over, or undoes one that has run.
StaysComplete(f, g) ==
    /\ f.completing # "no" => g.completion = f.completion
    /\ f.completing \in {"done", "failed"} => g.completing = f.completing

\* One flow moves.
LEMMA OneStaysComplete ==
    ASSUME PromptInv, NEW r \in Requests, NEW g, prompt' = [prompt EXCEPT ![r] = g], StaysComplete(prompt[r], g)
    PROVE  \A q \in Requests : StaysComplete(prompt[q], prompt'[q])
<1>1. prompt'[r] = g /\ \A q \in Requests \ {r} : prompt'[q] = prompt[q]
  BY DEF PromptInv, Lists
<1> QED BY <1>1 DEF StaysComplete

\* A cancellation or an abort leaves the completion alone.
LEMMA CancelStays ==
    ASSUME NEW r \in Requests, NEW f \in FlowType
    PROVE  StaysComplete(f, WithCancel(r, f)) /\ StaysComplete(f, Cancels(r, f)) /\ StaysComplete(f, AbortResolved(r, f))
<1>1. PICK c : WithCancel(r, f) = [f EXCEPT !.cancellation = c]
  BY DEF WithCancel
<1>2. /\ Cancels(r, f) = [[f EXCEPT !.cancellation = c] EXCEPT !.result = [f EXCEPT !.cancellation = c].cancellation,
                                                               !.turn = "finishing"]
      /\ AbortResolved(r, f) \in {f, [[f EXCEPT !.cancellation = c] EXCEPT !.returned = [f EXCEPT !.cancellation = c].cancellation]}
  BY <1>1 DEF Cancels, AbortResolved
<1> QED BY <1>1, <1>2 DEF StaysComplete, FlowType

\* A second completion is dropped.
LEMMA CompletesStays ==
    ASSUME NEW r \in Requests, NEW f \in FlowType, NEW a
    PROVE  StaysComplete(f, Completes(r, f, a)) /\ DOMAIN Completes(r, f, a) = DOMAIN f
BY DEF StaysComplete, FlowType, Completes

\* Every step of a flow.
LEMMA FlowStaysComplete ==
    ASSUME PromptInv, NEW r \in Requests, RunFlow(r) \/ FlowStep(r) \/ AbortRequest(r)
    PROVE  \A q \in Requests : StaysComplete(prompt[q], prompt'[q])
<1>1. PICK f \in FlowType : f = prompt[r]
  BY OfFlow
<1>2. SUFFICES \E g : prompt' = [prompt EXCEPT ![r] = g] /\ StaysComplete(f, g)
  BY <1>1, OneStaysComplete
<1>3. CASE RunFlow(r)
  <2>1. PICK c : c = WithCancel(r, f) /\ StaysComplete(f, c) /\ DOMAIN c = DOMAIN f
    <3>1. StaysComplete(f, WithCancel(r, f))
      BY CancelStays
    <3>2. DOMAIN WithCancel(r, f) = DOMAIN f
      BY DEF WithCancel
    <3> QED BY <3>1, <3>2
  <2>2. PICK g : /\ prompt' = [prompt EXCEPT ![r] = g]
                 /\ g \in {[c EXCEPT !.turn = "ended", !.returned = c.cancellation], [f EXCEPT !.turn = "queued"]}
    BY <1>1, <1>3, <2>1 DEF RunFlow
  <2>3. StaysComplete(f, g)
    BY <2>1, <2>2 DEF StaysComplete, FlowType
  <2> QED BY <2>2, <2>3
<1>4. CASE RunQueuedFlow(r)
  <2>0. DOMAIN prompt = Requests
    BY DEF PromptInv, Lists
  <2>1. PICK g : /\ prompt' = [prompt EXCEPT ![r] = g]
                 /\ \/ g = Cancels(r, f)
                    \/ \E p : g = [f EXCEPT !.resolved = p, !.result = p, !.turn = "finishing"]
                    \/ g = [f EXCEPT !.turn = "asking", !.key = "scope"]
    <3>1. CASE prompt' = [prompt EXCEPT ![r] = Cancels(r, @)]
      BY <1>1, <3>1
    <3>2. ASSUME NEW p, prompt' = [prompt EXCEPT ![r].resolved = p, ![r].result = p, ![r].turn = "finishing"]
          PROVE  \E g : /\ prompt' = [prompt EXCEPT ![r] = g]
                        /\ \E q : g = [f EXCEPT !.resolved = q, !.result = q, !.turn = "finishing"]
      <4>1. prompt' = [prompt EXCEPT ![r] = [f EXCEPT !.resolved = p, !.result = p, !.turn = "finishing"]]
        BY <1>1, <2>0, <3>2
      <4> QED BY <4>1
    <3>3. CASE prompt' = [prompt EXCEPT ![r].turn = "asking", ![r].key = "scope"]
      <4>1. prompt' = [prompt EXCEPT ![r] = [f EXCEPT !.turn = "asking", !.key = "scope"]]
        BY <1>1, <2>0, <3>3
      <4> QED BY <4>1
    <3>4. \/ prompt' = [prompt EXCEPT ![r] = Cancels(r, @)]
          \/ \E p : prompt' = [prompt EXCEPT ![r].resolved = p, ![r].result = p, ![r].turn = "finishing"]
          \/ prompt' = [prompt EXCEPT ![r].turn = "asking", ![r].key = "scope"]
      BY <1>4, Zenon DEF RunQueuedFlow
    <3> QED BY <3>1, <3>2, <3>3, <3>4
  <2>2. StaysComplete(f, g)
    BY <2>1, CancelStays DEF StaysComplete, FlowType
  <2> QED BY <2>1, <2>2
<1>5. CASE ResolveDecision(r)
  <2>1. PICK g : /\ prompt' = [prompt EXCEPT ![r] = g]
                 /\ \/ g = Cancels(r, f)
                    \/ \E v : g = [f EXCEPT !.result = v, !.turn = "finishing"]
                    \/ \E v : g = [f EXCEPT !.state = v, !.turn = "chosen"]
    BY <1>1, <1>5 DEF ResolveDecision, FlowType
  <2>2. StaysComplete(f, g)
    BY <2>1, CancelStays DEF StaysComplete, FlowType
  <2> QED BY <2>1, <2>2
<1>6. CASE NextOfFlow(r)
  <2>0. DOMAIN prompt = Requests
    BY DEF PromptInv, Lists
  <2>1. PICK g : /\ prompt' = [prompt EXCEPT ![r] = g]
                 /\ \/ g = Cancels(r, f)
                    \/ \E v : g = [f EXCEPT !.result = v, !.turn = "finishing"]
                    \/ \E k : g = [f EXCEPT !.key = k, !.turn = "asking"]
    <3>1. CASE prompt' = [prompt EXCEPT ![r] = Cancels(r, @)]
      BY <1>1, <3>1
    <3>2. ASSUME NEW v, prompt' = [prompt EXCEPT ![r].result = v, ![r].turn = "finishing"]
          PROVE  \E g : /\ prompt' = [prompt EXCEPT ![r] = g]
                        /\ \E w : g = [f EXCEPT !.result = w, !.turn = "finishing"]
      <4>1. prompt' = [prompt EXCEPT ![r] = [f EXCEPT !.result = v, !.turn = "finishing"]]
        BY <1>1, <2>0, <3>2
      <4> QED BY <4>1
    <3>3. ASSUME NEW k, prompt' = [prompt EXCEPT ![r].key = k, ![r].turn = "asking"]
          PROVE  \E g : /\ prompt' = [prompt EXCEPT ![r] = g]
                        /\ \E w : g = [f EXCEPT !.key = w, !.turn = "asking"]
      <4>1. prompt' = [prompt EXCEPT ![r] = [f EXCEPT !.key = k, !.turn = "asking"]]
        BY <1>1, <2>0, <3>3
      <4> QED BY <4>1
    <3>4. \/ prompt' = [prompt EXCEPT ![r] = Cancels(r, @)]
          \/ \E v : prompt' = [prompt EXCEPT ![r].result = v, ![r].turn = "finishing"]
          \/ \E k : prompt' = [prompt EXCEPT ![r].key = k, ![r].turn = "asking"]
      BY <1>6, Zenon DEF NextOfFlow
    <3> QED BY <3>1, <3>2, <3>3, <3>4
  <2>2. StaysComplete(f, g)
    BY <2>1, CancelStays DEF StaysComplete, FlowType
  <2> QED BY <2>1, <2>2
<1>7. CASE AfterFinish(r)
  <2>1. PICK c : /\ c \in {f, Completes(r, f, f.result)}
                 /\ prompt' = [prompt EXCEPT ![r] = [c EXCEPT !.turn = "completing"]]
    BY <1>1, <1>7 DEF AfterFinish
  <2>2. StaysComplete(f, c) /\ DOMAIN c = DOMAIN f
    BY <2>1, CompletesStays DEF StaysComplete
  <2>3. StaysComplete(f, [c EXCEPT !.turn = "completing"])
    BY <2>2 DEF StaysComplete, FlowType
  <2> QED BY <2>1, <2>3
<1>8. CASE CompletionRuns(r, TRUE) \/ CompletionRuns(r, FALSE)
  <2>1. PICK e : prompt' = [prompt EXCEPT ![r].completing = e] /\ f.completing = "pending"
    BY <1>1, <1>8 DEF CompletionRuns
  <2>2. PICK g : g = [f EXCEPT !.completing = e] /\ prompt' = [prompt EXCEPT ![r] = g]
    BY <1>1, <2>1
  <2>3. StaysComplete(f, g)
    BY <2>1, <2>2 DEF StaysComplete, FlowType
  <2> QED BY <2>2, <2>3
<1>9. CASE TurnEnds(r)
  <2>1. PICK b : prompt' = [prompt EXCEPT ![r] =
                             [f EXCEPT !.turn = "ended", !.key = Nothing, !.state = Blank, !.cancellation = Nothing,
                                       !.result = Nothing, !.returned = b]]
    BY <1>1, <1>9 DEF TurnEnds
  <2>2. PICK g : g = [f EXCEPT !.turn = "ended", !.key = Nothing, !.state = Blank, !.cancellation = Nothing,
                               !.result = Nothing, !.returned = b]
    OBVIOUS
  <2>3. StaysComplete(f, g)
    BY <2>2 DEF StaysComplete, FlowType
  <2> QED BY <2>1, <2>2, <2>3
<1>10. CASE FlowReturns(r)
  <2>0. PICK c : c = IF f.returned # Rejection /\ f.resolved = Nothing THEN Completes(r, f, f.returned) ELSE f
    OBVIOUS
  <2>1. PICK a \in {"rejected", "given", "awaited"} : prompt' = [prompt EXCEPT ![r] = [c EXCEPT !.answer = a]]
    BY <1>1, <1>10, <2>0 DEF FlowReturns
  <2>2. StaysComplete(f, c) /\ DOMAIN c = DOMAIN f
    BY <2>0, CompletesStays DEF StaysComplete
  <2>3. StaysComplete(f, [c EXCEPT !.answer = a])
    BY <2>2 DEF StaysComplete, FlowType
  <2> QED BY <2>1, <2>3
<1>11. CASE Answered(r)
  <2>1. PICK a : prompt' = [prompt EXCEPT ![r].answer = a]
    BY <1>11 DEF Answered
  <2>2. PICK g : g = [f EXCEPT !.answer = a] /\ prompt' = [prompt EXCEPT ![r] = g]
    BY <1>1, <2>1
  <2>3. StaysComplete(f, g)
    BY <2>2 DEF StaysComplete, FlowType
  <2> QED BY <2>2, <2>3
<1>12. CASE AbortRequest(r)
  <2>1. PICK c : c = AbortResolved(r, f) /\ StaysComplete(f, c) /\ DOMAIN c = DOMAIN f
    <3>1. StaysComplete(f, AbortResolved(r, f))
      BY CancelStays
    <3>2. DOMAIN AbortResolved(r, f) = DOMAIN f
      BY DEF AbortResolved, WithCancel
    <3> QED BY <3>1, <3>2
  <2>2. prompt' = [prompt EXCEPT ![r] = [c EXCEPT !.aborted = TRUE]]
    BY <1>1, <1>12, <2>1 DEF AbortRequest
  <2>3. StaysComplete(f, [c EXCEPT !.aborted = TRUE])
    BY <2>1 DEF StaysComplete, FlowType
  <2> QED BY <2>2, <2>3
<1> QED BY <1>3, <1>4, <1>5, <1>6, <1>7, <1>8, <1>9, <1>10, <1>11, <1>12 DEF FlowStep

\* Every step.
LEMMA StepStaysComplete ==
    PromptInv /\ PromptInv' /\ [PromptNext]_promptVars =>
        [\A r \in Requests :
           /\ prompt[r].completing # "no" => prompt'[r].completion = prompt[r].completion
           /\ prompt[r].completing \in {"done", "failed"} => prompt'[r].completing = prompt[r].completing
           /\ prompt'[r].resolved # Nothing => prompt'[r].completing = "no"]_promptVars
<1> SUFFICES ASSUME PromptInv, PromptInv', PromptNext
             PROVE  \A r \in Requests :
                      /\ prompt[r].completing # "no" => prompt'[r].completion = prompt[r].completion
                      /\ prompt[r].completing \in {"done", "failed"} => prompt'[r].completing = prompt[r].completing
                      /\ prompt'[r].resolved # Nothing => prompt'[r].completing = "no"
  OBVIOUS
<1>1. \A q \in Requests : StaysComplete(prompt[q], prompt'[q])
  <2>1. CASE CloseQueue
    <3>1. ASSUME NEW q \in Requests PROVE StaysComplete(prompt[q], prompt'[q])
      <4>1. prompt'[q] = AbortResolved(q, prompt[q]) /\ prompt[q] \in FlowType
        BY <2>1, OfFlow DEF CloseQueue
      <4> QED BY <4>1, CancelStays
    <3> QED BY <3>1
  <2>2. CASE \E r \in Requests : RunFlow(r) \/ FlowStep(r) \/ AbortRequest(r)
    BY <2>2, FlowStaysComplete
  <2>3. CASE UNCHANGED prompt
    BY <2>3 DEF StaysComplete
  <2> QED BY <2>1, <2>2, <2>3 DEF PromptNext, HandleInput, HostAnswers, Render
<1>2. \A r \in Requests : prompt'[r].resolved # Nothing => prompt'[r].completing = "no"
  BY DEF PromptInv, FlowsHold, FlowHolds
<1> QED BY <1>1, <1>2 DEF StaysComplete

\* A request is completed once: nothing replaces or undoes the choice that was handed over,
\* and a request that a stored policy answered hands over none (PolicyDecisionFlow.ts:68-95).
THEOREM CompletedOnceTheorem == PromptSpec => CompletedOnce
<1>1. PromptInv /\ PromptInv' /\ [PromptNext]_promptVars =>
        [\A r \in Requests :
           /\ prompt[r].completing # "no" => prompt'[r].completion = prompt[r].completion
           /\ prompt[r].completing \in {"done", "failed"} => prompt'[r].completing = prompt[r].completing
           /\ prompt'[r].resolved # Nothing => prompt'[r].completing = "no"]_promptVars
  BY StepStaysComplete
<1> QED BY <1>1, PromptInvHolds, PTL DEF PromptSpec, CompletedOnce
=============================================================================
