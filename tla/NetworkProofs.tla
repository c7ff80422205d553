--------------------------- MODULE NetworkProofs ----------------------------
(***************************************************************************)
(* Parts of a sandboxed command.  Three of them share no state: the run    *)
(* itself, the table of DNS leases behind its name lookups, and the byte   *)
(* relay of a connection that was let through.  The last two, the packet   *)
(* queue and the gateway behind it, interact.                              *)
(***************************************************************************)
EXTENDS PacketQueue, NetworkSandbox, SyntheticDns, TcpRelay, SumTheorems, FiniteSetTheorems, SequenceTheorems, TLAPS

-----------------------------------------------------------------------------
(***************************************************************************)
(* The run: the worker executes only behind every protection, and a settled*)
(* run leaves nothing behind, wherever an abort, a timeout or the failure of*)
(* a process or a service comes.                                           *)
(***************************************************************************)
SandboxSpec == SandboxInit /\ [][SandboxNext]_sandboxVars

Preparing == {"directory", "ipc", "bus", "trust", "listeners"}
Running == {SetupSteps[i] : i \in 1..9} \cup {"exit"}
ProcessStates == {"none", "running", "killed", "exited", "gone"}
Ending == {"aborted", "timedOut", "fatal"}

SandboxTypeOK ==
    /\ phase \in Preparing \cup Running \cup {"cleanup", "settled"}
    /\ proc \in [Children -> ProcessStates]

\* The steps are done in the order of run(), and the worker is unblocked last.
StepsDone ==
    /\ \A i \in 1..9 : phase = SetupSteps[i] => \A j \in 1..(i - 1) : SetupSteps[j] \in done
    /\ phase = "exit" => unblocked
    /\ unblocked => Protections \subseteq done

\* No cancellation before the worker is started; whatever ends the run has killed it.
WorkerKilled ==
    /\ phase \in Preparing => proc["outer"] = "none" /\ cause \cap {"aborted", "timedOut"} = {}
    /\ cause \cap Ending # {} => proc["outer"] # "running"

\* What cleanup() finds and what it leaves.
CleanedUp ==
    /\ Stopping => \A k \in Children \ {"bus"} : proc[k] # "running"
    /\ phase = "settled" => services = {} /\ proc["outer"] \in {"none", "gone"} /\ proc["bus"] # "running"

\* How a run ends is decided when it leaves for cleanup().
OutcomeTold ==
    /\ ~Stopping => outcome = "none"
    /\ outcome = "ok" => unblocked /\ cause \cap Ending = {}
    /\ Stopping /\ "aborted" \in cause => outcome = "aborted"

SandboxInv == SandboxTypeOK /\ StepsDone /\ WorkerKilled /\ CleanedUp /\ OutcomeTold

-----------------------------------------------------------------------------
(* The order of the steps.                                                 *)

\* The successor of an element that occurs once.
LEMMA NextOfAt ==
    ASSUME NEW order, Len(order) \in Nat, NEW i \in 1..Len(order),
           \A j \in 1..Len(order) : order[j] = order[i] => j = i
    PROVE  NextOf(order, order[i]) = order[i + 1]
<1> DEFINE I == {j \in 1..Len(order) : order[j] = order[i]}
<1>1. I = {i}
  OBVIOUS
<1>2. SelectInSeq(order, LAMBDA x : x = order[i]) = Min(I)
  BY <1>1 DEF SelectInSeq
<1>3. Min({i}) = i
  BY DEF Min
<1> QED BY <1>1, <1>2, <1>3 DEF NextOf

\* The steps of run() follow one another.
LEMMA SetupOrder ==
    /\ \A i \in 1..8 : NextOf(SetupSteps, SetupSteps[i]) = SetupSteps[i + 1]
    /\ Range(SetupSteps) = {SetupSteps[i] : i \in 1..9}
    /\ Head(SetupSteps) = SetupSteps[1] /\ SetupSteps[9] = "unblock"
    /\ Protections = {SetupSteps[i] : i \in 1..8}
    /\ \A i, j \in 1..9 : SetupSteps[i] = SetupSteps[j] => i = j
<1>1. \A i, j \in 1..9 : SetupSteps[i] = SetupSteps[j] => i = j
  BY DEF SetupSteps
<1>2. Len(SetupSteps) = 9 /\ DOMAIN SetupSteps = 1..9
  BY DEF SetupSteps
<1>3. \A i \in 1..8 : NextOf(SetupSteps, SetupSteps[i]) = SetupSteps[i + 1]
  <2> TAKE i \in 1..8
  <2>1. /\ Len(SetupSteps) \in Nat /\ i \in 1..Len(SetupSteps)
        /\ \A j \in 1..Len(SetupSteps) : SetupSteps[j] = SetupSteps[i] => j = i
    BY <1>1, <1>2
  <2> QED BY <2>1, NextOfAt
<1>4. Range(SetupSteps) = {SetupSteps[i] : i \in 1..9}
  BY <1>2 DEF Range
<1>5. Head(SetupSteps) = SetupSteps[1] /\ SetupSteps[9] = "unblock"
  BY DEF SetupSteps
<1>6. Protections = {SetupSteps[i] : i \in 1..8}
  BY DEF SetupSteps, Protections
<1> QED BY <1>1, <1>3, <1>4, <1>5, <1>6

\* The steps of prepareRuntimeFiles follow one another.
LEMMA PrepareOrder ==
    /\ NextOf(PrepareSteps, "directory") = "ipc" /\ NextOf(PrepareSteps, "ipc") = "trust"
    /\ NextOf(PrepareSteps, "trust") = "listeners" /\ Last(PrepareSteps) = "listeners"
    /\ Range(PrepareSteps) = {"directory", "ipc", "trust", "listeners"}
<1>1. Len(PrepareSteps) = 4 /\ DOMAIN PrepareSteps = 1..4
  BY DEF PrepareSteps
<1>2. \A i, j \in 1..4 : PrepareSteps[i] = PrepareSteps[j] => i = j
  BY DEF PrepareSteps
<1>3. \A i \in 1..3 : NextOf(PrepareSteps, PrepareSteps[i]) = PrepareSteps[i + 1]
  <2> TAKE i \in 1..3
  <2>1. /\ Len(PrepareSteps) \in Nat /\ i \in 1..Len(PrepareSteps)
        /\ \A j \in 1..Len(PrepareSteps) : PrepareSteps[j] = PrepareSteps[i] => j = i
    BY <1>1, <1>2
  <2> QED BY <2>1, NextOfAt
<1>4. /\ PrepareSteps[1] = "directory" /\ PrepareSteps[2] = "ipc"
      /\ PrepareSteps[3] = "trust" /\ PrepareSteps[4] = "listeners"
  BY DEF PrepareSteps
<1>5. Range(PrepareSteps) = {PrepareSteps[i] : i \in 1..4}
  BY <1>1 DEF Range
<1> QED BY <1>1, <1>3, <1>4, <1>5 DEF Last

\* Every phase has its own name.
LEMMA PhasesDiffer ==
    \A i \in 1..9 : SetupSteps[i] \notin Preparing \cup {"exit", "cleanup", "settled"}
BY DEF SetupSteps, Preparing

-----------------------------------------------------------------------------
(* Ending a run.                                                           *)

\* terminate() leaves no child running but the proxy of the session bus, and
\* changes nothing else.
LEMMA TerminatedChildren ==
    ASSUME NEW children \in [Children -> ProcessStates]
    PROVE  /\ Terminated(children) \in [Children -> ProcessStates]
           /\ \A k \in Children \ {"bus"} : Terminated(children)[k] # "running"
           /\ \A k \in Children : children[k] # "running" => Terminated(children)[k] = children[k]
BY DEF Terminated, Killed, ProcessStates

\* A run that leaves for cleanup() ends as its flags say.
LEMMA LeaveKeepsInv ==
    ASSUME SandboxInv, ~Stopping, NEW result \in {"error", "ok"}, Leave(result),
           UNCHANGED <<done, unblocked>>, cause' = cause \/ cause' = cause \cup {"fatal"},
           result = "ok" => unblocked /\ cause' = cause
    PROVE  SandboxInv'
<1>1. proc \in [Children -> ProcessStates]
  BY DEF SandboxInv, SandboxTypeOK
<1>2. /\ phase' = "cleanup" /\ outcome' = Outcome(result) /\ proc' = Terminated(proc)
  BY DEF Leave, CleanupKills
<1>3. /\ proc' \in [Children -> ProcessStates]
      /\ \A k \in Children \ {"bus"} : proc'[k] # "running"
  BY <1>1, <1>2, TerminatedChildren
<1>4. "outer" \in Children \ {"bus"} /\ "bus" \in Children
  BY DEF Children, Helpers
<1>5. /\ outcome' = "ok" => result = "ok" /\ cause \cap Ending = {}
      /\ "aborted" \in cause => outcome' = "aborted"
  BY <1>2 DEF Outcome, Ending
<1>6. SandboxTypeOK'
  BY <1>2, <1>3 DEF SandboxTypeOK
<1>7. StepsDone'
  BY <1>2, PhasesDiffer DEF StepsDone, SandboxInv
<1>8. WorkerKilled' /\ CleanedUp'
  BY <1>2, <1>3, <1>4 DEF WorkerKilled, CleanedUp, Preparing, Stopping
<1>9. OutcomeTold'
  BY <1>2, <1>5 DEF OutcomeTold, Stopping, Ending
<1> QED BY <1>6, <1>7, <1>8, <1>9 DEF SandboxInv

\* The failure of a service or of a helper that is not awaited kills the worker.
LEMMA FailKeepsInv ==
    ASSUME SandboxInv, NEW children \in [Children -> ProcessStates], Fail(children),
           \A k \in Children : children[k] = proc[k] \/ children[k] = "gone",
           phase \in Preparing => children["outer"] = proc["outer"],
           UNCHANGED <<phase, done, unblocked, services, outcome>>
    PROVE  SandboxInv'
<1>1. "outer" \in Children \ {"bus"} /\ "bus" \in Children
  BY DEF Children, Helpers
<1>2. /\ proc' \in [Children -> ProcessStates]
      /\ \A k \in Children : proc[k] # "running" => proc'[k] = proc[k] \/ proc'[k] = "gone"
      /\ phase \in Preparing => proc'["outer"] = proc["outer"]
  <2>1. CASE Fails
    BY <1>1, <2>1, TerminatedChildren DEF Fail, SandboxInv, WorkerKilled
  <2>2. CASE ~Fails
    BY <1>1, <2>2 DEF Fail
  <2> QED BY <2>1, <2>2
<1>3. cause' \cap Ending # {} => proc'["outer"] # "running"
  <2>1. CASE Fails
    BY <1>1, <2>1, TerminatedChildren DEF Fail
  <2>2. CASE ~Fails
    BY <1>1, <2>2 DEF Fail, SandboxInv, WorkerKilled
  <2> QED BY <2>1, <2>2
<1>4. /\ cause' = cause \/ (cause' = cause \cup {"fatal"} /\ ~Stopping)
  BY DEF Fail, Fails
<1>5. SandboxTypeOK' /\ StepsDone'
  BY <1>2 DEF SandboxInv, SandboxTypeOK, StepsDone
<1>6. WorkerKilled'
  BY <1>2, <1>3, <1>4 DEF SandboxInv, WorkerKilled
<1>7. CleanedUp'
  BY <1>1, <1>2 DEF SandboxInv, CleanedUp, Stopping
<1>8. OutcomeTold'
  BY <1>4 DEF SandboxInv, OutcomeTold, Stopping
<1> QED BY <1>5, <1>6, <1>7, <1>8 DEF SandboxInv

-----------------------------------------------------------------------------
(* Preparation and setup.                                                  *)

\* Preparation has neither a worker nor a cancellation: it is left with both.
LEMMA PrepareKeepsInv ==
    ASSUME SandboxInv, NEW s \in Range(PrepareSteps), Prepare(s) \/ PrepareFails(s)
    PROVE  SandboxInv'
<1>1. /\ phase = s /\ s \in {"directory", "trust", "listeners"} /\ UNCHANGED <<done, unblocked>>
  BY PrepareOrder DEF Prepare, PrepareFails
<1>2. ~Stopping /\ phase \in Preparing
  BY <1>1 DEF Stopping, Preparing
<1>3. CASE PrepareFails(s)
  BY <1>1, <1>2, <1>3, LeaveKeepsInv DEF PrepareFails
<1>4. CASE Prepare(s) /\ s # "listeners"
  <2>1. phase' \in {"ipc", "listeners"} /\ UNCHANGED <<proc, cause, outcome>>
    BY <1>1, <1>4, PrepareOrder DEF Prepare
  <2>2. phase' \in Preparing /\ ~Stopping'
    BY <2>1 DEF Preparing, Stopping
  <2> QED BY <1>1, <1>2, <2>1, <2>2, PhasesDiffer
          DEF SandboxInv, SandboxTypeOK, StepsDone, WorkerKilled, CleanedUp, OutcomeTold, Stopping, Preparing
<1>5. CASE Prepare(s) /\ s = "listeners" /\ "fatal" \in cause
  <2>1. Leave("error") /\ UNCHANGED cause
    BY <1>5, PrepareOrder DEF Prepare
  <2> QED BY <1>1, <1>2, <2>1, LeaveKeepsInv
<1>6. CASE Prepare(s) /\ s = "listeners" /\ "fatal" \notin cause
  <2>1. StartOuter
    BY <1>6, PrepareOrder DEF Prepare
  <2>2. phase' = SetupSteps[1] /\ UNCHANGED outcome
    BY <2>1, SetupOrder DEF StartOuter
  <2>3. "outer" \in Children \ {"bus"} /\ proc \in [Children -> ProcessStates]
    BY DEF Children, Helpers, SandboxInv, SandboxTypeOK
  <2>4. /\ proc' \in [Children -> ProcessStates]
        /\ cause' \cap Ending # {} => proc'["outer"] # "running"
    <3> DEFINE started == [proc EXCEPT !["outer"] = "running"]
    <3>1. started \in [Children -> ProcessStates]
      BY <2>3 DEF ProcessStates
    <3>2. CASE "signal" \in cause
      <4>1. proc' = Terminated(started)
        BY <2>1, <3>2 DEF StartOuter
      <4> HIDE DEF started
      <4> QED BY <3>1, <4>1, <2>3, TerminatedChildren
    <3>3. CASE "signal" \notin cause
      <4>1. proc' = started /\ cause' = cause
        BY <2>1, <3>3 DEF StartOuter
      <4>2. cause \cap Ending = {}
        BY <1>2, <1>6 DEF SandboxInv, WorkerKilled, Ending
      <4> QED BY <3>1, <4>1, <4>2
    <3> QED BY <3>2, <3>3
  <2>5. /\ phase' \in Running /\ phase' \notin Preparing \cup {"exit", "cleanup", "settled"}
    BY <2>2, PhasesDiffer DEF Running
  <2>6. SandboxTypeOK'
    BY <2>4, <2>5 DEF SandboxTypeOK
  <2>7. StepsDone'
    <3>1. \A i \in 1..9 : phase' = SetupSteps[i] => i = 1
      BY <2>2, SetupOrder
    <3>2. \A i \in 1..9 : phase' = SetupSteps[i] => \A j \in 1..(i - 1) : SetupSteps[j] \in done'
      BY <3>1
    <3> QED BY <3>2, <1>1, <2>5 DEF StepsDone, SandboxInv
  <2>8. WorkerKilled' /\ CleanedUp'
    BY <2>4, <2>5 DEF WorkerKilled, CleanedUp, Stopping
  <2>9. OutcomeTold'
    BY <1>2, <2>2, <2>5 DEF SandboxInv, OutcomeTold, Stopping
  <2> QED BY <2>6, <2>7, <2>8, <2>9 DEF SandboxInv
<1> QED BY <1>3, <1>4, <1>5, <1>6

\* The proxy of the session bus is started, ready or given up.
LEMMA BusKeepsInv ==
    ASSUME SandboxInv, SpawnBus \/ BusReady \/ BusFails
    PROVE  SandboxInv'
<1>1. /\ phase \in {"ipc", "bus"} /\ phase' \in {"bus", "trust"}
      /\ UNCHANGED <<done, unblocked, cause, outcome>>
  BY PrepareOrder DEF SpawnBus, BusReady, BusFails
<1>2. proc' \in [Children -> ProcessStates] /\ proc'["outer"] = proc["outer"]
  <2>1. proc \in [Children -> ProcessStates] /\ "outer" \in Children
    BY DEF SandboxInv, SandboxTypeOK, Children
  <2>2. CASE SpawnBus
    BY <2>1, <2>2 DEF SpawnBus, ProcessStates
  <2>3. CASE BusReady
    BY <2>1, <2>3 DEF BusReady
  <2>4. CASE BusFails
    BY <2>1, <2>4 DEF BusFails, Killed, ProcessStates
  <2> QED BY <2>2, <2>3, <2>4
<1>3. /\ phase \in Preparing /\ phase' \in Preparing /\ ~Stopping /\ ~Stopping'
      /\ phase' # "settled" /\ phase' # "exit"
  BY <1>1 DEF Preparing, Stopping
<1>4. SandboxTypeOK' /\ StepsDone'
  BY <1>1, <1>2, <1>3, PhasesDiffer DEF SandboxInv, SandboxTypeOK, StepsDone
<1> QED BY <1>1, <1>2, <1>3, <1>4 DEF SandboxInv, WorkerKilled, CleanedUp, OutcomeTold

\* A step of run() is completed before the next begins.
LEMMA CompleteStepKeepsInv ==
    ASSUME SandboxInv, NEW s \in Range(SetupSteps), CompleteStep(s)
    PROVE  SandboxInv'
<1>1. PICK i \in 1..9 : s = SetupSteps[i]
  BY SetupOrder
<1>2. i \in 1..8
  <2>1. CanComplete["unblock"] = FALSE
    BY DEF CanComplete
  <2>2. s # "unblock"
    BY <2>1 DEF CompleteStep
  <2> QED BY <1>1, <2>2, SetupOrder
<1>3. /\ phase = SetupSteps[i] /\ phase' = SetupSteps[i + 1] /\ done' = done \cup {SetupSteps[i]}
      /\ proc' = Reached(SetupSteps[i + 1]) /\ UNCHANGED <<unblocked, services, cause, outcome>>
  BY <1>1, <1>2, SetupOrder DEF CompleteStep
<1>4. i + 1 \in 1..9
  BY <1>2
<1>5. /\ phase \notin Preparing \cup {"exit", "cleanup", "settled"}
      /\ phase' \notin Preparing \cup {"exit", "cleanup", "settled"} /\ phase' \in Running
  BY <1>1, <1>3, <1>4, PhasesDiffer DEF Running
<1>6. proc' \in [Children -> ProcessStates] /\ proc'["outer"] = proc["outer"]
  <2>1. proc \in [Children -> ProcessStates] /\ "outer" \notin Helpers /\ "outer" \in Children
    BY DEF SandboxInv, SandboxTypeOK, Children, Helpers
  <2> QED BY <1>3, <2>1 DEF Reached, Children, ProcessStates
<1>7. StepsDone'
  <2>1. ASSUME NEW k \in 1..9, phase' = SetupSteps[k], NEW j \in 1..(k - 1) PROVE SetupSteps[j] \in done'
    <3>1. k = i + 1
      BY <1>3, <1>4, <2>1, SetupOrder
    <3>2. j \in 1..(i - 1) \/ j = i
      BY <3>1, <1>1, <2>1
    <3> QED BY <1>1, <1>3, <3>2 DEF SandboxInv, StepsDone
  <2> QED BY <1>3, <1>5, <2>1 DEF SandboxInv, StepsDone
<1> QED BY <1>3, <1>5, <1>6, <1>7
        DEF SandboxInv, SandboxTypeOK, WorkerKilled, CleanedUp, OutcomeTold, Stopping

\* A step that fails, a worker that exits first and the end of the worker leave.
LEMMA LeavingKeepsInv ==
    ASSUME SandboxInv, (\E s \in Range(SetupSteps) : StepFails(s)) \/ RaceLost \/ WorkerExit
    PROVE  SandboxInv'
<1>1. CASE WorkerExit
  <2>1. phase = "exit" /\ Leave("ok") /\ UNCHANGED <<done, unblocked, cause>>
    BY <1>1 DEF WorkerExit
  <2>2. unblocked /\ ~Stopping
    BY <2>1 DEF SandboxInv, StepsDone, Stopping
  <2> QED BY <2>1, <2>2, LeaveKeepsInv
<1>2. CASE (\E s \in Range(SetupSteps) : StepFails(s)) \/ RaceLost
  <2>1. Leave("error") /\ UNCHANGED <<done, unblocked, cause>>
    BY <1>2 DEF StepFails, RaceLost
  <2>2. ~Stopping
    BY <1>2, SetupOrder, PhasesDiffer DEF StepFails, RaceLost, Raced, Stopping
  <2> QED BY <2>1, <2>2, LeaveKeepsInv
<1> QED BY <1>1, <1>2

\* The worker is unblocked behind every step, or not at all.
LEMMA UnblockKeepsInv ==
    ASSUME SandboxInv, UnblockWorker
    PROVE  SandboxInv'
<1>1. phase = "unblock" /\ phase = SetupSteps[9] /\ ~Stopping /\ UNCHANGED <<done, services>>
  BY SetupOrder DEF UnblockWorker, Stopping
<1>2. CASE proc["outer"] = "running"
  <2>1. unblocked' = TRUE /\ phase' = "exit" /\ UNCHANGED <<proc, cause, outcome>>
    BY <1>2 DEF UnblockWorker
  <2>2. Protections \subseteq done
    <3>1. \A j \in 1..8 : SetupSteps[j] \in done
      BY <1>1 DEF SandboxInv, StepsDone
    <3> QED BY <3>1, SetupOrder
  <2>3. phase' \notin Preparing /\ phase' \in Running /\ ~Stopping' /\ phase' # "settled"
    BY <2>1 DEF Preparing, Running, Stopping
  <2>4. SandboxTypeOK' /\ StepsDone'
    BY <1>1, <2>1, <2>2, <2>3, PhasesDiffer DEF SandboxInv, SandboxTypeOK, StepsDone
  <2>5. WorkerKilled' /\ CleanedUp'
    BY <2>1, <2>3 DEF SandboxInv, WorkerKilled, CleanedUp
  <2>6. OutcomeTold'
    BY <1>1, <2>1, <2>3 DEF SandboxInv, OutcomeTold
  <2> QED BY <2>4, <2>5, <2>6 DEF SandboxInv
<1>3. CASE proc["outer"] # "running"
  <2>1. /\ Leave("error") /\ UNCHANGED unblocked
        /\ cause' = cause \/ cause' = cause \cup {"fatal"}
    BY <1>3 DEF UnblockWorker
  <2> QED BY <1>1, <2>1, LeaveKeepsInv
<1> QED BY <1>2, <1>3

-----------------------------------------------------------------------------
(* Processes, services and the caller.                                     *)

\* A process that ends changes nothing but itself.
LEMMA ProcessEndsKeepsInv ==
    ASSUME SandboxInv, NEW k \in Children, ProcessEnds(k)
    PROVE  SandboxInv'
<1>1. /\ proc' \in [Children -> ProcessStates] /\ "outer" \in Children /\ "bus" \in Children
      /\ \A c \in Children : proc'[c] = "running" => proc[c] = "running"
      /\ \A c \in Children : proc[c] \in {"none", "gone"} => proc'[c] = proc[c]
  BY DEF ProcessEnds, SandboxInv, SandboxTypeOK, ProcessStates, Children
<1>2. UNCHANGED <<phase, done, unblocked, services, cause, outcome>>
  BY DEF ProcessEnds
<1> QED BY <1>1, <1>2
        DEF SandboxInv, SandboxTypeOK, StepsDone, WorkerKilled, CleanedUp, OutcomeTold, Stopping

\* A close event fails the run when nobody expects it, and ends it when its
\* child is the one that is awaited.
LEMMA HelperClosedKeepsInv ==
    ASSUME SandboxInv, NEW k \in Children, HelperClosed(k)
    PROVE  SandboxInv'
<1> DEFINE closed == [proc EXCEPT ![k] = "gone"]
<1>1. /\ closed \in [Children -> ProcessStates] /\ proc \in [Children -> ProcessStates]
      /\ \A c \in Children : closed[c] = proc[c] \/ closed[c] = "gone"
      /\ proc[k] = "exited" /\ UNCHANGED <<done, unblocked, services>>
      /\ "outer" \in Children \ {"bus"} /\ "bus" \in Children
  BY DEF HelperClosed, SandboxInv, SandboxTypeOK, ProcessStates, Children, Helpers
<1>2. phase \in Preparing => closed["outer"] = proc["outer"]
  BY <1>1 DEF SandboxInv, WorkerKilled
<1>3. \A c \in Children : proc[c] \in {"none", "gone"} => closed[c] = proc[c]
  BY <1>1
<1> DEFINE fails == (k \in Helpers /\ ~Expected) \/ (k = "bus" /\ "bus" \in services /\ ~Stopping)
<1>4. CASE fails /\ phase = k
  <2>1. /\ phase' = "cleanup" /\ proc' = Terminated(closed) /\ outcome' = "error"
        /\ cause' = cause \/ cause' = cause \cup {"fatal"}
    BY <1>4 DEF HelperClosed, CleanupKills
  <2>2. "aborted" \notin cause
    <3>1. CASE k \in Helpers
      BY <3>1, <1>4 DEF Helpers, Expected
    <3>2. CASE k = "bus"
      <4>1. phase \in Preparing
        BY <3>2, <1>4 DEF Preparing
      <4> QED BY <4>1 DEF SandboxInv, WorkerKilled
    <3> QED BY <3>1, <3>2, <1>4
  <2> HIDE DEF closed, fails
  <2>3. proc' \in [Children -> ProcessStates] /\ \A c \in Children \ {"bus"} : proc'[c] # "running"
    BY <1>1, <2>1, TerminatedChildren
  <2>4. SandboxTypeOK' /\ StepsDone'
    BY <1>1, <2>1, <2>3, PhasesDiffer DEF SandboxTypeOK, SandboxInv, StepsDone
  <2>5. WorkerKilled' /\ CleanedUp'
    BY <1>1, <2>1, <2>3 DEF WorkerKilled, CleanedUp, Preparing
  <2>6. OutcomeTold'
    BY <2>1, <2>2 DEF OutcomeTold, Stopping
  <2> QED BY <2>4, <2>5, <2>6 DEF SandboxInv
<1>5. CASE fails /\ phase # k
  <2>1. Fail(closed) /\ UNCHANGED <<phase, outcome>>
    BY <1>5 DEF HelperClosed
  <2> HIDE DEF closed, fails
  <2> QED BY <1>1, <1>2, <2>1, FailKeepsInv
<1>6. CASE ~fails
  <2>1. proc' = closed /\ UNCHANGED <<phase, cause, outcome>>
    BY <1>6 DEF HelperClosed
  <2> HIDE DEF closed, fails
  <2> QED BY <1>1, <1>3, <2>1
          DEF SandboxInv, SandboxTypeOK, StepsDone, WorkerKilled, CleanedUp, OutcomeTold, Stopping
<1> QED BY <1>4, <1>5, <1>6

\* A service that fails kills the worker.
LEMMA ServiceFailsKeepsInv == SandboxInv /\ ServiceFails => SandboxInv'
BY FailKeepsInv DEF ServiceFails, SandboxInv, SandboxTypeOK

\* The abort and the timeout kill the worker when they are installed; an abort
\* that comes before or after is only noted.
LEMMA CancellationKeepsInv ==
    ASSUME SandboxInv, Abort \/ Timeout
    PROVE  SandboxInv'
<1>1. /\ UNCHANGED <<phase, done, unblocked, services, outcome>>
      /\ proc \in [Children -> ProcessStates] /\ "outer" \in Children \ {"bus"} /\ "bus" \in Children
  BY DEF Abort, Timeout, SandboxInv, SandboxTypeOK, Children, Helpers
<1>2. CASE phase \in Range(SetupSteps) \cup {"exit"}
  <2>1. proc' = Terminated(proc)
    BY <1>2 DEF Abort, Timeout
  <2>2. phase \notin Preparing \cup {"cleanup", "settled"}
    BY <1>2, SetupOrder, PhasesDiffer DEF Preparing
  <2>3. proc' \in [Children -> ProcessStates] /\ proc'["outer"] # "running"
    BY <1>1, <2>1, TerminatedChildren
  <2> QED BY <1>1, <2>2, <2>3
          DEF SandboxInv, SandboxTypeOK, StepsDone, WorkerKilled, CleanedUp, OutcomeTold, Stopping
<1>3. CASE phase \notin Range(SetupSteps) \cup {"exit"}
  <2>1. proc' = proc /\ cause' = cause \cup {"signal"}
    BY <1>3 DEF Abort, Timeout
  <2>2. cause' \cap Ending = cause \cap Ending /\ ("aborted" \in cause' <=> "aborted" \in cause)
        /\ cause' \cap {"aborted", "timedOut"} = cause \cap {"aborted", "timedOut"}
    BY <2>1 DEF Ending
  <2> QED BY <1>1, <2>1, <2>2
          DEF SandboxInv, SandboxTypeOK, StepsDone, WorkerKilled, CleanedUp, OutcomeTold, Stopping
<1> QED BY <1>2, <1>3

\* cleanup() closes what is left.
LEMMA CleanupKeepsInv == SandboxInv /\ Cleanup => SandboxInv'
<1> SUFFICES ASSUME SandboxInv, Cleanup PROVE SandboxInv'
  OBVIOUS
<1>1. /\ phase = "cleanup" /\ phase' = "settled" /\ proc["outer"] \in {"none", "gone"} /\ services' = {}
      /\ proc' = Killed(proc, {"bus"}) /\ UNCHANGED <<done, unblocked, cause, outcome>>
  BY DEF Cleanup
<1>2. proc \in [Children -> ProcessStates] /\ "outer" \in Children \ {"bus"} /\ "bus" \in Children
  BY DEF SandboxInv, SandboxTypeOK, Children, Helpers
<1>3. /\ proc' \in [Children -> ProcessStates] /\ proc'["bus"] # "running"
      /\ \A k \in Children \ {"bus"} : proc'[k] = proc[k]
  BY <1>1, <1>2 DEF Killed, ProcessStates
<1>4. SandboxTypeOK' /\ StepsDone'
  BY <1>1, <1>3, PhasesDiffer DEF SandboxInv, SandboxTypeOK, StepsDone
<1>5. WorkerKilled' /\ CleanedUp'
  BY <1>1, <1>2, <1>3 DEF SandboxInv, WorkerKilled, CleanedUp, Stopping, Preparing
<1>6. OutcomeTold'
  BY <1>1 DEF SandboxInv, OutcomeTold, Stopping
<1> QED BY <1>4, <1>5, <1>6 DEF SandboxInv

-----------------------------------------------------------------------------
\* Nothing is prepared at first.
LEMMA SandboxInitInv == SandboxInit => SandboxInv
BY PhasesDiffer DEF SandboxInit, SandboxInv, SandboxTypeOK, ProcessStates, Preparing, Children, Helpers,
   StepsDone, WorkerKilled, CleanedUp, OutcomeTold, Stopping, Ending

\* The worker executes only behind complete rules with no abort, timeout or
\* failure seen, and a settled run leaves no child, no service and tells the truth
\* (NetworkSandbox.ts, run, terminate, cleanup), wherever the end of a process,
\* the failure of a service, the abort or the timer comes.
THEOREM RunContainedTheorem == SandboxSpec => []RunContained
<1>1. SandboxInv /\ [SandboxNext]_sandboxVars => SandboxInv'
  <2> SUFFICES ASSUME SandboxInv, [SandboxNext]_sandboxVars PROVE SandboxInv'
    OBVIOUS
  <2>1. CASE RunnerStep
    BY <2>1, PrepareKeepsInv, BusKeepsInv, CompleteStepKeepsInv, LeavingKeepsInv, UnblockKeepsInv,
       CleanupKeepsInv DEF RunnerStep, SetupStep
  <2>2. CASE ServiceFails \/ Abort \/ Timeout
    BY <2>2, ServiceFailsKeepsInv, CancellationKeepsInv
  <2>3. CASE \E k \in Children : ProcessEnds(k) \/ HelperClosed(k)
    BY <2>3, ProcessEndsKeepsInv, HelperClosedKeepsInv
  <2>4. CASE UNCHANGED sandboxVars
    BY <2>4 DEF sandboxVars, SandboxInv, SandboxTypeOK, StepsDone, WorkerKilled, CleanedUp, OutcomeTold,
                Stopping
  <2> QED BY <2>1, <2>2, <2>3, <2>4 DEF SandboxNext
<1>2. SandboxInv => RunContained
  <2> SUFFICES ASSUME SandboxInv PROVE RunContained
    OBVIOUS
  <2>1. WorkerRunsProtected
    BY DEF SandboxInv, StepsDone, WorkerKilled, WorkerRunsProtected, workerRuns, Ending
  <2>2. NothingLeftBehind
    BY DEF SandboxInv, CleanedUp, OutcomeTold, NothingLeftBehind, Stopping, Ending
  <2> QED BY <2>1, <2>2 DEF RunContained
<1> QED BY <1>1, <1>2, SandboxInitInv, PTL DEF SandboxSpec

-----------------------------------------------------------------------------
(***************************************************************************)
(* The table of DNS leases for any queries, answers and limit: an address  *)
(* stands for one name for good, and the two maps and the count agree.     *)
(***************************************************************************)
DnsSpec == DnsInit /\ [][DnsNext]_dnsVars

Leases == [address : Nat \ {0}, answer : Answers]
Stages == {"none", "forwarding", "leasing", "installing", "joined", "answered", "failed"}
QueryRecords == [stage : Stages, asks : Seq(Answers), given : SUBSET Leases]
Installing == {a \in Answers : pendingByAnswer[a] # 0}

\* Only a query that has an answer to lease waits for an installation.
QueriesOK ==
    /\ query \in [Queries -> QueryRecords]
    /\ \A q \in Queries : query[q].stage \in {"installing", "joined"} => query[q].asks # <<>>

\* An address that has a rule, or gets one, was allocated once.
AddressesOK ==
    /\ nextLease \in Nat \ {0} /\ pendingByAnswer \in [Answers -> Nat]
    /\ rules \subseteq Leases
    /\ \A l \in rules : l.address < nextLease
    /\ \A l, m \in rules : l.address = m.address => l = m
    /\ \A a \in Answers : pendingByAnswer[a] < nextLease
    /\ \A a \in Answers, l \in rules : pendingByAnswer[a] # l.address
    /\ \A a, b \in Answers : pendingByAnswer[a] = pendingByAnswer[b] /\ pendingByAnswer[a] # 0 => a = b

\* The maps agree, and an answer that is being installed has no lease.
MapsOK ==
    /\ leasesBySyntheticAddress = leasesByAnswer
    /\ leasesByAnswer \subseteq rules
    /\ \A l, m \in leasesByAnswer : l.answer = m.answer => l = m
    /\ \A l \in leasesByAnswer : pendingByAnswer[l.answer] = 0

CountOK ==
    /\ IsFiniteSet(rules) /\ IsFiniteSet(Installing)
    /\ installedLeaseCount = Cardinality(rules) + Cardinality(Installing)

GivenOK == \A q \in Queries : query[q].given \subseteq rules

DnsInv == QueriesOK /\ AddressesOK /\ MapsOK /\ CountOK /\ GivenOK

-----------------------------------------------------------------------------
\* A step that leaves the table alone keeps the invariant when the queries stay
\* well formed and are given no new lease.
LEMMA TableUntouched ==
    ASSUME DnsInv, UNCHANGED leaseVars, QueriesOK', GivenOK'
    PROVE  DnsInv'
BY DEF DnsInv, AddressesOK, MapsOK, CountOK, Installing, leaseVars

\* The proxy's own steps and the queries' up to their leases keep the invariant.
LEMMA ForwardingKeepsInv ==
    ASSUME DnsInv,
           \/ StartDns \/ CloseDns \/ DnsClosed
           \/ \E q \in Queries : HandleQuery(q) \/ Respond(q) \/ RespondFailed(q) \/ SendResponse(q)
    PROVE  DnsInv'
<1>1. QueriesOK /\ GivenOK
  BY DEF DnsInv
<1>2. CASE StartDns \/ CloseDns \/ DnsClosed
  <2>1. UNCHANGED <<query, leaseVars>>
    BY <1>2 DEF StartDns, CloseDns, DnsClosed
  <2>2. QueriesOK' /\ GivenOK'
    BY <1>1, <2>1 DEF QueriesOK, GivenOK, leaseVars
  <2> QED BY <2>1, <2>2, TableUntouched
<1>3. ASSUME NEW q \in Queries, HandleQuery(q) \/ Respond(q) \/ RespondFailed(q) \/ SendResponse(q)
      PROVE  DnsInv'
  <2>1. UNCHANGED leaseVars
    BY <1>3 DEF HandleQuery, Respond, RespondFailed, SendResponse
  <2>2. PICK s \in Stages \ {"installing", "joined"}, k \in Seq(Answers) :
             query' = [query EXCEPT ![q] = [@ EXCEPT !.stage = s, !.asks = k]]
    <3>0. query[q] \in QueryRecords /\ query[q].asks \in Seq(Answers)
      BY <1>1 DEF QueriesOK, QueryRecords
    <3>1. CASE HandleQuery(q)
      <4>1. query' = [query EXCEPT ![q] = [@ EXCEPT !.stage = "forwarding", !.asks = query[q].asks]]
        BY <3>1, <3>0, <1>1 DEF HandleQuery, QueriesOK, QueryRecords
      <4> QED BY <4>1, <3>0 DEF Stages
    <3>2. CASE RespondFailed(q)
      <4>1. query' = [query EXCEPT ![q] = [@ EXCEPT !.stage = "failed", !.asks = query[q].asks]]
        BY <3>2, <3>0, <1>1 DEF RespondFailed, QueriesOK, QueryRecords
      <4> QED BY <4>1, <3>0 DEF Stages
    <3>3. CASE SendResponse(q)
      <4>1. query' = [query EXCEPT ![q] = [@ EXCEPT !.stage = "answered", !.asks = query[q].asks]]
        BY <3>3, <3>0, <1>1 DEF SendResponse, QueriesOK, QueryRecords
      <4> QED BY <4>1, <3>0 DEF Stages
    <3>4. CASE Respond(q) /\ proxy = "up"
      <4>1. PICK k \in Parsed(q) : query' = [query EXCEPT ![q] = [@ EXCEPT !.stage = "leasing", !.asks = k]]
        BY <3>4 DEF Respond
      <4>2. k \in Seq(Answers)
        <5>1. Asked[q] \in Seq(Answers) /\ <<>> \in Seq(Answers)
          BY AskedAssumption
        <5> QED BY <5>1 DEF Parsed
      <4> QED BY <4>1, <4>2 DEF Stages
    <3>5. CASE Respond(q) /\ proxy # "up"
      <4>1. query' = [query EXCEPT ![q] = [@ EXCEPT !.stage = "failed", !.asks = query[q].asks]]
        BY <3>5, <3>0, <1>1 DEF Respond, Settled, QueriesOK, QueryRecords
      <4> QED BY <4>1, <3>0 DEF Stages
    <3> QED BY <1>3, <3>1, <3>2, <3>3, <3>4, <3>5
  <2>3. QueriesOK'
    BY <1>1, <2>2 DEF QueriesOK, QueryRecords
  <2>4. GivenOK'
    <3>1. \A p \in Queries : query'[p].given = query[p].given
      BY <1>1, <2>2 DEF QueriesOK, QueryRecords
    <3> QED BY <1>1, <2>1, <3>1 DEF GivenOK, leaseVars
  <2> QED BY <2>1, <2>3, <2>4, TableUntouched
<1> QED BY <1>2, <1>3

\* Time and lookups of connections keep the invariant: a lease that is expired is
\* deleted from both maps, its rule stays.
LEMMA ExpiryKeepsInv ==
    ASSUME DnsInv, NEW n \in Nat, Lookup(n) \/ LeaseExpires(n)
    PROVE  DnsInv'
<1>1. CASE LeaseExpires(n)
  BY <1>1 DEF LeaseExpires, DnsInv, QueriesOK, GivenOK, AddressesOK, MapsOK, CountOK, Installing
<1>2. CASE Lookup(n)
  <2>1. UNCHANGED <<query, pendingByAnswer, installedLeaseCount, nextLease, rules>>
    BY <1>2 DEF Lookup
  <2>2. QueriesOK' /\ GivenOK' /\ AddressesOK' /\ CountOK'
    BY <2>1 DEF DnsInv, QueriesOK, GivenOK, AddressesOK, CountOK, Installing
  <2>3. MapsOK'
    BY <1>2, <2>1 DEF Lookup, DnsInv, MapsOK
  <2> QED BY <2>2, <2>3 DEF DnsInv
<1> QED BY <1>1, <1>2

-----------------------------------------------------------------------------
(* Leases.                                                                 *)

\* A query that goes on is well formed, and its first answer is one.
LEMMA FirstAsked ==
    ASSUME DnsInv, NEW q \in Queries, query[q].asks # <<>>
    PROVE  /\ query[q] \in QueryRecords /\ Head(query[q].asks) \in Answers
           /\ Tail(query[q].asks) \in Seq(Answers)
<1>1. query[q] \in QueryRecords
  BY DEF DnsInv, QueriesOK
<1>2. query[q].asks \in Seq(Answers)
  BY <1>1 DEF QueryRecords
<1>3. Head(query[q].asks) \in Answers /\ Tail(query[q].asks) \in Seq(Answers)
  BY <1>2, HeadTailProperties
<1> QED BY <1>1, <1>3

\* A query that was given a lease is well formed and asks for the next answer.
LEMMA GivenWellFormed ==
    ASSUME DnsInv, NEW q \in Queries, query[q].asks # <<>>, NEW l \in Leases
    PROVE  /\ Given(q, l) \in QueryRecords /\ Given(q, l).stage = "leasing"
           /\ Given(q, l).given = query[q].given \cup {l}
<1>1. /\ query[q] \in QueryRecords /\ Tail(query[q].asks) \in Seq(Answers)
  BY FirstAsked
<1>2. query[q].given \cup {l} \in SUBSET Leases
  BY <1>1 DEF QueryRecords
<1> DEFINE t == Tail(query[q].asks)
           g == query[q].given \cup {l}
<1>3. Given(q, l) = [query[q] EXCEPT !.stage = "leasing", !.asks = t, !.given = g]
  BY DEF Given
<1> HIDE DEF t, g
<1>4. t \in Seq(Answers) /\ g \in SUBSET Leases
  BY <1>1, <1>2 DEF t, g
<1>5. /\ Given(q, l) \in QueryRecords /\ Given(q, l).stage = "leasing" /\ Given(q, l).given = g
  BY <1>1, <1>3, <1>4 DEF QueryRecords, Stages
<1> QED BY <1>5 DEF g

\* A live lease is handed out again.
LEMMA LeaseExistingKeepsInv ==
    ASSUME DnsInv, NEW q \in Queries, LeaseExisting(q)
    PROVE  DnsInv'
<1>1. QueriesOK /\ GivenOK /\ query[q].asks # <<>>
  BY DEF DnsInv, LeaseExisting
<1>2. PICK l \in LiveLease(Head(query[q].asks)) : query' = [query EXCEPT ![q] = Given(q, l)]
  BY DEF LeaseExisting
<1>3. l \in rules /\ l \in Leases
  BY DEF LiveLease, Existing, DnsInv, MapsOK, AddressesOK
<1>4. /\ Given(q, l) \in QueryRecords /\ Given(q, l).stage = "leasing"
      /\ Given(q, l).given = query[q].given \cup {l}
  BY <1>1, <1>3, GivenWellFormed
<1>5. UNCHANGED leaseVars
  BY DEF LeaseExisting
<1>6. QueriesOK'
  BY <1>1, <1>2, <1>4 DEF QueriesOK
<1>7. GivenOK'
  BY <1>1, <1>2, <1>3, <1>4, <1>5 DEF QueriesOK, GivenOK, leaseVars
<1> QED BY <1>5, <1>6, <1>7, TableUntouched

\* A query that only changes its stage keeps what it was given.
LEMMA StageOnly ==
    ASSUME QueriesOK, GivenOK, NEW q \in Queries, query[q].asks # <<>>, NEW s \in Stages,
           query' = [query EXCEPT ![q].stage = s], rules' = rules
    PROVE  QueriesOK' /\ GivenOK'
<1>1. /\ query' \in [Queries -> QueryRecords]
      /\ \A p \in Queries : /\ query'[p].given = query[p].given /\ query'[p].asks = query[p].asks
                            /\ p # q => query'[p].stage = query[p].stage
  BY DEF QueriesOK, QueryRecords
<1> QED BY <1>1 DEF QueriesOK, GivenOK

\* Joining an installation deletes at most an expired lease, from both maps.
LEMMA LeaseJoinsKeepsInv ==
    ASSUME DnsInv, NEW q \in Queries, LeaseJoins(q)
    PROVE  DnsInv'
<1>1. /\ query' = [query EXCEPT ![q].stage = "joined"] /\ query[q].asks # <<>>
      /\ UNCHANGED <<pendingByAnswer, installedLeaseCount, nextLease, rules>>
  BY DEF LeaseJoins
<1>2. QueriesOK' /\ GivenOK'
  BY <1>1, StageOnly DEF DnsInv, Stages
<1>3. MapsOK'
  BY <1>1 DEF DnsInv, MapsOK, LeaseJoins
<1>4. AddressesOK' /\ CountOK'
  BY <1>1 DEF DnsInv, AddressesOK, CountOK, Installing
<1> QED BY <1>2, <1>3, <1>4 DEF DnsInv

\* createLease deletes what is expired from both maps, and allocates an address
\* that no rule and no other installation has; at the limit it only deletes.
LEMMA CreateLeaseKeepsInv ==
    ASSUME DnsInv, NEW q \in Queries, CreateLease(q)
    PROVE  DnsInv'
<1> DEFINE a == Head(query[q].asks)
<1>1. /\ query[q].asks # <<>> /\ LiveLease(a) = {} /\ pendingByAnswer[a] = 0
      /\ leasesBySyntheticAddress' = leasesBySyntheticAddress \ (Existing(a) \cup Outdated)
      /\ leasesByAnswer' = {l \in leasesByAnswer \ Existing(a) : \A m \in Outdated : m.answer # l.answer}
      /\ UNCHANGED rules
  BY DEF CreateLease, Joins
<1>2. a \in Answers
  BY <1>1, FirstAsked
<1>3. /\ leasesBySyntheticAddress' = leasesByAnswer' /\ leasesByAnswer' \subseteq leasesByAnswer
      /\ \A l \in leasesByAnswer' : l.answer # a
  <2>1. \A l, m \in leasesByAnswer : l.answer = m.answer => l = m
    BY DEF DnsInv, MapsOK
  <2>2. leasesBySyntheticAddress = leasesByAnswer
    BY DEF DnsInv, MapsOK
  <2> QED BY <1>1, <2>1, <2>2 DEF Outdated, Existing
<1>4. CASE installedLeaseCount >= MaxLeases
  <2>1. /\ query' = [query EXCEPT ![q].stage = "failed"]
        /\ UNCHANGED <<pendingByAnswer, installedLeaseCount, nextLease>>
    BY <1>4 DEF CreateLease
  <2>2. QueriesOK' /\ GivenOK'
    BY <1>1, <2>1, StageOnly DEF DnsInv, Stages
  <2>3. MapsOK'
    BY <1>1, <1>3, <2>1 DEF DnsInv, MapsOK
  <2>4. AddressesOK' /\ CountOK'
    BY <1>1, <2>1 DEF DnsInv, AddressesOK, CountOK, Installing
  <2> QED BY <2>2, <2>3, <2>4 DEF DnsInv
<1>5. CASE ~(installedLeaseCount >= MaxLeases)
  <2>1. /\ query' = [query EXCEPT ![q].stage = "installing"]
        /\ pendingByAnswer' = [pendingByAnswer EXCEPT ![a] = nextLease]
        /\ installedLeaseCount' = installedLeaseCount + 1 /\ nextLease' = nextLease + 1
    BY <1>5 DEF CreateLease, Allocated
  <2> HIDE DEF a
  <2>2. QueriesOK' /\ GivenOK'
    BY <1>1, <2>1, StageOnly DEF DnsInv, Stages
  <2>3. MapsOK'
    BY <1>1, <1>2, <1>3, <2>1 DEF DnsInv, MapsOK, AddressesOK, Leases
  <2>4. AddressesOK'
    BY <1>1, <1>2, <2>1 DEF DnsInv, AddressesOK, Leases
  <2>5. Installing' = Installing \cup {a} /\ a \notin Installing
    BY <1>1, <1>2, <2>1 DEF DnsInv, AddressesOK, Installing
  <2>6. /\ IsFiniteSet(Installing) /\ IsFiniteSet(Installing \cup {a})
        /\ Cardinality(Installing \cup {a}) = Cardinality(Installing) + 1
        /\ Cardinality(Installing) \in Nat /\ Cardinality(rules) \in Nat
    BY <2>5, FS_AddElement, FS_CardinalityType DEF DnsInv, CountOK
  <2>7. CountOK'
    BY <1>1, <2>1, <2>5, <2>6 DEF DnsInv, CountOK
  <2> QED BY <2>2, <2>3, <2>4, <2>7 DEF DnsInv
<1> QED BY <1>4, <1>5

\* Those who wait for an installation have an answer left, the one they wait for.
LEMMA WaitersAsk ==
    ASSUME DnsInv, NEW a, NEW q \in Waiters(a)
    PROVE  q \in Queries /\ query[q].asks # <<>>
BY DEF DnsInv, QueriesOK, Waiters

\* An installation that resolves adds the one rule of its address and the one
\* lease of its answer.
LEMMA InstalledKeepsInv ==
    ASSUME DnsInv, NEW a \in Answers, Installed(a)
    PROVE  DnsInv'
<1> DEFINE lease == [address |-> pendingByAnswer[a], answer |-> a]
<1>1. /\ pendingByAnswer[a] # 0 /\ rules' = rules \cup {lease}
      /\ leasesBySyntheticAddress' = leasesBySyntheticAddress \cup {lease}
      /\ leasesByAnswer' = {l \in leasesByAnswer : l.answer # a} \cup {lease}
      /\ query' = [q \in Queries |-> IF q \in Waiters(a) THEN Given(q, lease) ELSE query[q]]
      /\ pendingByAnswer' = [pendingByAnswer EXCEPT ![a] = 0]
      /\ UNCHANGED <<installedLeaseCount, nextLease>>
  BY DEF Installed
<1>2. /\ lease \in Leases /\ lease.address = pendingByAnswer[a] /\ lease.answer = a
      /\ pendingByAnswer \in [Answers -> Nat]
  BY <1>1 DEF DnsInv, AddressesOK, Leases
<1>3. \A l \in rules : l.address # lease.address
  BY <1>2 DEF DnsInv, AddressesOK
<1> HIDE DEF lease
<1>4. ASSUME NEW q \in Queries
      PROVE  /\ query'[q] \in QueryRecords
             /\ query'[q].stage \in {"installing", "joined"} => query'[q].asks # <<>>
             /\ query'[q].given \subseteq query[q].given \cup {lease}
  <2>1. CASE q \in Waiters(a)
    BY <2>1, <1>1, <1>2, WaitersAsk, GivenWellFormed
  <2>2. CASE q \notin Waiters(a)
    BY <2>2, <1>1 DEF DnsInv, QueriesOK
  <2> QED BY <2>1, <2>2
<1>5. QueriesOK' /\ GivenOK'
  <2>1. query' = [q \in Queries |-> query'[q]]
    BY <1>1
  <2>2. query' \in [Queries -> QueryRecords]
    BY <2>1, <1>4
  <2> QED BY <2>2, <1>1, <1>4 DEF QueriesOK, GivenOK, DnsInv
<1>6. AddressesOK'
  BY <1>1, <1>2, <1>3 DEF DnsInv, AddressesOK, Leases
<1>7. MapsOK'
  <2>1. \A l \in leasesByAnswer : l.answer # a /\ l \in Leases
    BY <1>1 DEF DnsInv, MapsOK, AddressesOK
  <2> QED BY <2>1, <1>1, <1>2 DEF DnsInv, MapsOK, Leases
<1>8. CountOK'
  <2>1. lease \notin rules
    BY <1>3
  <2>2. Installing' = Installing \ {a} /\ a \in Installing
    BY <1>1, <1>2 DEF Installing
  <2>3. /\ IsFiniteSet(rules \cup {lease}) /\ Cardinality(rules \cup {lease}) = Cardinality(rules) + 1
        /\ IsFiniteSet(Installing \ {a}) /\ Cardinality(Installing \ {a}) = Cardinality(Installing) - 1
        /\ Cardinality(Installing) \in Nat /\ Cardinality(rules) \in Nat
    BY <2>1, <2>2, FS_AddElement, FS_RemoveElement, FS_CardinalityType DEF DnsInv, CountOK
  <2> QED BY <1>1, <2>2, <2>3 DEF DnsInv, CountOK
<1> QED BY <1>5, <1>6, <1>7, <1>8 DEF DnsInv

\* An installation that is rejected takes back what it had counted.
LEMMA InstallFailsKeepsInv ==
    ASSUME DnsInv, NEW a \in Answers, InstallFails(a)
    PROVE  DnsInv'
<1>1. /\ pendingByAnswer[a] # 0
      /\ query' = [q \in Queries |-> IF q \in Waiters(a) THEN Settled(q, "failed") ELSE query[q]]
      /\ pendingByAnswer' = [pendingByAnswer EXCEPT ![a] = 0]
      /\ installedLeaseCount' = installedLeaseCount - 1
      /\ UNCHANGED <<leasesBySyntheticAddress, leasesByAnswer, nextLease, rules>>
  BY DEF InstallFails
<1>2. \A q \in Queries : /\ query[q] \in QueryRecords
                         /\ Settled(q, "failed") \in QueryRecords
                         /\ Settled(q, "failed").stage = "failed"
                         /\ Settled(q, "failed").given = query[q].given
  BY DEF DnsInv, QueriesOK, QueryRecords, Settled, Stages
<1>3. QueriesOK' /\ GivenOK'
  BY <1>1, <1>2 DEF DnsInv, QueriesOK, GivenOK
<1>4. AddressesOK' /\ MapsOK'
  BY <1>1 DEF DnsInv, AddressesOK, MapsOK, Leases
<1>5. CountOK'
  <2>1. Installing' = Installing \ {a} /\ a \in Installing
    BY <1>1 DEF Installing, DnsInv, AddressesOK
  <2>2. /\ IsFiniteSet(Installing \ {a}) /\ Cardinality(Installing \ {a}) = Cardinality(Installing) - 1
        /\ Cardinality(Installing) \in Nat /\ Cardinality(rules) \in Nat
    BY <2>1, FS_RemoveElement, FS_CardinalityType DEF DnsInv, CountOK
  <2> QED BY <1>1, <2>1, <2>2 DEF DnsInv, CountOK
<1> QED BY <1>3, <1>4, <1>5 DEF DnsInv

-----------------------------------------------------------------------------
\* The table starts empty.
LEMMA DnsInitInv == DnsInit => DnsInv
<1> SUFFICES ASSUME DnsInit PROVE DnsInv
  OBVIOUS
<1>1. QueriesOK /\ GivenOK
  BY DEF DnsInit, QueriesOK, QueryRecords, GivenOK, Stages
<1>2. AddressesOK /\ MapsOK
  BY DEF DnsInit, AddressesOK, MapsOK
<1>3. rules = {} /\ Installing = {}
  BY DEF DnsInit, Installing
<1>4. CountOK
  BY <1>3, FS_EmptySet DEF DnsInit, CountOK
<1> QED BY <1>1, <1>2, <1>4 DEF DnsInv

\* A connection is never attributed to a wrong name, and the two maps of the
\* table and the count that is held against MAX_DNS_LEASES agree with the
\* translation rules, through expiries, failed installations and queries that
\* join one another's (SyntheticDnsProxy.ts, SyntheticDnsLeaseTable).
THEOREM LeasesSoundTheorem == DnsSpec => []LeasesSound
<1>1. DnsInv /\ [DnsNext]_dnsVars => DnsInv'
  <2> SUFFICES ASSUME DnsInv, [DnsNext]_dnsVars PROVE DnsInv'
    OBVIOUS
  <2>1. CASE StartDns \/ CloseDns \/ DnsClosed
    BY <2>1, ForwardingKeepsInv
  <2>2. ASSUME NEW q \in Queries, HandleQuery(q) \/ QueryStep(q) PROVE DnsInv'
    BY <2>2, ForwardingKeepsInv, LeaseExistingKeepsInv, LeaseJoinsKeepsInv, CreateLeaseKeepsInv
       DEF QueryStep
  <2>3. CASE InstallStep
    BY <2>3, InstalledKeepsInv, InstallFailsKeepsInv DEF InstallStep
  <2>4. ASSUME NEW n \in 1..(nextLease - 1), Lookup(n) \/ LeaseExpires(n) PROVE DnsInv'
    <3>1. n \in Nat
      BY DEF DnsInv, AddressesOK
    <3> QED BY <2>4, <3>1, ExpiryKeepsInv
  <2>5. CASE UNCHANGED dnsVars
    BY <2>5 DEF dnsVars, leaseVars, DnsInv, QueriesOK, GivenOK, AddressesOK, MapsOK, CountOK, Installing
  <2> QED BY <2>1, <2>2, <2>3, <2>4, <2>5 DEF DnsNext
<1>2. DnsInv => LeasesSound
  BY DEF DnsInv, GivenOK, AddressesOK, MapsOK, CountOK, Installing,
         LeasesSound, NeverMisattributed, TableConsistent
<1> QED BY <1>1, <1>2, DnsInitInv, PTL DEF DnsSpec

-----------------------------------------------------------------------------
(***************************************************************************)
(* The relay of a connection is transparent for every buffer size and every*)
(* number of bytes.                                                        *)
(***************************************************************************)
RelaySpec == RelayInit /\ [][RelayNext]_byteVars

Buffers == [bytes : [0..(BufferSize - 1) -> Nat], offset : Nat, length : Nat]

RelayTypeOK ==
    /\ written \in [Directions -> Nat] /\ taken \in [Directions -> Nat]
    /\ shut \in [Directions -> BOOLEAN] /\ ended \in [Directions -> BOOLEAN]
    /\ writeClosed \in [Directions -> BOOLEAN]
    /\ buffer \in [Directions -> Buffers] /\ delivered \in [Directions -> Seq(Nat)]

\* What the buffer b holds follows what was delivered, up to what was taken.
Holds(b, sofar, received) ==
    /\ b.offset + b.length <= BufferSize
    /\ sofar + b.length = received
    /\ \A i \in 0..(b.length - 1) : b.bytes[b.offset + i] = sofar + i + 1

\* One direction: nothing is lost between the peer, the buffer and the sink, and
\* the end of the stream is seen after the last byte, passed on after the buffer.
DirectionInv(d) ==
    /\ \A i \in 1..Len(delivered[d]) : delivered[d][i] = i
    /\ Holds(buffer[d], Len(delivered[d]), taken[d])
    /\ taken[d] <= written[d]
    /\ ended[d] => shut[d] /\ taken[d] = written[d]
    /\ writeClosed[d] => ended[d] /\ buffer[d].length = 0

RelayInv ==
    /\ RelayTypeOK
    /\ \A d \in Directions : DirectionInv(d)
    /\ looping = "done" => \A d \in Directions : writeClosed[d]

-----------------------------------------------------------------------------
(* The buffer.                                                             *)

\* RelayBuffer::receive keeps what is left when it moves it to the front.
LEMMA CompactedHolds ==
    ASSUME NEW b \in Buffers, NEW sofar \in Nat, NEW received \in Nat, Holds(b, sofar, received)
    PROVE  /\ Compacted(b) \in Buffers /\ Holds(Compacted(b), sofar, received)
           /\ Compacted(b).offset = 0 /\ Compacted(b).length = b.length
<1> USE RelayAssumption
<1> DEFINE c == Compacted(b)
<1>1. /\ c.offset = 0 /\ c.length = b.length
      /\ c.bytes = [i \in 0..(BufferSize - 1) |->
                      IF i < b.length THEN b.bytes[b.offset + i] ELSE b.bytes[i]]
  BY DEF Compacted, Buffers
<1>2. b.length \in Nat /\ b.offset \in Nat /\ b.offset + b.length <= BufferSize
  BY DEF Buffers, Holds
<1>3. \A i \in 0..(BufferSize - 1) : c.bytes[i] \in Nat
  <2> TAKE i \in 0..(BufferSize - 1)
  <2>1. CASE i < b.length
    <3>1. b.offset + i \in 0..(BufferSize - 1)
      BY <2>1, <1>2
    <3> QED BY <2>1, <3>1, <1>1 DEF Buffers
  <2>2. CASE ~(i < b.length)
    BY <2>2, <1>1 DEF Buffers
  <2> QED BY <2>1, <2>2
<1>4. c \in Buffers
  <2> DEFINE f == [i \in DOMAIN b.bytes |-> IF i < b.length THEN b.bytes[b.offset + i] ELSE b.bytes[i]]
  <2>1. f = c.bytes
    BY <1>1 DEF Buffers
  <2>2. f \in [0..(BufferSize - 1) -> Nat]
    BY <2>1, <1>1, <1>3
  <2>3. c = [b EXCEPT !.offset = 0, !.bytes = f]
    BY DEF Compacted
  <2> HIDE DEF f, c
  <2> QED BY <2>2, <2>3 DEF Buffers
<1>5. \A i \in 0..(c.length - 1) : c.bytes[c.offset + i] = sofar + i + 1
  <2> TAKE i \in 0..(c.length - 1)
  <2>1. i \in 0..(BufferSize - 1) /\ i < b.length
    BY <1>1, <1>2
  <2>2. c.bytes[i] = b.bytes[b.offset + i]
    BY <2>1, <1>1
  <2>3. c.offset + i = i
    BY <1>1, <2>1
  <2> QED BY <2>1, <2>2, <2>3, <1>1, <1>2 DEF Holds
<1> QED BY <1>1, <1>2, <1>4, <1>5 DEF Holds

\* Appending the next bytes of the source behind what a compacted buffer holds.
Appended(b, count, received) ==
    [b EXCEPT !.bytes = [i \in DOMAIN b.bytes |->
                            IF i \in b.length..(b.length + count - 1)
                            THEN received + 1 + (i - b.length) ELSE b.bytes[i]],
              !.length = @ + count]

\* The bytes appended are the next ones.
LEMMA AppendedHolds ==
    ASSUME NEW b \in Buffers, NEW sofar \in Nat, NEW received \in Nat, Holds(b, sofar, received),
           b.offset = 0, NEW count \in 1..(BufferSize - b.length)
    PROVE  /\ Appended(b, count, received) \in Buffers
           /\ Holds(Appended(b, count, received), sofar, received + count)
<1> USE RelayAssumption
<1> DEFINE c == Appended(b, count, received)
<1>1. /\ c.offset = 0 /\ c.length = b.length + count
      /\ c.bytes = [i \in 0..(BufferSize - 1) |->
                      IF i \in b.length..(b.length + count - 1)
                      THEN received + 1 + (i - b.length) ELSE b.bytes[i]]
  BY DEF Appended, Buffers
<1>2. b.length \in Nat /\ count \in Nat /\ b.length + count <= BufferSize /\ sofar + b.length = received
  BY DEF Buffers, Holds
<1> HIDE DEF c
<1>3. \A i \in 0..(BufferSize - 1) : c.bytes[i] \in Nat
  <2> TAKE i \in 0..(BufferSize - 1)
  <2>1. CASE i \in b.length..(b.length + count - 1)
    BY <2>1, <1>1, <1>2
  <2>2. CASE i \notin b.length..(b.length + count - 1)
    BY <2>2, <1>1 DEF Buffers
  <2> QED BY <2>1, <2>2
<1>4. c \in Buffers
  <2> DEFINE f == [i \in DOMAIN b.bytes |-> IF i \in b.length..(b.length + count - 1)
                                            THEN received + 1 + (i - b.length) ELSE b.bytes[i]]
  <2>1. f = c.bytes
    BY <1>1 DEF Buffers
  <2>2. f \in [0..(BufferSize - 1) -> Nat]
    BY <2>1, <1>1, <1>3
  <2> DEFINE n == b.length + count
  <2>3. c = [b EXCEPT !.bytes = f, !.length = n]
    BY DEF Appended, c
  <2>4. n \in Nat
    BY <1>2
  <2> HIDE DEF f, n
  <2> QED BY <2>2, <2>3, <2>4 DEF Buffers
<1>5. \A i \in 0..(c.length - 1) : c.bytes[c.offset + i] = sofar + i + 1
  <2> TAKE i \in 0..(c.length - 1)
  <2>1. i \in 0..(BufferSize - 1) /\ c.offset + i = i
    BY <1>1, <1>2
  <2>2. CASE i < b.length
    BY <2>1, <2>2, <1>1, <1>2 DEF Holds
  <2>3. CASE i >= b.length
    <3>1. i \in b.length..(b.length + count - 1)
      BY <2>1, <2>3, <1>1, <1>2
    <3>2. c.bytes[i] = received + 1 + (i - b.length)
      BY <2>1, <3>1, <1>1
    <3> QED BY <2>1, <3>1, <3>2, <1>2
  <2> QED BY <2>1, <2>2, <2>3, <1>2
<1>6. Holds(c, sofar, received + count)
  <2>1. c.offset = 0 /\ c.length = b.length + count
    BY <1>1
  <2>2. c.offset + c.length <= BufferSize /\ sofar + c.length = received + count
    BY <2>1, <1>2
  <2> QED BY <2>2, <1>5 DEF Holds
<1> QED BY <1>4, <1>6 DEF c

\* RelayBuffer::send takes bytes off the front.
LEMMA SentHolds ==
    ASSUME NEW b \in Buffers, NEW sofar \in Nat, NEW received \in Nat, Holds(b, sofar, received),
           NEW count \in 1..b.length, NEW c \in Buffers,
           c.bytes = b.bytes, c.length = b.length - count,
           c.offset = IF count = b.length THEN 0 ELSE b.offset + count
    PROVE  Holds(c, sofar + count, received)
<1> USE RelayAssumption
<1>1. b.length \in Nat /\ b.offset \in Nat /\ c.length \in Nat
  BY DEF Buffers
<1>2. \A i \in 0..(c.length - 1) : c.bytes[c.offset + i] = sofar + count + i + 1
  <2> TAKE i \in 0..(c.length - 1)
  <2>1. count # b.length /\ count + i \in 0..(b.length - 1)
    BY <1>1
  <2>2. b.bytes[b.offset + (count + i)] = sofar + (count + i) + 1
    BY <2>1 DEF Holds
  <2>3. c.offset + i = b.offset + (count + i)
    BY <2>1, <1>1
  <2> QED BY <2>1, <2>2, <2>3, <1>1
<1> QED BY <1>1, <1>2 DEF Holds

-----------------------------------------------------------------------------
(* The relay.                                                              *)

\* What the peers do keeps the invariant.
LEMMA PeersKeepInv ==
    ASSUME RelayInv, NEW d \in Directions, PeerWrites(d) \/ PeerCloses(d)
    PROVE  RelayInv'
<1> USE DEF RelayInv, RelayTypeOK, DirectionInv
<1>1. CASE PeerWrites(d)
  BY <1>1 DEF PeerWrites, Holds
<1>2. CASE PeerCloses(d)
  BY <1>2 DEF PeerCloses, Holds
<1> QED BY <1>1, <1>2

\* The top of the loop keeps the invariant.
LEMMA LoopTopKeepsInv == RelayInv /\ LoopTop => RelayInv'
BY DEF RelayInv, RelayTypeOK, DirectionInv, LoopTop, ClosesWrite, Holds

\* What arrives follows what is buffered.
LEMMA ReceiveKeepsInv ==
    ASSUME RelayInv, NEW d \in Directions, Receive(d)
    PROVE  RelayInv'
<1> DEFINE b == Compacted(buffer[d])
<1>1. /\ buffer[d] \in Buffers /\ taken[d] \in Nat /\ Len(delivered[d]) \in Nat
      /\ Holds(buffer[d], Len(delivered[d]), taken[d])
  BY DEF RelayInv, RelayTypeOK, DirectionInv
<1>2. /\ b \in Buffers /\ Holds(b, Len(delivered[d]), taken[d])
      /\ b.offset = 0 /\ b.length = buffer[d].length
  BY <1>1, CompactedHolds
<1>3. /\ looping' = "top" /\ looping = "poll" /\ ~ended[d]
      /\ UNCHANGED <<written, shut, writeClosed, delivered>>
  BY DEF Receive
<1>4. ASSUME NEW c \in Buffers, NEW n \in Nat, buffer' = [buffer EXCEPT ![d] = c],
             taken' = [taken EXCEPT ![d] = n],
             n <= written[d], Holds(c, Len(delivered[d]), n),
             \/ UNCHANGED ended
             \/ shut[d] /\ n = written[d] /\ ended' = [ended EXCEPT ![d] = TRUE]
      PROVE  RelayInv'
  <2>1. RelayTypeOK'
    BY <1>3, <1>4 DEF RelayInv, RelayTypeOK
  <2>2. ~writeClosed[d]
    BY <1>3 DEF RelayInv, DirectionInv
  <2>3. DirectionInv(d)'
    BY <1>3, <1>4, <2>2 DEF RelayInv, RelayTypeOK, DirectionInv
  <2>4. ASSUME NEW e \in Directions, e # d PROVE DirectionInv(e)'
    BY <1>3, <1>4, <2>4 DEF RelayInv, RelayTypeOK, DirectionInv
  <2> QED BY <2>1, <2>3, <2>4, <1>3 DEF RelayInv
<1>5. CASE \E count \in 1..(BufferSize - b.length) :
             /\ taken[d] + count <= written[d]
             /\ buffer' = [buffer EXCEPT ![d] = Appended(b, count, taken[d])]
             /\ taken' = [taken EXCEPT ![d] = taken[d] + count] /\ UNCHANGED ended
  <2> PICK count \in 1..(BufferSize - b.length) :
             /\ taken[d] + count <= written[d]
             /\ buffer' = [buffer EXCEPT ![d] = Appended(b, count, taken[d])]
             /\ taken' = [taken EXCEPT ![d] = taken[d] + count] /\ UNCHANGED ended
    BY <1>5
  <2> HIDE DEF b
  <2>1. /\ Appended(b, count, taken[d]) \in Buffers
        /\ Holds(Appended(b, count, taken[d]), Len(delivered[d]), taken[d] + count)
    BY <1>1, <1>2, AppendedHolds
  <2>2. taken[d] + count \in Nat
    BY <1>1
  <2> QED BY <1>4, <2>1, <2>2
<1>6. CASE /\ shut[d] /\ taken[d] = written[d] /\ ended' = [ended EXCEPT ![d] = TRUE]
           /\ buffer' = [buffer EXCEPT ![d] = b] /\ UNCHANGED taken
  <2> HIDE DEF b
  <2>1. taken' = [taken EXCEPT ![d] = taken[d]] /\ taken[d] <= written[d]
    BY <1>6 DEF RelayInv, RelayTypeOK, DirectionInv
  <2> QED BY <1>1, <1>2, <1>4, <1>6, <2>1
<1> QED BY <1>5, <1>6 DEF Receive, Appended

\* What the sink takes is the front of the buffer.
LEMMA SendKeepsInv ==
    ASSUME RelayInv, NEW d \in Directions, Send(d)
    PROVE  RelayInv'
<1>1. /\ buffer[d] \in Buffers /\ taken[d] \in Nat /\ delivered[d] \in Seq(Nat)
      /\ Len(delivered[d]) \in Nat /\ buffer[d].length \in Nat
      /\ Holds(buffer[d], Len(delivered[d]), taken[d])
  BY DEF RelayInv, RelayTypeOK, DirectionInv, Buffers
<1> PICK count \in 1..buffer[d].length :
          /\ buffer' = [buffer EXCEPT ![d].length = @ - count,
                                      ![d].offset = IF count = buffer[d].length THEN 0 ELSE @ + count]
          /\ delivered' = [delivered EXCEPT ![d] =
                @ \o [i \in 1..count |-> buffer[d].bytes[buffer[d].offset + i - 1]]]
  BY DEF Send
<1>2. looping' = "top" /\ looping = "poll" /\ UNCHANGED <<written, shut, taken, ended, writeClosed>>
  BY DEF Send
<1> DEFINE c == [buffer[d] EXCEPT !.length = @ - count,
                                  !.offset = IF count = buffer[d].length THEN 0 ELSE @ + count]
           s == [i \in 1..count |-> buffer[d].bytes[buffer[d].offset + i - 1]]
<1>3. /\ c \in Buffers /\ c.bytes = buffer[d].bytes /\ c.length = buffer[d].length - count
      /\ c.offset = IF count = buffer[d].length THEN 0 ELSE buffer[d].offset + count
  <2> DEFINE n == buffer[d].length - count
             o == IF count = buffer[d].length THEN 0 ELSE buffer[d].offset + count
  <2>1. n \in Nat /\ o \in Nat
    BY <1>1 DEF Buffers
  <2>2. c = [buffer[d] EXCEPT !.length = n, !.offset = o]
    OBVIOUS
  <2> HIDE DEF n, o, c
  <2>3. c \in Buffers /\ c.bytes = buffer[d].bytes /\ c.length = n /\ c.offset = o
    BY <1>1, <2>1, <2>2 DEF Buffers
  <2> QED BY <2>3 DEF n, o
<1>4. Holds(c, Len(delivered[d]) + count, taken[d])
  <2> HIDE DEF c
  <2> QED BY <1>1, <1>3, SentHolds
<1>5. buffer' = [buffer EXCEPT ![d] = c]
  BY DEF RelayInv, RelayTypeOK
<1>6. s \in Seq(Nat) /\ Len(s) = count /\ \A i \in 1..count : s[i] = Len(delivered[d]) + i
  <2>1. ASSUME NEW i \in 1..count PROVE s[i] = Len(delivered[d]) + i
    <3>1. i - 1 \in 0..(buffer[d].length - 1) /\ buffer[d].offset + (i - 1) = buffer[d].offset + i - 1
      BY <1>1 DEF Buffers
    <3>2. buffer[d].bytes[buffer[d].offset + (i - 1)] = Len(delivered[d]) + (i - 1) + 1
      BY <3>1, <1>1 DEF Holds
    <3> QED BY <3>1, <3>2, <1>1
  <2>2. s \in [1..count -> Nat]
    BY <2>1, <1>1
  <2>3. count \in Nat
    BY <1>1
  <2> QED BY <2>1, <2>2, <2>3
<1>7. /\ delivered' = [delivered EXCEPT ![d] = delivered[d] \o s]
      /\ delivered[d] \o s \in Seq(Nat) /\ Len(delivered[d] \o s) = Len(delivered[d]) + count
  <2> HIDE DEF s
  <2>1. delivered[d] \o s \in Seq(Nat) /\ Len(delivered[d] \o s) = Len(delivered[d]) + count
    BY <1>1, <1>6
  <2> QED BY <2>1 DEF s
<1>8. \A i \in 1..Len(delivered[d] \o s) : (delivered[d] \o s)[i] = i
  <2> HIDE DEF s
  <2>1. \A i \in 1..Len(delivered[d]) : delivered[d][i] = i
    BY DEF RelayInv, DirectionInv
  <2> TAKE i \in 1..Len(delivered[d] \o s)
  <2>2. CASE i <= Len(delivered[d])
    BY <2>1, <2>2, <1>1, <1>6
  <2>3. CASE i > Len(delivered[d])
    <3>1. i - Len(delivered[d]) \in 1..count
      BY <2>3, <1>1, <1>7
    <3>2. (delivered[d] \o s)[i] = s[i - Len(delivered[d])]
      BY <2>3, <3>1, <1>1, <1>6
    <3> QED BY <3>1, <3>2, <1>1, <1>6
  <2> QED BY <2>2, <2>3, <1>1
<1> HIDE DEF c, s
<1>9. RelayTypeOK'
  <2>1. buffer' \in [Directions -> Buffers]
    <3>1. c \in Buffers
      BY <1>3
    <3> QED BY <3>1, <1>5 DEF RelayInv, RelayTypeOK
  <2>2. delivered' \in [Directions -> Seq(Nat)]
    BY <1>7 DEF RelayInv, RelayTypeOK
  <2> QED BY <2>1, <2>2, <1>2 DEF RelayInv, RelayTypeOK
<1>10. ~writeClosed[d]
  BY <1>1 DEF RelayInv, DirectionInv
<1>11. DirectionInv(d)'
  BY <1>2, <1>4, <1>5, <1>7, <1>8, <1>10 DEF RelayInv, RelayTypeOK, DirectionInv
<1>12. ASSUME NEW e \in Directions, e # d PROVE DirectionInv(e)'
  BY <1>2, <1>5, <1>7, <1>12 DEF RelayInv, RelayTypeOK, DirectionInv
<1> QED BY <1>2, <1>9, <1>11, <1>12 DEF RelayInv

\* Both buffers start empty.
LEMMA RelayInitInv == RelayInit => RelayInv
BY RelayAssumption DEF RelayInit, RelayInv, RelayTypeOK, Buffers, DirectionInv, Holds, Directions

\* The relay is transparent for every buffer size and every number of bytes: a
\* sink gets the bytes of its source in order and without a gap, and it sees the
\* end of the stream only after the last byte (relay_streams of tcp_gateway.rs).
THEOREM RelayFaithfulTheorem == RelaySpec => []RelayFaithful
<1>1. RelayInv /\ [RelayNext]_byteVars => RelayInv'
  <2> SUFFICES ASSUME RelayInv, [RelayNext]_byteVars PROVE RelayInv'
    OBVIOUS
  <2>1. CASE RelayLoop
    BY <2>1, LoopTopKeepsInv, ReceiveKeepsInv, SendKeepsInv DEF RelayLoop
  <2>2. CASE RelayFails
    BY <2>2 DEF RelayFails, RelayInv, RelayTypeOK, DirectionInv, Holds
  <2>3. CASE \E d \in Directions : PeerWrites(d) \/ PeerCloses(d)
    BY <2>3, PeersKeepInv
  <2>4. CASE UNCHANGED byteVars
    BY <2>4 DEF byteVars, RelayInv, RelayTypeOK, DirectionInv, Holds
  <2> QED BY <2>1, <2>2, <2>3, <2>4 DEF RelayNext
<1>2. RelayInv => RelayFaithful
  <2> SUFFICES ASSUME RelayInv, NEW d \in Directions
               PROVE  /\ \A i \in DOMAIN delivered[d] : delivered[d][i] = i
                      /\ Len(delivered[d]) + buffer[d].length = taken[d]
                      /\ writeClosed[d] => shut[d] /\ Len(delivered[d]) = written[d]
    BY DEF RelayInv, RelayFaithful
  <2>1. /\ delivered[d] \in Seq(Nat) /\ DOMAIN delivered[d] = 1..Len(delivered[d])
        /\ buffer[d].length \in Nat /\ taken[d] \in Nat
    BY DEF RelayInv, RelayTypeOK, Buffers
  <2> QED BY <2>1 DEF RelayInv, DirectionInv, Holds
<1> QED BY <1>1, <1>2, RelayInitInv, PTL DEF RelaySpec

-----------------------------------------------------------------------------
(***************************************************************************)
(* The packet queue and the gateway: for any flows, packets, decisions,    *)
(* connections and limits, the helper and the runner stay in step, only an *)
(* allowed flow passes, and the relays of the gateway are counted and its  *)
(* requests taken in turn.                                                 *)
(***************************************************************************)
NodeStages == {"idle", "asking", "decided", "verdict"}
Verdicts == {"ALLOW", "DENY"}
Scopes == {Scope[f] : f \in Flows}

\* The first of the records that covers f, whatever the records.
FirstCover(records, f) == SelectInSeq(records, LAMBDA r : <<r.scope, Scope[f]>> \in ScopeCovers)
Covers(records, i, f) == <<records[i].scope, Scope[f]>> \in ScopeCovers
AllowedBy(records, f) == FirstCover(records, f) # 0 /\ records[FirstCover(records, f)].decision = "ALLOW"

-----------------------------------------------------------------------------
(* The inductive invariant.                                                *)

KernelTypeOK ==
    /\ mark \in [Flows -> {"new", "pending", "allow", "deny"}]
    /\ nfq \in Seq(Flows) /\ passed \subseteq Flows

HelperTypeOK == helper \in [sequence : Nat, waiting : BOOLEAN, ended : {"no", "killed"}]

NodeTypeOK ==
    node \in [lastSequence : Nat, pendingEvent : BOOLEAN, stage : NodeStages, flow : Flows \cup {NoFlow},
              decision : Verdicts, failed : {"no", "stopped"}]

DecisionsTypeOK == decisions \in Seq([scope : Scopes, decision : Verdicts])

\* Where the packet at the head of the queue stands: with nobody, in the pipe to
\* the runner, at the runner, or in the pipe back.  At most one of the four.
Quiet ==
    /\ ~helper.waiting /\ events = <<>> /\ verdicts = <<>>
    /\ node.stage = "idle" /\ node.lastSequence = helper.sequence
Underway ==
    /\ helper.waiting /\ nfq # <<>> /\ verdicts = <<>> /\ node.stage = "idle"
    /\ events = <<[sequence |-> helper.sequence, flow |-> Head(nfq)]>>
    /\ node.lastSequence + 1 = helper.sequence /\ ~Malformed(Head(nfq))
Considered ==
    /\ helper.waiting /\ nfq # <<>> /\ events = <<>> /\ verdicts = <<>>
    /\ node.stage # "idle" /\ node.flow = Head(nfq) /\ node.lastSequence = helper.sequence
Replied ==
    /\ helper.waiting /\ nfq # <<>> /\ events = <<>>
    /\ node.stage = "idle" /\ node.lastSequence = helper.sequence
    /\ \E d \in Verdicts : /\ verdicts = <<[sequence |-> helper.sequence, decision |-> d]>>
                           /\ d = "ALLOW" => AllowedBy(decisions, Head(nfq))
\* After the helper was killed nothing is queued or in a pipe.
HelperKilled == ~helper.waiting /\ nfq = <<>> /\ events = <<>> /\ verdicts = <<>>

InStep ==
    /\ helper.ended = "no" <=> node.failed = "no"
    /\ node.pendingEvent <=> node.stage # "idle"
    /\ helper.ended = "no" => Quiet \/ Underway \/ Considered \/ Replied
    /\ helper.ended = "killed" => HelperKilled

\* What the runner decides rests on the records.
DecisionGrounded ==
    /\ node.stage # "idle" => node.flow \in Flows
    /\ node.stage = "asking" => ~Malformed(node.flow) /\ FirstCover(decisions, node.flow) = 0
    /\ node.stage \in {"decided", "verdict"} /\ node.decision = "ALLOW" => AllowedBy(decisions, node.flow)

\* What passed was allowed, and a marked flow and a connection passed.
PassedAllowed ==
    /\ \A f \in passed : AllowedBy(decisions, f)
    /\ \A f \in Flows : mark[f] = "allow" => f \in passed

ConnectionsTypeOK ==
    /\ flow \in [Conns -> Flows \cup {NoFlow}]
    /\ relay \in [Conns -> {"none", "forked", "exited", "reaped"}]
    /\ stage \in [Conns -> {"none", "header", "closed"} \cup Claimed]
ConnectionsPassed == \A c \in Conns : relay[c] # "none" \/ stage[c] # "none" => flow[c] \in passed

QueueInv ==
    /\ KernelTypeOK /\ HelperTypeOK /\ NodeTypeOK /\ DecisionsTypeOK
    /\ InStep /\ DecisionGrounded /\ PassedAllowed
    /\ ConnectionsTypeOK /\ ConnectionsPassed

-----------------------------------------------------------------------------
(* The relays and the requests.                                            *)

Alive == {c \in Conns : relay[c] \in {"forked", "exited"}}
Forking == IF forking THEN 1 ELSE 0

\* Every approval that is held is counted.
ApprovalsInv ==
    /\ fresh \in [Flows -> Nat] /\ stale \in [Flows -> Nat]
    /\ pendingApprovalCount = Total(fresh) + Total(stale)
    /\ pendingApprovalCount <= MaxApprovals

\* A relay that is forked and not yet counted leaves room for itself.
RelaysInv ==
    /\ activeRelays \in Nat /\ forking \in BOOLEAN
    /\ flow \in [Conns -> Flows \cup {NoFlow}]
    /\ relay \in [Conns -> {"none", "forked", "exited", "reaped"}]
    /\ \A c \in Conns : relay[c] # "none" => flow[c] # NoFlow
    /\ IsFiniteSet(Alive)
    /\ activeRelays + Forking = Cardinality(Alive)
    /\ activeRelays + Forking <= MaxRelays

RequestStates == {"queued", "authorizing", "forwarding"} \cup Final
RequestsInv ==
    /\ requests \in [Conns -> Seq(RequestStates)]
    /\ OneRequestAtATime

GatewayInv == ApprovalsInv /\ RelaysInv /\ RequestsInv

-----------------------------------------------------------------------------
(* The first record that covers a flow.                                    *)

\* A set of indices has a least one.
LEMMA MinOfIndices ==
    ASSUME NEW I \in SUBSET Nat, I # {}
    PROVE  Min(I) \in I /\ \A i \in I : Min(I) <= i
<1>1. PICK x \in I : \A y \in I : ~(<<y, x>> \in OpToRel(<, Nat))
  BY NatLessThanWellFounded, WFMin
<1>2. \A y \in I : x <= y
  <2> TAKE y \in I
  <2>1. x \in Nat /\ y \in Nat
    OBVIOUS
  <2>2. y < x => <<y, x>> \in OpToRel(<, Nat)
    BY <2>1 DEF OpToRel
  <2>3. ~(y < x)
    BY <1>1, <2>2, Zenon
  <2> QED BY <2>1, <2>3
<1> QED BY <1>2 DEF Min

\* decisions.find: the index of the first record that covers f, if there is one.
LEMMA FirstCoverIs ==
    ASSUME NEW records, Len(records) \in Nat, NEW f
    PROVE  LET n == FirstCover(records, f) IN
           /\ n \in 0..Len(records)
           /\ n = 0 => \A i \in 1..Len(records) : ~Covers(records, i, f)
           /\ n # 0 => Covers(records, n, f) /\ \A i \in 1..(n - 1) : ~Covers(records, i, f)
<1> DEFINE I == {i \in 1..Len(records) : Covers(records, i, f)}
<1>1. FirstCover(records, f) = IF I # {} THEN Min(I) ELSE 0
  BY DEF FirstCover, SelectInSeq, Covers
<1>2. CASE I = {}
  <2>1. FirstCover(records, f) = 0 /\ \A i \in 1..Len(records) : ~Covers(records, i, f)
    BY <1>1, <1>2
  <2> QED BY <2>1
<1>3. CASE I # {}
  <2>1. I \in SUBSET Nat
    OBVIOUS
  <2>2. Min(I) \in I /\ \A i \in I : Min(I) <= i
    <3> HIDE DEF I
    <3> QED BY <2>1, <1>3, MinOfIndices
  <2>3. FirstCover(records, f) = Min(I)
    BY <1>1, <1>3
  <2>4. Min(I) \in 1..Len(records) /\ Covers(records, Min(I), f)
    BY <2>2
  <2>5. \A i \in 1..(Min(I) - 1) : ~Covers(records, i, f)
    <3>1. ASSUME NEW i \in 1..(Min(I) - 1), Covers(records, i, f) PROVE FALSE
      <4>1. i \in I
        BY <2>4, <3>1
      <4> QED BY <4>1, <2>2, <2>4, <3>1
    <3> QED BY <3>1
  <2> HIDE DEF I
  <2> QED BY <2>3, <2>4, <2>5
<1> QED BY <1>2, <1>3

\* A flow that is covered keeps its deciding record when another is added.
LEMMA CoverKept ==
    ASSUME NEW S, NEW records \in Seq(S), NEW r \in S, NEW f, FirstCover(records, f) # 0
    PROVE  /\ FirstCover(Append(records, r), f) = FirstCover(records, f)
           /\ Append(records, r)[FirstCover(records, f)] = records[FirstCover(records, f)]
<1> DEFINE more == Append(records, r)
           n == FirstCover(records, f)
           m == FirstCover(more, f)
<1>1. Len(records) \in Nat /\ Len(more) = Len(records) + 1
  OBVIOUS
<1>2. \A i \in 1..Len(records) : more[i] = records[i]
  OBVIOUS
<1>3. n \in 1..Len(records) /\ Covers(records, n, f) /\ \A i \in 1..(n - 1) : ~Covers(records, i, f)
  BY <1>1, FirstCoverIs
<1>4. /\ m \in 0..Len(more)
      /\ m = 0 => \A i \in 1..Len(more) : ~Covers(more, i, f)
      /\ m # 0 => Covers(more, m, f) /\ \A i \in 1..(m - 1) : ~Covers(more, i, f)
  <2>1. Len(more) \in Nat
    BY <1>1
  <2> HIDE DEF more
  <2> QED BY <2>1, FirstCoverIs
<1>5. \A i \in 1..Len(records) : Covers(more, i, f) <=> Covers(records, i, f)
  BY <1>2 DEF Covers
<1> HIDE DEF more, n, m
<1>6. m = n
  BY <1>1, <1>3, <1>4, <1>5
<1>7. more[n] = records[n]
  BY <1>2, <1>3
<1> QED BY <1>6, <1>7 DEF more, n, m

\* A flow that no record covers is decided by the record added for it.
LEMMA CoverAdded ==
    ASSUME NEW S, NEW records \in Seq(S), NEW r \in S, NEW f, FirstCover(records, f) = 0,
           <<r.scope, Scope[f]>> \in ScopeCovers
    PROVE  /\ FirstCover(Append(records, r), f) = Len(records) + 1
           /\ Append(records, r)[Len(records) + 1] = r
<1> DEFINE more == Append(records, r)
           m == FirstCover(more, f)
<1>1. Len(records) \in Nat /\ Len(more) = Len(records) + 1
  OBVIOUS
<1>2. (\A i \in 1..Len(records) : more[i] = records[i]) /\ more[Len(records) + 1] = r
  OBVIOUS
<1>3. \A i \in 1..Len(records) : ~Covers(records, i, f)
  BY <1>1, FirstCoverIs
<1>4. /\ m \in 0..Len(more)
      /\ m = 0 => \A i \in 1..Len(more) : ~Covers(more, i, f)
      /\ m # 0 => Covers(more, m, f) /\ \A i \in 1..(m - 1) : ~Covers(more, i, f)
  <2>1. Len(more) \in Nat
    BY <1>1
  <2> HIDE DEF more
  <2> QED BY <2>1, FirstCoverIs
<1>5. (\A i \in 1..Len(records) : ~Covers(more, i, f)) /\ Covers(more, Len(records) + 1, f)
  BY <1>2, <1>3 DEF Covers
<1> HIDE DEF more, m
<1>6. m = Len(records) + 1
  BY <1>1, <1>4, <1>5
<1> QED BY <1>6, <1>2 DEF more, m

\* So what was allowed stays allowed.
LEMMA AllowedKept ==
    ASSUME NEW S, NEW records \in Seq(S), NEW r \in S, NEW f, AllowedBy(records, f)
    PROVE  AllowedBy(Append(records, r), f)
BY CoverKept DEF AllowedBy

-----------------------------------------------------------------------------
(* The steps.  QueuePart is what the queue keeps, the connections follow.   *)

QueuePart ==
    /\ KernelTypeOK /\ HelperTypeOK /\ NodeTypeOK /\ DecisionsTypeOK
    /\ InStep /\ DecisionGrounded /\ PassedAllowed

\* The forms of InStep, split by where the head of the queue stands.
LEMMA HeadFacts ==
    ASSUME KernelTypeOK, nfq # <<>>
    PROVE  Head(nfq) \in Flows /\ Tail(nfq) \in Seq(Flows)
BY DEF KernelTypeOK

LEMMA RecordOf ==
    ASSUME NEW S, NEW records \in Seq(S)
    PROVE  Len(records) \in Nat /\ \A i \in 1..Len(records) : records[i] \in S
OBVIOUS

LEMMA SendPacketKeeps ==
    ASSUME QueuePart, NEW f \in Flows, SendPacket(f)
    PROVE  QueuePart'
<1> USE DEF QueuePart
<1>1. /\ UNCHANGED <<passed, helper, events, verdicts, node, decisions>>
  BY DEF SendPacket
<1>2. KernelTypeOK' /\ (PassedAllowed)'
  BY <1>1 DEF SendPacket, KernelTypeOK, PassedAllowed
<1>3. \/ nfq' = nfq
      \/ helper.ended = "no" /\ nfq' = Append(nfq, f)
  BY DEF SendPacket
<1>4. nfq # <<>> => nfq' # <<>> /\ Head(nfq') = Head(nfq)
  BY <1>3 DEF KernelTypeOK
<1>5. helper.ended = "killed" => nfq' = nfq
  BY <1>3
<1>6. InStep'
  <2>1. (Quiet => Quiet') /\ (Underway => Underway')
    BY <1>1, <1>4 DEF Quiet, Underway, Malformed
  <2>2. (Considered => Considered') /\ (Replied => Replied')
    BY <1>1, <1>4 DEF Considered, Replied
  <2>3. helper.ended = "killed" /\ HelperKilled => HelperKilled'
    BY <1>1, <1>5 DEF HelperKilled
  <2>4. /\ helper.ended' = "no" <=> node.failed' = "no"
        /\ node.pendingEvent' <=> node.stage' # "idle"
    BY <1>1 DEF InStep
  <2> QED BY <2>1, <2>2, <2>3, <2>4, <1>1 DEF InStep
<1>7. HelperTypeOK' /\ NodeTypeOK' /\ DecisionsTypeOK' /\ DecisionGrounded'
  BY <1>1 DEF HelperTypeOK, NodeTypeOK, DecisionsTypeOK, DecisionGrounded, Malformed
<1> QED BY <1>2, <1>6, <1>7

LEMMA ForgetKeeps ==
    ASSUME QueuePart, NEW f \in Flows, Forget(f)
    PROVE  QueuePart'
<1> USE DEF QueuePart
<1>1. /\ UNCHANGED <<nfq, passed, helper, events, verdicts, node, decisions>>
      /\ mark' = [mark EXCEPT ![f] = "new"]
  BY DEF Forget
<1>2. KernelTypeOK' /\ PassedAllowed'
  BY <1>1 DEF KernelTypeOK, PassedAllowed
<1>3. HelperTypeOK' /\ NodeTypeOK' /\ DecisionsTypeOK' /\ DecisionGrounded'
  BY <1>1 DEF HelperTypeOK, NodeTypeOK, DecisionsTypeOK, DecisionGrounded, Malformed
<1>4. InStep'
  BY <1>1 DEF InStep, Quiet, Underway, Considered, Replied, HelperKilled, Malformed
<1> QED BY <1>2, <1>3, <1>4

\* An event tells the sequence number that the helper has just taken.
LEMMA ProcessPacketKeeps ==
    ASSUME QueuePart, ProcessPacket
    PROVE  QueuePart'
<1> USE DEF QueuePart
<1> DEFINE f == Head(nfq)
<1>1. /\ helper.ended = "no" /\ ~helper.waiting /\ nfq # <<>>
      /\ UNCHANGED <<mark, passed, verdicts, node, decisions>>
  BY DEF ProcessPacket, DropPacket, kernelVars
<1>2. Quiet
  BY <1>1 DEF InStep, Underway, Considered, Replied
<1>3. f \in Flows /\ Tail(nfq) \in Seq(Flows)
  BY <1>1, HeadFacts
<1>4. NodeTypeOK' /\ DecisionsTypeOK' /\ DecisionGrounded' /\ PassedAllowed'
  BY <1>1 DEF NodeTypeOK, DecisionsTypeOK, DecisionGrounded, PassedAllowed, Malformed
<1>5. CASE Malformed(f)
  <2>1. /\ nfq' = Tail(nfq) /\ events' = events
        /\ helper' = [helper EXCEPT !.sequence = helper.sequence + 0]
    BY <1>5 DEF ProcessPacket, DropPacket, ParsedSequence
  <2>2. helper' = helper
    BY <2>1 DEF HelperTypeOK
  <2>3. Quiet'
    BY <1>1, <1>2, <2>1, <2>2 DEF Quiet
  <2>4. InStep'
    BY <1>1, <2>2, <2>3 DEF InStep
  <2>5. KernelTypeOK' /\ HelperTypeOK'
    BY <1>1, <1>3, <2>1, <2>2 DEF KernelTypeOK, HelperTypeOK
  <2> QED BY <1>4, <2>4, <2>5
<1>6. CASE ~Malformed(f)
  <2>1. /\ nfq' = nfq
        /\ helper' = [helper EXCEPT !.sequence = helper.sequence + 1, !.waiting = TRUE]
        /\ events' = Append(events, [sequence |-> helper.sequence + 1, flow |-> f])
    BY <1>6 DEF ProcessPacket, kernelVars, ParsedSequence, Event
  <2>2. /\ HelperTypeOK' /\ helper'.sequence = helper.sequence + 1 /\ helper'.waiting /\ helper'.ended = "no"
    <3>1. helper.sequence + 1 \in Nat
      BY DEF HelperTypeOK
    <3>2. HelperTypeOK'
      BY <3>1, <2>1 DEF HelperTypeOK
    <3>3. helper'.waiting = TRUE
      BY <2>1 DEF HelperTypeOK
    <3>4. helper'.sequence = helper.sequence + 1 /\ helper'.ended = "no"
      BY <2>1, <1>1 DEF HelperTypeOK
    <3> QED BY <3>2, <3>3, <3>4
  <2>3. events' = <<[sequence |-> helper'.sequence, flow |-> f]>>
    BY <2>1, <2>2, <1>2 DEF Quiet
  <2>4. Underway'
    BY <1>1, <1>2, <1>6, <2>1, <2>2, <2>3 DEF Quiet, Underway, Malformed
  <2>5. InStep'
    BY <1>1, <2>2, <2>4 DEF InStep
  <2>6. KernelTypeOK'
    BY <1>1, <2>1 DEF KernelTypeOK
  <2> QED BY <1>4, <2>2, <2>5, <2>6
<1> QED BY <1>5, <1>6

\* The verdict in the pipe is the one for the packet at the head of the queue.
LEMMA ReadVerdictKeeps ==
    ASSUME QueuePart, ReadVerdict
    PROVE  QueuePart' /\ passed \subseteq passed'
<1> USE DEF QueuePart
<1> DEFINE f == Head(nfq)
           v == Head(verdicts)
<1>1. /\ helper.waiting /\ verdicts # <<>>
      /\ UNCHANGED <<node, decisions>>
  BY DEF ReadVerdict
<1>2. helper.ended = "no" /\ Replied
  BY <1>1 DEF InStep, Quiet, Underway, Considered, HelperKilled, HelperTypeOK
<1>3. PICK d \in Verdicts : /\ verdicts = <<[sequence |-> helper.sequence, decision |-> d]>>
                            /\ d = "ALLOW" => AllowedBy(decisions, f)
  BY <1>2 DEF Replied
<1>4. v = [sequence |-> helper.sequence, decision |-> d] /\ Tail(verdicts) = <<>>
  BY <1>3
<1>5. v.sequence = helper.sequence /\ v.decision = d
  BY <1>4
<1>6. /\ Repeat(d) /\ helper' = [helper EXCEPT !.waiting = FALSE]
      /\ verdicts' = <<>> /\ events' = events
  BY <1>4, <1>5 DEF ReadVerdict, ExpectedVerdict
<1>7. f \in Flows /\ Tail(nfq) \in Seq(Flows)
  BY <1>2, HeadFacts DEF Replied
<1>8. HelperTypeOK'
  BY <1>6 DEF HelperTypeOK
<1>9. helper'.sequence = helper.sequence /\ helper'.ended = "no"
  BY <1>6, <1>2 DEF HelperTypeOK
<1>10. helper'.waiting = FALSE
  BY <1>6 DEF HelperTypeOK
<1>11. Quiet'
  BY <1>1, <1>2, <1>6, <1>9, <1>10 DEF Quiet, Replied
<1>12. InStep'
  BY <1>1, <1>2, <1>9, <1>11 DEF InStep
<1>13. nfq' = Tail(nfq) /\ passed' = IF d = "ALLOW" THEN passed \cup {f} ELSE passed
  BY <1>6 DEF Repeat
<1>14. PICK m \in {mark[f], IF d = "ALLOW" THEN "allow" ELSE "deny"} : mark' = [mark EXCEPT ![f] = m]
  <2>1. mark' = [mark EXCEPT ![f] = IF Operation[f] \notin Marked THEN mark[f]
                                    ELSE IF d = "ALLOW" THEN "allow" ELSE "deny"]
    BY <1>6 DEF Repeat
  <2> QED BY <2>1
<1>15. m \in {"new", "pending", "allow", "deny"} /\ mark' \in [Flows -> {"new", "pending", "allow", "deny"}]
  BY <1>7, <1>14 DEF KernelTypeOK
<1>16. KernelTypeOK'
  BY <1>7, <1>13, <1>15 DEF KernelTypeOK
<1>17. PassedAllowed'
  BY <1>1, <1>3, <1>13, <1>14 DEF PassedAllowed, KernelTypeOK
<1>18. NodeTypeOK' /\ DecisionsTypeOK' /\ DecisionGrounded'
  BY <1>1 DEF NodeTypeOK, DecisionsTypeOK, DecisionGrounded, Malformed
<1> QED BY <1>8, <1>12, <1>13, <1>16, <1>17, <1>18

\* The event in the pipe is the one the runner expects, so it never fails for it.
LEMMA OnQueueEventKeeps ==
    ASSUME QueuePart, OnQueueEvent
    PROVE  QueuePart' /\ passed' = passed
<1> USE DEF QueuePart
<1> DEFINE f == Head(nfq)
           e == Head(events)
           n == FirstCover(decisions, f)
<1>1. events # <<>> /\ node.failed = "no"
  BY DEF OnQueueEvent
<1>2. helper.ended = "no" /\ Underway
  BY <1>1 DEF InStep, Quiet, Considered, Replied
<1>3. e = [sequence |-> helper.sequence, flow |-> f] /\ Tail(events) = <<>>
  BY <1>2 DEF Underway
<1>4. e.sequence = node.lastSequence + 1 /\ e.flow = f /\ e.sequence = helper.sequence
  BY <1>2, <1>3 DEF Underway
<1>5. ~node.pendingEvent
  BY <1>2 DEF Underway, InStep
<1>6. /\ \E attributed \in Attributions(f) :
            node' = [node EXCEPT !.lastSequence = helper.sequence, !.pendingEvent = TRUE, !.flow = f,
                        !.decision = IF attributed /\ n # 0 THEN decisions[n].decision ELSE "DENY",
                        !.stage = CASE ~attributed -> "verdict"
                                    [] attributed /\ n # 0 -> "decided"
                                    [] attributed /\ n = 0 -> "asking"]
      /\ events' = <<>>
      /\ UNCHANGED <<kernelVars, helper, verdicts, decisions>>
  <2>1. CoveredBy(e.flow) = FirstCover(decisions, e.flow)
    BY DEF CoveredBy, FirstCover
  <2>2. /\ \E attributed \in Attributions(e.flow) :
            node' = [node EXCEPT !.lastSequence = e.sequence, !.pendingEvent = TRUE, !.flow = e.flow,
                        !.decision = IF attributed /\ CoveredBy(e.flow) # 0
                                     THEN decisions[CoveredBy(e.flow)].decision ELSE "DENY",
                        !.stage = CASE ~attributed -> "verdict"
                                    [] attributed /\ CoveredBy(e.flow) # 0 -> "decided"
                                    [] attributed /\ CoveredBy(e.flow) = 0 -> "asking"]
        /\ events' = Tail(events)
        /\ UNCHANGED <<kernelVars, helper, verdicts, decisions>>
    BY <1>4, <1>5 DEF OnQueueEvent
  <2> HIDE DEF e, f
  <2> QED BY <1>3, <1>4, <2>1, <2>2
<1>7. PICK attributed \in BOOLEAN :
            node' = [node EXCEPT !.lastSequence = helper.sequence, !.pendingEvent = TRUE, !.flow = f,
                        !.decision = IF attributed /\ n # 0 THEN decisions[n].decision ELSE "DENY",
                        !.stage = CASE ~attributed -> "verdict"
                                    [] attributed /\ n # 0 -> "decided"
                                    [] attributed /\ n = 0 -> "asking"]
  BY <1>6 DEF Attributions
<1> DEFINE d == IF attributed /\ n # 0 THEN decisions[n].decision ELSE "DENY"
           s == IF ~attributed THEN "verdict" ELSE IF n # 0 THEN "decided" ELSE "asking"
<1>8. node' = [node EXCEPT !.lastSequence = helper.sequence, !.pendingEvent = TRUE, !.flow = f,
                        !.decision = d, !.stage = s]
  BY <1>7
<1>9. f \in Flows /\ ~Malformed(f)
  BY <1>2, HeadFacts DEF Underway
<1>10. n # 0 => decisions[n] \in [scope : Scopes, decision : Verdicts]
  <2>1. Len(decisions) \in Nat /\ \A i \in 1..Len(decisions) : decisions[i] \in [scope : Scopes, decision : Verdicts]
    BY RecordOf DEF DecisionsTypeOK
  <2>2. n \in 0..Len(decisions)
    BY <2>1, FirstCoverIs
  <2> HIDE DEF n
  <2> QED BY <2>1, <2>2
<1>11. d \in Verdicts /\ s \in NodeStages /\ s # "idle"
  BY <1>10 DEF Verdicts, NodeStages
<1>12. d = "ALLOW" => AllowedBy(decisions, f)
  BY DEF AllowedBy
<1>13. s = "asking" => n = 0
  OBVIOUS
<1> HIDE DEF d, s
<1>14. helper.sequence \in Nat
  BY DEF HelperTypeOK
<1>15. NodeTypeOK'
  <2> HIDE DEF f
  <2> QED BY <1>8, <1>9, <1>11, <1>14 DEF NodeTypeOK
<1>16. /\ node'.lastSequence = helper.sequence /\ node'.flow = f /\ node'.decision = d /\ node'.stage = s
       /\ node'.failed = "no"
  BY <1>1, <1>8 DEF NodeTypeOK
<1>17. node'.pendingEvent = TRUE
  BY <1>8 DEF NodeTypeOK
<1>18. Considered'
  BY <1>2, <1>6, <1>11, <1>16 DEF Underway, Considered, kernelVars
<1>19. InStep'
  BY <1>2, <1>6, <1>11, <1>16, <1>17, <1>18 DEF InStep
<1>20. DecisionGrounded'
  BY <1>6, <1>9, <1>12, <1>13, <1>16 DEF DecisionGrounded, Malformed
<1>21. KernelTypeOK' /\ HelperTypeOK' /\ DecisionsTypeOK' /\ PassedAllowed'
  BY <1>6 DEF kernelVars, KernelTypeOK, HelperTypeOK, DecisionsTypeOK, PassedAllowed
<1> QED BY <1>6, <1>15, <1>19, <1>20, <1>21 DEF kernelVars

\* An answer is recorded before it is acted on, and takes nothing back.
LEMMA DecideKeeps ==
    ASSUME QueuePart, NEW answer \in {"ALLOW", "DENY", "error"}, Decide(answer)
    PROVE  QueuePart' /\ passed' = passed
<1> USE DEF QueuePart
<1> DEFINE g == node.flow
           R == [scope : Scopes, decision : Verdicts]
           r == [scope |-> Scope[g], decision |-> answer]
<1>1. /\ node.stage = "asking"
      /\ node' = [node EXCEPT !.decision = Answered(answer), !.stage = "decided"]
      /\ decisions' = IF answer = "error" THEN decisions ELSE Append(decisions, r)
      /\ UNCHANGED <<kernelVars, helper, events, verdicts>>
  BY DEF Decide
<1>2. g \in Flows /\ ~Malformed(g) /\ FirstCover(decisions, g) = 0
  BY <1>1 DEF DecisionGrounded
<1>3. decisions \in Seq(R)
  BY DEF DecisionsTypeOK
<1>4. answer # "error" => r \in R /\ r.scope = Scope[g] /\ r.decision = answer
  BY <1>2 DEF Scopes, Verdicts
<1>5. <<Scope[g], Scope[g]>> \in ScopeCovers
  BY <1>2, ScopeAssumption DEF Malformed
<1>6. decisions' \in Seq(R) /\ \A f : AllowedBy(decisions, f) => AllowedBy(decisions', f)
  <2>1. CASE answer = "error"
    BY <1>1, <1>3, <2>1
  <2>2. CASE answer # "error"
    <3>1. decisions' = Append(decisions, r) /\ r \in R
      BY <1>1, <1>4, <2>2
    <3> HIDE DEF R, r
    <3> QED BY <1>3, <3>1, AllowedKept
  <2> QED BY <2>1, <2>2
<1>7. answer = "ALLOW" => AllowedBy(decisions', g)
  <2> SUFFICES ASSUME answer = "ALLOW" PROVE AllowedBy(decisions', g)
    OBVIOUS
  <2>1. decisions' = Append(decisions, r) /\ r \in R /\ r.decision = "ALLOW" /\ <<r.scope, Scope[g]>> \in ScopeCovers
    BY <1>1, <1>4, <1>5
  <2>2. Len(decisions) \in Nat
    BY <1>3
  <2> HIDE DEF R, r, g
  <2>3. FirstCover(decisions', g) = Len(decisions) + 1 /\ decisions'[Len(decisions) + 1] = r
    BY <1>2, <1>3, <2>1, CoverAdded
  <2> QED BY <2>1, <2>2, <2>3 DEF AllowedBy
<1> HIDE DEF R, r
<1>8. Answered(answer) \in Verdicts /\ (Answered(answer) = "ALLOW" => answer = "ALLOW")
  BY DEF Answered, Verdicts
<1>9. NodeTypeOK'
  BY <1>1, <1>8 DEF NodeTypeOK, NodeStages
<1>10. /\ node'.lastSequence = node.lastSequence /\ node'.flow = g /\ node'.decision = Answered(answer)
       /\ node'.stage = "decided" /\ node'.failed = node.failed
  BY <1>1 DEF NodeTypeOK
<1>11. node'.pendingEvent = node.pendingEvent
  BY <1>1 DEF NodeTypeOK
<1>12. Considered => Considered'
  BY <1>1, <1>10 DEF Considered, kernelVars
<1>13. ~Quiet /\ ~Underway /\ ~Replied
  BY <1>1 DEF Quiet, Underway, Replied
<1>14. InStep'
  <2>1. HelperKilled => HelperKilled'
    BY <1>1 DEF HelperKilled, kernelVars
  <2> QED BY <1>1, <1>10, <1>11, <1>12, <1>13, <2>1 DEF InStep
<1>15. DecisionGrounded'
  BY <1>2, <1>7, <1>8, <1>10 DEF DecisionGrounded
<1>16. PassedAllowed'
  BY <1>1, <1>6 DEF PassedAllowed, kernelVars
<1>17. KernelTypeOK' /\ HelperTypeOK' /\ DecisionsTypeOK'
  BY <1>1, <1>6 DEF kernelVars, KernelTypeOK, HelperTypeOK, DecisionsTypeOK, R
<1> QED BY <1>1, <1>9, <1>14, <1>15, <1>16, <1>17 DEF kernelVars

\* An approval that cannot be given turns the decision into a denial.
LEMMA ResolveKeeps ==
    ASSUME QueuePart, Resolve
    PROVE  QueuePart' /\ passed' = passed
<1> USE DEF QueuePart
<1>1. /\ node.stage = "decided"
      /\ \E d \in {node.decision, "DENY"} : node' = [node EXCEPT !.stage = "verdict", !.decision = d]
      /\ UNCHANGED <<kernelVars, helper, events, verdicts, decisions>>
  <2>1. node = [node EXCEPT !.decision = node.decision]
    BY DEF NodeTypeOK
  <2>2. \/ node' = [node EXCEPT !.stage = "verdict"]
        \/ node' = [node EXCEPT !.stage = "verdict", !.decision = "DENY"]
    BY DEF Resolve
  <2>3. [node EXCEPT !.stage = "verdict"] = [node EXCEPT !.stage = "verdict", !.decision = node.decision]
    BY DEF NodeTypeOK
  <2> QED BY <2>2, <2>3 DEF Resolve
<1>2. PICK d \in {node.decision, "DENY"} : node' = [node EXCEPT !.stage = "verdict", !.decision = d]
  BY <1>1
<1>3. d \in Verdicts
  BY DEF NodeTypeOK, Verdicts
<1>4. NodeTypeOK'
  BY <1>2, <1>3 DEF NodeTypeOK, NodeStages
<1>5. /\ node'.lastSequence = node.lastSequence /\ node'.flow = node.flow /\ node'.decision = d
      /\ node'.stage = "verdict" /\ node'.failed = node.failed
  BY <1>2 DEF NodeTypeOK
<1>6. node'.pendingEvent = node.pendingEvent
  BY <1>2 DEF NodeTypeOK
<1>7. Considered => Considered'
  BY <1>1, <1>5 DEF Considered, kernelVars
<1>8. ~Quiet /\ ~Underway /\ ~Replied
  BY <1>1 DEF Quiet, Underway, Replied
<1>9. InStep'
  <2>1. HelperKilled => HelperKilled'
    BY <1>1 DEF HelperKilled, kernelVars
  <2> QED BY <1>1, <1>5, <1>6, <1>7, <1>8, <2>1 DEF InStep
<1>10. DecisionGrounded'
  BY <1>1, <1>2, <1>5 DEF DecisionGrounded
<1>11. KernelTypeOK' /\ HelperTypeOK' /\ DecisionsTypeOK' /\ PassedAllowed'
  BY <1>1 DEF kernelVars, KernelTypeOK, HelperTypeOK, DecisionsTypeOK, PassedAllowed
<1> QED BY <1>1, <1>4, <1>9, <1>10, <1>11 DEF kernelVars

\* The verdict carries the sequence number that the helper waits for.
LEMMA WriteVerdictKeeps ==
    ASSUME QueuePart, WriteVerdict
    PROVE  QueuePart' /\ passed' = passed
<1> USE DEF QueuePart
<1>1. /\ node.stage = "verdict"
      /\ node' = [node EXCEPT !.stage = "idle", !.pendingEvent = FALSE]
      /\ verdicts' = IF node.failed = "no"
                     THEN Append(verdicts, [sequence |-> node.lastSequence, decision |-> node.decision])
                     ELSE verdicts
      /\ UNCHANGED <<kernelVars, helper, events, decisions>>
  BY DEF WriteVerdict, WritesVerdict
<1>2. NodeTypeOK'
  BY <1>1 DEF NodeTypeOK, NodeStages
<1>3. /\ node'.lastSequence = node.lastSequence /\ node'.stage = "idle" /\ node'.failed = node.failed
  BY <1>1 DEF NodeTypeOK
<1>4. node'.pendingEvent = FALSE
  BY <1>1 DEF NodeTypeOK
<1>5. ~Quiet /\ ~Underway /\ ~Replied
  BY <1>1 DEF Quiet, Underway, Replied
<1>6. ASSUME helper.ended = "no" PROVE InStep'
  <2>1. Considered /\ node.failed = "no"
    BY <1>5, <1>6 DEF InStep
  <2>2. verdicts' = <<[sequence |-> helper.sequence, decision |-> node.decision]>>
    BY <1>1, <2>1 DEF Considered
  <2>3. node.decision \in Verdicts /\ (node.decision = "ALLOW" => AllowedBy(decisions, Head(nfq)))
    BY <1>1, <2>1 DEF DecisionGrounded, NodeTypeOK, Considered
  <2>4. Replied'
    BY <1>1, <1>3, <2>1, <2>2, <2>3 DEF Considered, Replied, kernelVars
  <2> QED BY <1>1, <1>3, <1>4, <1>6, <2>1, <2>4 DEF InStep
<1>7. ASSUME helper.ended # "no" PROVE InStep'
  <2>1. helper.ended = "killed" /\ node.failed # "no" /\ HelperKilled
    BY <1>7 DEF InStep, HelperTypeOK
  <2>2. HelperKilled'
    BY <1>1, <2>1 DEF HelperKilled, kernelVars
  <2> QED BY <1>1, <1>3, <1>4, <2>1, <2>2 DEF InStep
<1>8. InStep'
  BY <1>6, <1>7
<1>9. DecisionGrounded'
  BY <1>3 DEF DecisionGrounded
<1>10. KernelTypeOK' /\ HelperTypeOK' /\ DecisionsTypeOK' /\ PassedAllowed'
  BY <1>1 DEF kernelVars, KernelTypeOK, HelperTypeOK, DecisionsTypeOK, PassedAllowed
<1> QED BY <1>1, <1>2, <1>8, <1>9, <1>10 DEF kernelVars

\* The run ends with the helper and what was queued for it.
LEMMA StopRunKeeps ==
    ASSUME QueuePart, StopRun
    PROVE  QueuePart' /\ passed' = passed
<1> USE DEF QueuePart
<1>1. /\ node' = [node EXCEPT !.failed = "stopped"]
      /\ helper' = [helper EXCEPT !.ended = "killed", !.waiting = FALSE]
      /\ nfq' = <<>> /\ events' = <<>> /\ verdicts' = <<>>
      /\ UNCHANGED <<mark, passed, decisions>>
  BY DEF StopRun, Failing, EndHelper
<1>2. NodeTypeOK' /\ HelperTypeOK'
  BY <1>1 DEF NodeTypeOK, HelperTypeOK
<1>3. /\ node'.stage = node.stage /\ node'.flow = node.flow /\ node'.decision = node.decision
      /\ node'.failed = "stopped" /\ helper'.ended = "killed"
  BY <1>1 DEF NodeTypeOK, HelperTypeOK
<1>4. node'.pendingEvent = node.pendingEvent
  BY <1>1 DEF NodeTypeOK
<1>5. helper'.waiting = FALSE
  BY <1>1 DEF HelperTypeOK
<1>6. HelperKilled'
  BY <1>1, <1>5 DEF HelperKilled
<1>7. InStep'
  BY <1>3, <1>4, <1>6 DEF InStep
<1>8. DecisionGrounded'
  BY <1>1, <1>3 DEF DecisionGrounded, Malformed
<1>9. KernelTypeOK' /\ DecisionsTypeOK' /\ PassedAllowed'
  BY <1>1 DEF KernelTypeOK, DecisionsTypeOK, PassedAllowed
<1> QED BY <1>1, <1>2, <1>7, <1>8, <1>9

-----------------------------------------------------------------------------
(* The connections.                                                        *)

\* The gateway acts on connections that arrived, and none is claimed otherwise.
ConnectionStep ==
    /\ flow' = flow
    /\ relay' \in [Conns -> {"none", "forked", "exited", "reaped"}]
    /\ stage' \in [Conns -> {"none", "header", "closed"} \cup Claimed]
    /\ \A c \in Conns : (relay'[c] # "none" \/ stage'[c] # "none") => (relay[c] # "none" \/ stage[c] # "none")

LEMMA ConnectionStepKeeps ==
    ASSUME ConnectionsTypeOK, ConnectionsPassed, ConnectionStep, passed \subseteq passed'
    PROVE  ConnectionsTypeOK' /\ ConnectionsPassed'
BY DEF ConnectionsTypeOK, ConnectionsPassed, ConnectionStep

LEMMA StageMoves ==
    ASSUME ConnectionsTypeOK, NEW c \in Conns, NEW s \in {"none", "header", "closed"} \cup Claimed,
           relay[c] # "none" \/ stage[c] # "none",
           stage' = [stage EXCEPT ![c] = s], flow' = flow, relay' = relay
    PROVE  ConnectionStep
BY DEF ConnectionsTypeOK, ConnectionStep

LEMMA StageRests ==
    ASSUME ConnectionsTypeOK, flow' = flow, relay' = relay, stage' = stage
    PROVE  ConnectionStep
BY DEF ConnectionsTypeOK, ConnectionStep

LEMMA BrokerStepConnections ==
    ASSUME ConnectionsTypeOK, NEW c \in Conns, BrokerStep(c)
    PROVE  ConnectionStep
<1>1. flow' = flow /\ relay' = relay
  BY DEF BrokerStep, ClaimFlow, Handshake, ConnectUpstream, Sniff, relayVars
<1>2. CASE ClaimFlow(c)
  <2>1. stage[c] = "header" /\ (stage' = [stage EXCEPT ![c] = "sniff"] \/ stage' = [stage EXCEPT ![c] = "closed"])
    BY <1>2 DEF ClaimFlow, HeaderFails, Drop
  <2> QED BY <1>1, <2>1, StageMoves DEF Claimed
<1>3. CASE Handshake(c)
  <2>1. stage[c] = "tls" /\ (stage' = [stage EXCEPT ![c] = "http"] \/ stage' = [stage EXCEPT ![c] = "closed"])
    BY <1>3 DEF Handshake, Drop
  <2> QED BY <1>1, <2>1, StageMoves DEF Claimed
<1>4. CASE ConnectUpstream(c)
  <2>1. stage[c] = "connect" /\ (stage' = [stage EXCEPT ![c] = "relay"] \/ stage' = [stage EXCEPT ![c] = "closed"])
    BY <1>4 DEF ConnectUpstream, Drop
  <2> QED BY <1>1, <2>1, StageMoves DEF Claimed
<1>5. ASSUME NEW p \in Protocols, Sniff(c, p) PROVE ConnectionStep
  <2> DEFINE s == CASE p = "error"               -> "closed"
                    [] p # "error" /\ ~aware     -> "connect"
                    [] p = "http1" /\ aware      -> IF broker = "up" THEN "http" ELSE "closed"
                    [] p = "tls" /\ aware        -> "tls"
                    [] p = "opaque" /\ aware     -> "closed"
  <2>1. stage[c] = "sniff" /\ stage' = [stage EXCEPT ![c] = s]
    BY <1>5 DEF Sniff
  <2>2. s \in {"closed", "connect", "http", "tls"}
    BY DEF Protocols
  <2> HIDE DEF s
  <2> QED BY <1>1, <2>1, <2>2, StageMoves DEF Claimed
<1> QED BY <1>2, <1>3, <1>4, <1>5 DEF BrokerStep

LEMMA GatewayStepConnections ==
    ASSUME ConnectionsTypeOK, GatewayStep
    PROVE  ConnectionStep
<1>1. CASE CountRelay \/ \E f \in Flows : Expire(f)
  BY <1>1, StageRests DEF CountRelay, Expire, relayVars
<1>2. CASE ReapChildren
  BY <1>2 DEF ReapChildren, Exited, ConnectionsTypeOK, ConnectionStep
<1>3. ASSUME NEW c \in Conns, RelayConnects(c) PROVE ConnectionStep
  <2>1. relay[c] = "forked" /\ flow' = flow /\ relay' = relay
    BY <1>3 DEF RelayConnects, relayVars
  <2>2. stage' = [stage EXCEPT ![c] = Accepted] /\ Accepted \in {"header", "closed"}
    BY <1>3 DEF RelayConnects, Accepted
  <2> QED BY <2>1, <2>2, StageMoves
<1>4. ASSUME NEW c \in Conns, RelayExits(c) PROVE ConnectionStep
  <2>1. relay[c] = "forked" /\ flow' = flow /\ relay' = [relay EXCEPT ![c] = "exited"]
    BY <1>4 DEF RelayExits
  <2>2. stage' = [stage EXCEPT ![c] = IF stage[c] \in {"none", "relay", "http"} THEN "closed" ELSE stage[c]]
    BY <1>4 DEF RelayExits
  <2> QED BY <2>1, <2>2 DEF ConnectionsTypeOK, ConnectionStep
<1>5. ASSUME NEW c \in Conns, BrokerStep(c) PROVE ConnectionStep
  BY <1>5, BrokerStepConnections
<1>6. ASSUME NEW c \in Conns, Request(c) \/ HttpStep(c) PROVE ConnectionStep
  <2>1. flow' = flow /\ relay' = relay /\ stage' = stage
    BY <1>6 DEF Request, HttpStep, HandleRequest, Authorized, Forwarded, relayVars
  <2> QED BY <2>1, StageRests
<1> QED BY <1>1, <1>2, <1>3, <1>4, <1>5, <1>6 DEF GatewayStep

\* A connection arrives only for a flow that the rules let through.
LEMMA ArrivalConnections ==
    ASSUME QueuePart, ConnectionsTypeOK, ConnectionsPassed, passed' = passed,
           NEW c \in Conns, NEW f \in Flows, ConnectionArrives(c, f)
    PROVE  ConnectionsTypeOK' /\ ConnectionsPassed'
<1>1. f \in passed
  BY DEF ConnectionArrives, QueuePart, PassedAllowed
<1>2. /\ flow' = [flow EXCEPT ![c] = f]
      /\ \/ stage' = [stage EXCEPT ![c] = "closed"] /\ relay' = relay
         \/ stage' = stage /\ relay' = [relay EXCEPT ![c] = "forked"]
  BY DEF ConnectionArrives, AcceptClient
<1> QED BY <1>1, <1>2 DEF ConnectionsTypeOK, ConnectionsPassed

LEMMA QueueInvInit == QueueInit => QueueInv
<1> SUFFICES ASSUME QueueInit PROVE QueueInv
  OBVIOUS
<1> USE DEF QueueInit, GatewayInit
<1>1. KernelTypeOK /\ HelperTypeOK /\ DecisionsTypeOK
  BY DEF KernelTypeOK, HelperTypeOK, DecisionsTypeOK
<1>2. NodeTypeOK
  BY DEF NodeTypeOK, NodeStages, Verdicts
<1>3. InStep
  BY DEF InStep, Quiet
<1>4. DecisionGrounded /\ PassedAllowed
  BY DEF DecisionGrounded, PassedAllowed
<1>5. ConnectionsTypeOK /\ ConnectionsPassed
  BY DEF ConnectionsTypeOK, ConnectionsPassed, Claimed
<1> QED BY <1>1, <1>2, <1>3, <1>4, <1>5 DEF QueueInv

LEMMA QueuePartRests ==
    ASSUME QueuePart, UNCHANGED queueVars
    PROVE  QueuePart' /\ passed' = passed
<1>1. /\ UNCHANGED <<mark, nfq, passed, helper, events, verdicts, node, decisions>>
  BY DEF queueVars, kernelVars
<1>2. KernelTypeOK' /\ HelperTypeOK' /\ NodeTypeOK' /\ DecisionsTypeOK' /\ DecisionGrounded' /\ PassedAllowed'
  BY <1>1 DEF QueuePart, KernelTypeOK, HelperTypeOK, NodeTypeOK, DecisionsTypeOK, DecisionGrounded,
              PassedAllowed, Malformed
<1>3. InStep'
  BY <1>1 DEF QueuePart, InStep, Quiet, Underway, Considered, Replied, HelperKilled, Malformed
<1> QED BY <1>1, <1>2, <1>3 DEF QueuePart

LEMMA QueueInvStep == QueueInv /\ [QueueNext]_trafficVars => QueueInv'
<1> SUFFICES ASSUME QueueInv, [QueueNext]_trafficVars PROVE QueueInv'
  OBVIOUS
<1>1. QueuePart /\ ConnectionsTypeOK /\ ConnectionsPassed
  BY DEF QueueInv, QueuePart
<1>2. ASSUME QueuePart', passed \subseteq passed', ConnectionStep PROVE QueueInv'
  <2>1. ConnectionsTypeOK' /\ ConnectionsPassed'
    BY <1>1, <1>2, ConnectionStepKeeps
  <2> QED BY <1>2, <2>1 DEF QueueInv, QueuePart
<1>3. ASSUME NEW f \in Flows, SendPacket(f) \/ Forget(f) PROVE QueueInv'
  <2>1. QueuePart'
    BY <1>1, <1>3, SendPacketKeeps, ForgetKeeps
  <2>2. passed' = passed /\ ConnectionStep
    BY <1>1, <1>3, StageRests DEF SendPacket, Forget, gatewayVars, relayVars
  <2> QED BY <1>2, <2>1, <2>2
<1>4. CASE ProcessPacket \/ ReadVerdict \/ StopRun
  <2>1. QueuePart' /\ passed \subseteq passed'
    BY <1>1, <1>4, ProcessPacketKeeps, ReadVerdictKeeps, StopRunKeeps DEF ProcessPacket, DropPacket, kernelVars
  <2>2. ConnectionStep
    BY <1>1, <1>4, StageRests DEF ProcessPacket, ReadVerdict, StopRun, gatewayVars, relayVars
  <2> QED BY <1>2, <2>1, <2>2
<1>5. CASE NodeStep
  <2>1. QueuePart' /\ passed \subseteq passed'
    BY <1>1, <1>5, OnQueueEventKeeps, ResolveKeeps, WriteVerdictKeeps, DecideKeeps DEF NodeStep
  <2>2. flow' = flow /\ relay' = relay /\ stage' = stage
    BY <1>5 DEF NodeStep, OnQueueEvent, Resolve, WriteVerdict, Decide, gatewayVars, relayVars
  <2>3. ConnectionStep
    BY <1>1, <2>2, StageRests
  <2> QED BY <1>2, <2>1, <2>3
<1>6. CASE CleanupBroker
  <2>1. QueuePart' /\ passed' = passed
    BY <1>1, <1>6, QueuePartRests DEF CleanupBroker
  <2>2. ConnectionStep
    BY <1>1, <1>6 DEF CleanupBroker, CloseBroker, ConnectionStep, ConnectionsTypeOK, relayVars
  <2> QED BY <1>2, <2>1, <2>2
<1>7. ASSUME NEW c \in Conns, NEW f \in Flows, ConnectionArrives(c, f) PROVE QueueInv'
  <2>1. QueuePart' /\ passed' = passed
    BY <1>1, <1>7, QueuePartRests DEF ConnectionArrives
  <2>2. ConnectionsTypeOK' /\ ConnectionsPassed'
    BY <1>1, <1>7, <2>1, ArrivalConnections
  <2> QED BY <2>1, <2>2 DEF QueueInv, QueuePart
<1>8. CASE GatewayStep /\ UNCHANGED queueVars
  <2>1. QueuePart' /\ passed' = passed
    BY <1>1, <1>8, QueuePartRests
  <2> QED BY <1>1, <1>2, <1>8, <2>1, GatewayStepConnections
<1>9. CASE UNCHANGED trafficVars
  <2>1. QueuePart' /\ passed' = passed
    BY <1>1, <1>9, QueuePartRests DEF trafficVars
  <2>2. ConnectionStep
    BY <1>1, <1>9, StageRests DEF trafficVars, gatewayVars, relayVars
  <2> QED BY <1>2, <2>1, <2>2
<1> QED BY <1>3, <1>4, <1>5, <1>6, <1>7, <1>8, <1>9 DEF QueueNext

LEMMA QueueInvImplies == QueueInv => VerdictsSound
<1> SUFFICES ASSUME QueueInv PROVE VerdictsSound
  OBVIOUS
<1> USE DEF QueueInv
<1>1. \A f : CoveredBy(f) = FirstCover(decisions, f)
  BY DEF CoveredBy, FirstCover
<1>2. \A f \in passed : CoveredBy(f) # 0 /\ decisions[CoveredBy(f)].decision = "ALLOW"
  BY <1>1 DEF PassedAllowed, AllowedBy
<1>3. \A c \in Conns : stage[c] \in Claimed => flow[c] \in passed
  BY DEF ConnectionsPassed, Claimed
<1>4. node.failed \in {"no", "stopped"} /\ helper.ended \in {"no", "killed"}
  BY DEF NodeTypeOK, HelperTypeOK
<1>5. helper.waiting => nfq # <<>>
  BY <1>4 DEF InStep, Quiet, Underway, Considered, Replied, HelperKilled
<1>6. Len(events) + Len(verdicts) <= 1
  <2>1. \/ events = <<>> /\ verdicts = <<>>
        \/ events = <<>> /\ \E x : verdicts = <<x>>
        \/ verdicts = <<>> /\ \E x : events = <<x>>
    BY <1>4 DEF InStep, Quiet, Underway, Considered, Replied, HelperKilled
  <2>2. Len(<<>>) = 0 /\ \A x : Len(<<x>>) = 1
    OBVIOUS
  <2>3. CASE events = <<>> /\ verdicts = <<>>
    BY <2>2, <2>3
  <2>4. ASSUME NEW x, events = <<>>, verdicts = <<x>> PROVE Len(events) + Len(verdicts) <= 1
    <3>1. Len(events) = 0 /\ Len(verdicts) = 1
      BY <2>2, <2>4
    <3> QED BY <3>1
  <2>5. ASSUME NEW x, verdicts = <<>>, events = <<x>> PROVE Len(events) + Len(verdicts) <= 1
    <3>1. Len(events) = 1 /\ Len(verdicts) = 0
      BY <2>2, <2>5
    <3> QED BY <3>1
  <2> QED BY <2>1, <2>3, <2>4, <2>5
<1> QED BY <1>2, <1>3, <1>4, <1>5, <1>6 DEF VerdictsSound, OnlyAllowedPasses, ProtocolInSync

\* The verdict of the queue: whatever the packets, retransmissions, decisions,
\* failed attributions and approvals, and whenever the run is stopped, a packet
\* passes only for a flow whose deciding record allows it, a connection is served
\* only for such a flow, and neither end ever meets a record it does not expect
\* (process_packet, onQueueEvent, resolveAttempt, NetworkDecisionCoordinator).
THEOREM VerdictsSoundTheorem == QueueSpec => []VerdictsSound
<1>1. QueueInit => QueueInv
  BY QueueInvInit
<1>2. QueueInv /\ [QueueNext]_trafficVars => QueueInv'
  BY QueueInvStep
<1>3. QueueInv => VerdictsSound
  BY QueueInvImplies
<1> QED BY <1>1, <1>2, <1>3, PTL DEF QueueSpec

-----------------------------------------------------------------------------
(* The total of the approvals, a fold over the flows.                      *)

LEMMA TotalIsSum == ASSUME NEW count PROVE Total(count) = SumOf(Flows, count)
BY DEF Total, MapThenSumSet, MapThenFoldSet, SumOf, SumStep, AnyOf

LEMMA TotalZero == Total([f \in Flows |-> 0]) = 0
BY TotalIsSum, SumOfZero, FlowsAssumption

LEMMA TotalPlus ==
    ASSUME NEW count \in [Flows -> Nat], NEW f \in Flows
    PROVE  /\ Total(count) \in Nat
           /\ [count EXCEPT ![f] = @ + 1] \in [Flows -> Nat]
           /\ Total([count EXCEPT ![f] = @ + 1]) = Total(count) + 1
<1>1. SumOf(Flows, count) \in Nat
  BY SumIsCount, FlowsAssumption
<1>2. /\ [count EXCEPT ![f] = @ + 1] \in [Flows -> Nat]
      /\ SumOf(Flows, [count EXCEPT ![f] = @ + 1]) = SumOf(Flows, count) + 1
  BY SumPlus, FlowsAssumption
<1> QED BY <1>1, <1>2, TotalIsSum

LEMMA TotalMinus ==
    ASSUME NEW count \in [Flows -> Nat], NEW f \in Flows, count[f] > 0
    PROVE  /\ [count EXCEPT ![f] = @ - 1] \in [Flows -> Nat]
           /\ Total([count EXCEPT ![f] = @ - 1]) = Total(count) - 1
           /\ Total(count) \in Nat /\ Total(count) > 0
<1>1. SumOf(Flows, count) \in Nat
  BY SumIsCount, FlowsAssumption
<1>2. /\ [count EXCEPT ![f] = @ - 1] \in [Flows -> Nat]
      /\ SumOf(Flows, [count EXCEPT ![f] = @ - 1]) = SumOf(Flows, count) - 1
      /\ SumOf(Flows, count) > 0
  BY SumMinus, FlowsAssumption
<1> QED BY <1>1, <1>2, TotalIsSum

-----------------------------------------------------------------------------
(* The steps of the gateway.                                               *)

LEMMA ApproveKeeps ==
    ASSUME ApprovalsInv, NEW f \in Flows, Approve(f)
    PROVE  ApprovalsInv'
<1>1. /\ fresh \in [Flows -> Nat] /\ stale \in [Flows -> Nat]
      /\ pendingApprovalCount = Total(fresh) + Total(stale)
      /\ MaxApprovals \in Nat
  BY GatewayAssumption DEF ApprovalsInv
<1>2. /\ Pruned < MaxApprovals /\ fresh' = [fresh EXCEPT ![f] = @ + 1]
      /\ stale' = [g \in Flows |-> 0] /\ pendingApprovalCount' = Pruned + 1
  BY DEF Approve, CanApprove
<1>3. Total(fresh) \in Nat /\ Total(stale) \in Nat
  BY <1>1, TotalPlus
<1>4. fresh' \in [Flows -> Nat] /\ Total(fresh') = Total(fresh) + 1
  BY <1>1, <1>2, TotalPlus
<1>5. stale' \in [Flows -> Nat] /\ Total(stale') = 0
  BY <1>2, TotalZero
<1>6. Pruned = Total(fresh)
  BY <1>1, <1>3 DEF Pruned
<1>7. pendingApprovalCount' = Total(fresh') + Total(stale') /\ pendingApprovalCount' <= MaxApprovals
  BY <1>1, <1>2, <1>3, <1>4, <1>5, <1>6
<1> QED BY <1>4, <1>5, <1>7 DEF ApprovalsInv

\* Pruning alone: approve() that throws, a claim that finds nothing.
LEMMA PruneKeeps ==
    ASSUME ApprovalsInv, fresh' = fresh, stale' = [g \in Flows |-> 0], pendingApprovalCount' = Pruned, Flows # {}
    PROVE  ApprovalsInv'
<1>1. /\ fresh \in [Flows -> Nat] /\ stale \in [Flows -> Nat]
      /\ pendingApprovalCount = Total(fresh) + Total(stale) /\ pendingApprovalCount <= MaxApprovals
      /\ MaxApprovals \in Nat
  BY GatewayAssumption DEF ApprovalsInv
<1>2. Total(fresh) \in Nat /\ Total(stale) \in Nat
  BY <1>1, TotalPlus
<1>3. stale' \in [Flows -> Nat] /\ Total(stale') = 0
  BY TotalZero
<1>4. Pruned = Total(fresh)
  BY <1>1, <1>2 DEF Pruned
<1>5. pendingApprovalCount' = Total(fresh') + Total(stale') /\ pendingApprovalCount' <= MaxApprovals
  BY <1>1, <1>2, <1>3, <1>4
<1> QED BY <1>1, <1>3, <1>5 DEF ApprovalsInv

LEMMA ConsumeKeeps ==
    ASSUME ApprovalsInv, NEW f \in Flows, Consume(f)
    PROVE  ApprovalsInv'
<1>1. /\ fresh \in [Flows -> Nat] /\ stale \in [Flows -> Nat]
      /\ pendingApprovalCount = Total(fresh) + Total(stale) /\ pendingApprovalCount <= MaxApprovals
      /\ MaxApprovals \in Nat
  BY GatewayAssumption DEF ApprovalsInv
<1>2. /\ fresh[f] > 0 /\ fresh' = [fresh EXCEPT ![f] = @ - 1]
      /\ stale' = [g \in Flows |-> 0] /\ pendingApprovalCount' = Pruned - 1
  BY DEF Consume
<1>3. Total(fresh) \in Nat /\ Total(stale) \in Nat
  BY <1>1, TotalPlus
<1>4. fresh' \in [Flows -> Nat] /\ Total(fresh') = Total(fresh) - 1
  BY <1>1, <1>2, TotalMinus
<1>5. stale' \in [Flows -> Nat] /\ Total(stale') = 0
  BY <1>2, TotalZero
<1>6. Pruned = Total(fresh)
  BY <1>1, <1>3 DEF Pruned
<1>7. pendingApprovalCount' = Total(fresh') + Total(stale') /\ pendingApprovalCount' <= MaxApprovals
  BY <1>1, <1>2, <1>3, <1>4, <1>5, <1>6
<1> QED BY <1>4, <1>5, <1>7 DEF ApprovalsInv

LEMMA ExpireKeeps ==
    ASSUME ApprovalsInv, NEW f \in Flows, Expire(f)
    PROVE  ApprovalsInv'
<1>1. /\ fresh \in [Flows -> Nat] /\ stale \in [Flows -> Nat]
      /\ pendingApprovalCount = Total(fresh) + Total(stale) /\ pendingApprovalCount <= MaxApprovals
  BY DEF ApprovalsInv
<1>2. /\ fresh[f] > 0 /\ fresh' = [fresh EXCEPT ![f] = @ - 1] /\ stale' = [stale EXCEPT ![f] = @ + 1]
      /\ pendingApprovalCount' = pendingApprovalCount
  BY DEF Expire
<1>3. fresh' \in [Flows -> Nat] /\ Total(fresh') = Total(fresh) - 1 /\ Total(fresh) \in Nat
  BY <1>1, <1>2, TotalMinus
<1>4. stale' \in [Flows -> Nat] /\ Total(stale') = Total(stale) + 1 /\ Total(stale) \in Nat
  BY <1>1, <1>2, TotalPlus
<1>5. pendingApprovalCount' = Total(fresh') + Total(stale')
  BY <1>1, <1>2, <1>3, <1>4
<1> QED BY <1>1, <1>2, <1>3, <1>4, <1>5 DEF ApprovalsInv

\* close() forgets all of them.
LEMMA CloseKeeps ==
    ASSUME CloseBroker
    PROVE  ApprovalsInv'
<1>1. fresh' = [f \in Flows |-> 0] /\ stale' = [f \in Flows |-> 0] /\ pendingApprovalCount' = 0
  BY DEF CloseBroker
<1>2. Total(fresh') = 0 /\ Total(stale') = 0
  BY <1>1, TotalZero
<1> QED BY <1>1, <1>2, GatewayAssumption DEF ApprovalsInv

LEMMA ApprovalsStep ==
    ASSUME QueueInv, ApprovalsInv, [QueueNext]_trafficVars
    PROVE  ApprovalsInv'
<1>1. ASSUME UNCHANGED approvalVars PROVE ApprovalsInv'
  BY <1>1 DEF approvalVars, ApprovalsInv
<1>2. CASE Resolve
  <2>1. node.flow \in Flows
    BY <1>2 DEF Resolve, QueueInv, DecisionGrounded
  <2>2. CASE Approve(node.flow)
    BY <2>1, <2>2, ApproveKeeps
  <2>3. CASE ApproveThrows
    <3>1. \/ UNCHANGED approvalVars
          \/ fresh' = fresh /\ stale' = [g \in Flows |-> 0] /\ pendingApprovalCount' = Pruned
      BY <2>3 DEF ApproveThrows
    <3> QED BY <1>1, <2>1, <3>1, PruneKeeps
  <2> QED BY <1>1, <1>2, <2>2, <2>3 DEF Resolve
<1>3. CASE CleanupBroker
  BY <1>3, CloseKeeps DEF CleanupBroker
<1>4. ASSUME NEW f \in Flows, Expire(f) PROVE ApprovalsInv'
  BY <1>4, ExpireKeeps
<1>5. ASSUME NEW c \in Conns, ClaimFlow(c) PROVE ApprovalsInv'
  <2>1. flow[c] \in Flows
    BY <1>5 DEF ClaimFlow, QueueInv, ConnectionsPassed, KernelTypeOK
  <2>2. \/ Consume(flow[c]) \/ ConsumeNothing(flow[c]) \/ UNCHANGED approvalVars
    BY <1>5 DEF ClaimFlow, HeaderFails
  <2>3. ConsumeNothing(flow[c]) => ApprovalsInv'
    BY <2>1, PruneKeeps DEF ConsumeNothing
  <2> QED BY <1>1, <2>1, <2>2, <2>3, ConsumeKeeps
<1>6. CASE OnQueueEvent \/ WriteVerdict \/ \E a \in {"ALLOW", "DENY", "error"} : Decide(a)
  BY <1>1, <1>6 DEF OnQueueEvent, WriteVerdict, Decide, gatewayVars
<1>7. CASE ProcessPacket \/ ReadVerdict \/ StopRun \/ UNCHANGED trafficVars \/ \E f \in Flows : SendPacket(f) \/ Forget(f)
  BY <1>1, <1>7 DEF ProcessPacket, ReadVerdict, StopRun, SendPacket, Forget, trafficVars, gatewayVars
<1>8. CASE CountRelay \/ ReapChildren \/ \E c \in Conns, f \in Flows : ConnectionArrives(c, f)
  BY <1>1, <1>8 DEF CountRelay, ReapChildren, ConnectionArrives, AcceptClient
<1>9. ASSUME NEW c \in Conns, RelayConnects(c) \/ RelayExits(c) \/ Handshake(c) \/ ConnectUpstream(c) \/ Request(c)
      PROVE  ApprovalsInv'
  BY <1>1, <1>9 DEF RelayConnects, RelayExits, Handshake, ConnectUpstream, Request
<1>10. ASSUME NEW c \in Conns, NEW p \in Protocols, Sniff(c, p) PROVE ApprovalsInv'
  BY <1>1, <1>10 DEF Sniff
<1>11. ASSUME NEW c \in Conns, HttpStep(c) PROVE ApprovalsInv'
  BY <1>1, <1>11 DEF HttpStep, HandleRequest, Authorized, Forwarded
<1> QED BY <1>2, <1>3, <1>4, <1>5, <1>6, <1>7, <1>8, <1>9, <1>10, <1>11
        DEF QueueNext, NodeStep, GatewayStep, BrokerStep

\* A forked relay is one process more, though not yet counted.
LEMMA ArrivalRelays ==
    ASSUME RelaysInv, NEW c \in Conns, NEW f \in Flows, AcceptClient(c, f)
    PROVE  RelaysInv'
<1> USE DEF RelaysInv
<1>1. flow' = [flow EXCEPT ![c] = f] /\ activeRelays' = activeRelays /\ ~forking /\ flow[c] = NoFlow
  BY DEF AcceptClient, Accepting
<1>2. f # NoFlow /\ flow' \in [Conns -> Flows \cup {NoFlow}]
  BY <1>1, FlowsAssumption
<1>3. CASE forking' = forking /\ relay' = relay
  <2>1. Alive' = Alive /\ Forking' = Forking
    BY <1>3 DEF Alive, Forking
  <2>2. \A d \in Conns : relay'[d] # "none" => flow'[d] # NoFlow
    BY <1>1, <1>2, <1>3
  <2>3. activeRelays' \in Nat /\ forking' \in BOOLEAN /\ relay' \in [Conns -> {"none", "forked", "exited", "reaped"}]
    BY <1>1, <1>3
  <2>4. IsFiniteSet(Alive') /\ activeRelays' + Forking' = Cardinality(Alive') /\ activeRelays' + Forking' <= MaxRelays
    BY <1>1, <2>1
  <2> QED BY <1>2, <2>2, <2>3, <2>4
<1>4. CASE activeRelays < MaxRelays /\ relay' = [relay EXCEPT ![c] = "forked"] /\ forking' = TRUE
  <2>1. relay[c] = "none"
    BY <1>1
  <2>2. Alive' = Alive \cup {c} /\ c \notin Alive
    BY <1>4, <2>1 DEF Alive
  <2>3. Forking = 0 /\ Forking' = 1
    BY <1>1, <1>4 DEF Forking
  <2>4. IsFiniteSet(Alive') /\ Cardinality(Alive') = Cardinality(Alive) + 1
    BY <2>2, FS_AddElement
  <2>5. \A d \in Conns : relay'[d] # "none" => flow'[d] # NoFlow
    BY <1>1, <1>2, <1>4
  <2>6. activeRelays' \in Nat /\ forking' \in BOOLEAN /\ relay' \in [Conns -> {"none", "forked", "exited", "reaped"}]
    BY <1>1, <1>4
  <2>7. activeRelays' + Forking' = Cardinality(Alive') /\ activeRelays' + Forking' <= MaxRelays
    <3>1. MaxRelays \in Nat /\ activeRelays \in Nat /\ activeRelays + 0 = Cardinality(Alive)
      BY <2>3, GatewayAssumption
    <3> QED BY <1>1, <1>4, <2>3, <2>4, <3>1
  <2> QED BY <1>2, <2>4, <2>5, <2>6, <2>7
<1> QED BY <1>3, <1>4 DEF AcceptClient

\* What reap_children takes off the count are the relays that exited.
LEMMA ReapRelays ==
    ASSUME RelaysInv, ReapChildren
    PROVE  RelaysInv'
<1> USE DEF RelaysInv
<1>1. /\ ~forking /\ forking' = forking /\ flow' = flow
      /\ relay' = [c \in Conns |-> IF c \in Exited THEN "reaped" ELSE relay[c]]
      /\ activeRelays' = IF activeRelays > Cardinality(Exited) THEN activeRelays - Cardinality(Exited) ELSE 0
  BY DEF ReapChildren, MayReap
<1>2. Exited \subseteq Alive /\ Alive' = Alive \ Exited
  BY <1>1 DEF Alive, Exited
<1>3. Forking = 0 /\ Forking' = 0
  BY <1>1 DEF Forking
<1>4. IsFiniteSet(Exited) /\ IsFiniteSet(Alive')
  BY <1>2, FS_Subset
<1>5. Cardinality(Alive) = Cardinality(Alive') + Cardinality(Exited)
  <2>1. Alive = Alive' \cup Exited /\ Alive' \cap Exited = {}
    BY <1>2
  <2>2. Cardinality(Alive' \cup Exited) = Cardinality(Alive') + Cardinality(Exited) - Cardinality(Alive' \cap Exited)
    BY <1>4, FS_Union
  <2>3. Cardinality({}) = 0 /\ Cardinality(Alive') \in Nat /\ Cardinality(Exited) \in Nat
    BY <1>4, FS_EmptySet, FS_CardinalityType
  <2>4. Cardinality(Alive) = Cardinality(Alive') + Cardinality(Exited) - 0
    BY <2>1, <2>2, <2>3
  <2> QED BY <2>3, <2>4
<1>6. Cardinality(Alive') \in Nat /\ Cardinality(Exited) \in Nat
  BY <1>4, FS_CardinalityType
<1>7. activeRelays \in Nat /\ activeRelays = Cardinality(Alive) /\ activeRelays <= MaxRelays /\ MaxRelays \in Nat
  <2>1. activeRelays + 0 = Cardinality(Alive) /\ activeRelays + 0 <= MaxRelays /\ activeRelays \in Nat
    BY <1>3
  <2> QED BY <2>1, GatewayAssumption
<1>8. activeRelays' = Cardinality(Alive')
  BY <1>1, <1>5, <1>6, <1>7
<1>9. activeRelays' \in Nat /\ activeRelays' + Forking' = Cardinality(Alive') /\ activeRelays' + Forking' <= MaxRelays
  BY <1>3, <1>5, <1>6, <1>7, <1>8
<1>10. /\ flow' \in [Conns -> Flows \cup {NoFlow}] /\ relay' \in [Conns -> {"none", "forked", "exited", "reaped"}]
       /\ \A c \in Conns : relay'[c] # "none" => flow'[c] # NoFlow
  BY <1>1 DEF Exited
<1>11. forking' \in BOOLEAN
  BY <1>1
<1> QED BY <1>4, <1>9, <1>10, <1>11

LEMMA CountRelays ==
    ASSUME RelaysInv, CountRelay
    PROVE  RelaysInv'
<1> USE DEF RelaysInv
<1>1. forking /\ activeRelays' = activeRelays + 1 /\ forking' = FALSE /\ flow' = flow /\ relay' = relay
  BY DEF CountRelay
<1>2. Forking = 1 /\ Forking' = 0 /\ Alive' = Alive
  BY <1>1 DEF Forking, Alive
<1>3. activeRelays' \in Nat /\ activeRelays' + Forking' = activeRelays + Forking
  BY <1>1, <1>2
<1>4. forking' \in BOOLEAN
  BY <1>1
<1> QED BY <1>1, <1>2, <1>3, <1>4

LEMMA RelayExitsRelays ==
    ASSUME RelaysInv, NEW c \in Conns, RelayExits(c)
    PROVE  RelaysInv'
<1> USE DEF RelaysInv
<1>1. relay[c] = "forked" /\ relay' = [relay EXCEPT ![c] = "exited"] /\ UNCHANGED <<activeRelays, forking, flow>>
  BY DEF RelayExits
<1>2. Alive' = Alive /\ Forking' = Forking
  BY <1>1 DEF Alive, Forking
<1>3. /\ relay' \in [Conns -> {"none", "forked", "exited", "reaped"}]
      /\ \A d \in Conns : relay'[d] # "none" => flow'[d] # NoFlow
  BY <1>1
<1> QED BY <1>1, <1>2, <1>3

LEMMA RelaysStep ==
    ASSUME RelaysInv, [QueueNext]_trafficVars
    PROVE  RelaysInv'
<1>1. ASSUME UNCHANGED relayVars PROVE RelaysInv'
  BY <1>1 DEF relayVars, RelaysInv, Alive, Forking
<1>2. CASE CountRelay \/ ReapChildren
  BY <1>2, CountRelays, ReapRelays
<1>3. ASSUME NEW c \in Conns, RelayExits(c) PROVE RelaysInv'
  BY <1>3, RelayExitsRelays
<1>4. ASSUME NEW c \in Conns, NEW f \in Flows, ConnectionArrives(c, f) PROVE RelaysInv'
  BY <1>4, ArrivalRelays DEF ConnectionArrives
<1>5. CASE NodeStep
  BY <1>1, <1>5 DEF NodeStep, OnQueueEvent, Resolve, WriteVerdict, Decide, gatewayVars
<1>6. CASE ProcessPacket \/ ReadVerdict \/ StopRun \/ UNCHANGED trafficVars \/ \E f \in Flows : SendPacket(f) \/ Forget(f)
  BY <1>1, <1>6 DEF ProcessPacket, ReadVerdict, StopRun, SendPacket, Forget, trafficVars, gatewayVars
<1>7. CASE CleanupBroker \/ \E f \in Flows : Expire(f)
  BY <1>1, <1>7 DEF CleanupBroker, CloseBroker, Expire
<1>8. ASSUME NEW c \in Conns, RelayConnects(c) \/ Request(c) \/ HttpStep(c) PROVE RelaysInv'
  BY <1>1, <1>8 DEF RelayConnects, Request, HttpStep, HandleRequest, Authorized, Forwarded
<1>9. ASSUME NEW c \in Conns, BrokerStep(c) PROVE RelaysInv'
  BY <1>1, <1>9 DEF BrokerStep, ClaimFlow, Handshake, ConnectUpstream, Sniff
<1> QED BY <1>2, <1>3, <1>4, <1>5, <1>6, <1>7, <1>8, <1>9 DEF QueueNext, GatewayStep

-----------------------------------------------------------------------------
(* The requests of a connection.                                           *)

\* A request moves on only when the ones before it are settled; a settled one rests.
LEMMA SettleKeeps ==
    ASSUME RequestsInv, NEW c \in Conns, NEW i \in DOMAIN requests[c], NEW result \in RequestStates \ {"queued"},
           requests[c][i] \notin Final,
           requests[c][i] = "queued" => TailSettled(c, i),
           Settle(c, i, result)
    PROVE  RequestsInv'
<1> DEFINE q == requests[c]
           r == requests'[c]
<1>1. requests \in [Conns -> Seq(RequestStates)] /\ OneRequestAtATime
  BY DEF RequestsInv
<1>2. q \in Seq(RequestStates) /\ DOMAIN q = 1..Len(q) /\ Len(q) \in Nat
  BY <1>1
<1>3. requests' = [requests EXCEPT ![c] = [q EXCEPT ![i] = result]]
  BY DEF Settle
<1>4. r = [q EXCEPT ![i] = result]
  BY <1>1, <1>3
<1>5. [q EXCEPT ![i] = result] \in Seq(RequestStates)
  <2> HIDE DEF q
  <2> QED BY <1>2 DEF q
<1>6. requests' \in [Conns -> Seq(RequestStates)]
  <2> HIDE DEF q
  <2> QED BY <1>1, <1>3, <1>5
<1>7. \A d \in Conns : d # c => requests'[d] = requests[d]
  BY <1>1, <1>3
<1>8. DOMAIN r = DOMAIN q /\ r[i] = result /\ \A k \in DOMAIN q : k # i => r[k] = q[k]
  BY <1>2, <1>4
<1>9. \A j, k \in DOMAIN q : j < k /\ q[k] # "queued" => q[j] \in Final
  BY <1>1 DEF OneRequestAtATime
<1>10. \A j \in DOMAIN q : j < i => q[j] \in Final
  <2>1. CASE q[i] = "queued"
    BY <1>2, <2>1 DEF TailSettled
  <2>2. CASE q[i] # "queued"
    BY <1>9, <2>2
  <2> QED BY <2>1, <2>2
<1>11. q[i] \notin Final /\ result # "queued"
  OBVIOUS
<1> HIDE DEF q, r
<1>12. \A j, k \in DOMAIN r : j < k /\ r[k] # "queued" => r[j] \in Final
  <2> SUFFICES ASSUME NEW j \in DOMAIN r, NEW k \in DOMAIN r, j < k, r[k] # "queued" PROVE r[j] \in Final
    OBVIOUS
  <2>1. CASE k = i
    BY <1>2, <1>8, <1>10, <2>1
  <2>2. CASE k # i
    <3>1. q[k] # "queued" /\ q[j] \in Final
      BY <1>8, <1>9, <2>2
    <3>2. j # i
      BY <1>11, <3>1
    <3> QED BY <1>8, <3>1, <3>2
  <2> QED BY <2>1, <2>2
<1>13. OneRequestAtATime'
  BY <1>1, <1>7, <1>12 DEF OneRequestAtATime, r
<1> QED BY <1>6, <1>13 DEF RequestsInv

LEMMA RequestKeeps ==
    ASSUME RequestsInv, NEW c \in Conns, Request(c)
    PROVE  RequestsInv'
<1> DEFINE q == requests[c]
           r == Append(q, "queued")
<1>1. requests \in [Conns -> Seq(RequestStates)] /\ OneRequestAtATime
  BY DEF RequestsInv
<1>2. requests' = [requests EXCEPT ![c] = r]
  BY DEF Request
<1>3. q \in Seq(RequestStates) /\ DOMAIN q = 1..Len(q) /\ Len(q) \in Nat
  BY <1>1
<1>4. r \in Seq(RequestStates) /\ DOMAIN r = 1..(Len(q) + 1) /\ r[Len(q) + 1] = "queued"
      /\ \A k \in 1..Len(q) : r[k] = q[k]
  <2>1. "queued" \in RequestStates
    BY DEF RequestStates
  <2> HIDE DEF q
  <2> QED BY <1>3, <2>1
<1>5. \A j, k \in DOMAIN q : j < k /\ q[k] # "queued" => q[j] \in Final
  BY <1>1 DEF OneRequestAtATime
<1> HIDE DEF q, r
<1>6. \A j, k \in DOMAIN r : j < k /\ r[k] # "queued" => r[j] \in Final
  BY <1>3, <1>4, <1>5
<1>7. requests'[c] = r /\ \A d \in Conns : d # c => requests'[d] = requests[d]
  BY <1>1, <1>2
<1>8. requests' \in [Conns -> Seq(RequestStates)]
  BY <1>1, <1>2, <1>4
<1>9. OneRequestAtATime'
  BY <1>1, <1>6, <1>7 DEF OneRequestAtATime
<1> QED BY <1>8, <1>9 DEF RequestsInv

LEMMA HttpStepKeeps ==
    ASSUME RequestsInv, NEW c \in Conns, HttpStep(c)
    PROVE  RequestsInv'
<1>1. PICK i \in DOMAIN requests[c] : HandleRequest(c, i) \/ Authorized(c, i) \/ Forwarded(c, i)
  BY DEF HttpStep
<1>2. CASE HandleRequest(c, i)
  <2>1. requests[c][i] = "queued" /\ TailSettled(c, i) /\ \E result \in Examined : Settle(c, i, result)
    BY <1>2 DEF HandleRequest
  <2> QED BY <2>1, SettleKeeps DEF Examined, RequestStates, Final
<1>3. CASE Authorized(c, i)
  <2>1. requests[c][i] = "authorizing" /\ (Settle(c, i, "forwarding") \/ Settle(c, i, "denied"))
    BY <1>3 DEF Authorized
  <2> QED BY <2>1, SettleKeeps DEF RequestStates, Final
<1>4. CASE Forwarded(c, i)
  <2>1. requests[c][i] = "forwarding" /\ (Settle(c, i, "answered") \/ Settle(c, i, "failed"))
    BY <1>4 DEF Forwarded
  <2> QED BY <2>1, SettleKeeps DEF RequestStates, Final
<1> QED BY <1>1, <1>2, <1>3, <1>4

LEMMA RequestsStep ==
    ASSUME RequestsInv, [QueueNext]_trafficVars
    PROVE  RequestsInv'
<1>1. ASSUME UNCHANGED requests PROVE RequestsInv'
  BY <1>1 DEF RequestsInv, OneRequestAtATime
<1>2. ASSUME NEW c \in Conns, Request(c) \/ HttpStep(c) PROVE RequestsInv'
  BY <1>2, RequestKeeps, HttpStepKeeps
<1>3. CASE NodeStep
  BY <1>1, <1>3 DEF NodeStep, OnQueueEvent, Resolve, WriteVerdict, Decide, gatewayVars
<1>4. CASE ProcessPacket \/ ReadVerdict \/ StopRun \/ UNCHANGED trafficVars \/ \E f \in Flows : SendPacket(f) \/ Forget(f)
  BY <1>1, <1>4 DEF ProcessPacket, ReadVerdict, StopRun, SendPacket, Forget, trafficVars, gatewayVars
<1>5. CASE CleanupBroker \/ CountRelay \/ ReapChildren \/ \E f \in Flows : Expire(f)
  BY <1>1, <1>5 DEF CleanupBroker, CloseBroker, CountRelay, ReapChildren, Expire
<1>6. ASSUME NEW c \in Conns, RelayConnects(c) \/ RelayExits(c) \/ BrokerStep(c) PROVE RequestsInv'
  BY <1>1, <1>6 DEF RelayConnects, RelayExits, BrokerStep, ClaimFlow, Handshake, ConnectUpstream, Sniff
<1>7. CASE \E c \in Conns, f \in Flows : ConnectionArrives(c, f)
  BY <1>1, <1>7 DEF ConnectionArrives, AcceptClient
<1> QED BY <1>2, <1>3, <1>4, <1>5, <1>6, <1>7 DEF QueueNext, GatewayStep

LEMMA GatewayInvInit == QueueInit => GatewayInv
<1> SUFFICES ASSUME QueueInit PROVE GatewayInv
  OBVIOUS
<1> USE DEF QueueInit, GatewayInit
<1>1. ApprovalsInv
  BY TotalZero, GatewayAssumption DEF ApprovalsInv
<1>2. Alive = {} /\ Forking = 0
  BY DEF Alive, Forking
<1>3. RelaysInv
  <2>1. IsFiniteSet(Alive) /\ activeRelays + Forking = Cardinality(Alive) /\ activeRelays + Forking <= MaxRelays
    BY <1>2, FS_EmptySet, GatewayAssumption
  <2>2. forking \in BOOLEAN /\ activeRelays \in Nat
    OBVIOUS
  <2>3. flow \in [Conns -> Flows \cup {NoFlow}] /\ relay \in [Conns -> {"none", "forked", "exited", "reaped"}]
    OBVIOUS
  <2> QED BY <2>1, <2>2, <2>3 DEF RelaysInv
<1>4. RequestsInv
  BY DEF RequestsInv, OneRequestAtATime
<1> QED BY <1>1, <1>3, <1>4 DEF GatewayInv

LEMMA GatewayInvImplies == GatewayInv => GatewayOrderly
<1> SUFFICES ASSUME GatewayInv PROVE GatewayOrderly
  OBVIOUS
<1>1. pendingApprovalCount = Total(fresh) + Total(stale) /\ pendingApprovalCount <= MaxApprovals
  BY DEF GatewayInv, ApprovalsInv
<1>2. activeRelays + (IF forking THEN 1 ELSE 0) = Cardinality({c \in Conns : relay[c] \in {"forked", "exited"}})
  BY DEF GatewayInv, RelaysInv, Alive, Forking
<1>3. activeRelays <= MaxRelays
  <2>1. activeRelays \in Nat /\ Forking \in 0..1 /\ activeRelays + Forking <= MaxRelays /\ MaxRelays \in Nat
    BY GatewayAssumption DEF GatewayInv, RelaysInv, Forking
  <2> QED BY <2>1
<1>4. OneRequestAtATime
  BY DEF GatewayInv, RequestsInv
<1> QED BY <1>1, <1>2, <1>3, <1>4 DEF GatewayOrderly, LimitsExact

\* The limits of the way out: for any flows, connections and limits, however
\* approvals expire and relays exit, the pending count of TcpGatewayBroker is the
\* number of approvals it holds, ACTIVE_RELAYS counts the relay processes that
\* are not reaped, both limits hold, and requests of one connection are decided
\* and forwarded one at a time (approve, consumeApproval, accept_client,
\* reap_children, enqueueRequest).
THEOREM GatewayOrderlyTheorem == QueueSpec => []GatewayOrderly
<1>1. QueueInit => QueueInv /\ GatewayInv
  BY QueueInvInit, GatewayInvInit
<1>2. QueueInv /\ GatewayInv /\ [QueueNext]_trafficVars => (QueueInv /\ GatewayInv)'
  BY QueueInvStep, ApprovalsStep, RelaysStep, RequestsStep DEF GatewayInv
<1>3. GatewayInv => GatewayOrderly
  BY GatewayInvImplies
<1> QED BY <1>1, <1>2, <1>3, PTL DEF QueueSpec
=============================================================================
