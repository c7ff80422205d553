----------------------- MODULE SubagentPolicyReview ------------------------
(***************************************************************************)
(* The model-backed policy review of subagents/SubagentPolicyDecisionFlow  *)
(* with its PolicyApprovalDeadline, and the life of the reviewer session   *)
(* that SdkSubagentSessionFactory makes for it.                            *)
(*                                                                         *)
(* One review is three activities on one JavaScript thread: askForPolicy() *)
(* (phase), the factory's create() (stage), and the clock (late, timer).   *)
(* askForPolicy() races the factory and the prompt against the abort       *)
(* signal, so the factory may finish after its caller has gone; and a      *)
(* promise continuation may run after the deadline passed and before the   *)
(* overdue timer callback does.                                            *)
(*                                                                         *)
(* A reviewer has no capability, so create() binds no extension for it.    *)
(* What the model answers, and whether create() ever ends, is external.    *)
(***************************************************************************)
EXTENDS Integers, FiniteSets

CONSTANTS
    Reviews,              \* calls of askForPolicy(), each made once
    Heedless,             \* calls whose session factory ignores the abort signal, which
                          \* SubagentChildSessionFactory does not forbid
    MaxPendingApprovals   \* MAX_PENDING_APPROVALS

VARIABLES
    review,               \* the state of each call
    flow                  \* "open"; "closing" and "closed" both have this.closed

reviewVars == <<review, flow>>

\* The awaits of create(): model catalogue and ranking, model runtime, resource
\* loader, agent session.  "made": create() has resolved with a session.
Stages == {"none", "model", "runtime", "loader", "agent", "made", "failed"}
NextStage == [model |-> "runtime", runtime |-> "loader", loader |-> "agent",
              agent |-> "made"]

Unasked == [phase |-> "idle", stage |-> "none", session |-> "none",
            adopted |-> FALSE, choice |-> FALSE, late |-> FALSE,
            aborted |-> FALSE, timer |-> FALSE, result |-> "none"]

ReviewInit == review = [r \in Reviews |-> Unasked] /\ flow = "open"

Pending == {r \in Reviews : review[r].phase \in {"creating", "prompting"}}

Set(r, new) == review' = [review EXCEPT ![r] = new]

-----------------------------------------------------------------------------
\* The finally block: the timer is cleared, an adopted session is disposed and
\* the call leaves this.pending.
Finalized(v, result) ==
    [v EXCEPT !.phase = "settled", !.timer = FALSE, !.result = result,
              !.session = IF v.adopted THEN "disposed" ELSE @]

\* Mutant: assertApprovalActive() looks at the signal only.
ExpiredByTimer(v) == v

\* expireIfOverdue() aborts in the place of a timer callback still to come.
Expired(v) == [v EXCEPT !.aborted = @ \/ v.late]

\* assertApprovalActive(): go on as next, or abort out of the call.
AssertActive(v, next) ==
    LET w == Expired(v) IN IF w.aborted THEN Finalized(w, "aborted") ELSE next

\* askForPolicy(): the early throws, the prompt over its byte limit, and the
\* synchronous start of create().
AskForPolicy(r) ==
    /\ review[r].phase = "idle"
    /\ \E fits \in BOOLEAN :
         Set(r, CASE flow # "open" -> [Unasked EXCEPT !.phase = "settled", !.result = "closed"]
                  [] Cardinality(Pending) >= MaxPendingApprovals ->
                        [Unasked EXCEPT !.phase = "settled", !.result = "limit"]
                  [] OTHER ->
                        LET v == [Unasked EXCEPT !.timer = TRUE] IN
                        IF fits THEN [v EXCEPT !.phase = "creating", !.stage = "model"]
                        ELSE Finalized(v, "failed"))
    /\ UNCHANGED flow

-----------------------------------------------------------------------------
\* create() resumes after an await.  It looks at the signal after each one; a
\* session made for a call aborted meanwhile is disposed on the spot.
Created(v, heedless) ==
    IF v.aborted /\ ~heedless
    THEN [v EXCEPT !.stage = "failed",
                   !.session = IF v.stage = "agent" THEN "disposed" ELSE @]
    ELSE [v EXCEPT !.stage = NextStage[v.stage],
                   !.session = IF v.stage = "agent" THEN "live" ELSE @]

CreateStep(r) ==
    /\ review[r].stage \in DOMAIN NextStage
    /\ Set(r, Created(review[r], r \in Heedless))
    /\ UNCHANGED flow

\* No eligible model, no model runtime, no parent session file, no agent session.
CreateFails(r) ==
    /\ review[r].stage \in DOMAIN NextStage
    /\ Set(r, [review[r] EXCEPT !.stage = "failed"])
    /\ UNCHANGED flow

\* The race of creation and cancellation is won by the session: it is adopted,
\* then assertApprovalActive() decides whether it is prompted.
Adopt(r) ==
    /\ review[r].phase = "creating" /\ review[r].stage = "made"
    /\ LET v == [review[r] EXCEPT !.adopted = TRUE]
       IN  Set(r, AssertActive(v, [v EXCEPT !.phase = "prompting"]))
    /\ UNCHANGED flow

\* The race is lost to an error of create().
CreationRejected(r) ==
    /\ review[r].phase = "creating" /\ review[r].stage = "failed"
    /\ Set(r, Finalized(review[r], "failed"))
    /\ UNCHANGED flow

\* Either race is lost to the abort listener; a session already made by then
\* has won the first one.
Races == {"creating", "prompting"}

Cancelled(r) ==
    /\ review[r].phase \in Races /\ review[r].aborted
    /\ ~(review[r].phase = "creating" /\ review[r].stage = "made")
    /\ Set(r, Finalized(review[r], "aborted"))
    /\ UNCHANGED flow

-----------------------------------------------------------------------------
\* The reviewer calls policy_decision: refused after the deadline or an abort,
\* and when a decision was submitted before.
Submit(r) ==
    /\ review[r].phase = "prompting"
    /\ LET w == Expired(review[r])
       IN  Set(r, IF w.aborted THEN w ELSE [w EXCEPT !.choice = TRUE])
    /\ UNCHANGED flow

\* session.prompt() resolves: the decision, when there is one, is returned only
\* if the call is active still.
PromptReturns(r) ==
    /\ review[r].phase = "prompting"
    /\ LET v == review[r]
       IN  Set(r, AssertActive(v, Finalized(v, IF v.choice THEN "choice" ELSE "failed")))
    /\ UNCHANGED flow

\* A model error, or an aborted assistant message.
PromptFails(r) ==
    /\ review[r].phase = "prompting"
    /\ Set(r, Finalized(review[r], "failed"))
    /\ UNCHANGED flow

\* The cleanup chained to create(): a session nobody adopted is disposed once
\* the call has settled.
LateCleanup(r) ==
    /\ review[r].phase = "settled" /\ review[r].stage = "made"
    /\ ~review[r].adopted /\ review[r].session = "live"
    /\ Set(r, [review[r] EXCEPT !.session = "disposed"])
    /\ UNCHANGED flow

-----------------------------------------------------------------------------
\* The clock passes expiresAt.
Overdue(r) ==
    /\ r \in Pending /\ ~review[r].late
    /\ Set(r, [review[r] EXCEPT !.late = TRUE])
    /\ UNCHANGED flow

TimerFires(r) ==
    /\ review[r].late /\ review[r].timer /\ ~review[r].aborted
    /\ Set(r, [review[r] EXCEPT !.aborted = TRUE])
    /\ UNCHANGED flow

\* The caller's own signal: the source operation ended.
CallerAborts(r) ==
    /\ r \in Pending /\ ~review[r].aborted
    /\ Set(r, [review[r] EXCEPT !.aborted = TRUE])
    /\ UNCHANGED flow

\* close(): every pending call is cancelled; it resolves when they have settled.
CloseFlow ==
    /\ flow = "open"
    /\ flow' = "closing"
    /\ review' = [r \in Reviews |->
                     IF r \in Pending THEN [review[r] EXCEPT !.aborted = TRUE] ELSE review[r]]

FlowClosed ==
    /\ flow = "closing" /\ Pending = {}
    /\ flow' = "closed"
    /\ UNCHANGED review

-----------------------------------------------------------------------------
ReviewStep(r) ==
    \/ AskForPolicy(r) \/ CreateStep(r) \/ CreateFails(r) \/ Adopt(r)
    \/ CreationRejected(r) \/ Cancelled(r) \/ Submit(r) \/ PromptReturns(r)
    \/ PromptFails(r) \/ LateCleanup(r) \/ Overdue(r) \/ TimerFires(r)
    \/ CallerAborts(r)

ReviewNext == (\E r \in Reviews : ReviewStep(r)) \/ CloseFlow \/ FlowClosed

\* The clock runs, timers and promise reactions are served; that the factory
\* or the model ever answers is not assumed.
ReviewFairness ==
    \A r \in Reviews :
        /\ WF_reviewVars(Overdue(r)) /\ WF_reviewVars(TimerFires(r))
        /\ WF_reviewVars(Adopt(r)) /\ WF_reviewVars(Cancelled(r))
        /\ WF_reviewVars(CreationRejected(r)) /\ WF_reviewVars(LateCleanup(r))

\* A decision that askForPolicy() returns was submitted by the reviewer, and the
\* call returned before its deadline, unaborted, and with the flow open, however
\* late the timer callback is served.
DecisionInTime ==
    [][\A r \in Reviews : (review'[r].result = "choice" /\ review[r].result # "choice")
        => /\ review[r].choice /\ ~review[r].late /\ ~review[r].aborted
           /\ flow = "open"]_reviewVars

\* Every review ends, even if the factory or the model never answers, and once
\* it has ended no reviewer session of it stays undisposed, one that the factory
\* made after its caller had gone included.
ReviewsSettle ==
    \A r \in Reviews :
        [](/\ (r \in Pending) => <>(review[r].phase = "settled")
           /\ (review[r].session = "live") => <>(review[r].session = "disposed"))

\* Reviews decide in time or not at all, and leave nothing behind.
ReviewsInTime == DecisionInTime /\ ReviewsSettle
=============================================================================
