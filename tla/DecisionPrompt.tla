--------------------------- MODULE DecisionPrompt ---------------------------
(***************************************************************************)
(* The prompts that ask the user for a policy: the serial queue of flows,  *)
(* the decisions of one flow (scope, status, lifetime, and a reason after  *)
(* a denial), the terminal dialog with its keys and its layout, and the    *)
(* single completion a request gets out of a flow that may be aborted at   *)
(* any moment.  From tui/UiDecisionFlowManager.ts and                      *)
(* policy/PolicyDecisionFlow.ts.                                           *)
(*                                                                         *)
(* A request is its own narrowest scope; "all" is the scope above every    *)
(* request.  Texts are left out; a layout is the number of rows a field    *)
(* takes once it is wrapped.                                               *)
(***************************************************************************)
EXTENDS Integers, Sequences, FiniteSetsExt, Functions

CONSTANTS Requests,     \* requests for approval
          Signalled,    \* those whose caller passes a signal
          Nothing,      \* no value
          Lifetimes,    \* the lifetimes on offer, in their order
          Screens,      \* terminals: [height, wide]
          Essential,    \* the rows of each essential summary field
          Optional,     \* the rows of each other summary field
          Details,      \* the rows of all fields of the full request
          MaxOffset     \* bound on a scroll that is not yet rendered

\* undefined is neither a request nor a value of a decision; a dialog is given at
\* least four rows (render); some lifetime is on offer.
ASSUME PromptAssumption ==
    /\ Nothing \notin Requests \cup {"scope", "status", "lifetime", "reason", "allowed", "denied", "once"}
    /\ Nothing \notin [scope : Requests \cup {"all"}, status : {"allowed", "denied"}, lifetime : Range(Lifetimes) \cup {"once"}]
    /\ Lifetimes \in Seq(Range(Lifetimes)) /\ Lifetimes # <<>>
    /\ Essential \in Seq(Nat) /\ Optional \in Seq(Nat) /\ Details \in Nat
    /\ \A s \in Screens : s.height \in Nat /\ s.height >= 4 /\ s.wide \in BOOLEAN

VARIABLES prompt,       \* a flow per request
          promptQueue,  \* the flows whose turn has not ended, the running one first
          dialog,       \* the open dialog
          promptMode,   \* what the host offers: "tui", "dialog" or "none"
          promptsClosed,\* the queue's signal is aborted
          installed,    \* lasting policies that completions installed
          said          \* what the user confirmed on a request's dialogs while it was
                        \* live, until its completion has run
promptVars == <<prompt, promptQueue, dialog, promptMode, promptsClosed, installed, said>>

Shortcuts == {"allowAll", "denyAll"}
Keys == {"right", "left", "tab", "up", "down", "enter", "escape"}

(***************************************************************************)
(* The decisions of a flow.                                                *)
(***************************************************************************)
Blank == [scope |-> Nothing, status |-> Nothing, lifetime |-> Nothing, reason |-> Nothing]

OptionsOf(r, key) ==
    CASE key = "scope" -> <<r, "all">>
      [] key = "status" -> <<"allowed", "denied">>
      [] key = "lifetime" -> Lifetimes
      [] key = "reason" -> <<"typed">>

ReasonDecisionAfterDenial(state) == IF state.status = "denied" THEN "reason" ELSE Nothing

NextDecision(key, state) ==
    CASE key = "scope" -> "status"
      [] key = "status" -> "lifetime"
      [] key = "lifetime" -> ReasonDecisionAfterDenial(state)
      [] key = "reason" -> Nothing

Choice(scope, status, lifetime) == [scope |-> scope, status |-> status, lifetime |-> lifetime]

CancelledApproval(r, state) ==
    Choice(IF state.scope = Nothing THEN r ELSE state.scope, "denied", "once")

Shortcut(value) == Choice(value, Nothing, Nothing)
Rejection == Choice("rejected", Nothing, Nothing)

\* A shortcut stands for a choice of the request itself, once.
PolicyChoice(r, approval) ==
    CASE approval = Shortcut("allowAll") -> Choice(r, "allowed", "once")
      [] approval = Shortcut("denyAll") -> Choice(r, "denied", "once")
      [] OTHER -> approval

Covering(r) == {p \in installed : p.scope \in {r, "all"}}

(***************************************************************************)
(* A flow: `turn` is where its queued run stands, `cancellation` is        *)
(* computed once, `returned` is what runFlow resolved with, `completion`   *)
(* the choice handed to the runtime, and `answer` whether the caller got   *)
(* it (or the policy that resolved the request before its prompt).         *)
(***************************************************************************)
Unstarted == [turn |-> "none", key |-> Nothing, state |-> Blank, aborted |-> FALSE,
              cancellation |-> Nothing, result |-> Nothing, resolved |-> Nothing,
              returned |-> Nothing, completion |-> Nothing, completing |-> "no", answer |-> "none"]

NoDialog == [owner |-> Nothing]
Open(r, key) == [owner |-> r, key |-> key, shortcuts |-> promptMode = "tui" /\ key # "reason",
                 selected |-> 1, request |-> FALSE, offset |-> 0, completed |-> FALSE, value |-> Nothing]

PromptInit ==
    /\ prompt = [r \in Requests |-> Unstarted]
    /\ promptQueue = <<>>
    /\ dialog = NoDialog
    /\ promptMode \in {"tui", "dialog", "none"}
    /\ promptsClosed = FALSE
    /\ installed = {}
    /\ said = [r \in Requests |-> {}]

Aborted(r) == prompt[r].aborted \/ promptsClosed

\* The flow with its cancellation computed: the first one stays.
WithCancel(r, f) ==
    [f EXCEPT !.cancellation = IF @ = Nothing THEN CancelledApproval(r, f.state) ELSE @]
Cancels(r, f) == LET c == WithCancel(r, f) IN [c EXCEPT !.result = c.cancellation, !.turn = "finishing"]

\* Mutant: a second completion replaces the first.
CompletesAgain(r, f, approval) ==
    [f EXCEPT !.completion = PolicyChoice(r, approval), !.completing = "pending"]
Completes(r, f, approval) ==
    IF f.completing # "no" THEN f
    ELSE [f EXCEPT !.completion = PolicyChoice(r, approval), !.completing = "pending"]

\* runFlow: a flow whose signal is aborted is cancelled without a turn.
RunFlow(r) ==
    /\ prompt[r].turn = "none" /\ prompt[r].returned = Nothing
    /\ IF Aborted(r)
       THEN /\ LET c == WithCancel(r, prompt[r])
               IN  prompt' = [prompt EXCEPT ![r] = [c EXCEPT !.turn = "ended", !.returned = c.cancellation]]
            /\ UNCHANGED promptQueue
       ELSE /\ prompt' = [prompt EXCEPT ![r].turn = "queued"]
            /\ promptQueue' = Append(promptQueue, r)
    /\ UNCHANGED <<dialog, promptMode, promptsClosed, installed, said>>

\* The flow's turn: cancelled when it was aborted while it waited, answered by a
\* policy installed meanwhile, or asked, when there is a user interface.
RunQueuedFlow(r) ==
    /\ promptQueue # <<>> /\ Head(promptQueue) = r /\ prompt[r].turn = "queued"
    /\ IF Aborted(r)
       THEN prompt' = [prompt EXCEPT ![r] = Cancels(r, @)] /\ UNCHANGED dialog
       ELSE \/ \E p \in Covering(r) :
                 /\ prompt' = [prompt EXCEPT ![r].resolved = p, ![r].result = p, ![r].turn = "finishing"]
                 /\ UNCHANGED dialog
            \/ /\ Covering(r) = {}
               /\ IF promptMode = "none"
                  THEN prompt' = [prompt EXCEPT ![r] = Cancels(r, @)] /\ UNCHANGED dialog
                  ELSE /\ prompt' = [prompt EXCEPT ![r].turn = "asking", ![r].key = "scope"]
                       /\ dialog' = Open(r, "scope")
    /\ UNCHANGED <<promptQueue, promptMode, promptsClosed, installed, said>>

\* Mutant: a choice is taken without looking at the signal again.
RejectedUndefined(r) == dialog.value = Nothing
Rejected(r) == dialog.value = Nothing \/ Aborted(r)

\* resolveSelectDecision and resolveInputDecision: the dialog's value, dropped
\* when the signal is aborted by the time it arrives.
ResolveDecision(r) ==
    /\ prompt[r].turn = "asking" /\ dialog.owner = r /\ dialog.completed
    /\ prompt' = [prompt EXCEPT ![r] =
                  IF Rejected(r) THEN Cancels(r, @)
                  ELSE IF dialog.value \in Shortcuts
                       THEN [@ EXCEPT !.result = Shortcut(dialog.value), !.turn = "finishing"]
                       ELSE [@ EXCEPT !.state[prompt[r].key] = dialog.value, !.turn = "chosen"]]
    /\ dialog' = NoDialog
    /\ UNCHANGED <<promptQueue, promptMode, promptsClosed, installed, said>>

\* The loop of runActiveFlow: the next decision, unless the signal is aborted, or
\* the end of the flow.
NextOfFlow(r) ==
    LET f == prompt[r] next == NextDecision(f.key, f.state) IN
    /\ f.turn = "chosen"
    /\ \/ /\ next = Nothing
          /\ prompt' = [prompt EXCEPT ![r].result = Choice(f.state.scope, f.state.status, f.state.lifetime),
                                  ![r].turn = "finishing"]
          /\ UNCHANGED dialog
       \/ /\ next # Nothing /\ Aborted(r)
          /\ prompt' = [prompt EXCEPT ![r] = Cancels(r, @)]
          /\ UNCHANGED dialog
       \/ /\ next # Nothing /\ ~Aborted(r)
          /\ prompt' = [prompt EXCEPT ![r].key = next, ![r].turn = "asking"]
          /\ dialog' = Open(r, next)
    /\ UNCHANGED <<promptQueue, promptMode, promptsClosed, installed, said>>

\* afterFinish: the completion is part of the turn, unless a policy answered it.
AfterFinish(r) ==
    /\ prompt[r].turn = "finishing"
    /\ prompt' = [prompt EXCEPT ![r] =
                  [(IF prompt[r].resolved = Nothing THEN Completes(r, prompt[r], prompt[r].result) ELSE prompt[r])
                     EXCEPT !.turn = "completing"]]
    /\ UNCHANGED <<promptQueue, dialog, promptMode, promptsClosed, installed, said>>

\* The runtime's completion: it installs a lasting policy, or it fails.
CompletionRuns(r, ok) ==
    /\ prompt[r].completing = "pending"
    /\ prompt' = [prompt EXCEPT ![r].completing = IF ok THEN "done" ELSE "failed"]
    /\ installed' = IF ok /\ prompt[r].completion.lifetime # "once"
                    THEN installed \union {prompt[r].completion} ELSE installed
    /\ said' = [said EXCEPT ![r] = {}]
    /\ UNCHANGED <<promptQueue, dialog, promptMode, promptsClosed>>

\* The turn ends when the completion has: the queue goes on, whatever came of it.
TurnEnds(r) ==
    /\ prompt[r].turn = "completing"
    /\ prompt[r].resolved # Nothing \/ prompt[r].completing \in {"done", "failed"}
    /\ prompt' = [prompt EXCEPT ![r] =
                  [@ EXCEPT !.turn = "ended", !.key = Nothing, !.state = Blank,
                            !.cancellation = Nothing, !.result = Nothing,
                            !.returned = IF prompt[r].returned # Nothing THEN prompt[r].returned
                                         ELSE IF prompt[r].completing = "failed" THEN Rejection
                                         ELSE prompt[r].result]]
    /\ promptQueue' = Tail(promptQueue)
    /\ UNCHANGED <<dialog, promptMode, promptsClosed, installed, said>>

\* resolveQueuedPolicy after runFlow: the policy found before the prompt, or the
\* flow's single completion.
FlowReturns(r) ==
    /\ prompt[r].returned # Nothing /\ prompt[r].answer = "none"
    /\ prompt' = [prompt EXCEPT ![r] =
                  IF prompt[r].returned = Rejection THEN [@ EXCEPT !.answer = "rejected"]
                  ELSE IF prompt[r].resolved # Nothing
                  THEN [@ EXCEPT !.answer = "given"]
                  ELSE [Completes(r, prompt[r], prompt[r].returned) EXCEPT !.answer = "awaited"]]
    /\ UNCHANGED <<promptQueue, dialog, promptMode, promptsClosed, installed, said>>

Answered(r) ==
    /\ prompt[r].answer = "awaited" /\ prompt[r].completing \in {"done", "failed"}
    /\ prompt' = [prompt EXCEPT ![r].answer =
                  IF prompt[r].completing = "done" THEN "given" ELSE "rejected"]
    /\ UNCHANGED <<promptQueue, dialog, promptMode, promptsClosed, installed, said>>

(***************************************************************************)
(* Aborts.  The listener of runFlow resolves it with the cancellation, and *)
(* the terminal dialog completes without a value; a dialog of the host is  *)
(* told through its signal and answers when it likes.                      *)
(***************************************************************************)
Unreturned(f) == f.turn \notin {"none", "ended"} /\ f.returned = Nothing
AbortResolved(r, f) ==
    IF ~Unreturned(f) THEN f ELSE LET c == WithCancel(r, f) IN [c EXCEPT !.returned = c.cancellation]

DialogAborted(rs) ==
    IF dialog.owner \in rs /\ dialog.shortcuts /\ ~dialog.completed
    THEN [dialog EXCEPT !.completed = TRUE] ELSE dialog

AbortRequest(r) ==
    /\ r \in Signalled /\ ~prompt[r].aborted
    /\ prompt' = [prompt EXCEPT ![r] = [AbortResolved(r, @) EXCEPT !.aborted = TRUE]]
    /\ dialog' = DialogAborted({r})
    /\ UNCHANGED <<promptQueue, promptMode, promptsClosed, installed, said>>

CloseQueue ==
    /\ ~promptsClosed
    /\ promptsClosed' = TRUE
    /\ prompt' = [r \in Requests |-> AbortResolved(r, prompt[r])]
    /\ dialog' = DialogAborted(Requests)
    /\ UNCHANGED <<promptQueue, promptMode, installed, said>>

(***************************************************************************)
(* The terminal dialog: keys, and the layout of what it shows.             *)
(***************************************************************************)
Heard(r, value) == said' = IF Aborted(r) \/ value = Nothing THEN said
                           ELSE [said EXCEPT ![r] = @ \union {value}]

Complete(value) ==
    /\ dialog' = [dialog EXCEPT !.completed = TRUE, !.value = value]
    /\ Heard(dialog.owner, value)

MoveSelection(d, delta) ==
    LET n == Len(OptionsOf(d.owner, d.key))
    IN  [d EXCEPT !.selected = ((@ - 1 + delta + n) % n) + 1]

HandleInput(k) ==
    /\ dialog # NoDialog /\ dialog.shortcuts /\ ~dialog.completed
    /\ \/ k = "right" /\ Complete("allowAll")
       \/ k = "left" /\ Complete("denyAll")
       \/ k = "tab" /\ dialog' = [dialog EXCEPT !.request = ~@] /\ UNCHANGED said
       \/ k = "up" /\ dialog' = (IF dialog.request THEN [dialog EXCEPT !.offset = Max({0, @ - 1})]
                                 ELSE MoveSelection(dialog, -1)) /\ UNCHANGED said
       \/ k = "down" /\ (dialog.request => dialog.offset < MaxOffset)
                     /\ dialog' = (IF dialog.request THEN [dialog EXCEPT !.offset = @ + 1]
                                   ELSE MoveSelection(dialog, 1)) /\ UNCHANGED said
       \/ k = "enter" /\ Complete(OptionsOf(dialog.owner, dialog.key)[dialog.selected])
       \/ k = "escape" /\ Complete(Nothing)
    /\ UNCHANGED <<prompt, promptQueue, promptMode, promptsClosed, installed>>

\* A dialog of the host, select or input: an option, a text or nothing.
HostAnswers ==
    /\ dialog # NoDialog /\ ~dialog.shortcuts /\ ~dialog.completed
    /\ \E value \in Range(OptionsOf(dialog.owner, dialog.key)) \union {Nothing} : Complete(value)
    /\ UNCHANGED <<prompt, promptQueue, promptMode, promptsClosed, installed>>

Heading(s) == IF s.height >= 8 THEN 2 ELSE 1
Spacing(s) == IF s.height >= 12 THEN 1 ELSE 0

RenderHints(s) ==
    LET most == s.height - Heading(s) - 2
        hints == IF s.wide THEN 2 ELSE 3
    IN  IF hints <= most THEN hints ELSE IF most >= 2 THEN 2 ELSE 1

RowSum(rows) == FoldFunction(+, 0, rows)
RenderField(rows, most) == [i \in DOMAIN rows |-> Min({rows[i], most})]

PreferredSummary(preview, critical, capacity) == Min({preview, Max({critical, capacity - 6})})

\* The rows of the choices' screen: where the window of options starts, how many
\* it shows, and how many rows of the summary, essential fields first.
RenderChoices(d, s) ==
    LET n == Len(OptionsOf(d.owner, d.key))
        capacity == s.height - Heading(s) - RenderHints(s) - 2 * Spacing(s)
        wanted == RenderField(Essential, 3)
        essential == IF RowSum(wanted) > capacity - 1 THEN RenderField(Essential, 1) ELSE wanted
        critical == RowSum(essential)
        preview == critical + RowSum(RenderField(Optional, 3))
        preferred == PreferredSummary(preview, critical, capacity)
        count == Min({n, 5, Max({1, capacity - preferred - 1})})
        more == IF count < n /\ capacity - count > preferred THEN 1 ELSE 0
        available == Max({0, capacity - count - more})
    IN  [capacity |-> capacity, count |-> count, critical |-> critical,
         start |-> Max({0, Min({d.selected - 1 - (count \div 2), n - count})}),
         summary |-> Min({preview, available}),
         rows |-> Heading(s) + Min({preview, available}) + 2 * Spacing(s) + count + more + RenderHints(s)]

RequestRows(s) == Max({1, s.height - Heading(s) - RenderHints(s) - Spacing(s) - 1})

\* The screen of the full request moves the scroll back to its last page.
Rendered(d, s) ==
    IF d.request THEN [d EXCEPT !.offset = Min({@, Max({0, Details - RequestRows(s)})})] ELSE d

Render(s) ==
    /\ dialog # NoDialog /\ dialog.shortcuts
    /\ dialog' = Rendered(dialog, s)
    /\ UNCHANGED <<prompt, promptQueue, promptMode, promptsClosed, installed, said>>

(***************************************************************************)
(* The specification.                                                      *)
(***************************************************************************)
FlowStep(r) ==
    \/ RunQueuedFlow(r) \/ ResolveDecision(r) \/ NextOfFlow(r) \/ AfterFinish(r)
    \/ CompletionRuns(r, TRUE) \/ CompletionRuns(r, FALSE)
    \/ TurnEnds(r) \/ FlowReturns(r) \/ Answered(r)

PromptNext ==
    \/ \E r \in Requests : RunFlow(r) \/ FlowStep(r) \/ AbortRequest(r)
    \/ CloseQueue
    \/ \E k \in Keys : HandleInput(k)
    \/ HostAnswers
    \/ \E s \in Screens : Render(s)

PromptFairness == \A r \in Requests : WF_promptVars(FlowStep(r))

\* What a flow hands to the runtime is what the user said while the request was
\* live: access is allowed only by the shortcut or by a chosen "allowed", a policy
\* that lasts has the scope, the status and the lifetime the user confirmed, and a
\* denial outside a cancellation was explained (UiDecisionFlowManager.ts:170-272,
\* PolicyDecisionFlow.ts:56-250).  A dialog that answers after the abort, or an
\* abort between two of its decisions, cannot turn into a policy.
AnswerIsTheUsers ==
    \A r \in Requests : LET c == prompt[r].completion IN
        prompt[r].completing = "pending" =>
            /\ c.status = "allowed" => \/ c = Choice(r, "allowed", "once") /\ "allowAll" \in said[r]
                                       \/ {c.scope, "allowed", c.lifetime} \subseteq said[r]
            /\ c.lifetime # "once" => /\ {c.scope, c.status, c.lifetime} \subseteq said[r]
                                      /\ c.status = "denied" => "typed" \in said[r]

\* A request is completed once, whichever of the queue's turn and the aborted
\* caller comes first, and the caller gets that completion: nothing replaces a
\* choice once it has been handed over, and a request a stored policy answered
\* hands over none (PolicyDecisionFlow.ts:68-95).
CompletedOnce ==
    [][\A r \in Requests :
         /\ prompt[r].completing # "no" => prompt'[r].completion = prompt[r].completion
         /\ prompt[r].completing \in {"done", "failed"} => prompt'[r].completing = prompt[r].completing
         /\ prompt'[r].resolved # Nothing => prompt'[r].completing = "no"]_promptVars

\* Whatever the size of the terminal, the dialog fits in it, the option that Enter
\* would confirm is on screen, and so is every essential field - what is asked for
\* and the decisions taken so far - when there is a row for each
\* (UiDecisionFlowManager.ts:291-365).
DialogFits ==
    dialog # NoDialog /\ dialog.shortcuts =>
        \A s \in Screens : LET view == RenderChoices(dialog, s) IN
            /\ view.rows <= s.height
            /\ view.start < dialog.selected /\ dialog.selected <= view.start + view.count
            /\ Len(Essential) < view.capacity => view.summary >= view.critical

\* An aborted request is answered even if the dialog it opened never is
\* (UiDecisionFlowManager.ts:134-145).
AbortAnswered ==
    \A r \in Requests :
        (Aborted(r) /\ prompt[r].turn # "none") ~> (prompt[r].answer \in {"given", "rejected"})

\* What is shown can be decided on, and what is decided was chosen.
PromptFaithful == AnswerIsTheUsers /\ DialogFits

\* A request is completed once, and an aborted one without its dialog.
PromptCompletes == CompletedOnce /\ AbortAnswered
=============================================================================
