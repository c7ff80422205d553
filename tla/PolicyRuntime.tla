--------------------------- MODULE PolicyRuntime ---------------------------
(***************************************************************************)
(* Policy evaluation and the pending approvals of                          *)
(* src/src/policy/PolicyRuntime.ts, with the prompt queue of               *)
(* src/src/policy/PolicyDecisionFlow.ts and src/src/tui.                   *)
(*                                                                         *)
(* Every agent is a policy principal with its own PolicyEngine.  A request *)
(* no policy settles waits for an approval: of a review agent acting for   *)
(* the nearest ancestor that holds a covering allow, of the ask_llm        *)
(* reviewer, or of the user, whose prompts are serialised.  Everything     *)
(* else may happen during that await: other requests are decided,          *)
(* principals come and go, contexts and defaults change, the request is    *)
(* aborted or its deadline expires, the runtime shuts down.                *)
(*                                                                         *)
(* One access type is modelled: engines, defaults and revisions of the     *)
(* others are disjoint.  Scopes are ordered by Covers; reasons, audit      *)
(* records and the native filesystem snapshots are left out.               *)
(***************************************************************************)
EXTENDS Integers, Sequences, FiniteSets

CONSTANTS
    Agents,       \* subagent principals; identifiers are never reused
    Root,         \* rootAgentIdentifier
    Calls,        \* tool calls, each with its own once-only engine
    Requests,     \* evaluations a tool call starts
    Scopes,       \* patterns
    Targets,      \* scopes a request may name
    Covers,       \* policyScopeCovers: pairs <<covering, covered>>
    Length,       \* pattern length, by which the most specific match is found
    Databases,    \* contents the policy database may start with
    MaxContexts,  \* bound on a principal's revision by context updates
    MaxDefaults   \* bound on the fallback revision

Principals == Agents \cup {Root}
Answers    == {"allow", "deny"}
Engines    == [Scopes -> Answers \cup {"none"}]
Responses  == {"allow", "deny", "ask_user", "ask_llm"}
Lifetimes  == {"once", "session", "local"}
Choices    == [scope : Scopes, status : Answers, lifetime : Lifetimes]
Waiting    == {"ancestor", "llm", "queued", "prompting", "chosen"}

ASSUME TreeAssumption == Root \notin Agents /\ "none" \notin Principals
ASSUME ScopesAssumption ==
    /\ IsFiniteSet(Scopes) /\ Targets \subseteq Scopes
    /\ Covers \subseteq Scopes \X Scopes /\ \A s \in Scopes : <<s, s>> \in Covers
    /\ \A a, b, c \in Scopes : (<<a, b>> \in Covers /\ <<b, c>> \in Covers) => <<a, c>> \in Covers
    /\ Length \in [Scopes -> Nat]
    /\ \A t, a, b \in Scopes : (/\ <<a, t>> \in Covers /\ <<b, t>> \in Covers
                                /\ Length[a] = Length[b]) => a = b
    /\ Databases \subseteq Engines
ASSUME BoundsAssumption == MaxContexts \in Nat /\ MaxDefaults \in Nat

VARIABLES
    alive,      \* this.principals
    parent,     \* parentAgentIdentifier
    anc,        \* the chain of parents up to the root
    pol,        \* principal.policies
    rev,        \* policyRevision + contextRevision: unchanged iff both are
    default,    \* defaultResponses of the area
    fbRev,      \* fallbackRevisions of the area
    db,         \* the persisted policies
    closing,    \* this.closing
    owner,      \* the principal that began a tool call, or None
    once,       \* oncePolicies of each tool call
    phase,      \* where each request is
    req,        \* what the request captured before its await
    aborted,    \* requests whose signal or deadline aborted
    choice,     \* the user's choice, between the prompt and its completion
    result,     \* what evaluate() answered
    prompts     \* the queue of the UI decision flows

treeVars == <<alive, parent, anc>>
confVars == <<default, fbRev, closing>>
reqVars  == <<phase, req, aborted, choice, result>>
vars == <<treeVars, pol, rev, confVars, db, owner, once, reqVars, prompts>>

NoEngine  == [s \in Scopes |-> "none"]
NoResult  == [status |-> "none", source |-> "none"]
NoRequest == [call |-> "none", p |-> Root, target |-> "none", path |-> {},
              revs |-> [q \in Principals |-> 0], fb |-> 0, authority |-> Root, system |-> FALSE]
NoChoice  == [scope |-> "none", status |-> "none", lifetime |-> "none"]

-----------------------------------------------------------------------------
(* PolicyEngine                                                            *)

\* The scopes of an engine that match a target, and the longest of them.
Matches(e, t) == {s \in Scopes : e[s] # "none" /\ <<s, t>> \in Covers}
Longest(S)    == CHOOSE s \in S : \A x \in S : Length[x] <= Length[s]

\* evaluateStoredPolicies().
Eval(e, t) == IF Matches(e, t) = {} THEN "none" ELSE e[Longest(Matches(e, t))]

\* addPolicies() on every principal of P.
AddPolicy(P, s, status) ==
    /\ pol' = [p \in Principals |-> IF p \in P THEN [pol[p] EXCEPT ![s] = status] ELSE pol[p]]
    /\ rev' = [p \in Principals |-> IF p \in P THEN rev[p] + 1 ELSE rev[p]]

-----------------------------------------------------------------------------
(* Authority                                                               *)

\* rootFallbackPolicies: a rule only while the default is allow or deny.
Fallback == IF default \in Answers THEN default ELSE "none"

FallbackScope(s) == \A x \in Scopes : <<s, x>> \in Covers

\* evaluatePrincipalAuthority().
Authority(a, t) ==
    IF Eval(pol[a], t) # "none" \/ a # Root THEN Eval(pol[a], t) ELSE Fallback

\* The source of authority is the automated fallback, not a stored policy.
FromSystem(a, t) == Eval(pol[a], t) = "none"

\* resolveAncestorAuthority(): the nearest ancestor with an answer.
Deciding(p, t) == {a \in anc[p] : Authority(a, t) # "none"}
NearestIn(S)   == CHOOSE a \in S : \A x \in S : x = a \/ x \in anc[a]
Nearest(p, t)  == NearestIn(Deciding(p, t))
Denied(p, t)   == Deciding(p, t) # {} /\ Authority(Nearest(p, t), t) = "deny"
Allowed(p, t)  == Deciding(p, t) # {} /\ Authority(Nearest(p, t), t) = "allow"

\* The principals from p up to its ancestor a, and up to the root.
PathTo(p, a)  == {q \in anc[p] \cup {p} : q = a \/ a \in anc[q]}
PathToRoot(p) == anc[p] \cup {p}

\* policyScopeHierarchy() and allowedApprovalScopes(): scopes around a target
\* that the authority's matched pattern covers, that pattern included.
Hierarchy(t) == {s \in Scopes : <<s, t>> \in Covers}
SourceScope(a, t) == Longest(Matches(pol[a], t))
AllowedScopesAny(a, t) == Hierarchy(t)                                  \* mutant
AllowedScopes(a, t) ==
    IF FromSystem(a, t) THEN Hierarchy(t)
    ELSE {s \in Hierarchy(t) : <<SourceScope(a, t), s>> \in Covers}

\* validatedAgentChoice(): an agent may not persist.
ValidAgentChoice(ch, scopes) == ch.scope \in scopes /\ ch.lifetime \in {"once", "session"}

\* isActivePrincipalPath(), isUnchangedPrincipalPath(), isUnchangedFallback().
Active(r)            == req[r].path \subseteq alive
UnchangedAlways(r)   == TRUE                                            \* mutant
UnchangedPath(r)     == \A p \in req[r].path : rev[p] = req[r].revs[p]
UnchangedFallback(r) == fbRev = req[r].fb

\* What the requester's own policies and its tool call say by now.
Own(r) == LET local == Eval(pol[req[r].p], req[r].target)
          IN  IF local # "none" THEN local ELSE Eval(once[req[r].call], req[r].target)

-----------------------------------------------------------------------------
(* Principals, contexts, defaults                                          *)

\* registerPolicyPrincipal(): the child starts with the parent's effective
\* policies of the inherited areas (the root's include its fallback), or none.
Register(p, q, inherits) ==
    /\ p \in Agents /\ p \notin alive /\ parent[p] = "none"
    /\ q \in alive
    /\ alive' = alive \cup {p}
    /\ parent' = [parent EXCEPT ![p] = q]
    /\ anc' = [anc EXCEPT ![p] = anc[q] \cup {q}]
    /\ pol' = [pol EXCEPT ![p] =
                 IF ~inherits THEN NoEngine
                 ELSE [s \in Scopes |->
                         IF pol[q][s] = "none" /\ q = Root /\ FallbackScope(s)
                         THEN Fallback ELSE pol[q][s]]]
    /\ UNCHANGED <<rev, confVars, db, owner, once, reqVars, prompts>>

\* removePolicyPrincipal(): refused for the root and while children remain.
HasChildren(p) == \E c \in alive : parent[c] = p
Remove(p) ==
    /\ p \in alive \cap Agents /\ ~HasChildren(p)
    /\ alive' = alive \ {p}
    /\ UNCHANGED <<parent, anc, pol, rev, confVars, db, owner, once, reqVars, prompts>>

UpdateContext(p) ==
    /\ p \in alive /\ rev[p] < MaxContexts
    /\ rev' = [rev EXCEPT ![p] = @ + 1]
    /\ UNCHANGED <<treeVars, pol, confVars, db, owner, once, reqVars, prompts>>

SetDefault(d) ==
    /\ d # default /\ fbRev < MaxDefaults
    /\ default' = d
    /\ fbRev' = fbRev + 1
    /\ UNCHANGED <<treeVars, pol, rev, closing, db, owner, once, reqVars, prompts>>

BeginShutdown ==
    /\ ~closing /\ closing' = TRUE
    /\ UNCHANGED <<treeVars, pol, rev, default, fbRev, db, owner, once, reqVars, prompts>>

BeginToolCall(c, p) ==
    /\ owner[c] = "none" /\ p \in alive
    /\ owner' = [owner EXCEPT ![c] = p]
    /\ UNCHANGED <<treeVars, pol, rev, confVars, db, once, reqVars, prompts>>

-----------------------------------------------------------------------------
(* evaluate()                                                              *)

\* evaluate() answers; what the request had captured is gone.
Finish(r, status, source) ==
    /\ phase' = [phase EXCEPT ![r] = "done"]
    /\ req' = [req EXCEPT ![r] = NoRequest]
    /\ aborted' = aborted \ {r}
    /\ choice' = [choice EXCEPT ![r] = NoChoice]
    /\ result' = [result EXCEPT ![r] = [status |-> status, source |-> source]]

\* An answer that installs nothing.
Answer(r, status, source) == Finish(r, status, source) /\ UNCHANGED <<pol, rev, db, once>>
FailClosed(r) == Answer(r, "deny", "closed")

\* What a request captures before it awaits an approval of kind k.
Capture(c, t, path, a, system) ==
    [call |-> c, p |-> owner[c], target |-> t, path |-> path, fb |-> fbRev,
     revs |-> [q \in Principals |-> IF q \in path THEN rev[q] ELSE 0], authority |-> a, system |-> system]
Await(r, k, captured) ==
    /\ phase' = [phase EXCEPT ![r] = k]
    /\ req' = [req EXCEPT ![r] = captured]
    /\ prompts' = IF k = "queued" THEN Append(prompts, r) ELSE prompts
    /\ UNCHANGED <<pol, rev, db, once, result, aborted, choice>>

\* The rules evaluate() tries before any approval.
Settled(p, c, t) ==
    IF closing THEN [status |-> "deny", source |-> "closed"]
    ELSE IF Eval(pol[p], t) # "none" THEN [status |-> Eval(pol[p], t), source |-> "existing"]
    ELSE IF p = Root /\ Fallback # "none" THEN [status |-> Fallback, source |-> "system"]
    ELSE IF Eval(once[c], t) # "none" THEN [status |-> Eval(once[c], t), source |-> "once"]
    ELSE IF ~(anc[p] \subseteq alive) THEN [status |-> "deny", source |-> "threw"]
    ELSE IF Denied(p, t) THEN [status |-> "deny", source |-> "ancestor"]
    ELSE NoResult

Evaluate(r, c, t) ==
    LET p == owner[c] IN
    /\ phase[r] = "idle" /\ p # "none"
    /\ \/ /\ Settled(p, c, t) # NoResult
          /\ Answer(r, Settled(p, c, t).status, Settled(p, c, t).source)
          /\ UNCHANGED prompts
       \/ /\ Settled(p, c, t) = NoResult
          /\ \/ /\ Allowed(p, t)
                /\ LET a == Nearest(p, t) IN
                   Await(r, "ancestor", Capture(c, t, PathTo(p, a), a, FromSystem(a, t)))
             \/ /\ ~Allowed(p, t) /\ default = "ask_llm"
                /\ Await(r, "llm", Capture(c, t, PathToRoot(p), Root, FALSE))
             \/ /\ ~Allowed(p, t) /\ default = "ask_user"
                /\ Await(r, "queued", Capture(c, t, PathToRoot(p), Root, FALSE))
    /\ UNCHANGED <<treeVars, confVars, owner>>

\* The caller's signal aborts, or the approval deadline expires.
AbortableUnlessPrompting(r) == phase[r] \in Waiting \ {"prompting"} /\ r \notin aborted   \* mutant
Abortable(r) == phase[r] \in Waiting /\ r \notin aborted
Abort(r) ==
    /\ Abortable(r)
    /\ aborted' = aborted \cup {r}
    /\ UNCHANGED <<treeVars, pol, rev, confVars, db, owner, once, phase, req, choice, result,
                   prompts>>

-----------------------------------------------------------------------------
(* Agent approvals: askAuthorizedAncestor() and askLlmFallback()           *)

InactiveNever(r) == FALSE                                               \* mutant
Inactive(r)      == r \in aborted \/ closing

\* Install an approved choice: for the tool call, or on the principals of P.
Install(r, ch, P) ==
    IF ch.lifetime = "once"
    THEN /\ once' = [once EXCEPT ![req[r].call] = [@ EXCEPT ![ch.scope] = ch.status]]
         /\ UNCHANGED <<pol, rev>>
    ELSE AddPolicy(P, ch.scope, ch.status) /\ UNCHANGED once

\* What must still hold when the review agent answered: the path and, for a
\* fallback authority, the default as captured, the same nearest authority, and
\* a choice within its scopes and lifetimes.
AncestorGrants(r, ch) ==
    LET p == req[r].p t == req[r].target a == req[r].authority IN
    /\ UnchangedPath(r) /\ (req[r].system => UnchangedFallback(r))
    /\ Allowed(p, t) /\ Nearest(p, t) = a
    /\ ValidAgentChoice(ch, AllowedScopes(a, t))

AncestorDecides(r, ch) ==
    LET p == req[r].p t == req[r].target IN
    /\ phase[r] = "ancestor"
    /\ \/ (Inactive(r) \/ ~Active(r)) /\ FailClosed(r)
       \/ /\ ~Inactive(r) /\ Active(r)
          /\ \/ Own(r) # "none" /\ Answer(r, Own(r), "superseded")
             \/ Own(r) = "none" /\ Denied(p, t) /\ Answer(r, "deny", "ancestor")
             \/ /\ Own(r) = "none" /\ ~Denied(p, t) /\ ~AncestorGrants(r, ch)
                /\ FailClosed(r)
             \/ /\ Own(r) = "none" /\ ~Denied(p, t) /\ AncestorGrants(r, ch)
                /\ Finish(r, ch.status, "agent")
                /\ Install(r, ch, req[r].path \ {req[r].authority})
                /\ UNCHANGED db
    /\ UNCHANGED <<treeVars, confVars, owner, prompts>>

LlmGrants(r, ch) ==
    /\ Active(r) /\ UnchangedPath(r) /\ UnchangedFallback(r) /\ default = "ask_llm"
    /\ ValidAgentChoice(ch, Hierarchy(req[r].target))

LlmDecides(r, ch) ==
    /\ phase[r] = "llm"
    /\ \/ Inactive(r) /\ FailClosed(r)
       \/ ~Inactive(r) /\ Own(r) # "none" /\ Answer(r, Own(r), "superseded")
       \/ ~Inactive(r) /\ Own(r) = "none" /\ ~LlmGrants(r, ch) /\ FailClosed(r)
       \/ /\ ~Inactive(r) /\ Own(r) = "none" /\ LlmGrants(r, ch)
          /\ Finish(r, ch.status, "llm")
          /\ Install(r, ch, req[r].path)
          /\ UNCHANGED db
    /\ UNCHANGED <<treeVars, confVars, owner, prompts>>

\* The decision flow is unavailable, fails, times out or is aborted.
ReviewFails(r) ==
    /\ phase[r] \in {"ancestor", "llm"}
    /\ FailClosed(r)
    /\ UNCHANGED <<treeVars, confVars, owner, prompts>>

-----------------------------------------------------------------------------
(* User approvals: resolveQueuedPolicy() over the serial prompt queue      *)

\* queuedUserApprovalResolution(): the recheck before the prompt opens.
Recheck(r) ==
    LET p == req[r].p t == req[r].target IN
    IF Inactive(r) \/ ~Active(r) THEN [status |-> "deny", source |-> "closed"]
    ELSE IF Eval(pol[p], t) # "none" THEN [status |-> Eval(pol[p], t), source |-> "existing"]
    ELSE IF p = Root /\ Fallback # "none" THEN [status |-> Fallback, source |-> "system"]
    ELSE IF Own(r) # "none" THEN [status |-> Own(r), source |-> "once"]
    ELSE IF Denied(p, t) THEN [status |-> "deny", source |-> "ancestor"]
    ELSE IF ~UnchangedPath(r) \/ ~UnchangedFallback(r) \/ default # "ask_user"
         THEN [status |-> "deny", source |-> "closed"]
    ELSE NoResult

\* The first flow of the queue starts.
UpNext(r) == prompts # <<>> /\ Head(prompts) = r /\ phase[r] = "queued"
PromptOpens(r) ==
    /\ UpNext(r)
    /\ \/ /\ Recheck(r) # NoResult
          /\ Answer(r, Recheck(r).status, Recheck(r).source)
          /\ prompts' = Tail(prompts)
       \/ /\ Recheck(r) = NoResult
          /\ phase' = [phase EXCEPT ![r] = "prompting"]
          /\ UNCHANGED <<pol, rev, db, once, req, aborted, choice, result, prompts>>
    /\ UNCHANGED <<treeVars, confVars, owner>>

\* The user finishes the flow (cancelling it chooses deny, once, the target);
\* the completion runs in a later microtask.
UserChooses(r, ch) ==
    /\ phase[r] = "prompting" /\ r \notin aborted
    /\ ch.scope \in Hierarchy(req[r].target)
    /\ phase' = [phase EXCEPT ![r] = "chosen"]
    /\ choice' = [choice EXCEPT ![r] = ch]
    /\ UNCHANGED <<treeVars, pol, rev, confVars, db, owner, once, req, aborted, result,
                   prompts>>

UserStale(r) == ~UnchangedFallback(r) \/ default # "ask_user"

\* completeUserApproval(), inside the queue.
UserCompletes(r) ==
    LET ch == choice[r] IN
    /\ phase[r] = "chosen"
    /\ prompts' = Tail(prompts)
    /\ \/ (Inactive(r) \/ UserStale(r)) /\ FailClosed(r)
       \/ /\ ~Inactive(r) /\ ~UserStale(r)
          /\ \/ Own(r) # "none" /\ Answer(r, Own(r), "superseded")
             \/ /\ Own(r) = "none"
                /\ \/ (~Active(r) \/ ~UnchangedPath(r)) /\ FailClosed(r)
                   \/ /\ Active(r) /\ UnchangedPath(r)
                      /\ Finish(r, ch.status, "user")
                      /\ Install(r, ch, req[r].path)
                      /\ db' = IF ch.lifetime = "local" THEN [db EXCEPT ![ch.scope] = ch.status]
                                                        ELSE db
    /\ UNCHANGED <<treeVars, confVars, owner>>

\* An aborted flow resolves its caller at once, whether it waits or prompts;
\* its place in the queue is given up when its turn comes.
UserAborted(r) ==
    /\ phase[r] \in {"queued", "prompting"} /\ r \in aborted
    /\ FailClosed(r)
    /\ UNCHANGED <<treeVars, confVars, owner, prompts>>

PromptSkips ==
    /\ prompts # <<>> /\ phase[Head(prompts)] = "done"
    /\ prompts' = Tail(prompts)
    /\ UNCHANGED <<treeVars, pol, rev, confVars, db, owner, once, reqVars>>

-----------------------------------------------------------------------------
Init ==
    /\ alive = {Root}
    /\ parent = [p \in Principals |-> "none"]
    /\ anc = [p \in Principals |-> {}]
    /\ db \in Databases
    /\ pol = [p \in Principals |-> IF p = Root THEN db ELSE NoEngine]
    /\ rev = [p \in Principals |-> 0]
    /\ default \in Responses /\ fbRev = 0 /\ closing = FALSE
    /\ owner = [c \in Calls |-> "none"]
    /\ once = [c \in Calls |-> NoEngine]
    /\ phase = [r \in Requests |-> "idle"]
    /\ req = [r \in Requests |-> NoRequest]
    /\ aborted = {}
    /\ choice = [r \in Requests |-> NoChoice]
    /\ result = [r \in Requests |-> NoResult]
    /\ prompts = <<>>

RequestStep(r) ==
    \/ \E c \in Calls, t \in Targets : Evaluate(r, c, t)
    \/ Abort(r)
    \/ \E ch \in Choices : AncestorDecides(r, ch)
    \/ \E ch \in Choices : LlmDecides(r, ch)
    \/ ReviewFails(r)
    \/ PromptOpens(r)
    \/ \E ch \in Choices : UserChooses(r, ch)
    \/ UserCompletes(r)
    \/ UserAborted(r)

Next ==
    \/ \E p \in Agents, q \in Principals, inherits \in BOOLEAN : Register(p, q, inherits)
    \/ \E p \in Agents : Remove(p)
    \/ \E p \in Principals : UpdateContext(p)
    \/ \E d \in Responses : SetDefault(d)
    \/ BeginShutdown
    \/ \E c \in Calls, p \in Principals : BeginToolCall(c, p)
    \/ \E r \in Requests : RequestStep(r)
    \/ PromptSkips

Spec == Init /\ [][Next]_vars

\* Deadlines expire, aborted flows resolve, continuations and the queue run;
\* nothing is assumed of the user or of a reviewer.
Fairness ==
    /\ \A r \in Requests : /\ WF_vars(Abort(r))
                           /\ WF_vars(r \in aborted /\ ReviewFails(r))
                           /\ WF_vars(PromptOpens(r))
                           /\ WF_vars(UserCompletes(r))
                           /\ WF_vars(UserAborted(r))
    /\ WF_vars(PromptSkips)

FairSpec == Spec /\ Fairness

-----------------------------------------------------------------------------
(* Properties                                                              *)

Captured == [call : Calls \cup {"none"}, p : Principals, target : Scopes \cup {"none"},
             path : SUBSET Principals, revs : [Principals -> Nat], fb : Nat,
             authority : Principals, system : BOOLEAN]
Sources == {"none", "closed", "existing", "system", "once", "threw", "ancestor",
            "superseded", "agent", "llm", "user"}

\* Every variable has its type.
TypeOK ==
    /\ alive \subseteq Principals
    /\ parent \in [Principals -> Principals \cup {"none"}]
    /\ anc \in [Principals -> SUBSET Principals]
    /\ pol \in [Principals -> Engines]
    /\ rev \in [Principals -> Nat]
    /\ default \in Responses /\ fbRev \in Nat /\ closing \in BOOLEAN
    /\ db \in Engines
    /\ owner \in [Calls -> Principals \cup {"none"}]
    /\ once \in [Calls -> Engines]
    /\ phase \in [Requests -> Waiting \cup {"idle", "done"}]
    /\ req \in [Requests -> Captured]
    /\ aborted \subseteq Requests
    /\ choice \in [Requests -> Choices \cup {NoChoice}]
    /\ result \in [Requests -> [status : Answers \cup {"none"}, source : Sources]]
    /\ prompts \in Seq(Requests)

\* A registered principal's whole chain of parents is registered: the walks of
\* resolveAncestorAuthority() and pathToRoot() meet no missing principal.
PrincipalTree ==
    /\ Root \in alive
    /\ \A p \in alive : anc[p] \subseteq alive

\* The state is well-formed: every variable has its type, and the principals are
\* a tree that removals never cut.
WellFormed == TypeOK /\ PrincipalTree

\* A request is answered with a fresh allow only if, at that moment, neither the
\* requester's own policies nor the nearest deciding ancestor deny its target:
\* a denial installed while the approval was pending wins.
DenialWins ==
    [][\A r \in Requests :
         (phase[r] \in Waiting /\ result'[r].status = "allow"
            /\ result'[r].source \in {"agent", "llm", "user"})
         => /\ Own(r) = "none"
            /\ ~Denied(req[r].p, req[r].target)]_vars

\* A request that was aborted, expired or overtaken by shutdown is denied and
\* leaves every engine and the database alone, however late the reply.  A removed
\* principal's engine is frozen and no approval that captured it is granted: a
\* subagent that ended cannot gain or pass on a policy.
LateReplyInert ==
    [][/\ \A r \in Requests :
             (phase[r] \in Waiting /\ phase'[r] = "done" /\ (r \in aborted \/ closing))
             => /\ result'[r].status = "deny" /\ UNCHANGED <<pol, once, db>>
       /\ \A p \in Agents : (p \notin alive /\ p \notin alive')
             => /\ pol'[p] = pol[p]
                /\ \A r \in Requests : (phase[r] \in Waiting /\ p \in req[r].path)
                     => result'[r].source \notin {"agent", "llm", "user"}]_vars

\* A policy an agent approval installs has a scope that the approving ancestor
\* itself is allowed, by the policies it holds when the approval lands, and
\* reaches only principals below that ancestor on the way to the requester.
DerivedWithinAuthority ==
    [][\A r \in Requests :
         (phase[r] = "ancestor" /\ result'[r] = [status |-> "allow", source |-> "agent"])
         => LET a == req[r].authority IN
            /\ \A p \in Principals, s \in Scopes : pol'[p][s] # pol[p][s]
                 => /\ Authority(a, s) = "allow"
                    /\ p \in PathToRoot(req[r].p) /\ a \in anc[p]
            /\ \A s \in Scopes : once'[req[r].call][s] # once[req[r].call][s]
                 => Authority(a, s) = "allow"]_vars

\* A prompt opens only while no other is open, and for a request the policies of
\* that moment leave open, so a covering decision taken for an earlier prompt is
\* not asked for again.
NoRedundantPrompt ==
    [][\A r \in Requests : (phase[r] = "queued" /\ phase'[r] = "prompting")
         => /\ Own(r) = "none" /\ ~Denied(req[r].p, req[r].target)
            /\ default = "ask_user" /\ ~closing
            /\ \A x \in Requests : phase[x] \notin {"prompting", "chosen"}]_vars

\* Every request is answered, even if nobody ever replies.
EveryRequestAnswered == \A r \in Requests : phase[r] # "idle" ~> phase[r] = "done"

\* What is decided by now is heeded: it neither yields to a late approval nor is
\* asked about again.
PoliciesHeeded == DenialWins /\ NoRedundantPrompt

\* The principals stay a tree, and what an approval installs stays within the
\* authority that gave it.
AuthorityBounded == []WellFormed /\ DerivedWithinAuthority
=============================================================================
