--------------------------- MODULE ArchiveUpload ---------------------------
(***************************************************************************)
(* Uploading captured session files: the operations of                     *)
(* src/src/server/ArchiveWorkerEngine.ts and ArchiveWorkerState.ts against *)
(* the archive server, for one session and one destination.                *)
(*                                                                         *)
(* Each captured candidate is compared with the server's canonical version *)
(* and becomes a durable operation: publish with an exact base, preserve   *)
(* the upload beside the canonical version, or preserve the canonical      *)
(* version and then publish.  An operation is marked before it is sent.    *)
(* Replies are lost, requests are delayed past a retry, the worker dies,   *)
(* other machines publish, ancestry evidence changes after a capture, and  *)
(* an administrator restores the server, which starts a new history        *)
(* generation.                                                             *)
(*                                                                         *)
(* The server is external: it is modelled from the requests, replies and   *)
(* receipts the client relies on.  Servers that do not return metadata     *)
(* with a download, corrupt journal rows and byte budgets are left out.    *)
(***************************************************************************)
EXTENDS ArchiveReconciler, TLC

CONSTANTS
    Candidates,   \* captured files of the session
    Version,      \* the version each candidate holds
    Foreign,      \* versions other machines publish
    Support,      \* whether the server may have preserved_variants_v1
    Faults,       \* kinds of faults that may happen
    MaxFaults,    \* bound on their number
    MaxForeign,   \* bound on the writes of other machines
    MaxOps        \* bound on operations

FaultKinds == {"lost", "malformed", "crash", "unauthorized", "restore", "ancestry"}

ASSUME UploadAssumption ==
    /\ IsFiniteSet(Candidates) /\ Version \in [Candidates -> Versions] /\ Foreign \subseteq Versions
    /\ Support \subseteq BOOLEAN /\ Faults \subseteq FaultKinds
    /\ MaxFaults \in Nat /\ MaxForeign \in Nat /\ MaxOps \in Nat

Ops == 1 .. MaxOps

VARIABLES
    cand,       \* candidates: state
    fresh,      \* candidates that were never deferred (attempts = 0)
    authz,      \* candidates whose ancestry evidence is as observed
    coverage,   \* the history generation a candidate's coverage was proved in
    op,         \* operations
    binding,    \* history generation the destination is bound to; 0: unbound
    verified,   \* the binding was verified in this process
    login,      \* the connection: as when the files were queued, a later one, or blocked
    busy,       \* the operation whose reply is awaited; 0: none
    reply,      \* the reply that arrived for it
    net,        \* requests that may still reach the server
    canon, rev, variants, generation,   \* the server's session
    supported,  \* its capability
    receipts,   \* accepted operations, and the revision each left behind
    faults, foreign

workerVars == <<cand, fresh, authz, coverage, op, binding>>
procVars   == <<verified, login, busy, reply>>
serverVars == <<canon, rev, variants, generation, supported, receipts>>
boundVars  == <<faults, foreign>>
vars == <<workerVars, procVars, net, serverVars, boundVars>>

NoOp == [cand |-> "none", kind |-> "none", base |-> 0, gen |-> 0, state |-> "none",
         sent |-> FALSE, only |-> FALSE, dep |-> 0]

Unresolved == {o \in Ops : op[o].state \in {"ready", "uncertain"}}

Fault(k) == k \in Faults /\ faults < MaxFaults /\ faults' = faults + 1

\* The worker may use the network.
Online == verified /\ busy = 0 /\ login # "blocked"

-----------------------------------------------------------------------------
(* Capture                                                                 *)

\* capture(): a new candidate; one covered under another binding is taken up
\* again; one paused because its ancestry changed is released.
Retaken(c) == cand[c] = "covered" /\ coverage[c] # binding

Capture(c) ==
    /\ cand[c] = "absent" \/ Retaken(c) \/ cand[c] = "stale" \/ ~authz[c]
    /\ cand' = [cand EXCEPT ![c] = IF @ \in {"absent", "stale"} \/ Retaken(c) THEN "ready" ELSE @]
    /\ fresh' = IF cand[c] = "absent" \/ Retaken(c) THEN fresh \cup {c} ELSE fresh
    /\ coverage' = [coverage EXCEPT ![c] = IF Retaken(c) THEN 0 ELSE @]
    /\ authz' = [authz EXCEPT ![c] = TRUE]
    /\ UNCHANGED <<op, binding, procVars, net, serverVars, boundVars>>

\* observeSource(): the evidence a capture depended on is not what it was.
AncestryChanges(c) ==
    /\ authz[c] /\ cand[c] # "absent" /\ Fault("ancestry")
    /\ authz' = [authz EXCEPT ![c] = FALSE]
    /\ UNCHANGED <<cand, fresh, coverage, op, binding, procVars, net, serverVars, foreign>>

-----------------------------------------------------------------------------
(* Authorization                                                           *)

\* bind(): a new history generation fences what was prepared for the old one.
FencedNothing(o) == op[o]                                               \* mutant
Fenced(o) == IF o \in Unresolved THEN [op[o] EXCEPT !.state = "fenced"] ELSE op[o]

Bind ==
    /\ ~verified /\ busy = 0
    /\ login = "current" \/ (login = "later" /\ binding # 0)
    /\ verified' = TRUE /\ binding' = generation
    /\ LET rotated == binding # 0 /\ binding # generation IN
       /\ op' = [o \in Ops |-> IF rotated THEN Fenced(o) ELSE op[o]]
       /\ cand' = [c \in Candidates |->
                     IF cand[c] \in {"stale", "deferred"} THEN "ready" ELSE cand[c]]
    /\ UNCHANGED <<fresh, authz, coverage, login, busy, reply, net, serverVars, boundVars>>

\* The server refuses the credentials; a later login has its own generation.
Unauthorized ==
    /\ login # "blocked" /\ Fault("unauthorized")
    /\ login' = "blocked" /\ verified' = FALSE /\ busy' = 0 /\ reply' = "none"
    /\ UNCHANGED <<workerVars, net, serverVars, foreign>>

Login ==
    /\ login = "blocked" /\ login' = "later"
    /\ UNCHANGED <<workerVars, verified, busy, reply, net, serverVars, boundVars>>

Crash ==
    /\ (verified \/ busy # 0) /\ Fault("crash")
    /\ verified' = FALSE /\ busy' = 0 /\ reply' = "none"
    /\ UNCHANGED <<workerVars, login, net, serverVars, foreign>>

-----------------------------------------------------------------------------
(* Reconciling a candidate                                                 *)

\* prepare(): refused while the session has an unresolved operation.
Preparable == Unresolved = {}

Prepare(c, kind, base, dep) ==
    \E o \in Ops :
        /\ op[o] = NoOp /\ \A p \in Ops : p < o => op[p] # NoOp
        /\ op' = [op EXCEPT ![o] = [NoOp EXCEPT !.cand = c, !.kind = kind, !.base = base,
                                    !.gen = binding, !.state = "ready", !.dep = dep]]

Cover(c) ==
    /\ cand' = [cand EXCEPT ![c] = "covered"]
    /\ coverage' = [coverage EXCEPT ![c] = binding]

Latest(S) == CHOOSE o \in S : \A p \in S : p <= o

\* dependency(): the canonical version was preserved for this candidate.
Dependencies(c) ==
    {o \in Ops : /\ op[o].cand = c /\ op[o].kind = "current"
                 /\ op[o].state = "accepted" /\ op[o].gen = binding}

\* prepareKnownExtension(): the last publication accepted here is a prefix.
Published == {o \in Ops : /\ op[o].kind = "publish" /\ op[o].state = "accepted"
                          /\ op[o].gen = binding}
KnownExtension(c) ==
    /\ c \in fresh /\ Published # {}
    /\ LET v == Version[op[Latest(Published)].cand] IN
       /\ ProperPrefix(v, Version[c]) /\ ~LosesAssertion(v.meta, Version[c].meta)

\* nextCandidate() pauses a candidate whose ancestry evidence changed.
PauseCandidate(c) ==
    /\ Online /\ Unresolved = {} /\ cand[c] = "ready" /\ ~authz[c]
    /\ cand' = [cand EXCEPT ![c] = "stale"]
    /\ UNCHANGED <<fresh, authz, coverage, op, binding, procVars, net, serverVars, boundVars>>

ReconcilePrepared(c) ==
    /\ Online /\ Preparable /\ cand[c] = "ready" /\ authz[c]
    /\ \/ /\ Dependencies(c) # {}
          /\ LET d == Latest(Dependencies(c)) IN Prepare(c, "publish", op[d].base, d)
       \/ /\ Dependencies(c) = {} /\ KnownExtension(c)
          /\ Prepare(c, "publish", receipts[Latest(Published)], 0)
    /\ UNCHANGED <<cand, fresh, authz, coverage, binding, procVars, net, serverVars, boundVars>>

\* decide() on a download of the canonical version.
ReconcileDownload(c) ==
    /\ Online /\ Preparable /\ cand[c] = "ready" /\ authz[c]
    /\ Dependencies(c) = {} /\ ~KnownExtension(c)
    /\ binding = generation
    /\ LET decision == ReconcileArchive(Version[c], canon, supported) IN
       \/ decision = "covered" /\ Cover(c) /\ UNCHANGED op
       \/ decision = "publish" /\ Prepare(c, "publish", rev, 0) /\ UNCHANGED <<cand, coverage>>
       \/ decision = "preserve-uploaded"
          /\ Prepare(c, "uploaded", 0, 0) /\ UNCHANGED <<cand, coverage>>
       \/ decision = "preserve-current-then-publish"
          /\ Prepare(c, "current", rev, 0) /\ UNCHANGED <<cand, coverage>>
       \/ /\ decision = "defer"
          /\ cand' = [cand EXCEPT ![c] = "deferred"]
          /\ UNCHANGED <<op, coverage>>
    /\ UNCHANGED <<fresh, authz, binding, procVars, net, serverVars, boundVars>>

\* The download fails: the request is answered binding_mismatch, it is lost, or
\* its reply does not decode, which ends the candidate.
ReconcileFails(c) ==
    /\ Online /\ Preparable /\ cand[c] = "ready" /\ authz[c]
    /\ Dependencies(c) = {} /\ ~KnownExtension(c)
    /\ \/ /\ binding # generation /\ verified' = FALSE
          /\ UNCHANGED <<cand, fresh, boundVars>>
       \/ /\ Fault("lost") /\ fresh' = fresh \ {c}
          /\ UNCHANGED <<cand, verified, foreign>>
       \/ /\ Fault("malformed") /\ fresh' = fresh \ {c}
          /\ cand' = [cand EXCEPT ![c] = "invalid"]
          /\ UNCHANGED <<verified, foreign>>
    /\ UNCHANGED <<authz, coverage, op, binding, login, busy, reply, net, serverVars>>

-----------------------------------------------------------------------------
(* Executing an operation                                                  *)

\* May the request leave (again)?
Resend(o) == ~op[o].only /\ authz[op[o].cand]

\* nextOperation() on a request that may not be sent: one that may have been
\* sent before is kept for its receipt, another is retired.
RetiredAlways(o) == "fenced"                                            \* mutant
Retired(o) == IF op[o].sent THEN "uncertain" ELSE "fenced"

HoldOperation(o) ==
    /\ Online /\ op[o].state = "ready" /\ ~Resend(o)
    /\ op' = [op EXCEPT ![o].state = Retired(o)]
    /\ cand' = [cand EXCEPT ![op[o].cand] = "stale"]
    /\ UNCHANGED <<fresh, authz, coverage, binding, procVars, net, serverVars, boundVars>>

\* markUncertain(), then the request leaves, or the authorization check before
\* it fails.
Marked(o) == [op[o] EXCEPT !.state = "uncertain", !.sent = TRUE]

Dispatch(o) ==
    /\ Online /\ op[o].state = "ready" /\ Resend(o)
    /\ op' = [op EXCEPT ![o] = Marked(o)]
    /\ \/ net' = net \cup {o} /\ busy' = o /\ UNCHANGED boundVars
       \/ Fault("lost") /\ UNCHANGED <<net, busy, foreign>>
    /\ UNCHANGED <<cand, fresh, authz, coverage, binding, verified, login, reply, serverVars>>

\* accept(): a publication or a preserved upload covers its candidate.
Accept(o) ==
    /\ op' = [op EXCEPT ![o].state = "accepted"]
    /\ IF op[o].kind = "current" THEN UNCHANGED <<cand, coverage>> ELSE Cover(op[o].cand)

\* receipt() or preserveReceipt(), and replay() of an operation without one.
LookUpReceipt(o) ==
    /\ Online /\ op[o].state = "uncertain" /\ op[o].gen = generation
    /\ \/ /\ receipts[o] # 0 /\ Accept(o)
       \/ /\ receipts[o] = 0 /\ Resend(o)
          /\ op' = [op EXCEPT ![o].state = "ready"]
          /\ UNCHANGED <<cand, coverage>>
       \/ /\ receipts[o] = 0 /\ ~Resend(o)
          /\ cand' = IF op[o].only THEN cand ELSE [cand EXCEPT ![op[o].cand] = "stale"]
          /\ UNCHANGED <<op, coverage>>
    /\ UNCHANGED <<fresh, authz, binding, procVars, net, serverVars, boundVars>>

ReceiptMismatch(o) ==
    /\ Online /\ op[o].state = "uncertain" /\ op[o].gen # generation
    /\ verified' = FALSE
    /\ UNCHANGED <<workerVars, login, busy, reply, net, serverVars, boundVars>>

\* The reply: accept(); reject() on stale_base or already_exists, which fences
\* the dependency and asks for a fresh comparison; binding_mismatch.
Receive ==
    /\ busy # 0 /\ reply # "none"
    /\ busy' = 0 /\ reply' = "none"
    /\ \/ /\ reply = "accepted" /\ Accept(busy)
          /\ UNCHANGED <<fresh, verified>>
       \/ /\ reply = "stale"
          /\ op' = [o \in Ops |->
                      IF o = busy THEN [op[o] EXCEPT !.state = "rejected"]
                      ELSE IF o = op[busy].dep THEN [op[o] EXCEPT !.state = "fenced"] ELSE op[o]]
          /\ fresh' = fresh \ {op[busy].cand}
          /\ UNCHANGED <<cand, coverage, verified>>
       \/ /\ reply = "mismatch" /\ verified' = FALSE
          /\ UNCHANGED <<cand, coverage, op, fresh>>
    /\ UNCHANGED <<authz, binding, login, net, serverVars, boundVars>>

\* No reply arrives in time, or one that does not decode: failOperation().
ReplyLost ==
    /\ busy # 0 /\ Fault("lost") /\ busy' = 0 /\ reply' = "none"
    /\ UNCHANGED <<workerVars, verified, login, net, serverVars, foreign>>

ReplyMalformed ==
    /\ busy # 0 /\ reply # "none" /\ Fault("malformed") /\ busy' = 0 /\ reply' = "none"
    /\ op' = [op EXCEPT ![busy].only = TRUE]
    /\ UNCHANGED <<cand, fresh, authz, coverage, binding, verified, login, net, serverVars, foreign>>

-----------------------------------------------------------------------------
(* The server                                                              *)

\* A request is recognised by its operation identifier before its base is
\* looked at.  The base is the revision of the canonical version or of its
\* absence.
Outcome(o) ==
    IF op[o].gen # generation THEN "mismatch"
    ELSE IF receipts[o] # 0 THEN "accepted"
    ELSE IF op[o].kind # "uploaded" /\ op[o].base # rev THEN "stale"
    ELSE "commit"

\* The awaited request is answered; an earlier copy, or one nobody waits for any
\* more, is not.
Handle(o, awaited) ==
    /\ o \in net
    /\ net' = IF awaited THEN net \ {o} ELSE net
    /\ reply' = IF ~awaited \/ busy # o \/ reply # "none" THEN reply
                ELSE IF Outcome(o) = "commit" THEN "accepted" ELSE Outcome(o)
    /\ \/ Outcome(o) # "commit" /\ UNCHANGED serverVars
       \/ /\ Outcome(o) = "commit"
          /\ receipts' = [receipts EXCEPT ![o] = rev + 1]
          /\ rev' = IF op[o].kind = "publish" THEN rev + 1 ELSE rev
          /\ canon' = IF op[o].kind = "publish" THEN Version[op[o].cand] ELSE canon
          /\ variants' = CASE op[o].kind = "publish"  -> variants
                           [] op[o].kind = "uploaded" -> variants \cup {Version[op[o].cand]}
                           [] op[o].kind = "current"  -> variants \cup {canon}
          /\ UNCHANGED <<generation, supported>>
    /\ UNCHANGED <<workerVars, verified, login, busy, boundVars>>

\* Another machine keeps to the same rules.
ForeignWrite(v) ==
    /\ foreign < MaxForeign /\ foreign' = foreign + 1
    /\ \/ /\ canon = Absent \/ Covering(v, canon) \/ canon \in variants
          /\ canon' = v /\ rev' = rev + 1 /\ UNCHANGED variants
       \/ /\ canon # Absent
          /\ variants' = variants \cup {canon} /\ UNCHANGED <<canon, rev>>
    /\ UNCHANGED <<workerVars, procVars, net, generation, supported, receipts, faults>>

\* An administrator restores a backup: a new history generation.
Restore ==
    /\ Fault("restore")
    /\ generation' = generation + 1
    /\ rev' = rev + 1
    /\ canon' \in {Absent} \cup Foreign
    /\ variants' = {}
    /\ UNCHANGED <<workerVars, procVars, net, supported, receipts, foreign>>

-----------------------------------------------------------------------------
Init ==
    /\ cand = [c \in Candidates |-> "absent"]
    /\ fresh = {} /\ authz = [c \in Candidates |-> TRUE]
    /\ coverage = [c \in Candidates |-> 0]
    /\ op = [o \in Ops |-> NoOp]
    /\ binding = 0 /\ verified = FALSE /\ login = "current"
    /\ busy = 0 /\ reply = "none" /\ net = {}
    /\ canon = Absent /\ rev = 0 /\ variants = {} /\ generation = 1
    /\ supported \in Support
    /\ receipts = [o \in Ops |-> 0]
    /\ faults = 0 /\ foreign = 0

Reconcile(c) == ReconcilePrepared(c) \/ ReconcileDownload(c) \/ PauseCandidate(c)
Execute(o)   == Dispatch(o) \/ HoldOperation(o) \/ LookUpReceipt(o) \/ ReceiptMismatch(o)

Next ==
    \/ \E c \in Candidates : \/ Capture(c) \/ AncestryChanges(c)
                             \/ Reconcile(c) \/ ReconcileFails(c)
    \/ \E o \in Ops : Execute(o) \/ Handle(o, TRUE) \/ Handle(o, FALSE)
    \/ \E v \in Foreign : ForeignWrite(v)
    \/ Bind \/ Unauthorized \/ Login \/ Crash \/ Receive \/ ReplyLost \/ ReplyMalformed \/ Restore

Spec == Init /\ [][Next]_vars

\* The worker keeps stepping and the server answers; nothing is assumed of
\* captures, logins and other machines.
Fairness ==
    /\ WF_vars(Bind) /\ WF_vars(Receive)
    /\ \A c \in Candidates : WF_vars(Reconcile(c)) /\ WF_vars(ReconcileFails(c) /\ binding # generation)
    /\ \A o \in Ops : WF_vars(Execute(o)) /\ WF_vars(Handle(o, TRUE))

FairSpec == Spec /\ Fairness

-----------------------------------------------------------------------------
(* Properties                                                              *)

OpRecords == [cand : Candidates \cup {"none"}, kind : {"none", "publish", "uploaded", "current"},
              base : Nat, gen : Nat,
              state : {"none", "ready", "uncertain", "accepted", "rejected", "fenced"},
              sent : BOOLEAN, only : BOOLEAN, dep : Ops \cup {0}]

\* Every variable has its type.
TypeOK ==
    /\ cand \in [Candidates -> {"absent", "ready", "stale", "deferred", "invalid", "covered"}]
    /\ fresh \subseteq Candidates /\ authz \in [Candidates -> BOOLEAN]
    /\ coverage \in [Candidates -> Nat]
    /\ op \in [Ops -> OpRecords]
    /\ binding \in Nat /\ verified \in BOOLEAN /\ login \in {"current", "later", "blocked"}
    /\ busy \in Ops \cup {0} /\ reply \in {"none", "accepted", "stale", "mismatch"}
    /\ net \subseteq Ops
    /\ canon \in Versions \cup {Absent} /\ rev \in Nat /\ variants \subseteq Versions
    /\ generation \in Nat /\ supported \in BOOLEAN /\ receipts \in [Ops -> Nat]
    /\ faults \in 0 .. MaxFaults /\ foreign \in 0 .. MaxForeign

\* A session has at most one unresolved operation, so no two requests of this
\* worker can race one another on the server.
OneUnresolved == \A o, p \in Unresolved : o = p

\* The journal is well-formed: every variable has its type, and the operations of
\* the session take turns.
WellFormed == TypeOK /\ OneUnresolved

\* An operation this worker has given up in the present generation never took
\* effect, and never will: whatever is still in the network is refused.  A
\* preserved canonical version whose publication was refused is the exception.
GivenUpNeverCommits ==
    \A o \in Ops : (/\ op[o].state \in {"rejected", "fenced"} /\ op[o].gen = generation
                    /\ ~(op[o].kind = "current" /\ op[o].state = "fenced"))
                   => /\ receipts[o] = 0
                      /\ o \in net => Outcome(o) # "commit"

\* The worker, the server and the other machines together keep the promise of
\* ArchiveStore: nothing is overwritten before it is covered or preserved, and
\* what the worker holds to be archived is stored.
Store == INSTANCE ArchiveStore
    WITH archived <- {Version[c] : c \in {x \in Candidates : /\ cand[x] = "covered"
                                                             /\ coverage[x] = generation}}
StoreKept == Store!Spec

\* Every captured file is archived in the end, although replies are lost, the
\* worker dies and other machines win the race for the canonical version, unless
\* it is held back: for want of the server's support or of valid credentials,
\* because its ancestry changed or its comparison was unreadable, or by an
\* operation that may not be sent again and has no receipt.  (Or the bound on
\* operations is used up, which takes two restores.)
Exhausted == \A o \in Ops : op[o] # NoOp
HeldBack(c) ==
    \/ Exhausted
    \/ cand[c] \in {"absent", "stale", "deferred", "invalid"}
    \/ login = "blocked" \/ (login = "later" /\ binding = 0)
    \/ \E o \in Unresolved : ~Resend(o)

EveryCandidateArchived == \A c \in Candidates : []<>(cand[c] = "covered" \/ HeldBack(c))

\* Operations take turns, and one that was given up stays without effect.
OperationsFenced == WellFormed /\ GivenUpNeverCommits
=============================================================================
