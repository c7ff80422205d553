------------------------- MODULE ArchiveUploadProofs -------------------------
(***************************************************************************)
(* Proofs about ArchiveUpload, for any candidates, versions, faults and    *)
(* bounds: operations take turns and one that was given up stays without   *)
(* effect; and worker, server and other machines together implement        *)
(* ArchiveStore, so that nothing held to be archived is lost.              *)
(*                                                                         *)
(* And about the other journal in pilot.sqlite, ConfigSync, for any        *)
(* settings and bounds: an exchange loses no save, stands for one request, *)
(* and deletes no rule for the other devices.                              *)
(***************************************************************************)
EXTENDS ArchiveUpload, ConfigSync, WellFoundedInduction, TLAPS

-----------------------------------------------------------------------------
(* The inductive invariant                                                 *)

\* Histories only move forward: nothing belongs to a later generation than the
\* binding, and what is unresolved belongs to the binding itself.
Generations ==
    /\ 0 < generation /\ binding <= generation /\ (verified => 0 < binding)
    /\ \A c \in Candidates : coverage[c] <= binding
    /\ \A o \in Ops : /\ op[o].gen <= binding /\ (o \in Unresolved => op[o].gen = binding)
                      /\ op[o].state # "none" => 0 < op[o].gen

\* An operation in use has a candidate and a kind; one never sent is neither on its
\* way nor known to the server; an accepted one is; a dependency preserved the
\* canonical version.
Shaped(o) ==
    /\ op[o].state = "none" => op[o] = NoOp
    /\ op[o].state # "none" => op[o].cand \in Candidates /\ op[o].kind # "none"
    /\ ~op[o].sent => o \notin net /\ receipts[o] = 0
    /\ op[o].state = "accepted" => receipts[o] # 0
    /\ op[o].dep # 0 => op[op[o].dep].kind = "current"
    /\ o \in Unresolved => cand[op[o].cand] # "covered"

\* The reply that is awaited.
Awaited ==
    /\ busy = 0 => reply = "none"
    /\ busy # 0 => op[busy].state = "uncertain"
    /\ reply = "accepted" => receipts[busy] # 0
    /\ reply = "stale" /\ op[busy].gen = generation =>
         receipts[busy] = 0 /\ op[busy].kind # "uploaded" /\ op[busy].base < rev

\* Bases and receipts are revisions of the past.
Revisions(o) ==
    /\ op[o].kind # "uploaded" => op[o].base <= rev
    /\ op[o].kind = "publish" => receipts[o] <= rev

\* What an operation of the present generation and the server's store have to do
\* with each other.
Present(o) == op[o].gen = generation =>
    /\ op[o].kind = "publish" /\ op[o].base = rev /\ receipts[o] = 0 => Store!Replaceable(Version[op[o].cand])
    /\ op[o].kind = "current" /\ op[o].base = rev => canon # Absent /\ (receipts[o] # 0 => canon \in variants)
    /\ op[o].kind = "publish" /\ receipts[o] = rev /\ receipts[o] # 0 => canon = Version[op[o].cand]
    /\ op[o].kind \in {"publish", "uploaded"} /\ receipts[o] # 0 => Store!Stored(Version[op[o].cand])
    /\ op[o].state \in {"rejected", "fenced"} /\ ~(op[o].kind = "current" /\ op[o].state = "fenced") =>
         receipts[o] = 0 /\ (op[o].sent => op[o].kind # "uploaded" /\ op[o].base < rev)

UploadInv ==
    /\ TypeOK /\ OneUnresolved /\ Generations /\ Awaited
    /\ \A o \in Ops : Shaped(o) /\ Revisions(o) /\ Present(o)

\* The store speaks of versions as the reconciler does.
LEMMA StoreTerms ==
    /\ Store!Absent = Absent /\ Store!Versions = Versions
    /\ \A v : Store!Replaceable(v) <=> canon = Absent \/ Covering(v, canon) \/ canon \in variants
    /\ \A v : Store!Stored(v) <=> \E s \in variants \cup {canon} : Covering(s, v)
BY DEF Store!Absent, Absent, Store!Versions, Versions, Store!Replaceable, Store!Stored, Store!Covering, Covering,
       Store!ProperPrefix, ProperPrefix

LEMMA StoreTermsNext ==
    ASSUME NEW v
    PROVE  /\ Store!Replaceable(v)' <=> canon' = Absent \/ Covering(v, canon') \/ canon' \in variants'
           /\ Store!Stored(v)' <=> \E s \in variants' \cup {canon'} : Covering(s, v)
BY DEF Store!Absent, Absent, Store!Replaceable, Store!Stored, Store!Covering, Covering, Store!ProperPrefix, ProperPrefix

-----------------------------------------------------------------------------
(* Steps of the worker                                                     *)

LEMMA UnresolvedOp ==
    ASSUME NEW o \in Ops
    PROVE  o \in Unresolved <=> op[o].state \in {"ready", "uncertain"}
BY DEF Unresolved

LEMMA OpFacts ==
    ASSUME UploadInv, NEW o \in Ops
    PROVE  /\ op[o] \in OpRecords /\ op[o].gen \in Nat /\ op[o].base \in Nat /\ op[o].dep \in Ops \cup {0}
           /\ op[o].gen <= binding /\ (o \in Unresolved => op[o].gen = binding)
           /\ op[o].state # "none" => 0 < op[o].gen
           /\ Shaped(o) /\ Revisions(o) /\ Present(o)
           /\ o \in Unresolved <=> op[o].state \in {"ready", "uncertain"}
<1>1. op[o] \in OpRecords /\ Generations /\ Shaped(o) /\ Revisions(o) /\ Present(o)
  BY DEF UploadInv, TypeOK
<1>2. op[o].gen \in Nat /\ op[o].base \in Nat /\ op[o].dep \in Ops \cup {0}
  BY <1>1 DEF OpRecords
<1>3. /\ op[o].gen <= binding /\ (o \in Unresolved => op[o].gen = binding)
      /\ op[o].state # "none" => 0 < op[o].gen
  BY <1>1 DEF Generations
<1> QED BY <1>1, <1>2, <1>3, UnresolvedOp

\* A step that leaves the operations, the network and the server alone.
LEMMA QuietKeeps ==
    ASSUME UploadInv, TypeOK', Awaited', UNCHANGED <<op, binding, net, serverVars>>,
           verified' => verified, \A c \in Candidates : coverage'[c] <= binding,
           \A o \in Unresolved : cand'[op[o].cand] # "covered"
    PROVE  UploadInv'
<1>1. UNCHANGED <<canon, rev, variants, generation, supported, receipts>> /\ Unresolved' = Unresolved
  BY DEF serverVars, Unresolved
<1>2. OneUnresolved' /\ Generations'
  BY <1>1 DEF UploadInv, OneUnresolved, Generations
<1>3. ASSUME NEW o \in Ops PROVE Shaped(o)' /\ Revisions(o)' /\ Present(o)'
  <2>1. Shaped(o) /\ Revisions(o) /\ Present(o)
    BY DEF UploadInv
  <2> QED BY <1>1, <2>1 DEF Shaped, Revisions, Present, Store!Replaceable, Store!Stored
<1> QED BY <1>2, <1>3 DEF UploadInv

\* A step that changes one operation and leaves the server alone.
LEMMA OneOpKeeps ==
    ASSUME UploadInv, TypeOK', Awaited', NEW o \in Ops, \A p \in Ops : p # o => op'[p] = op[p] /\ (p \in net' => p \in net),
           UNCHANGED <<binding, serverVars>>, verified' => verified, \A c \in Candidates : coverage'[c] <= binding,
           op[o].kind = "current" => op'[o].kind = "current",
           op'[o].gen <= binding, op'[o].state \in {"ready", "uncertain"} => op'[o].gen = binding,
           op'[o].state # "none" => 0 < op'[o].gen,
           op'[o].state \in {"ready", "uncertain"} => Unresolved \subseteq {o},
           \A p \in Unresolved : p # o => cand'[op[p].cand] # "covered",
           Shaped(o)', Revisions(o)', Present(o)'
    PROVE  UploadInv'
<1>1. UNCHANGED <<canon, rev, variants, generation, supported, receipts>>
  BY DEF serverVars
<1>2. \A p \in Ops : p # o => (p \in Unresolved' <=> p \in Unresolved)
  BY DEF Unresolved
<1>3. o \in Unresolved' <=> op'[o].state \in {"ready", "uncertain"}
  BY DEF Unresolved
<1>4. OneUnresolved'
  <2>1. ASSUME NEW p \in Unresolved', NEW q \in Unresolved' PROVE p = q
    <3>1. p \in Ops /\ q \in Ops
      BY <2>1 DEF Unresolved
    <3> QED BY <1>2, <1>3, <2>1, <3>1 DEF UploadInv, OneUnresolved
  <2> QED BY <2>1 DEF OneUnresolved
<1>5. Generations'
  <2>1. ASSUME NEW p \in Ops
        PROVE  /\ op'[p].gen <= binding' /\ (p \in Unresolved' => op'[p].gen = binding')
               /\ op'[p].state # "none" => 0 < op'[p].gen
    <3>1. CASE p = o
      BY <1>3, <3>1
    <3>2. CASE p # o
      BY <1>2, <3>2, OpFacts
    <3> QED BY <3>1, <3>2
  <2> QED BY <1>1, <2>1 DEF UploadInv, Generations
<1>6. ASSUME NEW p \in Ops, p # o PROVE Shaped(p)' /\ Revisions(p)' /\ Present(p)'
  <2>1. Shaped(p) /\ Revisions(p) /\ Present(p) /\ op'[p] = op[p]
    BY <1>6 DEF UploadInv
  <2>2. op[p].dep # 0 => op'[op[p].dep].kind = "current"
    <3>1. op[p].dep \in Ops \cup {0}
      BY DEF UploadInv, TypeOK, OpRecords
    <3> QED BY <2>1, <3>1 DEF Shaped
  <2>3. Shaped(p)'
    BY <1>1, <1>2, <1>6, <2>1, <2>2 DEF Shaped
  <2>4. Revisions(p)' /\ Present(p)'
    BY <1>1, <2>1 DEF Revisions, Present, Store!Replaceable, Store!Stored
  <2> QED BY <2>3, <2>4
<1> QED BY <1>4, <1>5, <1>6 DEF UploadInv

\* Captures, pauses, failed downloads, lost replies, logins and crashes.
LEMMA CaptureKeeps ==
    ASSUME UploadInv, NEW c \in Candidates, Capture(c) \/ AncestryChanges(c) \/ PauseCandidate(c)
    PROVE  UploadInv'
<1>0. TypeOK /\ Awaited /\ Generations
  BY DEF UploadInv
<1>1. UNCHANGED <<op, binding, net, serverVars>> /\ UNCHANGED <<verified, login, busy, reply>>
  BY DEF Capture, AncestryChanges, PauseCandidate, procVars
<1>2. TypeOK'
  <2>1. CASE Capture(c)
    BY <1>0, <2>1 DEF Capture, TypeOK, procVars, serverVars, boundVars
  <2>2. CASE AncestryChanges(c)
    BY <1>0, <2>2, UploadAssumption DEF AncestryChanges, Fault, TypeOK, procVars, serverVars, boundVars
  <2>3. CASE PauseCandidate(c)
    BY <1>0, <2>3 DEF PauseCandidate, TypeOK, procVars, serverVars, boundVars
  <2> QED BY <2>1, <2>2, <2>3
<1>3. Awaited'
  BY <1>0, <1>1 DEF Awaited, serverVars
<1>4. \A x \in Candidates : cand'[x] = "covered" => cand[x] = "covered"
  BY <1>0 DEF Capture, AncestryChanges, PauseCandidate, TypeOK
<1>5. \A x \in Candidates : coverage'[x] <= binding
  BY <1>0 DEF Capture, AncestryChanges, PauseCandidate, TypeOK, Generations
<1>6. \A o \in Unresolved : op[o].cand \in Candidates /\ cand[op[o].cand] # "covered"
  BY DEF UploadInv, Shaped, Unresolved
<1> QED BY <1>1, <1>2, <1>3, <1>4, <1>5, <1>6, QuietKeeps

LEMMA ConnectionKeeps ==
    ASSUME UploadInv, Unauthorized \/ Login \/ Crash \/ ReplyLost \/ (\E o \in Ops : ReceiptMismatch(o))
                      \/ (\E c \in Candidates : ReconcileFails(c))
    PROVE  UploadInv'
<1>0. TypeOK /\ Awaited /\ Generations
  BY DEF UploadInv
<1> USE DEF Unauthorized, Login, Crash, ReplyLost, ReceiptMismatch, ReconcileFails, workerVars
<1>1. /\ UNCHANGED <<op, binding, net, serverVars>> /\ coverage' = coverage
      /\ verified' => verified
  BY <1>0 DEF TypeOK
<1>2. TypeOK'
  <2>1. UNCHANGED <<canon, rev, variants, generation, supported, receipts, op, binding, net, coverage>>
    BY <1>1 DEF serverVars
  <2>2. faults' \in 0 .. MaxFaults /\ foreign' = foreign
    BY <1>0, UploadAssumption DEF Fault, TypeOK, boundVars
  <2>3. /\ cand' \in [Candidates -> {"absent", "ready", "stale", "deferred", "invalid", "covered"}]
        /\ fresh' \subseteq Candidates /\ authz' = authz
    BY <1>0 DEF TypeOK
  <2>4. /\ verified' \in BOOLEAN /\ login' \in {"current", "later", "blocked"}
        /\ busy' \in {busy, 0} /\ reply' \in {reply, "none"}
    BY <1>0 DEF TypeOK
  <2> QED BY <1>0, <2>1, <2>2, <2>3, <2>4 DEF TypeOK
<1>3. Awaited'
  <2>1. UNCHANGED <<busy, reply>> \/ (busy' = 0 /\ reply' = "none")
    OBVIOUS
  <2> QED BY <1>0, <1>1, <2>1 DEF Awaited, serverVars
<1>4. \A x \in Candidates : cand'[x] = "covered" => cand[x] = "covered"
  BY <1>0 DEF TypeOK
<1>5. \A x \in Candidates : coverage'[x] <= binding
  BY <1>0, <1>1 DEF Generations
<1>6. \A o \in Unresolved : op[o].cand \in Candidates /\ cand[op[o].cand] # "covered"
  BY DEF UploadInv, Shaped, Unresolved
<1> QED BY <1>1, <1>2, <1>3, <1>4, <1>5, <1>6, QuietKeeps

\* A new history generation fences what was prepared for the old one.
LEMMA BindKeeps ==
    ASSUME UploadInv, Bind
    PROVE  UploadInv'
<1>0. TypeOK /\ Awaited /\ Generations /\ OneUnresolved
  BY DEF UploadInv
<1>1. /\ binding' = generation /\ busy = 0 /\ verified' = TRUE /\ UNCHANGED <<fresh, authz, coverage, login, busy, reply, net>>
      /\ UNCHANGED <<canon, rev, variants, generation, supported, receipts, faults, foreign>>
  BY DEF Bind, serverVars, boundVars
<1>2. ASSUME NEW o \in Ops
      PROVE  /\ op'[o] \in OpRecords /\ op'[o].gen = op[o].gen /\ op'[o].kind = op[o].kind /\ op'[o].cand = op[o].cand
             /\ op'[o].base = op[o].base /\ op'[o].dep = op[o].dep /\ op'[o].sent = op[o].sent
             /\ \/ op'[o] = op[o] /\ (o \in Unresolved => binding = generation)
                \/ o \in Unresolved /\ op'[o].state = "fenced" /\ binding # generation
  <2>1. op[o] \in OpRecords
    BY <1>0 DEF TypeOK
  <2>2. o \in Unresolved => binding # 0
    <3>1. o \in Unresolved => op[o].state # "none" /\ op[o].gen = binding
      BY OpFacts
    <3> QED BY <3>1, OpFacts
  <2> QED BY <2>1, <2>2 DEF Bind, Fenced, OpRecords
<1>3. op' \in [Ops -> OpRecords]
  BY <1>2 DEF Bind
<1>4. cand' \in [Candidates -> {"absent", "ready", "stale", "deferred", "invalid", "covered"}]
      /\ \A x \in Candidates : cand'[x] = "covered" => cand[x] = "covered"
  BY <1>0 DEF Bind, TypeOK
<1>5. TypeOK'
  BY <1>0, <1>1, <1>3, <1>4 DEF TypeOK
<1>6. \A o \in Ops : o \in Unresolved' => o \in Unresolved /\ op'[o] = op[o] /\ binding = generation
  BY <1>2 DEF Unresolved
<1>7. OneUnresolved'
  BY <1>0, <1>6 DEF OneUnresolved, Unresolved
<1>8. Generations'
  <2>1. binding \in Nat /\ generation \in Nat /\ binding <= generation /\ 0 < generation
    BY <1>0 DEF TypeOK, Generations
  <2>2. \A c \in Candidates : coverage[c] \in Nat /\ coverage[c] <= binding
    BY <1>0 DEF TypeOK, Generations
  <2>3. ASSUME NEW o \in Ops
        PROVE  /\ op'[o].gen <= generation /\ (o \in Unresolved' => op'[o].gen = generation)
               /\ op'[o].state # "none" => 0 < op'[o].gen
    <3>1. op[o].gen \in Nat /\ op[o].gen <= binding /\ (o \in Unresolved => op[o].gen = binding) /\ (op[o].state # "none" => 0 < op[o].gen)
      BY OpFacts
    <3>2. o \in Unresolved => op[o].state # "none"
      BY DEF Unresolved
    <3> QED BY <1>2, <1>6, <2>1, <3>1, <3>2
  <2> QED BY <1>1, <2>1, <2>2, <2>3 DEF Generations
<1>9. Awaited'
  BY <1>0, <1>1 DEF Awaited
<1>10. ASSUME NEW o \in Ops PROVE Shaped(o)' /\ Revisions(o)' /\ Present(o)'
  <2>1. Shaped(o) /\ Revisions(o) /\ Present(o)
    BY DEF UploadInv
  <2>2. op[o].dep # 0 => op'[op[o].dep].kind = "current"
    <3>1. op[o].dep \in Ops \cup {0}
      BY <1>0 DEF TypeOK, OpRecords
    <3> QED BY <1>2, <2>1, <3>1 DEF Shaped
  <2>3. op[o].state # "none" => op[o].cand \in Candidates
    BY <2>1 DEF Shaped
  <2>4. o \in Unresolved => op[o].state # "none"
    BY DEF Unresolved
  <2>5. Shaped(o)'
    BY <1>1, <1>2, <1>4, <1>6, <2>1, <2>2, <2>3, <2>4 DEF Shaped
  <2>6. Revisions(o)'
    BY <1>1, <1>2, <2>1 DEF Revisions
  <2>7. CASE op'[o] = op[o]
    BY <1>1, <2>1, <2>5, <2>6, <2>7 DEF Present, Store!Replaceable, Store!Stored
  <2>8. CASE op'[o] # op[o]
    <3>1. op'[o].gen # generation'
      BY <1>1, <1>2, <2>8, OpFacts
    <3> QED BY <2>5, <2>6, <3>1 DEF Present
  <2> QED BY <2>5, <2>6, <2>7, <2>8
<1> QED BY <1>5, <1>7, <1>8, <1>9, <1>10 DEF UploadInv

\* A candidate becomes an operation: it may only ask for what the store allows.
LEMMA PrepareKeeps ==
    ASSUME UploadInv, NEW c \in Candidates, NEW kind \in {"publish", "uploaded", "current"}, NEW base \in Nat,
           NEW dep \in Ops \cup {0}, Online, Preparable, cand[c] = "ready", Prepare(c, kind, base, dep),
           UNCHANGED <<cand, fresh, authz, coverage, binding, procVars, net, serverVars, boundVars>>,
           dep # 0 => op[dep].kind = "current", kind # "uploaded" => base <= rev,
           binding = generation => /\ kind = "publish" /\ base = rev => Store!Replaceable(Version[c])
                                   /\ kind = "current" /\ base = rev => canon # Absent
    PROVE  UploadInv'
<1>0. TypeOK /\ Awaited /\ Generations /\ Unresolved = {}
  BY DEF UploadInv, Preparable
<1> DEFINE n == [NoOp EXCEPT !.cand = c, !.kind = kind, !.base = base, !.gen = binding, !.state = "ready", !.dep = dep]
<1>1. PICK o \in Ops : op[o] = NoOp /\ op' = [op EXCEPT ![o] = n]
  BY DEF Prepare
<1>2. /\ n \in OpRecords /\ n.cand = c /\ n.kind = kind /\ n.base = base /\ n.gen = binding /\ n.state = "ready"
      /\ n.dep = dep /\ n.sent = FALSE
  BY <1>0 DEF NoOp, OpRecords, TypeOK
<1> HIDE DEF n
<1>3. op' \in [Ops -> OpRecords] /\ op'[o] = n /\ \A p \in Ops : p # o => op'[p] = op[p]
  BY <1>0, <1>1, <1>2 DEF TypeOK
<1>4. /\ UNCHANGED <<cand, fresh, authz, coverage, binding, verified, login, busy, reply, net>>
      /\ UNCHANGED <<canon, rev, variants, generation, supported, receipts, faults, foreign>>
  BY DEF procVars, serverVars, boundVars
<1>5. TypeOK'
  BY <1>0, <1>3, <1>4 DEF TypeOK
<1>6. Awaited'
  BY <1>0, <1>4 DEF Awaited, Online
<1>7. ~op[o].sent /\ op[o].kind # "current"
  BY <1>1 DEF NoOp
<1>8. o \notin net /\ receipts[o] = 0
  BY <1>7, OpFacts DEF Shaped
<1>9. Shaped(o)'
  <2>1. dep # 0 => op'[dep].kind = "current"
    BY <1>3, <1>7
  <2> QED BY <1>2, <1>3, <1>4, <1>8, <2>1 DEF Shaped
<1>10. Revisions(o)'
  BY <1>0, <1>2, <1>3, <1>4, <1>8 DEF Revisions, TypeOK
<1>11. Present(o)'
  BY <1>2, <1>3, <1>4, <1>8 DEF Present, Store!Replaceable, Store!Stored
<1>12. binding \in Nat /\ 0 < binding
  BY <1>0 DEF TypeOK, Generations, Online
<1>13. \A x \in Candidates : coverage'[x] <= binding
  BY <1>0, <1>4 DEF Generations
<1>14. UNCHANGED <<binding, serverVars>> /\ (verified' => verified)
  BY <1>4
<1> QED BY <1>0, <1>2, <1>3, <1>4, <1>5, <1>6, <1>7, <1>9, <1>10, <1>11, <1>12, <1>13, <1>14, OneOpKeeps

\* Of a nonempty set of operations one is the latest.
LEMMA LatestIsOne ==
    ASSUME NEW S, S \subseteq Ops, S # {}
    PROVE  Latest(S) \in S
<1> DEFINE left(o) == MaxOps - o
           D == {left(o) : o \in S}
<1>0. MaxOps \in Nat /\ \A o \in S : o \in Nat /\ left(o) \in Nat
  BY UploadAssumption DEF Ops
<1>1. D \subseteq Nat /\ D # {}
  BY <1>0
<1>2. PICK x \in D : \A y \in D : ~(<<y, x>> \in OpToRel(<, Nat))
  <2> HIDE DEF D
  <2> QED BY <1>1, NatLessThanWellFounded, WFMin
<1>3. PICK o \in S : x = left(o)
  BY <1>2
<1>4. ASSUME NEW p \in S PROVE p <= o
  <2>1. left(p) \in D /\ left(p) \in Nat /\ x \in Nat
    BY <1>0, <1>3
  <2>2. left(p) < x => <<left(p), x>> \in OpToRel(<, Nat)
    <3> HIDE DEF left, D
    <3> QED BY <2>1 DEF OpToRel
  <2>3. ~(left(p) < x)
    <3> HIDE DEF left, D
    <3> QED BY <1>2, <2>1, <2>2
  <2> QED BY <1>0, <1>3, <2>3
<1> QED BY <1>3, <1>4 DEF Latest

\* What reconcileArchive() decides is what the store allows.
LEMMA DecisionAllowed ==
    ASSUME NEW mine \in Versions, NEW remote \in Versions \cup {Absent}, NEW sup \in BOOLEAN
    PROVE  /\ ReconcileArchive(mine, remote, sup) = "publish" => remote = Absent \/ Covering(mine, remote)
           /\ ReconcileArchive(mine, remote, sup) = "covered" => remote # Absent /\ Covering(remote, mine)
           /\ ReconcileArchive(mine, remote, sup) = "preserve-current-then-publish" => remote # Absent
<1>1. CASE remote = Absent
  BY <1>1 DEF ReconcileArchive
<1>2. CASE remote # Absent
  <2>1. mine # Absent /\ remote \in Versions
    BY <1>2, BodiesAssumption DEF Versions, Absent
  <2>2. mine.body = remote.body /\ mine.meta = remote.meta => mine = remote
    BY <2>1 DEF Versions
  <2> QED BY <1>2, <2>1, <2>2 DEF ReconcileArchive, Preservation, LosesAssertion, Covering
<1> QED BY <1>1, <1>2

\* A dependency, or the last publication known here, stands behind the base.
LEMMA PreparedKeeps ==
    ASSUME UploadInv, NEW c \in Candidates, ReconcilePrepared(c)
    PROVE  UploadInv'
<1>0. TypeOK /\ Generations
  BY DEF UploadInv
<1>1. /\ Online /\ Preparable /\ cand[c] = "ready"
      /\ UNCHANGED <<cand, fresh, authz, coverage, binding, procVars, net, serverVars, boundVars>>
  BY DEF ReconcilePrepared
<1>2. ASSUME Dependencies(c) # {}, Prepare(c, "publish", op[Latest(Dependencies(c))].base, Latest(Dependencies(c)))
      PROVE  UploadInv'
  <2>1. PICK d \in Dependencies(c) : d = Latest(Dependencies(c))
    BY <1>2, LatestIsOne DEF Dependencies
  <2>2. d \in Ops /\ op[d].kind = "current" /\ op[d].state = "accepted" /\ op[d].gen = binding
    BY <2>1 DEF Dependencies
  <2>3. receipts[d] # 0 /\ op[d].base \in Nat /\ op[d].base <= rev /\ Present(d)
    BY <2>2, OpFacts DEF Shaped, Revisions
  <2>4. binding = generation /\ op[d].base = rev => Store!Replaceable(Version[c])
    BY <2>2, <2>3 DEF Present, Store!Replaceable
  <2>5. Prepare(c, "publish", op[d].base, d)
    BY <1>2, <2>1
  <2> QED BY <1>1, <2>2, <2>3, <2>4, <2>5, PrepareKeeps
<1>3. ASSUME KnownExtension(c), Prepare(c, "publish", receipts[Latest(Published)], 0)
      PROVE  UploadInv'
  <2>1. PICK p \in Published : p = Latest(Published)
    BY <1>3, LatestIsOne DEF Published, KnownExtension
  <2>2. p \in Ops /\ op[p].kind = "publish" /\ op[p].state = "accepted" /\ op[p].gen = binding
    BY <2>1 DEF Published
  <2>3. receipts[p] # 0 /\ receipts[p] \in Nat /\ receipts[p] <= rev /\ Present(p) /\ op[p].cand \in Candidates
    BY <1>0, <2>2, OpFacts DEF Shaped, Revisions, TypeOK
  <2>4. ProperPrefix(Version[op[p].cand], Version[c]) /\ ~LosesAssertion(Version[op[p].cand].meta, Version[c].meta)
    BY <1>3, <2>1 DEF KnownExtension
  <2>5. Version[c] # Absent
    BY UploadAssumption, BodiesAssumption DEF Versions, Absent
  <2>6. binding = generation /\ receipts[p] = rev => Store!Replaceable(Version[c])
    <3>1. binding = generation /\ receipts[p] = rev => canon = Version[op[p].cand]
      BY <2>2, <2>3 DEF Present
    <3>2. Covering(Version[c], Version[op[p].cand])
      BY <2>4, <2>5 DEF Covering, LosesAssertion
    <3> QED BY <3>1, <3>2, StoreTerms
  <2>7. Prepare(c, "publish", receipts[p], 0)
    BY <1>3, <2>1
  <2> QED BY <1>1, <2>3, <2>6, <2>7, PrepareKeeps
<1> QED BY <1>2, <1>3 DEF ReconcilePrepared

\* A comparison with the canonical version.
LEMMA DownloadKeeps ==
    ASSUME UploadInv, NEW c \in Candidates, ReconcileDownload(c)
    PROVE  UploadInv'
<1>0. TypeOK /\ Generations /\ Awaited /\ Version[c] \in Versions /\ canon \in Versions \cup {Absent} /\ supported \in BOOLEAN /\ rev \in Nat
  BY UploadAssumption DEF UploadInv, TypeOK
<1>1. /\ Online /\ Preparable /\ cand[c] = "ready" /\ binding = generation
      /\ UNCHANGED <<fresh, authz, binding, procVars, net, serverVars, boundVars>>
  BY DEF ReconcileDownload
<1> DEFINE decision == ReconcileArchive(Version[c], canon, supported)
<1>2. /\ decision = "publish" => Store!Replaceable(Version[c])
      /\ decision = "preserve-current-then-publish" => canon # Absent
  <2>1. /\ decision = "publish" => canon = Absent \/ Covering(Version[c], canon)
        /\ decision = "preserve-current-then-publish" => canon # Absent
    BY <1>0, DecisionAllowed
  <2> QED BY <2>1, StoreTerms
<1> HIDE DEF decision
<1>3. CASE \E kind \in {"publish", "uploaded", "current"}, base \in Nat :
             /\ Prepare(c, kind, base, 0) /\ UNCHANGED <<cand, coverage>>
             /\ kind # "uploaded" => base = rev
             /\ kind = "publish" => decision = "publish"
             /\ kind = "current" => decision = "preserve-current-then-publish"
  <2>1. PICK kind \in {"publish", "uploaded", "current"}, base \in Nat :
             /\ Prepare(c, kind, base, 0) /\ UNCHANGED <<cand, coverage>>
             /\ kind # "uploaded" => base = rev
             /\ kind = "publish" => decision = "publish"
             /\ kind = "current" => decision = "preserve-current-then-publish"
    BY <1>3
  <2>2. kind # "uploaded" => base <= rev
    BY <1>0, <2>1
  <2> QED BY <1>1, <1>2, <2>1, <2>2, PrepareKeeps
<1>4. CASE op' = op /\ (Cover(c) \/ (cand' = [cand EXCEPT ![c] = "deferred"] /\ coverage' = coverage))
  <2>1. /\ UNCHANGED <<fresh, authz, binding, verified, login, busy, reply, net, op>>
        /\ UNCHANGED <<canon, rev, variants, generation, supported, receipts, faults, foreign>>
    BY <1>1, <1>4 DEF procVars, serverVars, boundVars
  <2>2. /\ cand' \in [Candidates -> {"absent", "ready", "stale", "deferred", "invalid", "covered"}]
        /\ coverage' \in [Candidates -> Nat]
    BY <1>0, <1>4 DEF Cover, TypeOK
  <2>3. TypeOK'
    BY <1>0, <2>1, <2>2 DEF TypeOK
  <2>4. Awaited'
    BY <1>0, <2>1 DEF Awaited
  <2>5. \A x \in Candidates : coverage'[x] <= binding
    BY <1>0, <1>4 DEF Cover, TypeOK, Generations
  <2> QED BY <1>1, <2>1, <2>3, <2>4, <2>5, QuietKeeps DEF Preparable
<1>5. \/ decision = "covered" /\ Cover(c) /\ op' = op
      \/ decision = "publish" /\ Prepare(c, "publish", rev, 0) /\ UNCHANGED <<cand, coverage>>
      \/ Prepare(c, "uploaded", 0, 0) /\ UNCHANGED <<cand, coverage>>
      \/ decision = "preserve-current-then-publish" /\ Prepare(c, "current", rev, 0) /\ UNCHANGED <<cand, coverage>>
      \/ cand' = [cand EXCEPT ![c] = "deferred"] /\ UNCHANGED <<op, coverage>>
  BY DEF ReconcileDownload, decision
<1>6. CASE decision = "publish" /\ Prepare(c, "publish", rev, 0) /\ UNCHANGED <<cand, coverage>>
  BY <1>0, <1>3, <1>6
<1>7. CASE Prepare(c, "uploaded", 0, 0) /\ UNCHANGED <<cand, coverage>>
  BY <1>3, <1>7
<1>8. CASE decision = "preserve-current-then-publish" /\ Prepare(c, "current", rev, 0) /\ UNCHANGED <<cand, coverage>>
  BY <1>0, <1>3, <1>8
<1>9. CASE decision = "covered" /\ Cover(c) /\ op' = op
  BY <1>4, <1>9, Zenon
<1>10. CASE cand' = [cand EXCEPT ![c] = "deferred"] /\ UNCHANGED <<op, coverage>>
  BY <1>4, <1>10
<1> QED BY <1>5, <1>6, <1>7, <1>8, <1>9, <1>10

-----------------------------------------------------------------------------
(* Executing an operation                                                  *)

\* One operation of the session is unresolved, so the others rest.
LEMMA OthersResolved ==
    ASSUME UploadInv, NEW o \in Unresolved
    PROVE  Unresolved = {o} /\ o \in Ops /\ op[o].gen = binding /\ op[o].cand \in Candidates /\ op[o].kind # "none"
<1>1. o \in Ops /\ op[o].state \in {"ready", "uncertain"}
  BY DEF Unresolved
<1>2. Unresolved = {o}
  BY DEF UploadInv, OneUnresolved
<1> QED BY <1>1, <1>2, OpFacts DEF Shaped

\* A request that may not be sent is retired, or kept for its receipt.
LEMMA HoldKeeps ==
    ASSUME UploadInv, NEW o \in Ops, HoldOperation(o)
    PROVE  UploadInv'
<1>0. TypeOK /\ Generations /\ Awaited
  BY DEF UploadInv
<1> DEFINE n == [op[o] EXCEPT !.state = Retired(o)]
<1>1. /\ busy = 0 /\ op[o].state = "ready" /\ op' = [op EXCEPT ![o] = n] /\ cand' = [cand EXCEPT ![op[o].cand] = "stale"]
      /\ UNCHANGED <<fresh, authz, coverage, binding, verified, login, busy, reply, net>>
      /\ UNCHANGED <<canon, rev, variants, generation, supported, receipts, faults, foreign>>
  BY DEF HoldOperation, Online, procVars, serverVars, boundVars
<1>2. Unresolved = {o} /\ op[o].gen = binding /\ op[o].cand \in Candidates /\ op[o].kind # "none" /\ op[o] \in OpRecords
  BY <1>1, OthersResolved, OpFacts
<1>3. /\ n \in OpRecords /\ n.state = (IF op[o].sent THEN "uncertain" ELSE "fenced") /\ n.gen = op[o].gen /\ n.kind = op[o].kind
      /\ n.cand = op[o].cand /\ n.base = op[o].base /\ n.dep = op[o].dep /\ n.sent = op[o].sent
  BY <1>2 DEF OpRecords, Retired
<1> HIDE DEF n
<1>4. op' \in [Ops -> OpRecords] /\ op'[o] = n /\ \A p \in Ops : p # o => op'[p] = op[p]
  BY <1>0, <1>1, <1>3 DEF TypeOK
<1>5. TypeOK'
  <2>1. cand' \in [Candidates -> {"absent", "ready", "stale", "deferred", "invalid", "covered"}]
    BY <1>0, <1>1, <1>2 DEF TypeOK
  <2> QED BY <1>0, <1>1, <1>4, <2>1 DEF TypeOK
<1>6. Awaited'
  BY <1>0, <1>1 DEF Awaited
<1>7. Shaped(o) /\ Revisions(o) /\ Present(o)
  BY OpFacts
<1>8. cand'[n.cand] = "stale"
  BY <1>0, <1>1, <1>2, <1>3 DEF TypeOK
<1>9. Shaped(o)'
  <2>1. op[o].dep # 0 => op'[op[o].dep].kind = "current"
    <3>1. op[o].dep \in Ops \cup {0}
      BY OpFacts
    <3> QED BY <1>3, <1>4, <1>7, <3>1 DEF Shaped
  <2> QED BY <1>1, <1>2, <1>3, <1>4, <1>7, <1>8, <2>1 DEF Shaped
<1>10. Revisions(o)'
  BY <1>1, <1>3, <1>4, <1>7 DEF Revisions
<1>11. Present(o)'
  BY <1>1, <1>3, <1>4, <1>7 DEF Present, Shaped, Store!Replaceable, Store!Stored
<1>12. \A x \in Candidates : coverage'[x] <= binding
  BY <1>0, <1>1 DEF Generations
<1>13. UNCHANGED <<binding, serverVars>> /\ (verified' => verified) /\ 0 < n.gen /\ n.gen <= binding
  BY <1>1, <1>3, OpFacts DEF serverVars
<1> QED BY <1>1, <1>2, <1>3, <1>4, <1>5, <1>6, <1>9, <1>10, <1>11, <1>12, <1>13, OneOpKeeps

\* An operation is marked before its request leaves.
LEMMA DispatchKeeps ==
    ASSUME UploadInv, NEW o \in Ops, Dispatch(o)
    PROVE  UploadInv'
<1>0. TypeOK /\ Generations /\ Awaited
  BY DEF UploadInv
<1> DEFINE n == [op[o] EXCEPT !.state = "uncertain", !.sent = TRUE]
<1>1. /\ busy = 0 /\ op[o].state = "ready" /\ op' = [op EXCEPT ![o] = n] /\ busy' \in {0, o} /\ net' \subseteq net \cup {o}
      /\ foreign' = foreign
      /\ UNCHANGED <<cand, fresh, authz, coverage, binding, verified, login, reply>>
      /\ UNCHANGED <<canon, rev, variants, generation, supported, receipts>>
  BY DEF Dispatch, Marked, Online, serverVars, boundVars
<1>2. Unresolved = {o} /\ op[o].gen = binding /\ op[o].cand \in Candidates /\ op[o].kind # "none" /\ op[o] \in OpRecords
  BY <1>1, OthersResolved, OpFacts
<1>3. /\ n \in OpRecords /\ n.state = "uncertain" /\ n.gen = op[o].gen /\ n.kind = op[o].kind
      /\ n.cand = op[o].cand /\ n.base = op[o].base /\ n.dep = op[o].dep /\ n.sent
  BY <1>2 DEF OpRecords
<1> HIDE DEF n
<1>4. op' \in [Ops -> OpRecords] /\ op'[o] = n /\ \A p \in Ops : p # o => op'[p] = op[p]
  BY <1>0, <1>1, <1>3 DEF TypeOK
<1>5. TypeOK'
  <2>1. faults' \in 0 .. MaxFaults
    BY <1>0, UploadAssumption DEF Dispatch, Fault, boundVars, TypeOK
  <2> QED BY <1>0, <1>1, <1>4, <2>1 DEF TypeOK
<1>6. Awaited'
  BY <1>0, <1>1, <1>3, <1>4 DEF Awaited
<1>7. Shaped(o) /\ Revisions(o) /\ Present(o)
  BY OpFacts
<1>9. Shaped(o)'
  <2>1. op[o].dep # 0 => op'[op[o].dep].kind = "current"
    <3>1. op[o].dep \in Ops \cup {0}
      BY OpFacts
    <3> QED BY <1>3, <1>4, <1>7, <3>1 DEF Shaped
  <2> QED BY <1>1, <1>2, <1>3, <1>4, <1>7, <2>1 DEF Shaped
<1>10. Revisions(o)'
  BY <1>1, <1>3, <1>4, <1>7 DEF Revisions
<1>11. Present(o)'
  BY <1>1, <1>3, <1>4, <1>7 DEF Present, Store!Replaceable, Store!Stored
<1>12. \A x \in Candidates : coverage'[x] <= binding
  BY <1>0, <1>1 DEF Generations
<1>13. UNCHANGED <<binding, serverVars>> /\ (verified' => verified) /\ 0 < n.gen /\ n.gen <= binding
  BY <1>1, <1>3, OpFacts DEF serverVars
<1> QED BY <1>1, <1>2, <1>3, <1>4, <1>5, <1>6, <1>9, <1>10, <1>11, <1>12, <1>13, OneOpKeeps

\* accept() of an operation the server has a receipt for.
LEMMA AcceptKeeps ==
    ASSUME UploadInv, NEW o \in Unresolved, Accept(o), receipts[o] # 0, busy' = 0, reply' = "none",
           UNCHANGED <<fresh, authz, binding, verified, login, net, serverVars, boundVars>>
    PROVE  UploadInv'
<1>0. TypeOK /\ Generations /\ Awaited
  BY DEF UploadInv
<1>2. Unresolved = {o} /\ o \in Ops /\ op[o].gen = binding /\ op[o].cand \in Candidates /\ op[o].kind # "none" /\ op[o] \in OpRecords
  BY OthersResolved, OpFacts
<1> DEFINE n == [op[o] EXCEPT !.state = "accepted"]
<1>1. /\ op' = [op EXCEPT ![o] = n]
      /\ UNCHANGED <<fresh, authz, binding, verified, login, net>>
      /\ UNCHANGED <<canon, rev, variants, generation, supported, receipts, faults, foreign>>
  BY DEF Accept, serverVars, boundVars
<1>3. /\ n \in OpRecords /\ n.state = "accepted" /\ n.gen = op[o].gen /\ n.kind = op[o].kind
      /\ n.cand = op[o].cand /\ n.base = op[o].base /\ n.dep = op[o].dep /\ n.sent = op[o].sent
  BY <1>2 DEF OpRecords
<1> HIDE DEF n
<1>4. op' \in [Ops -> OpRecords] /\ op'[o] = n /\ \A p \in Ops : p # o => op'[p] = op[p]
  BY <1>0, <1>1, <1>2, <1>3 DEF TypeOK
<1>5. /\ cand' \in [Candidates -> {"absent", "ready", "stale", "deferred", "invalid", "covered"}]
      /\ coverage' \in [Candidates -> Nat] /\ \A x \in Candidates : coverage'[x] <= binding
  BY <1>0, <1>2 DEF Accept, Cover, TypeOK, Generations
<1>6. TypeOK'
  BY <1>0, <1>1, <1>4, <1>5 DEF TypeOK
<1>7. Awaited'
  BY DEF Awaited
<1>8. Shaped(o) /\ Revisions(o) /\ Present(o)
  BY <1>2, OpFacts
<1>9. Shaped(o)'
  <2>1. op[o].dep # 0 => op'[op[o].dep].kind = "current"
    <3>1. op[o].dep \in Ops \cup {0}
      BY <1>2, OpFacts
    <3> QED BY <1>2, <1>3, <1>4, <1>8, <3>1 DEF Shaped
  <2>2. o \notin Unresolved'
    BY <1>3, <1>4 DEF Unresolved
  <2> QED BY <1>1, <1>2, <1>3, <1>4, <1>8, <2>1, <2>2 DEF Shaped
<1>10. Revisions(o)'
  BY <1>1, <1>3, <1>4, <1>8 DEF Revisions
<1>11. Present(o)'
  BY <1>1, <1>3, <1>4, <1>8 DEF Present, Store!Replaceable, Store!Stored
<1>13. UNCHANGED <<binding, serverVars>> /\ (verified' => verified) /\ 0 < n.gen /\ n.gen <= binding
  BY <1>1, <1>2, <1>3, OpFacts DEF serverVars, Unresolved
<1> QED BY <1>1, <1>2, <1>3, <1>4, <1>5, <1>6, <1>7, <1>9, <1>10, <1>11, <1>13, OneOpKeeps

\* The receipt of an operation is looked up.
LEMMA LookUpKeeps ==
    ASSUME UploadInv, NEW o \in Ops, LookUpReceipt(o)
    PROVE  UploadInv'
<1>0. TypeOK /\ Generations /\ Awaited
  BY DEF UploadInv
<1>1. /\ busy = 0 /\ op[o].state = "uncertain" /\ reply = "none"
      /\ UNCHANGED <<fresh, authz, binding, verified, login, busy, reply, net, serverVars, boundVars>>
  BY <1>0 DEF LookUpReceipt, Online, procVars, Awaited
<1>2. o \in Unresolved /\ Unresolved = {o} /\ op[o].gen = binding /\ op[o].cand \in Candidates /\ op[o] \in OpRecords
  BY <1>1, OthersResolved, OpFacts
<1>3. CASE receipts[o] # 0 /\ Accept(o)
  BY <1>1, <1>2, <1>3, AcceptKeeps
<1>4. CASE op' = [op EXCEPT ![o].state = "ready"] /\ UNCHANGED <<cand, coverage>>
  <2> DEFINE n == [op[o] EXCEPT !.state = "ready"]
  <2>1. /\ op' = [op EXCEPT ![o] = n]
        /\ UNCHANGED <<cand, coverage, fresh, authz, binding, verified, login, busy, reply, net>>
        /\ UNCHANGED <<canon, rev, variants, generation, supported, receipts, faults, foreign>>
    BY <1>1, <1>4 DEF serverVars, boundVars
  <2>2. /\ n \in OpRecords /\ n.state = "ready" /\ n.gen = op[o].gen /\ n.kind = op[o].kind
        /\ n.cand = op[o].cand /\ n.base = op[o].base /\ n.dep = op[o].dep /\ n.sent = op[o].sent
    BY <1>2 DEF OpRecords
  <2> HIDE DEF n
  <2>3. op' \in [Ops -> OpRecords] /\ op'[o] = n /\ \A p \in Ops : p # o => op'[p] = op[p]
    BY <1>0, <2>1, <2>2 DEF TypeOK
  <2>4. TypeOK'
    BY <1>0, <2>1, <2>3 DEF TypeOK
  <2>5. Awaited'
    BY <1>0, <1>1, <2>1 DEF Awaited
  <2>6. Shaped(o) /\ Revisions(o) /\ Present(o)
    BY OpFacts
  <2>7. Shaped(o)'
    <3>1. op[o].dep # 0 => op'[op[o].dep].kind = "current"
      <4>1. op[o].dep \in Ops \cup {0}
        BY OpFacts
      <4> QED BY <2>2, <2>3, <2>6, <4>1 DEF Shaped
    <3> QED BY <1>1, <1>2, <2>1, <2>2, <2>3, <2>6, <3>1 DEF Shaped
  <2>8. Revisions(o)'
    BY <2>1, <2>2, <2>3, <2>6 DEF Revisions
  <2>9. Present(o)'
    BY <2>1, <2>2, <2>3, <2>6 DEF Present, Store!Replaceable, Store!Stored
  <2>10. \A x \in Candidates : coverage'[x] <= binding
    BY <1>0, <2>1 DEF Generations
  <2>11. UNCHANGED <<binding, serverVars>> /\ (verified' => verified) /\ 0 < n.gen /\ n.gen <= binding
    BY <1>1, <2>1, <2>2, OpFacts DEF serverVars
  <2> QED BY <1>2, <2>1, <2>2, <2>3, <2>4, <2>5, <2>7, <2>8, <2>9, <2>10, <2>11, OneOpKeeps
<1>5. CASE /\ cand' = IF op[o].only THEN cand ELSE [cand EXCEPT ![op[o].cand] = "stale"]
           /\ UNCHANGED <<op, coverage>>
  <2>1. cand' \in [Candidates -> {"absent", "ready", "stale", "deferred", "invalid", "covered"}]
        /\ \A x \in Candidates : cand'[x] = "covered" => cand[x] = "covered"
    BY <1>0, <1>2, <1>5 DEF TypeOK
  <2>2. TypeOK'
    BY <1>0, <1>1, <1>5, <2>1 DEF TypeOK, serverVars, boundVars
  <2>3. Awaited'
    BY <1>0, <1>1, <1>5 DEF Awaited, serverVars
  <2>4. \A x \in Candidates : coverage'[x] <= binding
    BY <1>0, <1>5 DEF Generations
  <2>5. \A p \in Unresolved : cand'[op[p].cand] # "covered"
    BY <1>2, <2>1, OpFacts DEF Shaped
  <2> QED BY <1>1, <1>5, <2>2, <2>3, <2>4, <2>5, QuietKeeps
<1> QED BY <1>3, <1>4, <1>5 DEF LookUpReceipt

\* A refusal ends the operation, and fences what it depended on.
LEMMA RefusedKeeps ==
    ASSUME UploadInv, Receive, reply = "stale",
           op' = [o \in Ops |-> IF o = busy THEN [op[o] EXCEPT !.state = "rejected"]
                                ELSE IF o = op[busy].dep THEN [op[o] EXCEPT !.state = "fenced"] ELSE op[o]],
           fresh' = fresh \ {op[busy].cand}, UNCHANGED <<cand, coverage, verified>>
    PROVE  UploadInv'
<1>0. TypeOK /\ Generations /\ Awaited /\ OneUnresolved
  BY DEF UploadInv
<1>1. /\ busy # 0 /\ busy' = 0 /\ reply' = "none" /\ UNCHANGED <<authz, binding, login, net>>
      /\ UNCHANGED <<canon, rev, variants, generation, supported, receipts, faults, foreign>>
  BY DEF Receive, serverVars, boundVars
<1>2. busy \in Ops /\ op[busy].state = "uncertain"
  BY <1>0, <1>1 DEF TypeOK, Awaited
<1>3. ASSUME NEW o \in Ops
      PROVE  /\ op'[o] \in OpRecords /\ op'[o].gen = op[o].gen /\ op'[o].kind = op[o].kind /\ op'[o].cand = op[o].cand
             /\ op'[o].base = op[o].base /\ op'[o].dep = op[o].dep /\ op'[o].sent = op[o].sent
             /\ \/ op'[o] = op[o] /\ o # busy
                \/ o = busy /\ op'[o].state = "rejected"
                \/ op[o].kind = "current" /\ op'[o].state = "fenced"
  <2>1. op[o] \in OpRecords
    BY OpFacts
  <2>2. o = op[busy].dep => op[o].kind = "current"
    <3>1. Shaped(busy)
      BY <1>2, OpFacts
    <3>2. o # 0
      BY DEF Ops
    <3> QED BY <3>1, <3>2 DEF Shaped
  <2> QED BY <2>1, <2>2 DEF OpRecords
<1>4. op' \in [Ops -> OpRecords]
  BY <1>3
<1>5. TypeOK'
  BY <1>0, <1>1, <1>4 DEF TypeOK
<1>6. \A o \in Ops : o \in Unresolved' => o \in Unresolved /\ op'[o] = op[o]
  BY <1>3 DEF Unresolved
<1>7. OneUnresolved'
  BY <1>0, <1>6 DEF OneUnresolved, Unresolved
<1>8. Generations'
  <2>1. ASSUME NEW o \in Ops
        PROVE  /\ op'[o].gen <= binding /\ (o \in Unresolved' => op'[o].gen = binding)
               /\ op'[o].state # "none" => 0 < op'[o].gen
    <3>1. op[o].state = "none" => op[o] = NoOp
      BY OpFacts DEF Shaped
    <3>2. op[o].state = "none" => op'[o] = op[o]
      BY <1>2, <1>3, <3>1 DEF NoOp
    <3>3. op'[o].gen = op[o].gen /\ (o \in Unresolved' => o \in Unresolved)
      BY <1>3, <1>6
    <3>4. /\ op[o].gen <= binding /\ (o \in Unresolved => op[o].gen = binding)
          /\ op[o].state # "none" => 0 < op[o].gen
      BY OpFacts
    <3> QED BY <3>2, <3>3, <3>4
  <2> QED BY <1>0, <1>1, <2>1 DEF Generations
<1>9. Awaited'
  BY <1>1 DEF Awaited
<1>10. ASSUME NEW o \in Ops PROVE Shaped(o)' /\ Revisions(o)' /\ Present(o)'
  <2>1. Shaped(o) /\ Revisions(o) /\ Present(o)
    BY OpFacts
  <2>2. op[o].dep # 0 => op'[op[o].dep].kind = "current"
    <3>1. op[o].dep \in Ops \cup {0}
      BY OpFacts
    <3> QED BY <1>3, <2>1, <3>1 DEF Shaped
  <2>3. op'[o].state # "none" => op[o].state # "none"
    <3>1. op[o].kind = "current" => op[o].state # "none"
      BY <2>1 DEF Shaped, NoOp
    <3> QED BY <1>2, <1>3, <3>1
  <2>8. /\ op'[o].cand = op[o].cand /\ op'[o].kind = op[o].kind /\ op'[o].sent = op[o].sent /\ op'[o].dep = op[o].dep
        /\ op'[o] = op[o] \/ op'[o].state \in {"rejected", "fenced"}
    BY <1>3
  <2>4. Shaped(o)'
    BY <1>1, <1>6, <2>1, <2>2, <2>3, <2>8 DEF Shaped
  <2>5. Revisions(o)'
    BY <1>1, <1>3, <2>1 DEF Revisions
  <2>6. o = busy /\ op[o].gen = generation => receipts[o] = 0 /\ op[o].kind # "uploaded" /\ op[o].base < rev
    BY <1>0 DEF Awaited
  <2>7. Present(o)'
    <3>1. /\ op'[o].gen = op[o].gen /\ op'[o].base = op[o].base
          /\ \/ op'[o].state = op[o].state
             \/ o = busy
             \/ op[o].kind = "current" /\ op'[o].state = "fenced"
      BY <1>3
    <3> QED BY <1>1, <2>1, <2>6, <2>8, <3>1 DEF Present, Store!Replaceable, Store!Stored
  <2> QED BY <2>4, <2>5, <2>7
<1> QED BY <1>5, <1>7, <1>8, <1>9, <1>10 DEF UploadInv

LEMMA ReceiveKeeps ==
    ASSUME UploadInv, Receive
    PROVE  UploadInv'
<1>0. TypeOK /\ Generations /\ Awaited
  BY DEF UploadInv
<1>1. /\ busy # 0 /\ busy' = 0 /\ reply' = "none" /\ UNCHANGED <<authz, binding, login, net, serverVars, boundVars>>
  BY DEF Receive
<1>2. CASE reply = "accepted" /\ Accept(busy) /\ UNCHANGED <<fresh, verified>>
  <2>1. busy \in Unresolved /\ receipts[busy] # 0
    BY <1>0, <1>1, <1>2 DEF Awaited, TypeOK, Unresolved
  <2> QED BY <1>1, <1>2, <2>1, AcceptKeeps
<1>3. CASE reply = "mismatch" /\ verified' = FALSE /\ UNCHANGED <<cand, coverage, op, fresh>>
  <2>1. TypeOK' /\ Awaited'
    BY <1>0, <1>1, <1>3 DEF TypeOK, Awaited, serverVars, boundVars
  <2>2. \A x \in Candidates : coverage'[x] <= binding
    BY <1>0, <1>3 DEF Generations
  <2>3. \A o \in Unresolved : cand'[op[o].cand] # "covered"
    BY <1>3 DEF UploadInv, Shaped, Unresolved
  <2> QED BY <1>1, <1>3, <2>1, <2>2, <2>3, QuietKeeps
<1> QED BY <1>2, <1>3, RefusedKeeps DEF Receive

LEMMA MalformedKeeps ==
    ASSUME UploadInv, ReplyMalformed
    PROVE  UploadInv'
<1>0. TypeOK /\ Generations /\ Awaited
  BY DEF UploadInv
<1> DEFINE n == [op[busy] EXCEPT !.only = TRUE]
<1>1. /\ busy # 0 /\ op' = [op EXCEPT ![busy] = n] /\ busy' = 0 /\ reply' = "none" /\ foreign' = foreign
      /\ UNCHANGED <<cand, fresh, authz, coverage, binding, verified, login, net>>
      /\ UNCHANGED <<canon, rev, variants, generation, supported, receipts>>
  BY DEF ReplyMalformed, serverVars
<1>2. busy \in Ops /\ op[busy].state = "uncertain"
  BY <1>0, <1>1 DEF TypeOK, Awaited
<1>3. op[busy] \in OpRecords /\ Shaped(busy) /\ Revisions(busy) /\ Present(busy) /\ Unresolved = {busy} /\ op[busy].gen = binding
      /\ 0 < op[busy].gen /\ op[busy].gen <= binding
  BY <1>2, OpFacts, OthersResolved
<1>4. /\ n \in OpRecords /\ n.state = "uncertain" /\ n.gen = op[busy].gen /\ n.kind = op[busy].kind
      /\ n.cand = op[busy].cand /\ n.base = op[busy].base /\ n.dep = op[busy].dep /\ n.sent = op[busy].sent
  BY <1>2, <1>3 DEF OpRecords
<1> HIDE DEF n
<1>5. op' \in [Ops -> OpRecords] /\ op'[busy] = n /\ \A p \in Ops : p # busy => op'[p] = op[p]
  BY <1>0, <1>1, <1>2, <1>4 DEF TypeOK
<1>6. TypeOK'
  <2>1. faults' \in 0 .. MaxFaults
    BY <1>0, UploadAssumption DEF ReplyMalformed, Fault, TypeOK
  <2> QED BY <1>0, <1>1, <1>5, <2>1 DEF TypeOK
<1>7. PICK o \in Ops : o = busy
  BY <1>2
<1>8. Shaped(o)'
  <2>1. op[o].dep # 0 => op'[op[o].dep].kind = "current"
    <3>1. op[o].dep \in Ops \cup {0}
      BY OpFacts
    <3> QED BY <1>3, <1>4, <1>5, <1>7, <3>1 DEF Shaped
  <2>2. o \in Unresolved
    BY <1>3, <1>7
  <2> QED BY <1>1, <1>2, <1>3, <1>4, <1>5, <1>7, <2>1, <2>2 DEF Shaped
<1>9. Revisions(o)'
  BY <1>1, <1>3, <1>4, <1>5, <1>7 DEF Revisions
<1>10. Present(o)'
  BY <1>1, <1>3, <1>4, <1>5, <1>7 DEF Present, Store!Replaceable, Store!Stored
<1>11. \A x \in Candidates : coverage'[x] <= binding
  BY <1>0, <1>1 DEF Generations
<1>12. UNCHANGED <<binding, serverVars>> /\ (verified' => verified) /\ Awaited'
  BY <1>1 DEF serverVars, Awaited
<1> QED BY <1>1, <1>3, <1>4, <1>5, <1>6, <1>7, <1>8, <1>9, <1>10, <1>11, <1>12, OneOpKeeps

-----------------------------------------------------------------------------
(* Steps of the server                                                     *)

\* Whatever covers a covering version covers what that one covers.
LEMMA CoveringComposes ==
    ASSUME NEW a, NEW b, NEW c, Covering(a, b), Covering(b, c)
    PROVE  Covering(a, c)
<1>1. CASE a = b \/ b = c
  BY <1>1
<1>2. CASE a # b /\ b # c
  <2>1. a # Absent /\ <<b.body, a.body>> \in Prefix /\ <<c.body, b.body>> \in Prefix
    BY <1>2 DEF Covering, ProperPrefix
  <2>2. \A p, q \in Prefix : p[2] = q[1] => <<p[1], q[2]>> \in Prefix
    BY BodiesAssumption
  <2>3. <<c.body, a.body>> \in Prefix
    BY <2>1, <2>2
  <2> QED BY <1>2, <2>1, <2>3 DEF Covering, ProperPrefix
<1> QED BY <1>1, <1>2

LEMMA VersionIsPresent == Absent \notin Versions
BY BodiesAssumption DEF Versions, Absent

\* What is stored stays stored, beside a new variant and under a new canonical version.
LEMMA StoredStays ==
    ASSUME NEW v \in Versions, Store!Stored(v),
           \/ canon' = canon /\ variants \subseteq variants'
           \/ variants' = variants /\ Store!Replaceable(canon')
    PROVE  Store!Stored(v)'
<1>1. PICK s \in variants \cup {canon} : Covering(s, v)
  BY StoreTerms
<1>2. s \in variants' \cup {canon'} => Store!Stored(v)'
  <2>1. Store!Stored(v)' <=> \E x \in variants' \cup {canon'} : Covering(x, v)
    BY StoreTermsNext
  <2> QED BY <1>1, <2>1
<1>3. CASE s = canon /\ Covering(canon', canon)
  <2>1. Covering(canon', v)
    BY <1>1, <1>3, CoveringComposes
  <2>2. Store!Stored(v)' <=> \E x \in variants' \cup {canon'} : Covering(x, v)
    BY StoreTermsNext
  <2> QED BY <2>1, <2>2
<1>4. s # Absent
  BY <1>1, VersionIsPresent DEF Covering
<1>5. Store!Replaceable(canon') <=> canon = Absent \/ Covering(canon', canon) \/ canon \in variants
  BY StoreTerms
<1> QED BY <1>1, <1>2, <1>3, <1>4, <1>5

\* A step of the server leaves the worker's side of the invariant.
LEMMA ServerKeeps ==
    ASSUME UploadInv, TypeOK', Awaited', UNCHANGED <<workerVars, verified>>, generation <= generation',
           \A o \in Ops : Shaped(o)' /\ Revisions(o)' /\ Present(o)'
    PROVE  UploadInv'
<1>1. UNCHANGED <<op, binding, coverage>> /\ Unresolved' = Unresolved
  BY DEF workerVars, Unresolved
<1>2. OneUnresolved'
  BY <1>1 DEF UploadInv, OneUnresolved
<1>3. Generations'
  <2>1. binding \in Nat /\ generation \in Nat /\ generation' \in Nat
    BY DEF UploadInv, TypeOK
  <2> QED BY <1>1, <2>1 DEF UploadInv, Generations
<1> QED BY <1>2, <1>3 DEF UploadInv

\* An operation without a new receipt, when a version becomes canonical or is
\* preserved: its claims stand, or its base is out of date.
LEMMA PresentStays ==
    ASSUME UploadInv, NEW p \in Ops, op' = op, receipts'[p] = receipts[p], generation' = generation,
           \/ canon' = canon /\ variants \subseteq variants' /\ rev' = rev
           \/ variants' = variants /\ Store!Replaceable(canon') /\ rev' = rev + 1
    PROVE  Revisions(p)' /\ Present(p)'
<1>1. Revisions(p) /\ Present(p) /\ Shaped(p) /\ op[p].base \in Nat /\ rev \in Nat /\ receipts[p] \in Nat /\ op[p] \in OpRecords
  BY OpFacts DEF UploadInv, TypeOK
<1>2. Revisions(p)'
  BY <1>1 DEF Revisions
<1>3. op[p].kind \in {"publish", "uploaded"} => Version[op[p].cand] \in Versions
  <2>1. op[p].kind \in {"publish", "uploaded"} => op[p].state # "none"
    BY <1>1 DEF Shaped, NoOp
  <2> QED BY <1>1, <2>1, UploadAssumption DEF Shaped
<1>4. ASSUME op[p].gen = generation, op[p].kind \in {"publish", "uploaded"}, receipts[p] # 0
      PROVE  Store!Stored(Version[op[p].cand])'
  <2>1. Version[op[p].cand] \in Versions /\ Store!Stored(Version[op[p].cand])
    BY <1>1, <1>3, <1>4 DEF Present
  <2> QED BY <2>1, StoredStays
<1>5. CASE canon' = canon /\ variants \subseteq variants' /\ rev' = rev
  <2>1. ASSUME op[p].gen = generation, op[p].kind = "publish", op[p].base = rev, receipts[p] = 0
        PROVE  Store!Replaceable(Version[op[p].cand])'
    <3>1. Store!Replaceable(Version[op[p].cand])
      BY <1>1, <2>1 DEF Present
    <3> QED BY <1>5, <3>1, StoreTerms, StoreTermsNext
  <2> QED BY <1>1, <1>2, <1>4, <1>5, <2>1 DEF Present
<1>6. CASE variants' = variants /\ Store!Replaceable(canon') /\ rev' = rev + 1
  <2>1. op[p].kind \in {"publish", "current"} => op[p].base # rev' /\ op[p].base <= rev
    BY <1>1, <1>6 DEF Revisions
  <2>2. op[p].kind = "publish" => receipts[p] # rev'
    BY <1>1, <1>6 DEF Revisions
  <2>3. op[p].base < rev => op[p].base < rev'
    BY <1>1, <1>6
  <2> QED BY <1>1, <1>2, <1>4, <2>1, <2>2, <2>3 DEF Present
<1> QED BY <1>5, <1>6

\* A request that commits is one the worker still stands by.
LEMMA CommitIsWanted ==
    ASSUME UploadInv, NEW o \in Ops, o \in net, Outcome(o) = "commit"
    PROVE  /\ op[o].gen = generation /\ receipts[o] = 0 /\ op[o].sent
           /\ op[o].kind \in {"publish", "uploaded", "current"} /\ Version[op[o].cand] \in Versions
           /\ op[o].kind # "uploaded" => op[o].base = rev
           /\ op[o].state \in {"rejected", "fenced"} => op[o].kind = "current" /\ op[o].state = "fenced"
           /\ op[o].kind = "publish" => Store!Replaceable(Version[op[o].cand])
           /\ op[o].kind = "current" => canon \in Versions
<1>1. op[o].gen = generation /\ receipts[o] = 0 /\ (op[o].kind # "uploaded" => op[o].base = rev)
  BY DEF Outcome
<1>2. Shaped(o) /\ Present(o) /\ op[o] \in OpRecords /\ rev \in Nat
  BY OpFacts DEF UploadInv, TypeOK
<1>3. op[o].sent
  BY <1>2 DEF Shaped
<1>4. op[o].kind \in {"publish", "uploaded", "current"} /\ Version[op[o].cand] \in Versions
  <2>1. op[o].state # "none"
    BY <1>2, <1>3 DEF Shaped, NoOp
  <2> QED BY <1>2, <2>1, UploadAssumption DEF Shaped, OpRecords
<1>5. op[o].state \in {"rejected", "fenced"} => op[o].kind = "current" /\ op[o].state = "fenced"
  BY <1>1, <1>2, <1>3 DEF Present
<1>6. /\ op[o].kind = "publish" => Store!Replaceable(Version[op[o].cand])
      /\ op[o].kind = "current" => canon # Absent
  BY <1>1, <1>2 DEF Present
<1>7. canon \in Versions \cup {Absent}
  BY DEF UploadInv, TypeOK
<1> QED BY <1>1, <1>3, <1>4, <1>5, <1>6, <1>7

LEMMA HandleKeeps ==
    ASSUME UploadInv, NEW o \in Ops, NEW awaited \in BOOLEAN, Handle(o, awaited)
    PROVE  UploadInv'
<1>0. TypeOK /\ Generations /\ Awaited
  BY DEF UploadInv
<1>1. /\ o \in net /\ net' \subseteq net /\ UNCHANGED <<cand, fresh, authz, coverage, op, binding, verified, login, busy, faults, foreign>>
      /\ reply' \in {reply, IF Outcome(o) = "commit" THEN "accepted" ELSE Outcome(o)}
      /\ reply' = reply \/ (busy = o /\ reply' = IF Outcome(o) = "commit" THEN "accepted" ELSE Outcome(o))
  BY DEF Handle, workerVars, boundVars
<1>2. Outcome(o) \in {"mismatch", "accepted", "stale", "commit"}
  BY DEF Outcome
<1>3. CASE Outcome(o) # "commit"
  <2>1. UNCHANGED <<canon, rev, variants, generation, supported, receipts>>
    BY <1>3 DEF Handle, serverVars
  <2>2. TypeOK'
    BY <1>0, <1>1, <1>2, <1>3, <2>1 DEF TypeOK
  <2>3. Awaited'
    <3>1. Outcome(o) = "accepted" => receipts[o] # 0
      BY DEF Outcome
    <3>2. Outcome(o) = "stale" => receipts[o] = 0 /\ op[o].kind # "uploaded" /\ op[o].base < rev
      <4>1. op[o].base \in Nat /\ rev \in Nat /\ Revisions(o)
        BY <1>0, OpFacts DEF TypeOK
      <4> QED BY <4>1 DEF Outcome, Revisions
    <3>3. o # 0
      BY DEF Ops
    <3> QED BY <1>0, <1>1, <1>3, <2>1, <3>1, <3>2, <3>3 DEF Awaited
  <2>4. ASSUME NEW p \in Ops PROVE Shaped(p)' /\ Revisions(p)' /\ Present(p)'
    <3>1. Shaped(p) /\ Revisions(p) /\ Present(p)
      BY OpFacts
    <3>2. p \in Unresolved' <=> p \in Unresolved
      BY <1>1 DEF Unresolved
    <3> QED BY <1>1, <2>1, <3>1, <3>2 DEF Shaped, Revisions, Present, Store!Replaceable, Store!Stored
  <2>5. UNCHANGED <<workerVars, verified>> /\ generation <= generation'
    BY <1>0, <1>1, <2>1 DEF workerVars, TypeOK
  <2> QED BY <2>2, <2>3, <2>4, <2>5, ServerKeeps
<1>4. CASE Outcome(o) = "commit"
  <2> DEFINE v == Version[op[o].cand]
             kind == op[o].kind
  <2>1. /\ receipts' = [receipts EXCEPT ![o] = rev + 1]
        /\ rev' = IF kind = "publish" THEN rev + 1 ELSE rev
        /\ canon' = IF kind = "publish" THEN v ELSE canon
        /\ variants' = CASE kind = "publish" -> variants [] kind = "uploaded" -> variants \cup {v}
                         [] kind = "current" -> variants \cup {canon}
        /\ generation' = generation /\ supported' = supported
    BY <1>4 DEF Handle
  <2>2. /\ op[o].gen = generation /\ receipts[o] = 0 /\ op[o].sent /\ kind \in {"publish", "uploaded", "current"} /\ v \in Versions
        /\ kind # "uploaded" => op[o].base = rev
        /\ op[o].state \in {"rejected", "fenced"} => kind = "current" /\ op[o].state = "fenced"
        /\ kind = "publish" => Store!Replaceable(v)
        /\ kind = "current" => canon \in Versions
    BY <1>1, <1>4, CommitIsWanted
  <2> HIDE DEF v, kind
  <2>3. rev \in Nat /\ rev' \in Nat /\ receipts' \in [Ops -> Nat] /\ receipts'[o] = rev + 1 /\ rev <= rev'
        /\ \A p \in Ops : p # o => receipts'[p] = receipts[p]
    BY <1>0, <2>1 DEF TypeOK
  <2>4. canon' \in Versions \cup {Absent} /\ variants' \subseteq Versions
    BY <1>0, <2>1, <2>2 DEF TypeOK
  <2>5. TypeOK'
    BY <1>0, <1>1, <1>2, <2>1, <2>3, <2>4 DEF TypeOK
  <2>6. Awaited'
    <3>1. busy = o => reply # "stale"
      <4>1. op[o].base \in Nat /\ rev \in Nat
        BY <2>3, OpFacts
      <4> QED BY <1>0, <2>2, <4>1 DEF Awaited, kind
    <3>2. busy # 0 => busy \in Ops /\ op[busy].base \in Nat
      BY <1>0, OpFacts DEF TypeOK
    <3>3. reply' \in {reply, "accepted"} /\ (reply' # reply => busy = o)
      BY <1>1, <1>4
    <3>4. reply # "none" => busy # 0
      BY <1>0 DEF Awaited
    <3>5. reply' = "accepted" => receipts'[busy] # 0
      BY <1>0, <2>3, <3>2, <3>3, <3>4 DEF Awaited
    <3>6. reply' = "stale" /\ op[busy].gen = generation => receipts'[busy] = 0 /\ op[busy].kind # "uploaded" /\ op[busy].base < rev'
      BY <1>0, <2>3, <3>1, <3>2, <3>3, <3>4 DEF Awaited
    <3>7. o # 0
      BY DEF Ops
    <3> QED BY <1>0, <1>1, <2>1, <3>3, <3>5, <3>6, <3>7 DEF Awaited
  <2>7. ASSUME NEW p \in Ops PROVE Shaped(p)'
    <3>1. Shaped(p) /\ (p \in Unresolved' <=> p \in Unresolved)
      BY <1>1, OpFacts DEF Unresolved
    <3>2. ~op[p].sent => p # o
      BY <2>2
    <3>3. receipts[p] # 0 => receipts'[p] # 0
      BY <2>3
    <3> QED BY <1>1, <2>3, <3>1, <3>2, <3>3 DEF Shaped
  <2>8. \/ canon' = canon /\ variants \subseteq variants' /\ rev' = rev
        \/ variants' = variants /\ Store!Replaceable(canon') /\ rev' = rev + 1
    BY <2>1, <2>2
  <2>9. ASSUME NEW p \in Ops, p # o PROVE Revisions(p)' /\ Present(p)'
    BY <1>1, <2>1, <2>3, <2>8, <2>9, PresentStays
  <2>10. Revisions(o)'
    <3>1. Revisions(o) /\ op[o].base \in Nat
      BY OpFacts
    <3> QED BY <1>1, <2>1, <2>2, <2>3, <3>1 DEF Revisions, kind
  <2>11. kind \in {"publish", "uploaded"} => Store!Stored(Version[op[o].cand])'
    <3>1. kind \in {"publish", "uploaded"} => v \in variants' \cup {canon'}
      BY <2>1
    <3>2. PICK w : w = v
      OBVIOUS
    <3>3. Covering(w, w)
      BY DEF Covering
    <3>4. Store!Stored(w)' <=> \E s \in variants' \cup {canon'} : Covering(s, w)
      BY StoreTermsNext
    <3>5. Version[op[o].cand] = w /\ op' = op
      BY <1>1, <3>2 DEF v
    <3> QED BY <3>1, <3>2, <3>3, <3>4, <3>5
  <2>12. Present(o)'
    <3>1. kind = "current" => canon' # Absent /\ canon' \in variants'
      BY <2>1, <2>2, VersionIsPresent
    <3>2. kind = "publish" => canon' = v
      BY <2>1
    <3>3. receipts'[o] # 0
      BY <2>3
    <3> QED BY <1>1, <2>2, <2>11, <3>1, <3>2, <3>3 DEF Present, v, kind
  <2>13. UNCHANGED <<workerVars, verified>> /\ generation <= generation'
    BY <1>0, <1>1, <2>1 DEF workerVars, TypeOK
  <2> QED BY <2>5, <2>6, <2>7, <2>9, <2>10, <2>12, <2>13, ServerKeeps
<1> QED BY <1>3, <1>4

\* Another machine publishes or preserves by the same rules.
LEMMA ForeignKeeps ==
    ASSUME UploadInv, NEW v \in Foreign, ForeignWrite(v)
    PROVE  UploadInv'
<1>0. TypeOK /\ Generations /\ Awaited
  BY DEF UploadInv
<1>1. /\ UNCHANGED <<cand, fresh, authz, coverage, op, binding, verified, login, busy, reply, net>>
      /\ UNCHANGED <<generation, supported, receipts, faults>> /\ foreign' \in 0 .. MaxForeign
  BY <1>0, UploadAssumption DEF ForeignWrite, workerVars, procVars, TypeOK
<1>2. \/ canon' = canon /\ variants \subseteq variants' /\ rev' = rev
      \/ variants' = variants /\ Store!Replaceable(canon') /\ rev' = rev + 1
  BY StoreTerms DEF ForeignWrite
<1>3. canon' \in Versions \cup {Absent} /\ variants' \subseteq Versions /\ rev' \in Nat /\ rev <= rev'
  BY <1>0, UploadAssumption DEF ForeignWrite, TypeOK
<1>4. TypeOK'
  BY <1>0, <1>1, <1>3 DEF TypeOK
<1>5. Awaited'
  <2>1. busy # 0 => op[busy].base \in Nat /\ rev \in Nat
    BY <1>0, OpFacts DEF TypeOK
  <2> QED BY <1>0, <1>1, <1>3, <2>1 DEF Awaited
<1>6. ASSUME NEW p \in Ops PROVE Shaped(p)' /\ Revisions(p)' /\ Present(p)'
  <2>1. Shaped(p) /\ (p \in Unresolved' <=> p \in Unresolved)
    BY <1>1, OpFacts DEF Unresolved
  <2>2. Shaped(p)'
    BY <1>1, <2>1 DEF Shaped
  <2>3. Revisions(p)' /\ Present(p)'
    BY <1>1, <1>2, PresentStays
  <2> QED BY <2>2, <2>3
<1>7. UNCHANGED <<workerVars, verified>> /\ generation <= generation'
  BY <1>0, <1>1 DEF workerVars, TypeOK
<1> QED BY <1>4, <1>5, <1>6, <1>7, ServerKeeps

\* A restore starts a generation no operation belongs to.
LEMMA RestoreKeeps ==
    ASSUME UploadInv, Restore
    PROVE  UploadInv'
<1>0. TypeOK /\ Generations /\ Awaited
  BY DEF UploadInv
<1>1. /\ UNCHANGED <<cand, fresh, authz, coverage, op, binding, verified, login, busy, reply, net>>
      /\ UNCHANGED <<supported, receipts, foreign>> /\ faults' \in 0 .. MaxFaults
      /\ generation' = generation + 1 /\ rev' = rev + 1
      /\ canon' \in Versions \cup {Absent} /\ variants' = {}
  BY <1>0, UploadAssumption DEF Restore, Fault, workerVars, procVars, TypeOK
<1>2. generation \in Nat /\ rev \in Nat /\ binding \in Nat /\ binding <= generation
  BY <1>0 DEF TypeOK, Generations
<1>3. TypeOK'
  BY <1>0, <1>1, <1>2 DEF TypeOK
<1>4. \A o \in Ops : op[o].gen # generation'
  BY <1>1, <1>2, OpFacts
<1>5. Awaited'
  <2>1. busy \in Ops \cup {0} /\ (reply = "stale" => busy # 0)
    BY <1>0 DEF TypeOK, Awaited
  <2> QED BY <1>0, <1>1, <1>4, <2>1 DEF Awaited
<1>6. ASSUME NEW p \in Ops PROVE Shaped(p)' /\ Revisions(p)' /\ Present(p)'
  <2>1. Shaped(p) /\ Revisions(p) /\ (p \in Unresolved' <=> p \in Unresolved) /\ op[p].base \in Nat /\ receipts[p] \in Nat
    BY <1>0, <1>1, OpFacts DEF Unresolved, TypeOK
  <2>2. Shaped(p)'
    BY <1>1, <2>1 DEF Shaped
  <2>3. Revisions(p)'
    BY <1>1, <1>2, <2>1 DEF Revisions
  <2>4. Present(p)'
    BY <1>1, <1>4 DEF Present
  <2> QED BY <2>2, <2>3, <2>4
<1>7. UNCHANGED <<workerVars, verified>> /\ generation <= generation'
  BY <1>1, <1>2 DEF workerVars
<1> QED BY <1>3, <1>5, <1>6, <1>7, ServerKeeps

-----------------------------------------------------------------------------
(* Results                                                                 *)

LEMMA InitInv ==
    ASSUME Init
    PROVE  UploadInv
<1>1. /\ NoOp \in OpRecords /\ NoOp.gen = 0 /\ NoOp.state = "none" /\ NoOp.sent = FALSE /\ NoOp.dep = 0
      /\ NoOp.kind = "none" /\ NoOp.base = 0
  BY DEF NoOp, OpRecords
<1>2. \A o \in Ops : op[o] = NoOp /\ receipts[o] = 0
  BY DEF Init
<1>3. Unresolved = {}
  BY <1>1, <1>2 DEF Unresolved
<1>4. TypeOK
  <2>1. op \in [Ops -> OpRecords] /\ receipts \in [Ops -> Nat]
    BY <1>1 DEF Init
  <2>2. /\ cand \in [Candidates -> {"absent", "ready", "stale", "deferred", "invalid", "covered"}]
        /\ authz \in [Candidates -> BOOLEAN] /\ coverage \in [Candidates -> Nat]
    BY DEF Init
  <2>3. supported \in BOOLEAN /\ faults \in 0 .. MaxFaults /\ foreign \in 0 .. MaxForeign
    BY UploadAssumption DEF Init
  <2> QED BY <2>1, <2>2, <2>3 DEF Init, TypeOK
<1>5. OneUnresolved /\ Awaited
  BY <1>3 DEF OneUnresolved, Awaited, Init
<1>6. Generations
  BY <1>1, <1>2, <1>3 DEF Generations, Init
<1>7. ASSUME NEW o \in Ops PROVE Shaped(o) /\ Revisions(o) /\ Present(o)
  <2>1. op[o] = NoOp /\ receipts[o] = 0 /\ o \notin Unresolved /\ net = {} /\ rev = 0 /\ generation = 1
    BY <1>2, <1>3 DEF Init
  <2> QED BY <1>1, <2>1 DEF Shaped, Revisions, Present
<1> QED BY <1>4, <1>5, <1>6, <1>7 DEF UploadInv

LEMMA StepKeeps ==
    ASSUME UploadInv, [Next]_vars
    PROVE  UploadInv'
<1>1. CASE UNCHANGED vars
  <2>1. /\ UNCHANGED <<cand, fresh, authz, coverage, op, binding, verified, login, busy, reply, net>>
        /\ UNCHANGED <<canon, rev, variants, generation, supported, receipts, faults, foreign>> /\ UNCHANGED serverVars
    BY <1>1 DEF vars, workerVars, procVars, serverVars, boundVars
  <2>2. TypeOK' /\ Awaited'
    BY <2>1 DEF UploadInv, TypeOK, Awaited
  <2>3. (verified' => verified) /\ \A c \in Candidates : coverage'[c] <= binding
    BY <2>1 DEF UploadInv, Generations
  <2>4. \A o \in Unresolved : cand'[op[o].cand] # "covered"
    BY <2>1 DEF UploadInv, Shaped, Unresolved
  <2> QED BY <2>1, <2>2, <2>3, <2>4, QuietKeeps
<1>2. ASSUME NEW c \in Candidates, Capture(c) \/ AncestryChanges(c) \/ Reconcile(c) \/ ReconcileFails(c)
      PROVE  UploadInv'
  BY <1>2, CaptureKeeps, PreparedKeeps, DownloadKeeps, ConnectionKeeps DEF Reconcile
<1>3. ASSUME NEW o \in Ops, Execute(o) \/ Handle(o, TRUE) \/ Handle(o, FALSE)
      PROVE  UploadInv'
  BY <1>3, DispatchKeeps, HoldKeeps, LookUpKeeps, ConnectionKeeps, HandleKeeps DEF Execute
<1>4. CASE \E v \in Foreign : ForeignWrite(v)
  BY <1>4, ForeignKeeps
<1>5. CASE Bind \/ Unauthorized \/ Login \/ Crash \/ Receive \/ ReplyLost \/ ReplyMalformed \/ Restore
  BY <1>5, BindKeeps, ConnectionKeeps, ReceiveKeeps, MalformedKeeps, RestoreKeeps
<1> QED BY <1>1, <1>2, <1>3, <1>4, <1>5 DEF Next

\* Operations of the session take turns, and one that was rejected or fenced in the
\* present history generation has no receipt and is refused by the server whatever
\* copies of its request are still on their way (markUncertain, reject, bind and
\* nextOperation of ArchiveWorkerState).
THEOREM OperationsFencedTheorem == Spec => []OperationsFenced
<1>1. UploadInv => OperationsFenced
  <2> SUFFICES ASSUME UploadInv PROVE GivenUpNeverCommits
    BY DEF UploadInv, OperationsFenced, WellFormed
  <2>1. ASSUME NEW o \in Ops, op[o].state \in {"rejected", "fenced"}, op[o].gen = generation,
               ~(op[o].kind = "current" /\ op[o].state = "fenced")
        PROVE  receipts[o] = 0 /\ (o \in net => Outcome(o) # "commit")
    BY <2>1, OpFacts, CommitIsWanted DEF Present
  <2> QED BY <2>1 DEF GivenUpNeverCommits
<1> QED BY <1>1, InitInv, StepKeeps, PTL DEF Spec

-----------------------------------------------------------------------------
(* The refinement                                                          *)

\* The versions the worker holds to be archived in the present generation.
Covered(c) == cand[c] = "covered" /\ coverage[c] = generation
Archived   == {Version[c] : c \in {x \in Candidates : Covered(x)}}

StoreStep == Store!Next \/ UNCHANGED Store!storeVars

\* The steps of the store, in terms of the worker's variables.
LEMMA StoreSteps ==
    ASSUME \/ UNCHANGED <<canon, variants, Archived>>
           \/ \E v \in Versions : \/ Store!Stored(v) /\ UNCHANGED <<canon, variants>> /\ Archived' = Archived \cup {v}
                                  \/ UNCHANGED <<canon, Archived>> /\ variants' = variants \cup {v}
                                  \/ UNCHANGED <<variants, Archived>> /\ Store!Replaceable(v) /\ canon' = v
           \/ canon' \in Versions \cup {Absent} /\ variants' = {} /\ Archived' = {}
    PROVE  StoreStep
<1>1. ASSUME UNCHANGED <<canon, variants, Archived>> PROVE StoreStep
  BY <1>1 DEF StoreStep, Store!storeVars, Archived, Covered
<1>2. ASSUME NEW v \in Versions, UNCHANGED <<canon, variants>>, Store!Stored(v), Archived' = Archived \cup {v} PROVE StoreStep
  <2>1. Store!Recognise(v) /\ v \in Store!Versions
    BY <1>2, StoreTerms DEF Store!Recognise, Archived, Covered
  <2> QED BY <2>1 DEF StoreStep, Store!Next
<1>3. ASSUME NEW v \in Versions, UNCHANGED <<canon, Archived>>, variants' = variants \cup {v} PROVE StoreStep
  <2>1. Store!Preserve(v) /\ v \in Store!Versions
    BY <1>3, StoreTerms DEF Store!Preserve, Archived, Covered
  <2> QED BY <2>1 DEF StoreStep, Store!Next
<1>4. ASSUME NEW v \in Versions, UNCHANGED <<variants, Archived>>, Store!Replaceable(v), canon' = v PROVE StoreStep
  <2>1. Store!Publish(v) /\ v \in Store!Versions
    BY <1>4, StoreTerms DEF Store!Publish, Archived, Covered
  <2> QED BY <2>1 DEF StoreStep, Store!Next
<1>5. ASSUME canon' \in Versions \cup {Absent}, variants' = {}, Archived' = {} PROVE StoreStep
  <2>0. PICK v \in Versions \cup {Absent} : canon' = v
    BY <1>5
  <2>1. Store!Restore(v) /\ v \in Store!Versions \cup {Store!Absent}
    BY <1>5, <2>0, StoreTerms DEF Store!Restore, Archived, Covered
  <2> QED BY <2>1 DEF StoreStep, Store!Next
<1> QED BY <1>1, <1>2, <1>3, <1>4, <1>5

\* The store does not see a step that leaves the server and the coverage alone.
LEMMA Unseen ==
    ASSUME UNCHANGED <<canon, variants>>, \A c \in Candidates : Covered(c)' <=> Covered(c)
    PROVE  StoreStep
<1>1. Archived' = Archived
  BY DEF Archived
<1> QED BY <1>1, StoreSteps

\* A candidate is covered: its version is recognised, or belongs to an old generation.
LEMMA CoverRecognises ==
    ASSUME UploadInv, NEW c \in Candidates, Cover(c), UNCHANGED <<canon, variants, generation>>,
           cand[c] # "covered", binding = generation => Store!Stored(Version[c])
    PROVE  StoreStep
<1>0. TypeOK /\ Generations
  BY DEF UploadInv
<1>1. \A x \in Candidates : x # c => (Covered(x)' <=> Covered(x))
  BY <1>0 DEF Cover, Covered, TypeOK
<1>2. Covered(c)' <=> binding = generation
  BY <1>0 DEF Cover, Covered, TypeOK
<1>3. ~Covered(c) /\ Version[c] \in Versions
  BY UploadAssumption DEF Covered
<1>4. CASE binding = generation
  <2>1. Archived' = Archived \cup {Version[c]}
    BY <1>1, <1>2, <1>3, <1>4 DEF Archived
  <2> QED BY <1>3, <1>4, <2>1, StoreSteps
<1>5. CASE binding # generation
  BY <1>1, <1>2, <1>3, <1>5, Unseen
<1> QED BY <1>4, <1>5

\* What the worker does without the server: nothing is forgotten that was held to
\* be archived in the present generation.
LEMMA CandidateUnseen ==
    ASSUME UploadInv, NEW c \in Candidates,
           Capture(c) \/ AncestryChanges(c) \/ PauseCandidate(c) \/ ReconcilePrepared(c) \/ ReconcileFails(c)
    PROVE  StoreStep
<1>0. TypeOK /\ Generations
  BY DEF UploadInv
<1>1. UNCHANGED <<canon, variants, generation>>
  BY DEF Capture, AncestryChanges, PauseCandidate, ReconcilePrepared, ReconcileFails, serverVars
<1>2. ASSUME NEW x \in Candidates PROVE Covered(x)' <=> Covered(x)
  <2>1. CASE Capture(c)
    <3>1. coverage[x] \in Nat /\ coverage[x] <= binding /\ binding \in Nat /\ generation \in Nat /\ binding <= generation
      BY <1>0 DEF TypeOK, Generations
    <3>2. Retaken(x) => ~Covered(x)
      BY <3>1 DEF Retaken, Covered
    <3> QED BY <1>0, <1>1, <2>1, <3>2 DEF Capture, Covered, TypeOK
  <2>2. CASE AncestryChanges(c) \/ PauseCandidate(c) \/ ReconcileFails(c)
    BY <1>0, <1>1, <2>2 DEF AncestryChanges, PauseCandidate, ReconcileFails, Covered, TypeOK
  <2>3. CASE ReconcilePrepared(c)
    BY <1>1, <2>3 DEF ReconcilePrepared, Covered
  <2> QED BY <2>1, <2>2, <2>3
<1> QED BY <1>1, <1>2, Unseen

LEMMA OperationUnseen ==
    ASSUME UploadInv, NEW o \in Ops, HoldOperation(o) \/ Dispatch(o) \/ ReceiptMismatch(o)
    PROVE  StoreStep
<1>0. TypeOK
  BY DEF UploadInv
<1>1. UNCHANGED <<canon, variants, generation>>
  BY DEF HoldOperation, Dispatch, ReceiptMismatch, serverVars
<1>2. ASSUME NEW x \in Candidates PROVE Covered(x)' <=> Covered(x)
  <2>1. CASE Dispatch(o) \/ ReceiptMismatch(o)
    BY <1>1, <2>1 DEF Dispatch, ReceiptMismatch, Covered, workerVars
  <2>2. CASE HoldOperation(o)
    <3>1. cand[op[o].cand] # "covered"
      BY <2>2, OpFacts DEF HoldOperation, Shaped
    <3> QED BY <1>0, <1>1, <2>2, <3>1 DEF HoldOperation, Covered, TypeOK
  <2> QED BY <2>1, <2>2
<1> QED BY <1>1, <1>2, Unseen

LEMMA ConnectionUnseen ==
    ASSUME UploadInv, Bind \/ Unauthorized \/ Login \/ Crash \/ ReplyLost \/ ReplyMalformed
    PROVE  StoreStep
<1>0. TypeOK
  BY DEF UploadInv
<1>1. UNCHANGED <<canon, variants, generation, coverage>>
  BY DEF Bind, Unauthorized, Login, Crash, ReplyLost, ReplyMalformed, serverVars, workerVars
<1>2. ASSUME NEW x \in Candidates PROVE cand'[x] = "covered" <=> cand[x] = "covered"
  BY <1>0 DEF Bind, Unauthorized, Login, Crash, ReplyLost, ReplyMalformed, workerVars, TypeOK
<1> QED BY <1>1, <1>2, Unseen DEF Covered

\* A download that covers the candidate shows that its version is stored.
LEMMA DownloadRefines ==
    ASSUME UploadInv, NEW c \in Candidates, ReconcileDownload(c)
    PROVE  StoreStep
<1>0. TypeOK
  BY DEF UploadInv
<1> DEFINE decision == ReconcileArchive(Version[c], canon, supported)
<1>1. UNCHANGED <<canon, variants, generation>> /\ cand[c] = "ready"
  BY DEF ReconcileDownload, serverVars
<1>2. CASE decision = "covered" /\ Cover(c)
  <2>1. Version[c] \in Versions /\ canon \in Versions \cup {Absent} /\ supported \in BOOLEAN
    BY <1>0, UploadAssumption DEF TypeOK
  <2>2. Covering(canon, Version[c])
    BY <1>2, <2>1, DecisionAllowed
  <2>3. Store!Stored(Version[c])
    BY <2>2, StoreTerms
  <2> QED BY <1>1, <1>2, <2>3, CoverRecognises
<1>3. CASE UNCHANGED coverage /\ (UNCHANGED cand \/ cand' = [cand EXCEPT ![c] = "deferred"])
  <2>1. \A x \in Candidates : Covered(x)' <=> Covered(x)
    BY <1>0, <1>1, <1>3 DEF Covered, TypeOK
  <2> QED BY <1>1, <2>1, Unseen
<1> QED BY <1>2, <1>3 DEF ReconcileDownload

\* An operation with a receipt stored its version.
LEMMA AcceptRefines ==
    ASSUME UploadInv, NEW o \in Ops, o \in Unresolved, receipts[o] # 0, Accept(o), UNCHANGED <<canon, variants, generation>>
    PROVE  StoreStep
<1>1. /\ op[o].gen = binding /\ Present(o) /\ op[o].cand \in Candidates /\ op[o].kind \in {"publish", "uploaded", "current"}
      /\ cand[op[o].cand] # "covered"
  BY OpFacts DEF Shaped, OpRecords
<1>2. CASE op[o].kind = "current"
  <2>1. \A x \in Candidates : Covered(x)' <=> Covered(x)
    BY <1>2 DEF Accept, Covered
  <2> QED BY <2>1, Unseen
<1>3. CASE op[o].kind # "current"
  <2>1. binding = generation => Store!Stored(Version[op[o].cand])
    BY <1>1, <1>3 DEF Present
  <2>2. PICK c \in Candidates : c = op[o].cand
    BY <1>1
  <2>3. Cover(c)
    BY <1>3, <2>2 DEF Accept
  <2> QED BY <1>1, <2>1, <2>2, <2>3, CoverRecognises
<1> QED BY <1>2, <1>3

LEMMA LookUpRefines ==
    ASSUME UploadInv, NEW o \in Ops, LookUpReceipt(o)
    PROVE  StoreStep
<1>0. TypeOK
  BY DEF UploadInv
<1>1. /\ UNCHANGED <<canon, variants, generation>> /\ o \in Unresolved /\ cand[op[o].cand] # "covered"
  BY OpFacts DEF LookUpReceipt, serverVars, Shaped
<1>2. CASE receipts[o] # 0 /\ Accept(o)
  BY <1>1, <1>2, AcceptRefines
<1>3. CASE UNCHANGED coverage /\ (UNCHANGED cand \/ cand' = [cand EXCEPT ![op[o].cand] = "stale"])
  <2>1. \A x \in Candidates : Covered(x)' <=> Covered(x)
    BY <1>0, <1>1, <1>3 DEF Covered, TypeOK
  <2> QED BY <1>1, <2>1, Unseen
<1> QED BY <1>2, <1>3 DEF LookUpReceipt

LEMMA ReceiveRefines ==
    ASSUME UploadInv, Receive
    PROVE  StoreStep
<1>1. UNCHANGED <<canon, variants, generation>>
  BY DEF Receive, serverVars
<1>2. CASE reply = "accepted" /\ Accept(busy)
  <2>1. busy \in Ops /\ busy \in Unresolved /\ receipts[busy] # 0
    BY <1>2 DEF Receive, UploadInv, TypeOK, Awaited, Unresolved
  <2> QED BY <1>1, <1>2, <2>1, AcceptRefines
<1>3. CASE UNCHANGED <<cand, coverage>>
  BY <1>1, <1>3, Unseen DEF Covered
<1> QED BY <1>2, <1>3 DEF Receive

\* The server commits what the store allows.
LEMMA HandleRefines ==
    ASSUME UploadInv, NEW o \in Ops, NEW awaited \in BOOLEAN, Handle(o, awaited)
    PROVE  StoreStep
<1>1. o \in net /\ UNCHANGED <<cand, coverage>>
  BY DEF Handle, workerVars
<1>2. CASE Outcome(o) # "commit"
  <2>1. UNCHANGED <<canon, variants, generation>>
    BY <1>2 DEF Handle, serverVars
  <2> QED BY <1>1, <2>1, Unseen DEF Covered
<1>3. CASE Outcome(o) = "commit"
  <2>1. generation' = generation
    BY <1>3 DEF Handle
  <2>2. Archived' = Archived
    BY <1>1, <2>1 DEF Archived, Covered
  <2>3. PICK v \in Versions : v = Version[op[o].cand]
    BY <1>1, <1>3, CommitIsWanted
  <2>4. CASE op[o].kind = "publish"
    <3>1. canon' = v /\ variants' = variants
      BY <1>3, <2>3, <2>4 DEF Handle
    <3>2. Store!Replaceable(v)
      BY <1>1, <1>3, <2>3, <2>4, CommitIsWanted
    <3> QED BY <2>2, <3>1, <3>2, StoreSteps
  <2>5. CASE op[o].kind = "uploaded"
    <3>1. canon' = canon /\ variants' = variants \cup {v}
      BY <1>3, <2>3, <2>5 DEF Handle
    <3> QED BY <2>2, <3>1, StoreSteps
  <2>6. CASE op[o].kind = "current"
    <3>1. canon' = canon /\ variants' = variants \cup {canon}
      BY <1>3, <2>6 DEF Handle
    <3>2. canon \in Versions
      BY <1>1, <1>3, <2>6, CommitIsWanted
    <3> QED BY <2>2, <3>1, <3>2, StoreSteps
  <2> QED BY <1>1, <1>3, <2>4, <2>5, <2>6, CommitIsWanted
<1> QED BY <1>2, <1>3

LEMMA ForeignRefines ==
    ASSUME UploadInv, NEW v \in Foreign, ForeignWrite(v)
    PROVE  StoreStep
<1>1. UNCHANGED <<cand, coverage, generation>>
  BY DEF ForeignWrite, workerVars
<1>2. Archived' = Archived
  BY <1>1 DEF Archived, Covered
<1>3. v \in Versions /\ canon \in Versions \cup {Absent}
  BY UploadAssumption DEF UploadInv, TypeOK
<1>4. CASE Store!Replaceable(v) /\ canon' = v /\ UNCHANGED variants
  BY <1>2, <1>3, <1>4, StoreSteps
<1>5. CASE canon # Absent /\ variants' = variants \cup {canon} /\ UNCHANGED canon
  <2>1. canon \in Versions
    BY <1>3, <1>5
  <2> QED BY <1>2, <1>5, <2>1, StoreSteps
<1> QED BY <1>4, <1>5, StoreTerms DEF ForeignWrite

LEMMA RestoreRefines ==
    ASSUME UploadInv, Restore
    PROVE  StoreStep
<1>1. TypeOK /\ Generations
  BY DEF UploadInv
<1>2. /\ UNCHANGED <<cand, coverage>> /\ generation' = generation + 1
      /\ canon' \in Versions \cup {Absent} /\ variants' = {}
  BY UploadAssumption DEF Restore, workerVars
<1>3. ASSUME NEW x \in Candidates PROVE ~Covered(x)'
  <2>1. coverage[x] \in Nat /\ coverage[x] <= binding /\ binding \in Nat /\ generation \in Nat /\ binding <= generation
    BY <1>1 DEF TypeOK, Generations
  <2> QED BY <1>2, <2>1 DEF Covered
<1>4. Archived' = {}
  BY <1>3 DEF Archived
<1> QED BY <1>2, <1>4, StoreSteps

\* The worker, the server and the other machines implement ArchiveStore: a canonical
\* version is replaced only by one that covers it or once it is preserved, and a
\* candidate is covered only when the server stores a version that covers it, through
\* lost replies, delayed requests, crashes and restores (decide, accept, receipt and
\* bind of ArchiveWorkerEngine and ArchiveWorkerState).
THEOREM UploadImplementsStore == Spec => StoreKept
<1>1. Init => Store!Init
  <2> SUFFICES ASSUME Init PROVE Store!Init
    OBVIOUS
  <2>1. canon = Store!Absent /\ variants = {}
    BY StoreTerms DEF Init
  <2>2. Archived = {}
    BY DEF Init, Archived, Covered
  <2> QED BY <2>1, <2>2 DEF Store!Init, Archived, Covered
<1>2. UploadInv /\ [Next]_vars => StoreStep
  <2> SUFFICES ASSUME UploadInv, [Next]_vars PROVE StoreStep
    OBVIOUS
  <2>1. CASE UNCHANGED vars
    <3>1. UNCHANGED <<canon, variants, generation, cand, coverage>>
      BY <2>1 DEF vars, workerVars, serverVars
    <3> QED BY <3>1, Unseen DEF Covered
  <2>2. ASSUME NEW c \in Candidates, Capture(c) \/ AncestryChanges(c) \/ Reconcile(c) \/ ReconcileFails(c)
        PROVE  StoreStep
    BY <2>2, CandidateUnseen, DownloadRefines DEF Reconcile
  <2>3. ASSUME NEW o \in Ops, Execute(o) \/ Handle(o, TRUE) \/ Handle(o, FALSE)
        PROVE  StoreStep
    BY <2>3, OperationUnseen, LookUpRefines, HandleRefines DEF Execute
  <2> QED BY <2>1, <2>2, <2>3, ConnectionUnseen, ReceiveRefines, ForeignRefines, RestoreRefines DEF Next
<1>3. Spec => []UploadInv
  BY InitInv, StepKeeps, PTL DEF Spec
<1> QED BY <1>1, <1>2, <1>3, PTL DEF Spec, StoreKept, Store!Spec, StoreStep

-----------------------------------------------------------------------------
(* The promise of ArchiveStore                                             *)


\* A step of the store loses nothing: what covers the version it replaces covers what
\* that one covered.
LEMMA StoreLosesNothing ==
    ASSUME Store!NothingLost, StoreStep
    PROVE  Store!NothingLost'
<1>0. Archived \subseteq Versions
  BY UploadAssumption DEF Archived
<1>1. \A v \in Archived : Store!Stored(v)
  BY DEF Store!NothingLost, Archived, Covered
<1> SUFFICES ASSUME NEW w \in Archived' PROVE Store!Stored(w)'
  BY DEF Store!NothingLost, Archived, Covered
<1>2. ASSUME UNCHANGED <<canon, variants>>, Store!Stored(w) PROVE Store!Stored(w)'
  BY <1>2 DEF Store!Stored
<1>3. CASE UNCHANGED Store!storeVars
  BY <1>1, <1>2, <1>3 DEF Store!storeVars, Archived, Covered
<1>4. ASSUME NEW v \in Store!Versions, Store!Preserve(v) \/ Store!Publish(v) PROVE Store!Stored(w)'
  <2>1. w \in Versions /\ Store!Stored(w)
    BY <1>0, <1>1, <1>4 DEF Store!Preserve, Store!Publish, Archived, Covered
  <2>2. \/ canon' = canon /\ variants \subseteq variants'
        \/ variants' = variants /\ Store!Replaceable(canon')
    BY <1>4 DEF Store!Preserve, Store!Publish, Store!Replaceable
  <2> QED BY <2>1, <2>2, StoredStays
<1>5. ASSUME NEW v \in Store!Versions, Store!Recognise(v) PROVE Store!Stored(w)'
  <2>1. UNCHANGED <<canon, variants>> /\ Store!Stored(v) /\ (w \in Archived \/ w = v)
    BY <1>5 DEF Store!Recognise, Archived, Covered
  <2> QED BY <1>1, <1>2, <2>1
<1>6. ASSUME NEW v, Store!Restore(v) PROVE FALSE
  BY <1>6 DEF Store!Restore, Archived, Covered
<1> QED BY <1>3, <1>4, <1>5, <1>6 DEF StoreStep, Store!Next

\* Whatever is merged in whatever order, nothing that was recognised as archived
\* is lost while the history generation lasts: a worker may forget its copy of what it
\* holds to be covered.
THEOREM ArchiveLosesNothing == Spec => []Store!NothingLost
<1>1. Store!Init => Store!NothingLost
  BY DEF Store!Init, Store!NothingLost
<1>2. Store!NothingLost /\ StoreStep => Store!NothingLost'
  BY StoreLosesNothing
<1>3. Store!Spec => []Store!NothingLost
  BY <1>1, <1>2, PTL DEF Store!Spec, StoreStep
<1> QED BY <1>3, UploadImplementsStore, PTL DEF StoreKept

-----------------------------------------------------------------------------
(* ConfigSync                                                              *)

\* The client of ConfigSync on its own.
ConfigSpec == ConfigInit /\ [][ConfigNext]_configVars

\* Types.
Contents == SUBSET Settings
Stages == {"idle", "check", "exchange", "apply", "prepare", "recheck", "rename", "ack"}
States == [revision : Nat, content : Contents]
PendingType == [state : {"none", "frozen", "applying"}, id : {0, 1, 2}, revision : Nat \cup {Unbound},
                content : Contents, materialized : Contents, captured : Contents]
PassType == [stage : Stages, mode : {"sync", "local", "server"}, attempt : {0, 1}, selected : Contents,
             response : States, materialized : Contents]

ConfigType ==
    /\ local \in Contents /\ masks \in Contents
    /\ server \in States
    /\ entry.base \in [revision : Nat \cup {Unbound}, content : Contents]
    /\ entry.materialized \in Contents
    /\ entry.pending \in PendingType
    /\ entry = [base |-> entry.base, materialized |-> entry.materialized, pending |-> entry.pending]
    /\ pass \in PassType

\* A pass works on pending work; only a file is rewritten, and only an interrupted
\* application of a file needs a choice.
PassPending ==
    /\ pass.stage # "idle" => entry.pending.state # "none"
    /\ entry.pending.state = "none" <=> entry.pending.id = 0
    /\ pass.stage \in {"prepare", "recheck", "rename", "ack"} => item = "file"
    /\ entry.pending.state = "applying" => item = "file"
    /\ pass.mode # "sync" => item = "file"
    /\ (pass.mode = "local" /\ pass.stage \in {"prepare", "recheck", "rename", "ack"}) => pass.attempt = 1
    /\ (pass.mode = "local" /\ pass.attempt = 1 /\ pass.stage \in {"check", "exchange", "apply", "prepare"})
         => entry.pending.state = "frozen"

\* What may be overwritten is recoverable before it is.
FrozenFile == (item = "file" /\ entry.pending.state = "frozen") => entry.pending.materialized = entry.pending.content
CapturedKept == entry.pending.state = "applying" => entry.pending.captured \in recovery
ServerModeKept ==
    (pass.mode = "server" /\ pass.stage = "prepare") => pass.selected \in recovery
RewriteKept ==
    /\ pass.stage \in {"recheck", "rename"} => pass.materialized \in recovery
    /\ pass.stage = "rename" => local = pass.materialized \/ local \in blind
ReplacedKept == replaced \ blind \subseteq recovery

\* A request that was sent is the one that is pending under its identity.
SentIsPending ==
    /\ \A r \in sent : /\ r.id \in {1, 2}
                       /\ r = [id |-> r.id, revision |-> r.revision, content |-> r.content]
    /\ \A r \in sent : r.id = entry.pending.id => (r.revision = entry.pending.revision /\ r.content = entry.pending.content)

\* Revisions identify what the server had, and no rule leaves both tables.
RevisionsKnown ==
    /\ server.revision = 0 => server.content = {}
    /\ entry.base.revision <= server.revision
    /\ entry.base.revision = server.revision => entry.base.content = server.content
    /\ entry.pending.revision <= server.revision
    /\ pass.stage \in {"apply", "prepare", "recheck", "rename", "ack"} =>
         /\ pass.response.revision <= server.revision
         /\ pass.response.revision = server.revision => pass.response.content = server.content
RulesKept == item = "global" =>
    /\ entry.materialized \subseteq local \cup masks
    /\ entry.pending.state # "none" => entry.pending.materialized \subseteq local \cup masks
    /\ entry.pending.state # "none" /\ entry.pending.revision = server.revision => server.content \subseteq entry.pending.content

\* The inductive invariant.
ConfigInv ==
    /\ ConfigType /\ PassPending /\ FrozenFile /\ CapturedKept /\ ServerModeKept /\ RewriteKept /\ ReplacedKept
    /\ SentIsPending /\ FrozenExchange /\ RevisionsKnown /\ RulesKept

\* The same types, field by field.
ConfigFields ==
    /\ local \in Contents /\ masks \in Contents
    /\ server \in States /\ server.revision \in Nat /\ server.content \in Contents
    /\ entry.base \in [revision : Nat \cup {Unbound}, content : Contents]
    /\ entry.base.revision \in Nat \cup {Unbound} /\ entry.base.content \in Contents /\ entry.materialized \in Contents
    /\ entry = [base |-> entry.base, materialized |-> entry.materialized, pending |-> entry.pending]
    /\ entry.pending \in PendingType /\ entry.pending.state \in {"none", "frozen", "applying"} /\ entry.pending.id \in {0, 1, 2}
    /\ entry.pending.revision \in Nat \cup {Unbound} /\ entry.pending.content \in Contents
    /\ entry.pending.materialized \in Contents /\ entry.pending.captured \in Contents
    /\ pass \in PassType /\ pass.stage \in Stages /\ pass.mode \in {"sync", "local", "server"} /\ pass.attempt \in {0, 1}
    /\ pass.selected \in Contents /\ pass.materialized \in Contents
    /\ pass.response \in States /\ pass.response.revision \in Nat /\ pass.response.content \in Contents

\* The types of the fields.
LEMMA ConfigFieldsHold == ASSUME ConfigInv PROVE ConfigFields
BY DEF ConfigInv, ConfigType, ConfigFields, States, PendingType, PassType

\* No pass.
LEMMA IdlePass == Idle.stage = "idle" /\ Idle.mode = "sync" /\ Idle \in PassType
BY DEF Idle, PassType, States, Stages, Contents

\* Nothing pending.
LEMMA NothingPending ==
    /\ NoPending \in PendingType /\ NoPending.state = "none" /\ NoPending.id = 0 /\ NoPending.revision = Unbound
BY DEF NoPending, PendingType, Contents

\* The server changes nothing, or makes the next revision.
LEMMA ServerMoves ==
    ASSUME ConfigFields, RevisionsKnown, Exchange
    PROVE  server' \in States /\ (server' = server \/ server'.revision = server.revision + 1)
<1>1. PICK next \in [revision : 0..(server.revision + 1), content : SUBSET Settings] :
        ServerAccepts(Request, next) /\ server' = next
  BY DEF Exchange
<1>2. next \in States
  BY <1>1 DEF ConfigFields, States, Contents
<1>3. next = server \/ next.revision = server.revision + 1
  <2>1. Request.revision \in Nat \cup {Unbound} /\ Request.revision <= server.revision /\ server.revision \in Nat
    BY DEF Request, ConfigFields, RevisionsKnown
  <2>2. \/ Request.revision = server.revision \/ (Request.revision = Unbound /\ server.revision = 0)
        \/ Request.revision = Unbound /\ server.revision # 0
        \/ Request.revision \in 0..(server.revision - 1)
    BY <2>1 DEF Unbound
  <2>3. Request.revision = Unbound => Request.revision \notin 0..(server.revision - 1) /\ Request.revision # server.revision
    BY <2>1 DEF Unbound
  <2>4. Request.revision \in 0..(server.revision - 1) => Request.revision # server.revision
    BY <2>1
  <2>5. CASE Request.id \in changes \/ Request.content = server.content
    BY <1>1, <2>5 DEF ServerAccepts
  <2>6. CASE ~(Request.id \in changes \/ Request.content = server.content)
    <3>1. CASE Request.revision = server.revision \/ (Request.revision = Unbound /\ server.revision = 0)
      <4>1. next = [revision |-> server.revision + 1, content |-> Request.content]
        BY <1>1, <2>3, <2>4, <2>6, <3>1 DEF ServerAccepts
      <4> QED
        BY <4>1
    <3>2. CASE Request.revision = Unbound /\ server.revision # 0
      BY <1>1, <2>3, <2>6, <3>2 DEF ServerAccepts
    <3>3. CASE Request.revision \in 0..(server.revision - 1)
      <4>1. \/ next = server
            \/ next = [revision |-> server.revision + 1, content |-> server.content \cup Request.content]
        BY <1>1, <2>3, <2>4, <2>6, <3>3 DEF ServerAccepts
      <4> QED
        BY <4>1
    <3> QED
      BY <2>2, <3>1, <3>2, <3>3
  <2> QED
    BY <2>5, <2>6
<1> QED
  BY <1>1, <1>2, <1>3

\* A save: one that comes between the last look at the file and its rename is in blind.
LEMMA SaveKeeps ==
    ASSUME ConfigInv, NEW c \in Contents, Save(c)
    PROVE  ConfigInv'
<1> USE DEF ConfigInv
<1>t. ConfigFields
  BY ConfigFieldsHold
<1>f1. item = "file" /\ local' = c /\ UNCHANGED <<item, masks, server, sent, entry, recovery, pass, replaced>>
  BY DEF Save, userVars, remoteVars, historyVars
<1>f2. blind \subseteq blind' /\ (pass.stage = "rename" => c \in blind')
  BY DEF Save
<1>ConfigType. ConfigType'
  BY <1>t, <1>f1, <1>f2 DEF ConfigFields, ConfigType, States
<1>PassPending. PassPending'
  BY <1>t, <1>f1, <1>f2 DEF PassPending, ConfigFields, Unbound
<1>FrozenFile. FrozenFile'
  BY <1>t, <1>f1, <1>f2 DEF FrozenFile, ConfigFields, Unbound
<1>CapturedKept. CapturedKept'
  BY <1>t, <1>f1, <1>f2 DEF CapturedKept, ConfigFields, Unbound
<1>ServerModeKept. ServerModeKept'
  BY <1>t, <1>f1, <1>f2 DEF ServerModeKept, ConfigFields, Unbound
<1>RewriteKept. RewriteKept'
  <2>1. pass'.stage = pass.stage /\ pass'.materialized = pass.materialized
    BY <1>f1
  <2> QED
    BY <1>f1, <1>f2, <2>1 DEF RewriteKept
<1>ReplacedKept. ReplacedKept'
  BY <1>t, <1>f1, <1>f2 DEF ReplacedKept, ConfigFields, Unbound
<1>SentIsPending. SentIsPending'
  BY <1>t, <1>f1, <1>f2 DEF SentIsPending, ConfigFields, Unbound
<1>FrozenExchange. FrozenExchange'
  BY <1>t, <1>f1, <1>f2 DEF FrozenExchange, SentIsPending
<1>RevisionsKnown. RevisionsKnown'
  BY <1>t, <1>f1, <1>f2 DEF RevisionsKnown, ConfigFields, Unbound
<1>RulesKept. RulesKept'
  BY <1>t, <1>f1, <1>f2 DEF RulesKept, RevisionsKnown, ConfigFields, Unbound
<1> QED
  BY <1>ConfigType, <1>PassPending, <1>FrozenFile, <1>CapturedKept, <1>ServerModeKept, <1>RewriteKept, <1>ReplacedKept, <1>SentIsPending, <1>FrozenExchange, <1>RevisionsKnown, <1>RulesKept

\* A decision: a rule moves between the tables, never out of both.
LEMMA DecideKeeps ==
    ASSUME ConfigInv, NEW r \in Settings, NEW lifetime \in {"GLOBAL", "LOCAL"}, Decide(r, lifetime)
    PROVE  ConfigInv'
<1> USE DEF ConfigInv
<1>t. ConfigFields
  BY ConfigFieldsHold
<1>f1. item = "global" /\ UNCHANGED <<item, server, sent, entry, recovery, pass, replaced, blind>>
  BY DEF Decide, userVars, remoteVars, historyVars
<1>f2. local' \in Contents /\ masks' \in Contents /\ local \cup masks \subseteq local' \cup masks'
  BY <1>t DEF Decide, ConfigFields, Contents
<1>ConfigType. ConfigType'
  BY <1>t, <1>f1, <1>f2 DEF ConfigFields, ConfigType, States
<1>PassPending. PassPending'
  BY <1>t, <1>f1, <1>f2 DEF PassPending, ConfigFields, Unbound
<1>FrozenFile. FrozenFile'
  BY <1>t, <1>f1, <1>f2 DEF FrozenFile, ConfigFields, Unbound
<1>CapturedKept. CapturedKept'
  BY <1>t, <1>f1, <1>f2 DEF CapturedKept, ConfigFields, Unbound
<1>ServerModeKept. ServerModeKept'
  BY <1>t, <1>f1, <1>f2 DEF ServerModeKept, ConfigFields, Unbound
<1>RewriteKept. RewriteKept'
  BY <1>t, <1>f1, <1>f2 DEF RewriteKept, PassPending
<1>ReplacedKept. ReplacedKept'
  BY <1>t, <1>f1, <1>f2 DEF ReplacedKept, ConfigFields, Unbound
<1>SentIsPending. SentIsPending'
  BY <1>t, <1>f1, <1>f2 DEF SentIsPending, ConfigFields, Unbound
<1>FrozenExchange. FrozenExchange'
  BY <1>t, <1>f1, <1>f2 DEF FrozenExchange, SentIsPending
<1>RevisionsKnown. RevisionsKnown'
  BY <1>t, <1>f1, <1>f2 DEF RevisionsKnown, ConfigFields, Unbound
<1>RulesKept. RulesKept'
  BY <1>t, <1>f1, <1>f2 DEF RulesKept, RevisionsKnown, ConfigFields, Unbound
<1> QED
  BY <1>ConfigType, <1>PassPending, <1>FrozenFile, <1>CapturedKept, <1>ServerModeKept, <1>RewriteKept, <1>ReplacedKept, <1>SentIsPending, <1>FrozenExchange, <1>RevisionsKnown, <1>RulesKept

\* Another device: a new revision.
LEMMA OtherDeviceKeeps ==
    ASSUME ConfigInv, NEW c \in Contents, OtherDevice(c)
    PROVE  ConfigInv'
<1> USE DEF ConfigInv
<1>t. ConfigFields
  BY ConfigFieldsHold
<1>f1. UNCHANGED <<item, local, masks, sent, entry, recovery, pass, replaced, blind>>
  BY DEF OtherDevice, userVars, remoteVars, historyVars
<1>f2. server'.revision = server.revision + 1 /\ server'.content = c /\ server' \in States
  BY <1>t DEF OtherDevice, ConfigFields, States
<1>ConfigType. ConfigType'
  BY <1>t, <1>f1, <1>f2 DEF ConfigFields, ConfigType, States
<1>PassPending. PassPending'
  BY <1>t, <1>f1, <1>f2 DEF PassPending, ConfigFields, Unbound
<1>FrozenFile. FrozenFile'
  BY <1>t, <1>f1, <1>f2 DEF FrozenFile, ConfigFields, Unbound
<1>CapturedKept. CapturedKept'
  BY <1>t, <1>f1, <1>f2 DEF CapturedKept, ConfigFields, Unbound
<1>ServerModeKept. ServerModeKept'
  BY <1>t, <1>f1, <1>f2 DEF ServerModeKept, ConfigFields, Unbound
<1>RewriteKept. RewriteKept'
  BY <1>t, <1>f1, <1>f2 DEF RewriteKept, ConfigFields, Unbound
<1>ReplacedKept. ReplacedKept'
  BY <1>t, <1>f1, <1>f2 DEF ReplacedKept, ConfigFields, Unbound
<1>SentIsPending. SentIsPending'
  BY <1>t, <1>f1, <1>f2 DEF SentIsPending, ConfigFields, Unbound
<1>FrozenExchange. FrozenExchange'
  BY <1>t, <1>f1, <1>f2 DEF FrozenExchange, SentIsPending
<1>RevisionsKnown. RevisionsKnown'
  BY <1>t, <1>f1, <1>f2 DEF RevisionsKnown, ConfigFields, Unbound
<1>RulesKept. RulesKept'
  BY <1>t, <1>f1, <1>f2 DEF RulesKept, RevisionsKnown, ConfigFields, Unbound
<1> QED
  BY <1>ConfigType, <1>PassPending, <1>FrozenFile, <1>CapturedKept, <1>ServerModeKept, <1>RewriteKept, <1>ReplacedKept, <1>SentIsPending, <1>FrozenExchange, <1>RevisionsKnown, <1>RulesKept

\* A pass that is cut off leaves its pending work.
LEMMA AbandonKeeps ==
    ASSUME ConfigInv, AbandonPass
    PROVE  ConfigInv'
<1> USE DEF ConfigInv
<1>t. ConfigFields
  BY ConfigFieldsHold
<1>f1. UNCHANGED <<item, local, masks, server, sent, entry, recovery, replaced, blind>>
  BY DEF AbandonPass, userVars, remoteVars, historyVars
<1>f2. pass'.stage = "idle" /\ pass'.mode = "sync" /\ pass' \in PassType
  BY IdlePass DEF AbandonPass
<1>ConfigType. ConfigType'
  BY <1>t, <1>f1, <1>f2 DEF ConfigFields, ConfigType, States
<1>PassPending. PassPending'
  BY <1>t, <1>f1, <1>f2 DEF PassPending, ConfigFields, Unbound
<1>FrozenFile. FrozenFile'
  BY <1>t, <1>f1, <1>f2 DEF FrozenFile, ConfigFields, Unbound
<1>CapturedKept. CapturedKept'
  BY <1>t, <1>f1, <1>f2 DEF CapturedKept, ConfigFields, Unbound
<1>ServerModeKept. ServerModeKept'
  BY <1>t, <1>f1, <1>f2 DEF ServerModeKept, ConfigFields, Unbound
<1>RewriteKept. RewriteKept'
  BY <1>t, <1>f1, <1>f2 DEF RewriteKept, ConfigFields, Unbound
<1>ReplacedKept. ReplacedKept'
  BY <1>t, <1>f1, <1>f2 DEF ReplacedKept, ConfigFields, Unbound
<1>SentIsPending. SentIsPending'
  BY <1>t, <1>f1, <1>f2 DEF SentIsPending, ConfigFields, Unbound
<1>FrozenExchange. FrozenExchange'
  BY <1>t, <1>f1, <1>f2 DEF FrozenExchange, SentIsPending
<1>RevisionsKnown. RevisionsKnown'
  BY <1>t, <1>f1, <1>f2 DEF RevisionsKnown, ConfigFields, Unbound
<1>RulesKept. RulesKept'
  BY <1>t, <1>f1, <1>f2 DEF RulesKept, RevisionsKnown, ConfigFields, Unbound
<1> QED
  BY <1>ConfigType, <1>PassPending, <1>FrozenFile, <1>CapturedKept, <1>ServerModeKept, <1>RewriteKept, <1>ReplacedKept, <1>SentIsPending, <1>FrozenExchange, <1>RevisionsKnown, <1>RulesKept

\* Logout and login.
LEMMA ConnectKeeps ==
    ASSUME ConfigInv, Disconnect \/ Reconnect
    PROVE  ConfigInv'
<1> USE DEF ConfigInv
<1>t. ConfigFields
  BY ConfigFieldsHold
<1>f1. UNCHANGED <<item, local, masks, server, sent, entry, recovery, pass, replaced, blind>>
  BY DEF Disconnect, Reconnect, userVars, remoteVars, historyVars
<1>ConfigType. ConfigType'
  BY <1>t, <1>f1 DEF ConfigFields, ConfigType, States
<1>PassPending. PassPending'
  BY <1>t, <1>f1 DEF PassPending, ConfigFields, Unbound
<1>FrozenFile. FrozenFile'
  BY <1>t, <1>f1 DEF FrozenFile, ConfigFields, Unbound
<1>CapturedKept. CapturedKept'
  BY <1>t, <1>f1 DEF CapturedKept, ConfigFields, Unbound
<1>ServerModeKept. ServerModeKept'
  BY <1>t, <1>f1 DEF ServerModeKept, ConfigFields, Unbound
<1>RewriteKept. RewriteKept'
  BY <1>t, <1>f1 DEF RewriteKept, ConfigFields, Unbound
<1>ReplacedKept. ReplacedKept'
  BY <1>t, <1>f1 DEF ReplacedKept, ConfigFields, Unbound
<1>SentIsPending. SentIsPending'
  BY <1>t, <1>f1 DEF SentIsPending, ConfigFields, Unbound
<1>FrozenExchange. FrozenExchange'
  BY <1>t, <1>f1 DEF FrozenExchange, SentIsPending
<1>RevisionsKnown. RevisionsKnown'
  BY <1>t, <1>f1 DEF RevisionsKnown, ConfigFields, Unbound
<1>RulesKept. RulesKept'
  BY <1>t, <1>f1 DEF RulesKept, RevisionsKnown, ConfigFields, Unbound
<1> QED
  BY <1>ConfigType, <1>PassPending, <1>FrozenFile, <1>CapturedKept, <1>ServerModeKept, <1>RewriteKept, <1>ReplacedKept, <1>SentIsPending, <1>FrozenExchange, <1>RevisionsKnown, <1>RulesKept

\* What a pass will send is frozen under a fresh identity.
LEMMA StartKeeps ==
    ASSUME ConfigInv, NEW mode \in {"sync", "local", "server"}, StartPass(mode)
    PROVE  ConfigInv'
<1> USE DEF ConfigInv
<1>t. ConfigFields
  BY ConfigFieldsHold
<1>f1. UNCHANGED <<item, local, masks, server, recovery, replaced, blind>>
  BY DEF StartPass, UseFreshId, userVars, remoteVars, historyVars
<1>f2. /\ pass' \in PassType /\ pass'.stage = "check" /\ pass'.mode = mode /\ pass'.attempt = 0
  BY <1>t DEF StartPass, Idle, PassType, States, Stages, ConfigFields, Contents
<1>f3. mode # "sync" => item = "file" /\ entry.pending.state = "applying"
  BY DEF StartPass
<1>f4. \/ entry.pending.state # "none" /\ entry' = entry /\ sent' = sent
       \/ /\ entry.pending.state = "none"
          /\ entry'.base = entry.base /\ entry'.materialized = entry.materialized
          /\ entry'.pending = Frozen(Exported(local), entry.base.revision)
          /\ entry' = [base |-> entry'.base, materialized |-> entry'.materialized, pending |-> entry'.pending]
          /\ sent' = {r \in sent : r.id # FreshId}
  BY <1>t DEF StartPass, UseFreshId, remoteVars, ConfigFields
<1>f5. Exported(local) \in Contents
  BY <1>t DEF Exported, ConfigFields, Contents
<1>f6. entry.pending.state = "none" =>
        /\ entry'.pending \in PendingType /\ entry'.pending.state = "frozen" /\ entry'.pending.id = FreshId
        /\ entry'.pending.revision = entry.base.revision /\ entry'.pending.content = Exported(local)
        /\ entry'.pending.materialized = local /\ FreshId \in {1, 2}
  BY <1>t, <1>f4, <1>f5 DEF Frozen, FreshId, PendingType, ConfigFields, Contents
<1>f7. item = "file" => Exported(local) = local
  BY DEF Exported
<1>f8. (item = "global" /\ entry.base.revision # Unbound) => entry.base.content \subseteq Exported(local)
  BY DEF Exported, RulesKept
<1>ConfigType. ConfigType'
  BY <1>t, <1>f1, <1>f2, <1>f3, <1>f4, <1>f5, <1>f6, <1>f7, <1>f8 DEF ConfigFields, ConfigType, States
<1>PassPending. PassPending'
  BY <1>t, <1>f1, <1>f2, <1>f3, <1>f4, <1>f5, <1>f6, <1>f7, <1>f8 DEF PassPending, ConfigFields, Unbound
<1>FrozenFile. FrozenFile'
  BY <1>t, <1>f1, <1>f2, <1>f3, <1>f4, <1>f5, <1>f6, <1>f7, <1>f8 DEF FrozenFile, ConfigFields, Unbound
<1>CapturedKept. CapturedKept'
  BY <1>t, <1>f1, <1>f2, <1>f3, <1>f4, <1>f5, <1>f6, <1>f7, <1>f8 DEF CapturedKept, ConfigFields, Unbound
<1>ServerModeKept. ServerModeKept'
  BY <1>t, <1>f1, <1>f2, <1>f3, <1>f4, <1>f5, <1>f6, <1>f7, <1>f8 DEF ServerModeKept, ConfigFields, Unbound
<1>RewriteKept. RewriteKept'
  BY <1>t, <1>f1, <1>f2, <1>f3, <1>f4, <1>f5, <1>f6, <1>f7, <1>f8 DEF RewriteKept, ConfigFields, Unbound
<1>ReplacedKept. ReplacedKept'
  BY <1>t, <1>f1, <1>f2, <1>f3, <1>f4, <1>f5, <1>f6, <1>f7, <1>f8 DEF ReplacedKept, ConfigFields, Unbound
<1>SentIsPending. SentIsPending'
  BY <1>t, <1>f1, <1>f2, <1>f3, <1>f4, <1>f5, <1>f6, <1>f7, <1>f8 DEF SentIsPending, ConfigFields, Unbound
<1>FrozenExchange. FrozenExchange'
  BY <1>t, <1>f1, <1>f2, <1>f3, <1>f4, <1>f5, <1>f6, <1>f7, <1>f8 DEF FrozenExchange, SentIsPending
<1>RevisionsKnown. RevisionsKnown'
  BY <1>t, <1>f1, <1>f2, <1>f3, <1>f4, <1>f5, <1>f6, <1>f7, <1>f8 DEF RevisionsKnown, ConfigFields, Unbound
<1>RulesKept. RulesKept'
  BY <1>t, <1>f1, <1>f2, <1>f3, <1>f4, <1>f5, <1>f6, <1>f7, <1>f8 DEF RulesKept, RevisionsKnown, ConfigFields, Unbound
<1> QED
  BY <1>ConfigType, <1>PassPending, <1>FrozenFile, <1>CapturedKept, <1>ServerModeKept, <1>RewriteKept, <1>ReplacedKept, <1>SentIsPending, <1>FrozenExchange, <1>RevisionsKnown, <1>RulesKept

\* The check: nothing to exchange, or the exchange is next.
LEMMA CheckKeeps ==
    ASSUME ConfigInv, Check
    PROVE  ConfigInv'
<1> USE DEF ConfigInv
<1>t. ConfigFields
  BY ConfigFieldsHold
<1>f1. UNCHANGED <<item, masks, server, sent, recovery, replaced, blind>> /\ pass.stage = "check"
  BY DEF Check, userVars, remoteVars, historyVars
<1>f2. \/ /\ pass'.stage = "exchange" /\ pass'.mode = pass.mode /\ pass'.attempt = pass.attempt
          /\ pass' \in PassType /\ local' = local /\ entry' = entry
       \/ /\ pass' = Idle /\ entry.pending.state = "frozen" /\ entry'.base = entry.base /\ entry'.pending = NoPending
          /\ entry' = [base |-> entry'.base, materialized |-> entry'.materialized, pending |-> entry'.pending]
          /\ local' \in Contents /\ entry'.materialized \in Contents
          /\ item = "global" => entry'.materialized \subseteq local' \cup masks
  <2>1. CASE SkipsExchange
    <3>1. pass' = Idle /\ entry.pending.state = "frozen"
      BY <2>1 DEF Check, SkipsExchange
    <3>2. CASE item = "global" /\ entry.base.content # entry.pending.materialized
      BY <1>t, <2>1, <3>1, <3>2 DEF Check, ImportedPage, AcknowledgedGlobal, Acknowledged, RulesKept, ConfigFields, Contents
    <3>3. CASE ~(item = "global" /\ entry.base.content # entry.pending.materialized)
      BY <1>t, <2>1, <3>1, <3>3 DEF Check, Acknowledged, RulesKept, ConfigFields, Contents
    <3> QED
      BY <3>2, <3>3
  <2>2. CASE ~SkipsExchange
    BY <1>t, <2>2 DEF Check, ConfigFields, PassType, Stages
  <2> QED
    BY <2>1, <2>2
<1>f3. pass' = Idle => pass'.stage = "idle" /\ pass'.mode = "sync" /\ pass' \in PassType
  BY IdlePass
<1>f4. entry'.pending = NoPending => /\ entry'.pending \in PendingType /\ entry'.pending.state = "none" /\ entry'.pending.id = 0
                                  /\ entry'.pending.revision = Unbound
  BY NothingPending
<1>ConfigType. ConfigType'
  BY <1>t, <1>f1, <1>f2, <1>f3, <1>f4 DEF ConfigFields, ConfigType, States
<1>PassPending. PassPending'
  BY <1>t, <1>f1, <1>f2, <1>f3, <1>f4 DEF PassPending, ConfigFields, Unbound
<1>FrozenFile. FrozenFile'
  BY <1>t, <1>f1, <1>f2, <1>f3, <1>f4 DEF FrozenFile, ConfigFields, Unbound
<1>CapturedKept. CapturedKept'
  BY <1>t, <1>f1, <1>f2, <1>f3, <1>f4 DEF CapturedKept, ConfigFields, Unbound
<1>ServerModeKept. ServerModeKept'
  BY <1>t, <1>f1, <1>f2, <1>f3, <1>f4 DEF ServerModeKept, ConfigFields, Unbound
<1>RewriteKept. RewriteKept'
  BY <1>t, <1>f1, <1>f2, <1>f3, <1>f4 DEF RewriteKept, ConfigFields, Unbound
<1>ReplacedKept. ReplacedKept'
  BY <1>t, <1>f1, <1>f2, <1>f3, <1>f4 DEF ReplacedKept, ConfigFields, Unbound
<1>SentIsPending. SentIsPending'
  BY <1>t, <1>f1, <1>f2, <1>f3, <1>f4 DEF SentIsPending, ConfigFields, Unbound
<1>FrozenExchange. FrozenExchange'
  BY <1>t, <1>f1, <1>f2, <1>f3, <1>f4 DEF FrozenExchange, SentIsPending
<1>RevisionsKnown. RevisionsKnown'
  BY <1>t, <1>f1, <1>f2, <1>f3, <1>f4 DEF RevisionsKnown, ConfigFields, Unbound
<1>RulesKept. RulesKept'
  BY <1>t, <1>f1, <1>f2, <1>f3, <1>f4 DEF RulesKept, RevisionsKnown, ConfigFields, Unbound
<1> QED
  BY <1>ConfigType, <1>PassPending, <1>FrozenFile, <1>CapturedKept, <1>ServerModeKept, <1>RewriteKept, <1>ReplacedKept, <1>SentIsPending, <1>FrozenExchange, <1>RevisionsKnown, <1>RulesKept

\* Keep-local recovery: a new operation is frozen from the selected file.
LEMMA RebaseKeeps ==
    ASSUME ConfigInv, Rebase
    PROVE  ConfigInv'
<1> USE DEF ConfigInv
<1>t. ConfigFields
  BY ConfigFieldsHold
<1>f1. UNCHANGED <<item, local, masks, server, replaced, blind>> /\ pass.stage = "apply" /\ pass.mode = "local" /\ item = "file"
  BY DEF Rebase, UseFreshId, PassPending, userVars, remoteVars, historyVars
<1>f2. /\ pass' \in PassType /\ pass'.stage = "check" /\ pass'.mode = pass.mode /\ pass'.attempt = 1
  BY <1>t DEF Rebase, PassType, Stages, ConfigFields
<1>f3. /\ entry'.base = pass.response /\ entry'.materialized = pass.selected
       /\ entry' = [base |-> entry'.base, materialized |-> entry'.materialized, pending |-> entry'.pending]
       /\ entry'.pending = [Frozen(pass.selected, pass.response.revision) EXCEPT !.materialized = pass.selected]
  BY DEF Rebase
<1>f4. /\ entry'.pending \in PendingType /\ entry'.pending.state = "frozen" /\ entry'.pending.id = FreshId
       /\ entry'.pending.revision = pass.response.revision /\ entry'.pending.content = pass.selected
       /\ entry'.pending.materialized = pass.selected /\ FreshId \in {1, 2}
  BY <1>t, <1>f3 DEF Frozen, FreshId, PendingType, ConfigFields, Contents
<1>f5. recovery \subseteq recovery' /\ sent' = {r \in sent : r.id # FreshId}
  BY DEF Rebase, UseFreshId
<1>ConfigType. ConfigType'
  BY <1>t, <1>f1, <1>f2, <1>f3, <1>f4, <1>f5 DEF ConfigFields, ConfigType, States
<1>PassPending. PassPending'
  BY <1>t, <1>f1, <1>f2, <1>f3, <1>f4, <1>f5 DEF PassPending, ConfigFields, Unbound
<1>FrozenFile. FrozenFile'
  BY <1>t, <1>f1, <1>f2, <1>f3, <1>f4, <1>f5 DEF FrozenFile, ConfigFields, Unbound
<1>CapturedKept. CapturedKept'
  BY <1>t, <1>f1, <1>f2, <1>f3, <1>f4, <1>f5 DEF CapturedKept, ConfigFields, Unbound
<1>ServerModeKept. ServerModeKept'
  BY <1>t, <1>f1, <1>f2, <1>f3, <1>f4, <1>f5 DEF ServerModeKept, ConfigFields, Unbound
<1>RewriteKept. RewriteKept'
  BY <1>t, <1>f1, <1>f2, <1>f3, <1>f4, <1>f5 DEF RewriteKept, ConfigFields, Unbound
<1>ReplacedKept. ReplacedKept'
  BY <1>t, <1>f1, <1>f2, <1>f3, <1>f4, <1>f5 DEF ReplacedKept, ConfigFields, Unbound
<1>SentIsPending. SentIsPending'
  BY <1>t, <1>f1, <1>f2, <1>f3, <1>f4, <1>f5 DEF SentIsPending, ConfigFields, Unbound
<1>FrozenExchange. FrozenExchange'
  BY <1>t, <1>f1, <1>f2, <1>f3, <1>f4, <1>f5 DEF FrozenExchange, SentIsPending
<1>RevisionsKnown. RevisionsKnown'
  BY <1>t, <1>f1, <1>f2, <1>f3, <1>f4, <1>f5 DEF RevisionsKnown, ConfigFields, Unbound
<1>RulesKept. RulesKept'
  BY <1>t, <1>f1, <1>f2, <1>f3, <1>f4, <1>f5 DEF RulesKept, RevisionsKnown, ConfigFields, Unbound
<1> QED
  BY <1>ConfigType, <1>PassPending, <1>FrozenFile, <1>CapturedKept, <1>ServerModeKept, <1>RewriteKept, <1>ReplacedKept, <1>SentIsPending, <1>FrozenExchange, <1>RevisionsKnown, <1>RulesKept

\* GLOBAL rules: import and acknowledgement are one transaction.
LEMMA ApplyGlobalKeeps ==
    ASSUME ConfigInv, ApplyGlobal
    PROVE  ConfigInv'
<1> USE DEF ConfigInv
<1>t. ConfigFields
  BY ConfigFieldsHold
<1>f1. UNCHANGED <<item, masks, server, sent, replaced, blind>> /\ pass.stage = "apply" /\ item = "global" /\ recovery \subseteq recovery'
  BY DEF ApplyGlobal, userVars, remoteVars, historyVars
<1>f2. pass'.stage = "idle" /\ pass'.mode = "sync" /\ pass' \in PassType
  BY IdlePass DEF ApplyGlobal
<1>f3. /\ entry'.base = pass.response /\ entry'.pending = NoPending
       /\ entry' = [base |-> entry'.base, materialized |-> entry'.materialized, pending |-> entry'.pending]
       /\ local' \in Contents /\ entry'.materialized \in Contents
       /\ entry'.materialized \subseteq local' \cup masks
  BY <1>t DEF ApplyGlobal, ImportedPage, AcknowledgedGlobal, Acknowledged, RulesKept, PassPending, ConfigFields, Contents
<1>f4. /\ entry'.pending \in PendingType /\ entry'.pending.state = "none" /\ entry'.pending.id = 0
       /\ entry'.pending.revision = Unbound
  BY <1>f3, NothingPending
<1>ConfigType. ConfigType'
  BY <1>t, <1>f1, <1>f2, <1>f3, <1>f4 DEF ConfigFields, ConfigType, States
<1>PassPending. PassPending'
  BY <1>t, <1>f1, <1>f2, <1>f3, <1>f4 DEF PassPending, ConfigFields, Unbound
<1>FrozenFile. FrozenFile'
  BY <1>t, <1>f1, <1>f2, <1>f3, <1>f4 DEF FrozenFile, ConfigFields, Unbound
<1>CapturedKept. CapturedKept'
  BY <1>t, <1>f1, <1>f2, <1>f3, <1>f4 DEF CapturedKept, ConfigFields, Unbound
<1>ServerModeKept. ServerModeKept'
  BY <1>t, <1>f1, <1>f2, <1>f3, <1>f4 DEF ServerModeKept, ConfigFields, Unbound
<1>RewriteKept. RewriteKept'
  BY <1>t, <1>f1, <1>f2, <1>f3, <1>f4 DEF RewriteKept, ConfigFields, Unbound
<1>ReplacedKept. ReplacedKept'
  BY <1>t, <1>f1, <1>f2, <1>f3, <1>f4 DEF ReplacedKept, ConfigFields, Unbound
<1>SentIsPending. SentIsPending'
  BY <1>t, <1>f1, <1>f2, <1>f3, <1>f4 DEF SentIsPending, ConfigFields, Unbound
<1>FrozenExchange. FrozenExchange'
  BY <1>t, <1>f1, <1>f2, <1>f3, <1>f4 DEF FrozenExchange, SentIsPending
<1>RevisionsKnown. RevisionsKnown'
  BY <1>t, <1>f1, <1>f2, <1>f3, <1>f4 DEF RevisionsKnown, ConfigFields, Unbound
<1>RulesKept. RulesKept'
  BY <1>t, <1>f1, <1>f2, <1>f3, <1>f4 DEF RulesKept, RevisionsKnown, ConfigFields, Unbound
<1> QED
  BY <1>ConfigType, <1>PassPending, <1>FrozenFile, <1>CapturedKept, <1>ServerModeKept, <1>RewriteKept, <1>ReplacedKept, <1>SentIsPending, <1>FrozenExchange, <1>RevisionsKnown, <1>RulesKept

\* A file is looked at before anything is written.
LEMMA ApplyFileKeeps ==
    ASSUME ConfigInv, ApplyFile
    PROVE  ConfigInv'
<1> USE DEF ConfigInv
<1>t. ConfigFields
  BY ConfigFieldsHold
<1>f1. UNCHANGED <<item, local, masks, server, sent, entry, replaced, blind>> /\ pass.stage = "apply" /\ item = "file"
  BY DEF ApplyFile, userVars, remoteVars, historyVars
<1>f2. (pass.mode = "local" => pass.attempt = 1) /\ entry.pending.state # "none" /\ recovery \subseteq recovery'
  BY DEF ApplyFile, PassPending
<1>f3. WriteBack \in Contents
  BY <1>t, <1>f2 DEF WriteBack, ConfigFields
<1>f4. \/ pass' = Idle
       \/ /\ pass'.stage \in {"ack", "prepare"} /\ pass'.mode = pass.mode /\ pass'.attempt = pass.attempt
          /\ pass'.response = pass.response /\ pass'.selected = pass.selected /\ pass' \in PassType
          /\ pass'.stage = "prepare" /\ pass.mode = "server" => pass.selected \in recovery'
  <2>1. ASSUME pass' # Idle
        PROVE  /\ recovery' = IF pass.mode = "server" THEN recovery \cup Losing(WriteBack) ELSE recovery
               /\ \/ local = pass.response.content /\ pass' = [pass EXCEPT !.stage = "ack", !.materialized = pass.response.content]
                  \/ local # pass.response.content /\ local = WriteBack /\ pass' = [pass EXCEPT !.stage = "prepare"]
                  \/ local # pass.response.content /\ local # WriteBack /\ pass' = [pass EXCEPT !.stage = "ack", !.materialized = WriteBack]
    BY <2>1 DEF ApplyFile
  <2>2. CASE pass' # Idle
    <3>1. /\ pass'.stage \in {"ack", "prepare"} /\ pass'.mode = pass.mode /\ pass'.attempt = pass.attempt
          /\ pass'.response = pass.response /\ pass'.selected = pass.selected /\ pass' \in PassType
      BY <1>t, <1>f3, <2>1, <2>2 DEF ConfigFields, PassType, Stages
    <3>2. ASSUME pass'.stage = "prepare", pass.mode = "server" PROVE pass.selected \in recovery'
      <4>1. local # pass.response.content /\ local = WriteBack
        BY <1>t, <2>1, <2>2, <3>2 DEF ConfigFields, PassType
      <4> QED
        BY <2>1, <2>2, <3>2, <4>1 DEF Losing, WriteBack
    <3> QED
      BY <3>1, <3>2
  <2> QED
    BY <2>2
<1>f5. pass' = Idle => pass'.stage = "idle" /\ pass'.mode = "sync" /\ pass' \in PassType
  BY IdlePass
<1>ConfigType. ConfigType'
  BY <1>t, <1>f1, <1>f2, <1>f3, <1>f4, <1>f5 DEF ConfigFields, ConfigType, States
<1>PassPending. PassPending'
  BY <1>t, <1>f1, <1>f2, <1>f3, <1>f4, <1>f5 DEF PassPending, ConfigFields, Unbound
<1>FrozenFile. FrozenFile'
  BY <1>t, <1>f1, <1>f2, <1>f3, <1>f4, <1>f5 DEF FrozenFile, ConfigFields, Unbound
<1>CapturedKept. CapturedKept'
  BY <1>t, <1>f1, <1>f2, <1>f3, <1>f4, <1>f5 DEF CapturedKept, ConfigFields, Unbound
<1>ServerModeKept. ServerModeKept'
  BY <1>t, <1>f1, <1>f2, <1>f3, <1>f4, <1>f5 DEF ServerModeKept, ConfigFields, Unbound
<1>RewriteKept. RewriteKept'
  BY <1>t, <1>f1, <1>f2, <1>f3, <1>f4, <1>f5 DEF RewriteKept, ConfigFields, Unbound
<1>ReplacedKept. ReplacedKept'
  BY <1>t, <1>f1, <1>f2, <1>f3, <1>f4, <1>f5 DEF ReplacedKept, ConfigFields, Unbound
<1>SentIsPending. SentIsPending'
  BY <1>t, <1>f1, <1>f2, <1>f3, <1>f4, <1>f5 DEF SentIsPending, ConfigFields, Unbound
<1>FrozenExchange. FrozenExchange'
  BY <1>t, <1>f1, <1>f2, <1>f3, <1>f4, <1>f5 DEF FrozenExchange, SentIsPending
<1>RevisionsKnown. RevisionsKnown'
  BY <1>t, <1>f1, <1>f2, <1>f3, <1>f4, <1>f5 DEF RevisionsKnown, ConfigFields, Unbound
<1>RulesKept. RulesKept'
  BY <1>t, <1>f1, <1>f2, <1>f3, <1>f4, <1>f5 DEF RulesKept, RevisionsKnown, ConfigFields, Unbound
<1> QED
  BY <1>ConfigType, <1>PassPending, <1>FrozenFile, <1>CapturedKept, <1>ServerModeKept, <1>RewriteKept, <1>ReplacedKept, <1>SentIsPending, <1>FrozenExchange, <1>RevisionsKnown, <1>RulesKept

\* The checkpoint: what will be overwritten is durable before the file is touched.
LEMMA PrepareApplicationKeeps ==
    ASSUME ConfigInv, PrepareApplication
    PROVE  ConfigInv'
<1> USE DEF ConfigInv
<1>t. ConfigFields
  BY ConfigFieldsHold
<1>f1. UNCHANGED <<item, local, masks, server, sent, replaced, blind>> /\ pass.stage = "prepare" /\ item = "file"
  BY DEF PrepareApplication, PassPending, userVars, remoteVars, historyVars
<1>f2. entry.pending.state # "none" /\ recovery \subseteq recovery' /\ entry.pending.content \in recovery'
  BY <1>f1 DEF PrepareApplication, PassPending
<1>f3. WriteBack \in Contents
  BY <1>t, <1>f2 DEF WriteBack, ConfigFields
<1>f4. WriteBack \in recovery'
  BY <1>t, <1>f1, <1>f2 DEF WriteBack, ConfigFields, ServerModeKept, CapturedKept, FrozenFile
<1>f5. /\ pass' \in PassType /\ pass'.stage = "recheck" /\ pass'.mode = pass.mode /\ pass'.attempt = pass.attempt
       /\ pass'.response = pass.response /\ pass'.materialized = WriteBack
  BY <1>t, <1>f3 DEF PrepareApplication, PassType, Stages, ConfigFields
<1>f6. /\ entry'.base = entry.base /\ entry'.materialized = entry.materialized
       /\ entry' = [base |-> entry'.base, materialized |-> entry'.materialized, pending |-> entry'.pending]
       /\ entry'.pending = [entry.pending EXCEPT !.state = "applying", !.captured = WriteBack]
  BY <1>t DEF PrepareApplication, ConfigFields
<1>f7. /\ entry'.pending \in PendingType /\ entry'.pending.state = "applying" /\ entry'.pending.captured = WriteBack
       /\ entry'.pending.id = entry.pending.id /\ entry'.pending.revision = entry.pending.revision
       /\ entry'.pending.content = entry.pending.content
  BY <1>t, <1>f3, <1>f6 DEF PendingType, ConfigFields
<1>ConfigType. ConfigType'
  BY <1>t, <1>f1, <1>f2, <1>f3, <1>f4, <1>f5, <1>f6, <1>f7 DEF ConfigFields, ConfigType, States
<1>PassPending. PassPending'
  BY <1>t, <1>f1, <1>f2, <1>f3, <1>f4, <1>f5, <1>f6, <1>f7 DEF PassPending, ConfigFields, Unbound
<1>FrozenFile. FrozenFile'
  BY <1>t, <1>f1, <1>f2, <1>f3, <1>f4, <1>f5, <1>f6, <1>f7 DEF FrozenFile, ConfigFields, Unbound
<1>CapturedKept. CapturedKept'
  BY <1>t, <1>f1, <1>f2, <1>f3, <1>f4, <1>f5, <1>f6, <1>f7 DEF CapturedKept, ConfigFields, Unbound
<1>ServerModeKept. ServerModeKept'
  BY <1>t, <1>f1, <1>f2, <1>f3, <1>f4, <1>f5, <1>f6, <1>f7 DEF ServerModeKept, ConfigFields, Unbound
<1>RewriteKept. RewriteKept'
  BY <1>t, <1>f1, <1>f2, <1>f3, <1>f4, <1>f5, <1>f6, <1>f7 DEF RewriteKept, ConfigFields, Unbound
<1>ReplacedKept. ReplacedKept'
  BY <1>t, <1>f1, <1>f2, <1>f3, <1>f4, <1>f5, <1>f6, <1>f7 DEF ReplacedKept, ConfigFields, Unbound
<1>SentIsPending. SentIsPending'
  BY <1>t, <1>f1, <1>f2, <1>f3, <1>f4, <1>f5, <1>f6, <1>f7 DEF SentIsPending, ConfigFields, Unbound
<1>FrozenExchange. FrozenExchange'
  BY <1>t, <1>f1, <1>f2, <1>f3, <1>f4, <1>f5, <1>f6, <1>f7 DEF FrozenExchange, SentIsPending
<1>RevisionsKnown. RevisionsKnown'
  BY <1>t, <1>f1, <1>f2, <1>f3, <1>f4, <1>f5, <1>f6, <1>f7 DEF RevisionsKnown, ConfigFields, Unbound
<1>RulesKept. RulesKept'
  BY <1>t, <1>f1, <1>f2, <1>f3, <1>f4, <1>f5, <1>f6, <1>f7 DEF RulesKept, RevisionsKnown, ConfigFields, Unbound
<1> QED
  BY <1>ConfigType, <1>PassPending, <1>FrozenFile, <1>CapturedKept, <1>ServerModeKept, <1>RewriteKept, <1>ReplacedKept, <1>SentIsPending, <1>FrozenExchange, <1>RevisionsKnown, <1>RulesKept

\* The file is read once more after the checkpoint.
LEMMA RecheckKeeps ==
    ASSUME ConfigInv, RecheckPass
    PROVE  ConfigInv'
<1> USE DEF ConfigInv
<1>t. ConfigFields
  BY ConfigFieldsHold
<1>f1. UNCHANGED <<item, local, masks, server, sent, entry, recovery, replaced, blind>> /\ pass.stage = "recheck"
  BY DEF RecheckPass, userVars, remoteVars, historyVars
<1>f2. /\ pass' \in PassType /\ pass'.mode = pass.mode /\ pass'.attempt = pass.attempt /\ pass'.response = pass.response
       /\ \/ pass'.stage = "ack"
          \/ pass'.stage = "rename" /\ local = pass.materialized /\ pass'.materialized = pass.materialized
  BY <1>t DEF RecheckPass, StillCaptured, PassType, Stages, ConfigFields
<1>ConfigType. ConfigType'
  BY <1>t, <1>f1, <1>f2 DEF ConfigFields, ConfigType, States
<1>PassPending. PassPending'
  BY <1>t, <1>f1, <1>f2 DEF PassPending, ConfigFields, Unbound
<1>FrozenFile. FrozenFile'
  BY <1>t, <1>f1, <1>f2 DEF FrozenFile, ConfigFields, Unbound
<1>CapturedKept. CapturedKept'
  BY <1>t, <1>f1, <1>f2 DEF CapturedKept, ConfigFields, Unbound
<1>ServerModeKept. ServerModeKept'
  BY <1>t, <1>f1, <1>f2 DEF ServerModeKept, ConfigFields, Unbound
<1>RewriteKept. RewriteKept'
  BY <1>t, <1>f1, <1>f2 DEF RewriteKept, ConfigFields, Unbound
<1>ReplacedKept. ReplacedKept'
  BY <1>t, <1>f1, <1>f2 DEF ReplacedKept, ConfigFields, Unbound
<1>SentIsPending. SentIsPending'
  BY <1>t, <1>f1, <1>f2 DEF SentIsPending, ConfigFields, Unbound
<1>FrozenExchange. FrozenExchange'
  BY <1>t, <1>f1, <1>f2 DEF FrozenExchange, SentIsPending
<1>RevisionsKnown. RevisionsKnown'
  BY <1>t, <1>f1, <1>f2 DEF RevisionsKnown, ConfigFields, Unbound
<1>RulesKept. RulesKept'
  BY <1>t, <1>f1, <1>f2 DEF RulesKept, RevisionsKnown, ConfigFields, Unbound
<1> QED
  BY <1>ConfigType, <1>PassPending, <1>FrozenFile, <1>CapturedKept, <1>ServerModeKept, <1>RewriteKept, <1>ReplacedKept, <1>SentIsPending, <1>FrozenExchange, <1>RevisionsKnown, <1>RulesKept

\* The rename replaces what the checkpoint kept, or a save of that very moment.
LEMMA RenameKeeps ==
    ASSUME ConfigInv, Rename
    PROVE  ConfigInv'
<1> USE DEF ConfigInv
<1>t. ConfigFields
  BY ConfigFieldsHold
<1>f1. UNCHANGED <<item, masks, server, sent, entry, recovery, blind>> /\ pass.stage = "rename" /\ replaced' = replaced \cup {local}
  BY DEF Rename, userVars, remoteVars, historyVars
<1>f2. local' \in Contents /\ item = "file"
  BY <1>t, <1>f1 DEF Rename, ConfigFields, PassPending
<1>f3. /\ pass' \in PassType /\ pass'.stage = "ack" /\ pass'.mode = pass.mode /\ pass'.attempt = pass.attempt
       /\ pass'.response = pass.response
  BY <1>t DEF Rename, PassType, Stages, ConfigFields
<1>ConfigType. ConfigType'
  BY <1>t, <1>f1, <1>f2, <1>f3 DEF ConfigFields, ConfigType, States
<1>PassPending. PassPending'
  BY <1>t, <1>f1, <1>f2, <1>f3 DEF PassPending, ConfigFields, Unbound
<1>FrozenFile. FrozenFile'
  BY <1>t, <1>f1, <1>f2, <1>f3 DEF FrozenFile, ConfigFields, Unbound
<1>CapturedKept. CapturedKept'
  BY <1>t, <1>f1, <1>f2, <1>f3 DEF CapturedKept, ConfigFields, Unbound
<1>ServerModeKept. ServerModeKept'
  BY <1>t, <1>f1, <1>f2, <1>f3 DEF ServerModeKept, ConfigFields, Unbound
<1>RewriteKept. RewriteKept'
  BY <1>t, <1>f1, <1>f2, <1>f3 DEF RewriteKept, ConfigFields, Unbound
<1>ReplacedKept. ReplacedKept'
  BY <1>f1 DEF ReplacedKept, RewriteKept
<1>SentIsPending. SentIsPending'
  BY <1>t, <1>f1, <1>f2, <1>f3 DEF SentIsPending, ConfigFields, Unbound
<1>FrozenExchange. FrozenExchange'
  BY <1>t, <1>f1, <1>f2, <1>f3 DEF FrozenExchange, SentIsPending
<1>RevisionsKnown. RevisionsKnown'
  BY <1>t, <1>f1, <1>f2, <1>f3 DEF RevisionsKnown, ConfigFields, Unbound
<1>RulesKept. RulesKept'
  BY <1>t, <1>f1, <1>f2, <1>f3 DEF RulesKept, RevisionsKnown, ConfigFields, Unbound
<1> QED
  BY <1>ConfigType, <1>PassPending, <1>FrozenFile, <1>CapturedKept, <1>ServerModeKept, <1>RewriteKept, <1>ReplacedKept, <1>SentIsPending, <1>FrozenExchange, <1>RevisionsKnown, <1>RulesKept

\* The acknowledgement: the response is the new base.
LEMMA AcknowledgeKeeps ==
    ASSUME ConfigInv, AcknowledgeExchange
    PROVE  ConfigInv'
<1> USE DEF ConfigInv
<1>t. ConfigFields
  BY ConfigFieldsHold
<1>f1. UNCHANGED <<item, local, masks, server, sent, replaced, blind>> /\ pass.stage = "ack" /\ item = "file" /\ recovery \subseteq recovery'
  BY DEF AcknowledgeExchange, PassPending, userVars, remoteVars, historyVars
<1>f2. pass'.stage = "idle" /\ pass'.mode = "sync" /\ pass' \in PassType
  BY IdlePass DEF AcknowledgeExchange
<1>f3. /\ entry'.base = pass.response /\ entry'.pending = NoPending /\ entry'.materialized = pass.materialized
       /\ entry' = [base |-> entry'.base, materialized |-> entry'.materialized, pending |-> entry'.pending]
  BY DEF AcknowledgeExchange, Acknowledged
<1>f4. /\ entry'.pending \in PendingType /\ entry'.pending.state = "none" /\ entry'.pending.id = 0
       /\ entry'.pending.revision = Unbound
  BY <1>f3, NothingPending
<1>ConfigType. ConfigType'
  BY <1>t, <1>f1, <1>f2, <1>f3, <1>f4 DEF ConfigFields, ConfigType, States
<1>PassPending. PassPending'
  BY <1>t, <1>f1, <1>f2, <1>f3, <1>f4 DEF PassPending, ConfigFields, Unbound
<1>FrozenFile. FrozenFile'
  BY <1>t, <1>f1, <1>f2, <1>f3, <1>f4 DEF FrozenFile, ConfigFields, Unbound
<1>CapturedKept. CapturedKept'
  BY <1>t, <1>f1, <1>f2, <1>f3, <1>f4 DEF CapturedKept, ConfigFields, Unbound
<1>ServerModeKept. ServerModeKept'
  BY <1>t, <1>f1, <1>f2, <1>f3, <1>f4 DEF ServerModeKept, ConfigFields, Unbound
<1>RewriteKept. RewriteKept'
  BY <1>t, <1>f1, <1>f2, <1>f3, <1>f4 DEF RewriteKept, ConfigFields, Unbound
<1>ReplacedKept. ReplacedKept'
  BY <1>t, <1>f1, <1>f2, <1>f3, <1>f4 DEF ReplacedKept, ConfigFields, Unbound
<1>SentIsPending. SentIsPending'
  BY <1>t, <1>f1, <1>f2, <1>f3, <1>f4 DEF SentIsPending, ConfigFields, Unbound
<1>FrozenExchange. FrozenExchange'
  BY <1>t, <1>f1, <1>f2, <1>f3, <1>f4 DEF FrozenExchange, SentIsPending
<1>RevisionsKnown. RevisionsKnown'
  BY <1>t, <1>f1, <1>f2, <1>f3, <1>f4 DEF RevisionsKnown, ConfigFields, Unbound
<1>RulesKept. RulesKept'
  BY <1>t, <1>f1, <1>f2, <1>f3, <1>f4 DEF RulesKept, RevisionsKnown, ConfigFields, Unbound
<1> QED
  BY <1>ConfigType, <1>PassPending, <1>FrozenFile, <1>CapturedKept, <1>ServerModeKept, <1>RewriteKept, <1>ReplacedKept, <1>SentIsPending, <1>FrozenExchange, <1>RevisionsKnown, <1>RulesKept

\* The exchange: what is sent is what is pending.
LEMMA ExchangeKeeps ==
    ASSUME ConfigInv, Exchange
    PROVE  ConfigInv'
<1> USE DEF ConfigInv
<1>t. ConfigFields
  BY ConfigFieldsHold
<1>f1. UNCHANGED <<item, local, masks, entry, recovery, replaced, blind>> /\ pass.stage = "exchange" /\ entry.pending.state # "none"
  BY DEF Exchange, PassPending, userVars, remoteVars, historyVars
<1>f2. /\ server' \in States
       /\ server' = server \/ server'.revision = server.revision + 1
  BY <1>t, ServerMoves
<1>f3. sent' = sent \cup {[id |-> entry.pending.id, revision |-> entry.pending.revision, content |-> entry.pending.content]}
  BY DEF Exchange, Request
<1>f4. \/ pass'.stage = "idle" /\ pass'.mode = "sync" /\ pass' \in PassType
       \/ /\ pass'.stage = "apply" /\ pass'.mode = pass.mode /\ pass'.attempt = pass.attempt
          /\ pass' \in PassType /\ pass'.response = server'
  <2>1. CASE pass' = [pass EXCEPT !.stage = "apply", !.response = server']
    <3>1. PICK s \in States : s = server'
      BY <1>f2
    <3>2. PICK p \in PassType : p = pass
      BY <1>t DEF ConfigFields
    <3>3. LET q == [p EXCEPT !.stage = "apply", !.response = s] IN
            /\ q \in PassType /\ q.stage = "apply" /\ q.mode = p.mode /\ q.attempt = p.attempt /\ q.response = s
      BY <3>1, <3>2 DEF PassType, Stages
    <3>4. pass' = [p EXCEPT !.stage = "apply", !.response = s]
      BY <2>1, <3>1, <3>2
    <3> QED
      BY <3>1, <3>2, <3>3, <3>4
  <2>2. CASE pass' = Idle
    BY <2>2, IdlePass
  <2> QED
    BY <2>1, <2>2 DEF Exchange
<1>f5. entry.pending.id \in {1, 2}
  BY <1>t, <1>f1 DEF PassPending, ConfigFields
<1>ConfigType. ConfigType'
  <2>1. pass' \in PassType /\ server' \in States
    BY <1>f2, <1>f4
  <2>2. UNCHANGED <<local, masks, entry>>
    BY <1>f1
  <2> QED
    BY <2>1, <2>2 DEF ConfigType
<1>PassPending. PassPending'
  BY <1>t, <1>f1, <1>f2, <1>f3, <1>f4, <1>f5 DEF PassPending, ConfigFields, Unbound
<1>FrozenFile. FrozenFile'
  BY <1>t, <1>f1, <1>f2, <1>f3, <1>f4, <1>f5 DEF FrozenFile, ConfigFields, Unbound
<1>CapturedKept. CapturedKept'
  BY <1>t, <1>f1, <1>f2, <1>f3, <1>f4, <1>f5 DEF CapturedKept, ConfigFields, Unbound
<1>ServerModeKept. ServerModeKept'
  BY <1>t, <1>f1, <1>f2, <1>f3, <1>f4, <1>f5 DEF ServerModeKept, ConfigFields, Unbound
<1>RewriteKept. RewriteKept'
  BY <1>t, <1>f1, <1>f2, <1>f3, <1>f4, <1>f5 DEF RewriteKept, ConfigFields, Unbound
<1>ReplacedKept. ReplacedKept'
  BY <1>t, <1>f1, <1>f2, <1>f3, <1>f4, <1>f5 DEF ReplacedKept, ConfigFields, Unbound
<1>SentIsPending. SentIsPending'
  BY <1>t, <1>f1, <1>f2, <1>f3, <1>f4, <1>f5 DEF SentIsPending, ConfigFields, Unbound
<1>FrozenExchange. FrozenExchange'
  BY <1>t, <1>f1, <1>f2, <1>f3, <1>f4, <1>f5 DEF FrozenExchange, SentIsPending
<1>RevisionsKnown. RevisionsKnown'
  BY <1>t, <1>f1, <1>f2, <1>f3, <1>f4, <1>f5 DEF RevisionsKnown, ConfigFields, Unbound
<1>RulesKept. RulesKept'
  BY <1>t, <1>f1, <1>f2, <1>f3, <1>f4, <1>f5 DEF RulesKept, RevisionsKnown, ConfigFields, Unbound
<1> QED
  BY <1>ConfigType, <1>PassPending, <1>FrozenFile, <1>CapturedKept, <1>ServerModeKept, <1>RewriteKept, <1>ReplacedKept, <1>SentIsPending, <1>FrozenExchange, <1>RevisionsKnown, <1>RulesKept

\* A step that leaves the variables alone.
LEMMA ConfigStutters ==
    ASSUME ConfigInv, UNCHANGED configVars
    PROVE  ConfigInv'
<1>1. UNCHANGED <<item, local, masks, server, sent, entry, recovery, pass, replaced, blind>>
  BY DEF configVars, userVars, remoteVars, historyVars
<1> QED
  BY <1>1 DEF ConfigInv, ConfigType, PassPending, FrozenFile, CapturedKept, ServerModeKept, RewriteKept, ReplacedKept,
              SentIsPending, FrozenExchange, RevisionsKnown, RulesKept

\* Every step keeps the invariant.
LEMMA ConfigStep ==
    ASSUME ConfigInv, [ConfigNext]_configVars
    PROVE  ConfigInv'
<1>1. CASE \E mode \in {"sync", "local", "server"} : StartPass(mode)
  BY <1>1, StartKeeps
<1>2. CASE \E c \in SUBSET Settings : Save(c) \/ OtherDevice(c)
  BY <1>2, SaveKeeps, OtherDeviceKeeps DEF Contents
<1>3. CASE \E r \in Settings, lifetime \in {"GLOBAL", "LOCAL"} : Decide(r, lifetime)
  BY <1>3, DecideKeeps
<1>4. CASE AbandonPass \/ Disconnect \/ Reconnect
  BY <1>4, AbandonKeeps, ConnectKeeps
<1>5. CASE PassStep
  BY <1>5, CheckKeeps, ExchangeKeeps, RebaseKeeps, ApplyGlobalKeeps, ApplyFileKeeps, PrepareApplicationKeeps,
     RecheckKeeps, RenameKeeps, AcknowledgeKeeps DEF PassStep
<1>6. CASE UNCHANGED configVars
  BY <1>6, ConfigStutters
<1> QED
  BY <1>1, <1>2, <1>3, <1>4, <1>5, <1>6 DEF ConfigNext

\* A client that has never synchronised, whatever the file and the server hold.
LEMMA ConfigStart == ConfigInit => ConfigInv
<1> SUFFICES ASSUME ConfigInit PROVE ConfigInv
  OBVIOUS
<1>1. /\ pass = Idle /\ sent = {} /\ replaced = {} /\ blind = {} /\ recovery = {} /\ masks = {} /\ local \in Contents
      /\ entry = [base |-> [revision |-> Unbound, content |-> {}], materialized |-> {}, pending |-> NoPending]
  BY DEF ConfigInit, Contents
<1>2. entry.base = [revision |-> Unbound, content |-> {}] /\ entry.materialized = {} /\ entry.pending = NoPending
  BY <1>1
<1>3. server \in States /\ (server.revision = 0 => server.content = {})
  BY DEF ConfigInit, States, Contents
<1>4. ConfigType
  BY <1>1, <1>2, <1>3, IdlePass, NothingPending DEF ConfigType, Contents
<1>5. PassPending /\ FrozenFile /\ CapturedKept /\ ServerModeKept /\ RewriteKept
  BY <1>1, <1>2, IdlePass, NothingPending DEF PassPending, FrozenFile, CapturedKept, ServerModeKept, RewriteKept
<1>6. ReplacedKept /\ SentIsPending /\ FrozenExchange
  BY <1>1 DEF ReplacedKept, SentIsPending, FrozenExchange
<1>7. server.revision \in Nat
  BY <1>3 DEF States
<1>8. RevisionsKnown
  BY <1>1, <1>2, <1>3, <1>7, IdlePass, NothingPending DEF RevisionsKnown, Unbound
<1>9. RulesKept
  BY <1>1, <1>2, NothingPending DEF RulesKept
<1> QED
  BY <1>4, <1>5, <1>6, <1>8, <1>9 DEF ConfigInv

\* It holds always.
LEMMA ConfigInvariant == ConfigSpec => []ConfigInv
BY ConfigStart, ConfigStep, PTL DEF ConfigSpec

\* Neither side of an exchange loses or changes what it stands for: what a pass
\* replaced in a file is in config_sync_recovery (prepareApplication comes first),
\* save for a save of the very moment of the rename; and a change identity that
\* reached the server always stood for the request that was frozen under it.
THEOREM ExchangeSafeTheorem == ConfigSpec => []ExchangeSafe
<1>1. ConfigInv => ExchangeSafe
  BY DEF ConfigInv, ReplacedKept, ExchangeSafe, SavesSurvive
<1> QED
  BY <1>1, ConfigInvariant, PTL

\* What a client sends for the revision the server has, holds every rule of that revision.
LEMMA RequestKeepsRules ==
    ASSUME ConfigInv, Exchange, item = "global"
    PROVE  server.content \subseteq server'.content
<1>t. ConfigFields
  BY ConfigFieldsHold
<1>1. PICK next \in [revision : 0..(server.revision + 1), content : SUBSET Settings] :
        ServerAccepts(Request, next) /\ server' = next
  BY DEF Exchange
<1> SUFFICES server.content \subseteq next.content
  BY <1>1
<1>2. Request.revision \in Nat \cup {Unbound} /\ Request.revision <= server.revision /\ server.revision \in Nat
  BY <1>t DEF Request, ConfigInv, ConfigFields, RevisionsKnown
<1>3. entry.pending.state # "none"
  BY DEF ConfigInv, PassPending, Exchange
<1>4. Request.revision = server.revision => server.content \subseteq Request.content
  BY <1>3 DEF ConfigInv, RulesKept, Request
<1>5. \/ Request.revision = server.revision \/ (Request.revision = Unbound /\ server.revision = 0)
      \/ Request.revision = Unbound /\ server.revision # 0
      \/ Request.revision \in 0..(server.revision - 1)
  BY <1>2 DEF Unbound
<1>6. Request.revision = Unbound => Request.revision \notin 0..(server.revision - 1) /\ Request.revision # server.revision
  BY <1>2 DEF Unbound
<1>7. Request.revision \in 0..(server.revision - 1) => Request.revision # server.revision
  BY <1>2
<1>8. CASE Request.id \in changes \/ Request.content = server.content
  BY <1>1, <1>8 DEF ServerAccepts
<1>9. CASE ~(Request.id \in changes \/ Request.content = server.content)
  <2>1. CASE Request.revision = server.revision \/ (Request.revision = Unbound /\ server.revision = 0)
    <3>1. next = [revision |-> server.revision + 1, content |-> Request.content]
      BY <1>1, <1>6, <1>7, <1>9, <2>1 DEF ServerAccepts
    <3>2. server.revision = 0 => server.content = {}
      BY DEF ConfigInv, RevisionsKnown
    <3> QED
      BY <1>4, <2>1, <3>1, <3>2
  <2>2. CASE Request.revision = Unbound /\ server.revision # 0
    BY <1>1, <1>6, <1>9, <2>2 DEF ServerAccepts
  <2>3. CASE Request.revision \in 0..(server.revision - 1)
    <3>1. \/ next = server
          \/ next = [revision |-> server.revision + 1, content |-> server.content \cup Request.content]
      BY <1>1, <1>6, <1>7, <1>9, <2>3 DEF ServerAccepts
    <3> QED
      BY <3>1
  <2> QED
    BY <1>5, <2>1, <2>2, <2>3
<1> QED
  BY <1>8, <1>9

\* A LOCAL decision never takes a rule from the other devices: capture() counts a
\* masked rule as still there, so no exchange of the GLOBAL rules, with a request
\* however old, makes a revision that lacks a rule of the one before.
THEOREM MaskNeverDeletesTheorem == ConfigSpec => MaskNeverDeletes
<1>1. ConfigInv => [item = "global" /\ Exchange => server.content \subseteq server'.content]_configVars
  BY RequestKeepsRules
<1> QED
  BY <1>1, ConfigInvariant, PTL DEF MaskNeverDeletes
=============================================================================
