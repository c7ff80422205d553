------------------------- MODULE ArchiveReconciler -------------------------
(***************************************************************************)
(* reconcileArchive() of src/src/server/ArchiveReconciler.ts: what to do   *)
(* with a captured session file given the canonical one on the server.    *)
(*                                                                         *)
(* A version is a body with its metadata.  Bodies are known by the proper  *)
(* prefix relation and by Weight, which orders them by length and then by  *)
(* digest.  Metadata asserts a kind and a root, or leaves them out.        *)
(***************************************************************************)
EXTENDS Integers, FiniteSets

CONSTANTS
    Bodies,      \* session files
    Prefix,      \* pairs <<shorter, longer>> of bodies
    Weight,      \* injective; a proper prefix weighs less
    Metadata     \* metadata records

ASSUME BodiesAssumption ==
    /\ "absent" \notin Bodies
    /\ Prefix \subseteq Bodies \X Bodies
    /\ Weight \in [Bodies -> Nat]
    /\ \A a, b \in Bodies : Weight[a] = Weight[b] => a = b
    /\ \A p \in Prefix : Weight[p[1]] < Weight[p[2]]
    /\ \A p, q \in Prefix : p[2] = q[1] => <<p[1], q[2]>> \in Prefix
    /\ \A m \in Metadata : DOMAIN m = {"kind", "root", "title"}

Versions == [body : Bodies, meta : Metadata]
Absent   == [body |-> "absent", meta |-> "absent"]

\* losesAssertion(): an assertion of the shorter version the longer one drops.
LosesNothing(short, long) == FALSE                                      \* mutant
LosesAssertion(short, long) ==
    \/ short.kind # "none" /\ short.kind # long.kind
    \/ short.root # "none" /\ short.root # long.root

ProperPrefix(a, b) == <<a.body, b.body>> \in Prefix

\* preservation(): without the server's support the candidate waits.
Preservation(decision, supported) == IF supported THEN decision ELSE "defer"

\* Of two divergent versions the longer stays canonical, then the larger digest.
LocalPreferred(local, remote) == Weight[local.body] > Weight[remote.body]

ReconcileArchive(local, remote, supported) ==
    IF remote = Absent THEN "publish"
    ELSE IF local.body = remote.body
    THEN IF local.meta = remote.meta THEN "covered"
         ELSE Preservation("preserve-uploaded", supported)
    ELSE IF ProperPrefix(local, remote)
    THEN IF LosesAssertion(local.meta, remote.meta)
         THEN Preservation("preserve-uploaded", supported) ELSE "covered"
    ELSE IF ProperPrefix(remote, local)
    THEN IF LosesAssertion(remote.meta, local.meta)
         THEN Preservation("preserve-current-then-publish", supported) ELSE "publish"
    ELSE Preservation(IF LocalPreferred(local, remote) THEN "preserve-current-then-publish"
                                                       ELSE "preserve-uploaded", supported)

\* A stored version that holds everything another one says: the bytes, and the
\* kind and root it asserts.
Covering(stored, v) ==
    \/ stored = v
    \/ /\ stored # Absent /\ ProperPrefix(v, stored)
       /\ ~((v.meta.kind # "none" /\ v.meta.kind # stored.meta.kind)
            \/ (v.meta.root # "none" /\ v.meta.root # stored.meta.root))
=============================================================================
