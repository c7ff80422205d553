---------------------------- MODULE ArchiveStore ----------------------------
(***************************************************************************)
(* What the archive promises about one session on the server: versions     *)
(* are merged in any order and none is lost.  The canonical version is     *)
(* replaced only by one that covers it, or once it is preserved as a       *)
(* variant; variants stay.  Only an administrative restore, which starts a *)
(* new history generation, takes anything away.                            *)
(***************************************************************************)
EXTENDS ArchiveReconciler

VARIABLES
    canon,      \* the canonical version, or Absent
    variants,   \* the preserved versions
    archived    \* versions a worker holds to be archived in this generation

storeVars == <<canon, variants, archived>>

Init == canon = Absent /\ variants = {} /\ archived = {}

\* A version is stored beside the canonical one.
Preserve(v) ==
    /\ variants' = variants \cup {v}
    /\ UNCHANGED <<canon, archived>>

\* A version becomes canonical.
Replaceable(v) == canon = Absent \/ Covering(v, canon) \/ canon \in variants

Publish(v) ==
    /\ Replaceable(v)
    /\ canon' = v
    /\ UNCHANGED <<variants, archived>>

\* A worker concludes that a version is archived, and may forget its copy.
Stored(v) == \E s \in variants \cup {canon} : Covering(s, v)

Recognise(v) ==
    /\ Stored(v)
    /\ archived' = archived \cup {v}
    /\ UNCHANGED <<canon, variants>>

\* An administrative restore starts a new history generation.
Restore(v) == canon' = v /\ variants' = {} /\ archived' = {}

Next == \/ \E v \in Versions : Preserve(v) \/ Publish(v) \/ Recognise(v)
        \/ \E v \in Versions \cup {Absent} : Restore(v)

Spec == Init /\ [][Next]_storeVars

\* Nothing held to be archived is lost.
NothingLost == \A v \in archived : Stored(v)
=============================================================================
