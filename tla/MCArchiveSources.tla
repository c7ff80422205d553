-------------------------- MODULE MCArchiveSources --------------------------
(* Small instances of what lies before an upload: the handoff of session    *)
(* files to the archive worker, the families of sessions the worker finds,  *)
(* a capture that reads a file while it is written, and the journal of the  *)
(* foreground uploader.  `focus' chooses the part that moves, the others    *)
(* keep their initial states.                                               *)
EXTENDS ArchiveHandoff, ArchiveAncestry, ArchiveStableRead, ArchiveJournal, TLC

CONSTANTS f1, f2, f3

VARIABLE focus

\* Three sessions, of which two may be children; parents are named by id or by file.
Session(id) == [id |-> id, main |-> FALSE, child |-> FALSE, root |-> Nobody,
                parent |-> Nobody, header |-> Nobody, conflict |-> FALSE]
MainOf(id) == [Session(id) EXCEPT !.main = TRUE, !.root = id]
ChildOf(id, parent, header) == [Session(id) EXCEPT !.child = TRUE, !.parent = parent, !.header = header]

MCFiles == <<f1, f2, f3>>
MCContents ==
    {[f \in {f1, f2, f3} |-> CASE f = f1 -> a [] f = f2 -> b [] f = f3 -> c] :
        a \in {ChildOf("i1", Nobody, f2), ChildOf("i1", "i2", Nobody)},
        b \in {MainOf("i2"), ChildOf("i2", "i3", Nobody)},
        c \in {MainOf("i2"), ChildOf("i3", Nobody, "i2"), ChildOf("i3", "i2", f2)}}
MCActive == [file |-> f1, identity |-> ChildOf("i1", "i2", Nobody)]

\* A file that grows, diverges or is renamed in its title, and another one.
MCSnapshots ==
    {[file |-> "f", body |-> b, title |-> "x"] : b \in {<<1>>, <<1, 2>>, <<3>>}}
    \cup {[file |-> "f", body |-> <<1>>, title |-> "y"], [file |-> "g", body |-> <<1, 2>>, title |-> "x"]}

\* Nothing tells two descriptors apart.
Symmetry == Permutations(Descriptors)

MCInit ==
    /\ focus \in {"handoff", "families", "capture", "journal"}
    /\ Init /\ AncestryInit /\ StableInit /\ JournalInit
    /\ focus # "families" => content = (CHOOSE c \in Contents : TRUE) /\ scopeRow.members = "all"

MCNext ==
    /\ UNCHANGED focus
    /\ \/ focus = "handoff" /\ Next /\ UNCHANGED <<ancestryVars, stableVars, journalVars>>
       \/ focus = "families" /\ AncestryNext /\ UNCHANGED <<vars, stableVars, journalVars>>
       \/ focus = "capture" /\ StableNext /\ UNCHANGED <<vars, ancestryVars, journalVars>>
       \/ focus = "journal" /\ JournalNext /\ UNCHANGED <<vars, ancestryVars, stableVars>>

MCSpec == MCInit /\ [][MCNext]_<<focus, vars, ancestryVars, stableVars, journalVars>>
=============================================================================
