------------------------------- MODULE MCFuse -------------------------------
(* Small instances of the session broker of the mounts and, apart from it,  *)
(* of the callbacks of one mount.  `focus' chooses the part that moves, the *)
(* other keeps its initial state.                                           *)
EXTENDS FuseSession, FuseCallbacks, TLC

VARIABLE focus

\* Two policies for the one visible path: reads allowed and writes denied, and
\* reads that are asked about.
Policy(read, write) == [e \in {"a"} \X Accesses |-> IF e[2] = "read" THEN read ELSE write]
MCTables == {Policy("allow", "deny"), Policy("ask", "allow")}

MCSymmetry == Permutations(Mounts) \cup Permutations(Threads)

MCInit ==
    /\ focus \in {"session", "callbacks"}
    /\ Init
    /\ CallbackInit
    /\ focus = "session" => target = Hidden /\ table = Policy("allow", "deny")

\* At most one of the two handles is open.
MCNext ==
    /\ UNCHANGED focus
    /\ \/ focus = "session" /\ Next /\ UNCHANGED callbackVars
       \/ focus = "callbacks" /\ CallbackNext /\ (file' = Closed \/ folder' = Closed) /\ UNCHANGED vars

MCSpec == MCInit /\ [][MCNext]_<<focus, vars, callbackVars>>
=============================================================================
