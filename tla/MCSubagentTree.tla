--------------------------- MODULE MCSubagentTree ---------------------------
(* Small instances of a tree of subagents, and of the timers of turns and   *)
(* tool calls that stand still while an approval is pending.  `focus'       *)
(* chooses the part that moves, the other keeps its initial state.          *)
EXTENDS MCSubagentCoordinator, ApprovalWaitScope

VARIABLE focus

\* A turn, a tool call in it and a native filesystem view at the bottom.
MCChain       == {"turn", "tool", "view"}
MCChainAbove  == [turn |-> {}, tool |-> {"turn"}, view |-> {"tool", "turn"}]
MCChainBudget == [turn |-> 3, tool |-> 2, view |-> 1]

\* Waits are independent calls too.
MCSymmetry == Symmetry \cup Permutations(Waits)

MCInit ==
    /\ focus \in {"jobs", "waits"}
    /\ Init
    /\ WaitInit /\ (focus # "waits" => base = [w \in Waits |-> "turn"])

MCNext ==
    /\ UNCHANGED focus
    /\ \/ focus = "jobs" /\ Next /\ UNCHANGED waitVars
       \/ focus = "waits" /\ WaitNext /\ UNCHANGED vars

MCSpec == MCInit /\ [][MCNext]_<<focus, vars, waitVars>>
=============================================================================
