---------------------------- MODULE MCSubagents ----------------------------
(* The parts of src/subagents that share no state, and the prompts to the   *)
(* user beside them: `focus` is the one a behaviour exercises, the others   *)
(* keep their initial state.                                                *)
EXTENDS SubagentCoordinator, SubagentPolicyReview, SubagentModels, DecisionPrompt

VARIABLE focus

MCDelegates == {{"delegate"}}

\* Names in localeCompare order; the root session uses b's provider.
MCModelOrder == <<"a", "b", "c">>

Priced(c, t, l) ==
    [rate |-> c, tiers |-> t, levels |-> l, others |-> Cardinality(l) % 2,
     capacity |-> 1, benchmark |-> -1]

\* The tier above 2 is not reached by the estimated input.
MCTiers == {[above |-> 1, rate |-> 2], [above |-> 0, rate |-> 1], [above |-> 2, rate |-> 0]}

MCModel == {Priced(-1, {}, {"low"}), Priced(1, {}, {"medium", "high"}), Priced(1, {}, {}),
            Priced(1, MCTiers, {"high"}), Priced(2, {}, {"low"})}

MCModelScored ==
    {[Priced(c, {}, {"low", "high"}) EXCEPT !.benchmark = s] : c \in 1..2, s \in 0..2}

\* Catalogues ranked by the catalogue ranker, and by a benchmark.
MCCatalogues ==
    LET names == {"a", "b", "c"} IN [names -> MCModel] \cup [names -> MCModelScored]

\* Terminals around every threshold of the layout, narrow and wide.
MCScreens == {[height |-> h, wide |-> w] : h \in {4, 9, 12, 14, 28}, w \in BOOLEAN}
MCEssential == <<1, 4, 1>>
MCOptional == <<1, 5>>
MCLifetimes == <<"once", "session">>

\* The second request holds up the queue and may be answered with a policy for
\* everything; in a terminal one request is enough for the layout and the keys.
Prompts ==
    /\ PromptNext
    /\ promptMode = "tui" => UNCHANGED prompt["q2"]
    /\ said'["q2"] \cap {"q2", "denied", "once"} = {}

parts == <<vars, reviewVars, modelVars, promptVars>>

MCInit ==
    /\ focus \in {"jobs", "review", "models", "prompts"}
    /\ Init /\ ReviewInit
    /\ PromptInit /\ (focus # "prompts" => promptMode = "none")
    /\ IF focus = "models" THEN ModelsInit
       ELSE catalogue = <<>> /\ resolution = Unresolved

MCNext ==
    /\ UNCHANGED focus
    /\ \/ focus = "jobs" /\ Next /\ UNCHANGED <<reviewVars, modelVars, promptVars>>
       \/ focus = "review" /\ ReviewNext /\ UNCHANGED <<vars, modelVars, promptVars>>
       \/ focus = "models" /\ ModelsNext /\ UNCHANGED <<vars, reviewVars, promptVars>>
       \/ focus = "prompts" /\ Prompts /\ UNCHANGED <<vars, reviewVars, modelVars>>

MCSpec == MCInit /\ [][MCNext]_<<focus, parts>> /\ Fairness /\ ReviewFairness /\ PromptFairness
=============================================================================
