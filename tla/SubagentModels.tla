--------------------------- MODULE SubagentModels --------------------------
(***************************************************************************)
(* The choice of a child's model and thinking level:                       *)
(* subagents/SubagentModelResolver.ts.  A pure algorithm over the          *)
(* catalogue of authenticated models; `catalogue` is the one getAvailable()*)
(* answers and `resolution` what one call of resolve() returned.           *)
(*                                                                         *)
(* Rates are small numbers (the token estimates are a common factor), the  *)
(* context window and the output limit are one number, capacity; `others`  *)
(* counts the supported thinking levels a child cannot ask for; and the    *)
(* score is either the catalogue ranker's or any other ranker's.           *)
(***************************************************************************)
EXTENDS Integers, Sequences, SequencesExt

CONSTANTS
    ModelOrder,     \* the canonical names in localeCompare order
    Catalogues,     \* the catalogues getAvailable() may answer
    EstimatedInput, \* ESTIMATED_INPUT_TOKENS
    Preferred       \* models of the root session's provider

VARIABLES catalogue, resolution

modelVars == <<catalogue, resolution>>

Skills  == <<"min", "low", "mid", "high", "max">>
Amounts == <<"low", "medium", "high">>

Unresolved == [model |-> "none", level |-> "none", source |-> "none"]

\* effectiveModelCost(): the rate of the highest tier the estimated input
\* exceeds, the base rate when it exceeds none; never negative.
EffectiveCost(m) ==
    LET matched == {t \in m.tiers : t.above < EstimatedInput}
        rate    == IF matched = {} THEN m.rate
                   ELSE (CHOOSE t \in matched : \A u \in matched : u.above <= t.above).rate
    IN  IF rate < 0 THEN 0 ELSE rate

\* supportsSubagentReasoning(): some normal reasoning amount is supported.
Eligible == {n \in DOMAIN catalogue : catalogue[n].levels # {}}

\* compareCataloguePerformance(): cost, then thinking levels, then capacity.
Performance(n) ==
    <<EffectiveCost(catalogue[n]), Cardinality(catalogue[n].levels) + catalogue[n].others,
      catalogue[n].capacity>>

Less(p, q) ==
    \/ p[1] < q[1]
    \/ p[1] = q[1] /\ (p[2] < q[2] \/ (p[2] = q[2] /\ p[3] < q[3]))

\* The catalogue ranker: equals share a score, the next better one adds one.
Rank(n) == Cardinality({Performance(o) : o \in {x \in Eligible : Less(Performance(x), Performance(n))}})

\* candidates(): cost and score of every eligible model.
Cost(n)  == EffectiveCost(catalogue[n])
Score(n) == IF catalogue[n].benchmark = -1 THEN Rank(n) ELSE catalogue[n].benchmark

\* compareRoute(): the root's provider first, then by name.
Position(n) == CHOOSE i \in DOMAIN ModelOrder : ModelOrder[i] = n

RouteLess(n, o) ==
    IF (n \in Preferred) # (o \in Preferred) THEN n \in Preferred
    ELSE Position(n) < Position(o)

\* Mutant: equally cheap models are not compared by score.
CheaperOnly(n, o) ==
    Cost(n) < Cost(o) \/ (Cost(n) = Cost(o) /\ RouteLess(n, o))

\* The two sort orders of select(): cheapest first and best first.
Cheaper(n, o) ==
    \/ Cost(n) < Cost(o)
    \/ Cost(n) = Cost(o) /\ (Score(n) > Score(o) \/ (Score(n) = Score(o) /\ RouteLess(n, o)))

Better(n, o) ==
    \/ Score(n) > Score(o)
    \/ Score(n) = Score(o) /\ (Cost(n) < Cost(o) \/ (Cost(n) = Cost(o) /\ RouteLess(n, o)))

\* performanceCostFrontier(): the models no other dominates, cheapest first,
\* one for each pair of cost and score.
Dominates(o, n) ==
    /\ Cost(o) <= Cost(n) /\ Score(o) >= Score(n)
    /\ Cost(o) < Cost(n) \/ Score(o) > Score(n)

Frontier ==
    LET kept == {n \in Eligible :
                   /\ \A o \in Eligible : ~Dominates(o, n)
                   /\ \A o \in Eligible : (Cost(o) = Cost(n) /\ Score(o) = Score(n) /\ o # n)
                                             => RouteLess(n, o)}
    IN  SetToSortSeq(kept, LAMBDA n, o : Cost(n) < Cost(o))

\* Math.round((frontier.length - 1) * percentile) in quarters: halves round up.
Percentile(quarters) == ((Len(Frontier) - 1) * quarters * 2 + 4) \div 8

\* select()
Select(skill) ==
    CASE skill = "min" -> CHOOSE n \in Eligible : \A o \in Eligible \ {n} : Cheaper(n, o)
      [] skill = "max" -> CHOOSE n \in Eligible : \A o \in Eligible \ {n} : Better(n, o)
      [] OTHER -> Frontier[1 + Percentile([low |-> 1, mid |-> 2, high |-> 3][skill])]

\* clampSubagentThinkingLevel(): the requested level, else the next higher one
\* the model supports, else the next lower one.
Clamp(levels, requested) ==
    LET index(l) == CHOOSE i \in DOMAIN Amounts : Amounts[i] = l
        higher == {l \in levels : index(l) >= index(requested)}
    IN  IF higher # {}
        THEN CHOOSE l \in higher : \A k \in higher : index(l) <= index(k)
        ELSE CHOOSE l \in levels : \A k \in levels : index(l) >= index(k)

\* resolve(): the configured model when it is available and reasons, else the
\* automatic choice; nothing when no model reasons.
Resolved(skill, amount, preference) ==
    LET chosen == IF preference \in Eligible THEN preference ELSE Select(skill)
    IN  IF Eligible = {} THEN Unresolved
        ELSE [model  |-> chosen,
              level  |-> Clamp(catalogue[chosen].levels, amount),
              source |-> IF preference \in Eligible THEN "configured" ELSE "automatic"]

ModelsInit == catalogue \in Catalogues /\ resolution = Unresolved

Resolve(skill, amount, preference) ==
    /\ resolution = Unresolved
    /\ resolution' = Resolved(skill, amount, preference)
    /\ UNCHANGED catalogue

ModelsNext ==
    \E s \in DOMAIN Skills, a \in DOMAIN Amounts,
       p \in {ModelOrder[i] : i \in DOMAIN ModelOrder} \cup {"auto"} :
        Resolve(Skills[s], Amounts[a], p)

\* Whatever ranker scores the models, an automatic choice is never a model that
\* another one beats in cost or score without losing in the other, and asking
\* for more skill never yields a model that is cheaper or scores lower; a
\* resolution names an available model and a level that model supports.
SelectionOrdered ==
    /\ Eligible # {} =>
         /\ \A s \in DOMAIN Skills, n \in Eligible : ~Dominates(n, Select(Skills[s]))
         /\ \A s \in 1..(Len(Skills) - 1) :
              LET n == Select(Skills[s]) o == Select(Skills[s + 1])
              IN  Cost(n) <= Cost(o) /\ Score(n) <= Score(o)
    /\ resolution # Unresolved =>
         resolution.model \in Eligible /\ resolution.level \in catalogue[resolution.model].levels
=============================================================================
