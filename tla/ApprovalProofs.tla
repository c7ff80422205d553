--------------------------- MODULE ApprovalProofs ---------------------------
(***************************************************************************)
(* Approvals.  Budgets that stand still while an approval is pending, for  *)
(* any forest of scopes, any waits and any budgets; and what PolicyRuntime *)
(* does with the replies, for any tree of principals and any patterns: no  *)
(* reply overrules a policy, a late one changes nothing, and an agent      *)
(* passes on only what it may do itself.                                   *)
(***************************************************************************)
EXTENDS ApprovalWaitScope, PolicyRuntime, SumTheorems, SequenceTheorems, TLAPS

WaitSpec == WaitInit /\ [][WaitNext]_waitVars

\* A timer that was never set has not run.
UnsetTimers == \A x \in WaitScopes : timer[x] = "none" => ran[x] = 0
WaitInv == WaitsAccounted /\ UnsetTimers

-----------------------------------------------------------------------------
(* Tokens                                                                  *)

LEMMA ChainsCompose ==
    ASSUME NEW x \in WaitScopes, NEW y \in WaitScopes, NEW z \in WaitScopes, AtOrAbove(x, y), AtOrAbove(y, z)
    PROVE  AtOrAbove(x, z)
BY ForestAssumption DEF AtOrAbove

\* Closing scopes leaves a wait exactly the tokens it would have been given had
\* they been closed before: the scopes above a closed one are above the first.
LEMMA CutIsReach ==
    ASSUME NEW H, NEW w \in Waits, NEW b \in WaitScopes, NEW cl \in SUBSET WaitScopes,
           NEW C \in SUBSET WaitScopes, H[w] = Reach(b, cl)
    PROVE  Cut(H, C)[w] = Reach(b, cl \cup C)
<1>1. Above[b] \cup {b} \subseteq WaitScopes
  BY ForestAssumption
<1>2. \A x \in Reach(b, cl) : x \in WaitScopes /\ AtOrAbove(x, b)
  BY <1>1 DEF Reach, AtOrAbove
<1>3. ASSUME NEW x \in Cut(H, C)[w] PROVE x \in Reach(b, cl \cup C)
  <2>1. x \in Reach(b, cl) /\ \A c \in C \cap Reach(b, cl) : ~AtOrAbove(x, c)
    BY <1>3 DEF Cut
  <2>2. ASSUME NEW y \in C, AtOrAbove(y, b), AtOrAbove(x, y) PROVE FALSE
    <3>1. y \in Above[b] \cup {b} /\ y \notin Reach(b, cl)
      BY <2>1, <2>2 DEF AtOrAbove
    <3>2. PICK z \in cl : AtOrAbove(z, b) /\ AtOrAbove(y, z)
      BY <3>1 DEF Reach
    <3>3. AtOrAbove(x, z)
      BY <1>2, <2>1, <2>2, <3>2, ChainsCompose
    <3> QED BY <2>1, <3>2, <3>3 DEF Reach
  <2> QED BY <2>1, <2>2 DEF Reach
<1>4. ASSUME NEW x \in Reach(b, cl \cup C) PROVE x \in Cut(H, C)[w]
  <2>1. x \in Reach(b, cl)
    BY <1>4 DEF Reach
  <2>2. \A c \in C \cap Reach(b, cl) : ~AtOrAbove(x, c)
    BY <1>2, <1>4 DEF Reach
  <2> QED BY <2>1, <2>2 DEF Cut
<1> QED BY <1>3, <1>4

LEMMA CutShrinks == ASSUME NEW H, NEW C, NEW w \in Waits PROVE Cut(H, C)[w] \subseteq H[w]
BY DEF Cut

LEMMA ReachScopes == ASSUME NEW b \in WaitScopes, NEW cl PROVE Reach(b, cl) \in SUBSET WaitScopes
BY ForestAssumption DEF Reach

-----------------------------------------------------------------------------
(* Timers                                                                  *)

\* What Retime does to the timers, whoever calls it: those that start to wait
\* have budget left unless they expire, and those that expire had none.
LEMMA RetimeKeepsBudgets ==
    ASSUME BudgetExact, PauseExact, UnsetTimers, NEW H \in [Waits -> SUBSET WaitScopes],
           NEW C \in SUBSET WaitScopes, NEW expired \in SUBSET C, Retime(H, C, expired),
           UNCHANGED <<now, ran>>, wait' \in [Waits -> {"none", "held", "released"}],
           base' \in [Waits -> WaitScopes],
           \A x \in expired : Exhausted(x),
           \A x \in WaitScopes \ C : timer[x] = "armed" /\ HasToken(H, x) => ~Exhausted(x)
    PROVE  BudgetExact' /\ PauseExact' /\ UnsetTimers'
<1>0. WaitTypeOK
  BY DEF BudgetExact
<1>1. ASSUME NEW x \in WaitScopes
      PROVE  /\ timer'[x] = IF timer[x] \notin Live THEN timer[x]
                            ELSE IF x \in expired THEN "expired"
                            ELSE IF x \in C THEN "disposed"
                            ELSE IF HasToken(H, x) THEN "paused" ELSE "armed"
             /\ remaining'[x] = IF timer[x] = "armed" /\ (HasToken(H, x) \/ x \in expired)
                                THEN Consumed(x) ELSE remaining[x]
             /\ startedAt'[x] = IF timer'[x] # "armed" THEN 0
                                ELSE IF timer[x] = "paused" THEN now ELSE startedAt[x]
  BY <1>1 DEF Retime, IsPaused
<1>2. held' = H /\ closed' = closed \cup C
  BY DEF Retime
<1>3. \A x \in WaitScopes : /\ remaining[x] \in Nat /\ startedAt[x] \in Nat /\ now \in Nat /\ ran[x] \in Nat
                            /\ Budget[x] \in Nat \ {0}
  BY BudgetAssumption, <1>0 DEF WaitTypeOK
<1>4. \A x \in WaitScopes : timer[x] = "armed" =>
         /\ startedAt[x] <= now /\ ran[x] = Budget[x] - remaining[x] + (now - startedAt[x])
         /\ Consumed(x) \in Nat
         /\ Exhausted(x) <=> remaining[x] <= now - startedAt[x]
         /\ ~Exhausted(x) => Consumed(x) = remaining[x] - (now - startedAt[x])
  BY <1>3 DEF BudgetExact, Consumed, Exhausted
<1>5. WaitTypeOK'
  <2>1. timer' \in [WaitScopes -> Live \cup {"none", "expired", "disposed"}]
    BY <1>0 DEF WaitTypeOK, Retime, Live
  <2>2. remaining' \in [WaitScopes -> Nat]
    BY <1>3, <1>4 DEF Retime
  <2>3. startedAt' \in [WaitScopes -> Nat]
    BY <1>3 DEF Retime
  <2> QED BY <1>0, <1>2, <2>1, <2>2, <2>3 DEF WaitTypeOK
<1>6. ASSUME NEW x \in WaitScopes
      PROVE  /\ timer'[x] = "armed" => /\ startedAt'[x] <= now
                                       /\ ran[x] = Budget[x] - remaining'[x] + (now - startedAt'[x])
             /\ timer'[x] = "paused" => ran[x] = Budget[x] - remaining'[x] /\ ran[x] < Budget[x]
             /\ timer'[x] = "expired" => ran[x] >= Budget[x]
             /\ timer'[x] = "none" => ran[x] = 0
  <2>1. CASE timer[x] \notin Live
    BY <1>1, <2>1 DEF BudgetExact, UnsetTimers, Live
  <2>2. CASE timer[x] = "paused"
    <3>1. timer'[x] \in {"expired", "disposed", "paused", "armed"} /\ remaining'[x] = remaining[x]
      BY <1>1, <2>2 DEF Live
    <3>2. timer'[x] # "expired"
      BY <1>1, <2>2 DEF Exhausted, Live
    <3>3. ran[x] = Budget[x] - remaining[x] /\ ran[x] < Budget[x]
      BY <2>2 DEF BudgetExact
    <3>4. timer'[x] = "armed" => startedAt'[x] = now
      BY <1>1, <2>2
    <3> QED BY <1>3, <3>1, <3>2, <3>3, <3>4
  <2>3. CASE timer[x] = "armed"
    <3>1. CASE x \in expired
      <4>1. timer'[x] = "expired" /\ Exhausted(x)
        BY <1>1, <2>3, <3>1 DEF Live
      <4> QED BY <1>3, <1>4, <2>3, <4>1
    <3>2. CASE x \in C \ expired
      <4>1. timer'[x] = "disposed"
        BY <1>1, <2>3, <3>2 DEF Live
      <4> QED BY <4>1
    <3>3. CASE x \notin C /\ HasToken(H, x)
      <4>1. timer'[x] = "paused" /\ remaining'[x] = Consumed(x) /\ ~Exhausted(x)
        BY <1>1, <2>3, <3>3 DEF Live
      <4> QED BY <1>3, <1>4, <2>3, <4>1
    <3>4. CASE x \notin C /\ ~HasToken(H, x)
      <4>1. timer'[x] = "armed" /\ remaining'[x] = remaining[x] /\ startedAt'[x] = startedAt[x]
        BY <1>1, <2>3, <3>4 DEF Live
      <4> QED BY <1>4, <2>3, <4>1
    <3> QED BY <3>1, <3>2, <3>3, <3>4
  <2> QED BY <2>1, <2>2, <2>3 DEF Live
<1>7. BudgetExact' /\ UnsetTimers'
  BY <1>5, <1>6 DEF BudgetExact, UnsetTimers
<1>8. PauseExact'
  <2> SUFFICES ASSUME NEW x \in WaitScopes, timer'[x] \in Live
               PROVE  x \notin closed' /\ (timer'[x] = "paused" <=> HasToken(held', x))
    BY DEF PauseExact
  <2>1. timer[x] \in Live /\ x \notin C /\ x \notin closed
    BY <1>1 DEF PauseExact, Live
  <2> QED BY <1>1, <1>2, <2>1 DEF Live
<1> QED BY <1>7, <1>8

\* Closing scopes, which takes tokens away only.
LEMMA ClosesSafely ==
    ASSUME WaitInv, NEW C \in SUBSET WaitScopes, NEW expired \in SUBSET C,
           Retime(Cut(held, C), C, expired), UNCHANGED <<now, wait, base, ran>>, \A x \in expired : Exhausted(x)
    PROVE  WaitInv'
<1>0. BudgetExact /\ PauseExact /\ UnsetTimers /\ WaitTypeOK /\ HeldExact
  BY DEF WaitInv, WaitsAccounted, WaitsExact, BudgetExact
<1> DEFINE H == Cut(held, C)
<1>1. \A w \in Waits : H[w] \subseteq held[w]
  BY CutShrinks
<1>2. H \in [Waits -> SUBSET WaitScopes]
  BY <1>0 DEF Cut, WaitTypeOK
<1> HIDE DEF H
<1>3. \A x \in WaitScopes \ C : timer[x] = "armed" /\ HasToken(H, x) => ~Exhausted(x)
  BY <1>0, <1>1 DEF PauseExact, HasToken, Live
<1>4. BudgetExact' /\ PauseExact' /\ UnsetTimers'
  <2>1. Retime(H, C, expired)
    BY DEF H
  <2> QED BY <1>0, <1>2, <1>3, <2>1, RetimeKeepsBudgets DEF WaitTypeOK
<1>5. HeldExact'
  <2> SUFFICES ASSUME NEW w \in Waits
               PROVE  held'[w] = IF wait'[w] = "held" THEN Reach(base'[w], closed') ELSE {}
    BY DEF HeldExact
  <2>1. held' = H /\ closed' = closed \cup C /\ wait' = wait /\ base' = base
    BY DEF Retime, H
  <2>2. CASE wait[w] = "held"
    <3>1. held[w] = Reach(base[w], closed) /\ base[w] \in WaitScopes /\ closed \in SUBSET WaitScopes
      BY <1>0, <2>2 DEF HeldExact, WaitTypeOK
    <3>2. H[w] = Reach(base[w], closed \cup C)
      BY <3>1, CutIsReach DEF H
    <3> QED BY <2>1, <2>2, <3>2
  <2>3. CASE wait[w] # "held"
    BY <1>0, <1>1, <2>1, <2>3 DEF HeldExact
  <2> QED BY <2>2, <2>3
<1> QED BY <1>4, <1>5 DEF WaitInv, WaitsAccounted, WaitsExact

LEMMA InitWaitInv == WaitInit => WaitInv
<1> SUFFICES ASSUME WaitInit PROVE WaitInv
  OBVIOUS
<1>1. WaitTypeOK
  BY DEF WaitInit, WaitTypeOK, Live
<1>2. BudgetExact /\ UnsetTimers
  BY <1>1 DEF WaitInit, BudgetExact, UnsetTimers
<1>3. HeldExact /\ PauseExact
  BY DEF WaitInit, HeldExact, PauseExact, Live
<1> QED BY <1>2, <1>3 DEF WaitInv, WaitsAccounted, WaitsExact

LEMMA NextWaitInv == WaitInv /\ [WaitNext]_waitVars => WaitInv'
<1> SUFFICES ASSUME WaitInv, [WaitNext]_waitVars PROVE WaitInv'
  OBVIOUS
<1>0. BudgetExact /\ PauseExact /\ UnsetTimers /\ WaitTypeOK /\ HeldExact
  BY DEF WaitInv, WaitsAccounted, WaitsExact, BudgetExact
<1>a. \A x \in WaitScopes : /\ remaining[x] \in Nat /\ startedAt[x] \in Nat /\ now \in Nat /\ ran[x] \in Nat
                            /\ Budget[x] \in Nat \ {0}
  BY BudgetAssumption, <1>0 DEF WaitTypeOK
<1>b. ASSUME BudgetExact', PauseExact', UnsetTimers', UNCHANGED <<held, wait, base, closed>> PROVE WaitInv'
  <2>1. HeldExact'
    BY <1>0, <1>b DEF HeldExact, Reach
  <2> QED BY <1>b, <2>1 DEF WaitInv, WaitsAccounted, WaitsExact
<1>1. ASSUME NEW x \in WaitScopes, SetTimeout(x) PROVE WaitInv'
  <2>1. /\ x \notin closed /\ timer[x] = "none" /\ UNCHANGED <<now, closed, wait, base, held, ran>>
        /\ timer'[x] = (IF HasToken(held, x) THEN "paused" ELSE "armed")
        /\ remaining'[x] = Budget[x] /\ startedAt'[x] = IF HasToken(held, x) THEN 0 ELSE now
        /\ \A y \in WaitScopes : y # x => timer'[y] = timer[y] /\ remaining'[y] = remaining[y] /\ startedAt'[y] = startedAt[y]
    BY <1>0, <1>1 DEF SetTimeout, WaitTypeOK
  <2>2. WaitTypeOK'
    BY <1>0, <1>1, <1>a DEF SetTimeout, WaitTypeOK, Live
  <2>3. ran[x] = 0
    BY <1>0, <2>1 DEF UnsetTimers
  <2>4. BudgetExact'
    <3> SUFFICES ASSUME NEW y \in WaitScopes
                 PROVE  /\ timer'[y] = "armed" => /\ startedAt'[y] <= now'
                                                  /\ ran'[y] = Budget[y] - remaining'[y] + (now' - startedAt'[y])
                        /\ timer'[y] = "paused" => ran'[y] = Budget[y] - remaining'[y] /\ ran'[y] < Budget[y]
                        /\ timer'[y] = "expired" => ran'[y] >= Budget[y]
      BY <2>2 DEF BudgetExact
    <3>1. CASE y = x
      BY <1>a, <2>1, <2>3, <3>1
    <3>2. CASE y # x
      BY <1>0, <2>1, <3>2 DEF BudgetExact
    <3> QED BY <3>1, <3>2
  <2>5. UnsetTimers'
    BY <1>0, <2>1 DEF UnsetTimers
  <2>6. PauseExact'
    <3>1. \A y \in WaitScopes : y # x => (timer'[y] \in Live => y \notin closed /\ (timer'[y] = "paused" <=> HasToken(held, y)))
      BY <1>0, <2>1 DEF PauseExact
    <3>2. timer'[x] = "paused" <=> HasToken(held, x)
      BY <2>1
    <3>3. HasToken(held', x) <=> HasToken(held, x)
      BY <2>1
    <3> QED BY <2>1, <3>1, <3>2, <3>3 DEF PauseExact, HasToken
  <2> QED BY <1>b, <2>1, <2>4, <2>5, <2>6
<1>2. ASSUME NEW x \in WaitScopes, DisposeTimeout(x) PROVE WaitInv'
  <2>1. /\ UNCHANGED <<now, closed, wait, base, held, remaining, ran>>
        /\ timer'[x] = "disposed"
        /\ \A y \in WaitScopes : y # x => timer'[y] = timer[y] /\ startedAt'[y] = startedAt[y]
    BY <1>0, <1>2 DEF DisposeTimeout, WaitTypeOK
  <2>2. WaitTypeOK'
    BY <1>0, <1>2 DEF DisposeTimeout, WaitTypeOK, Live
  <2>3. BudgetExact'
    BY <1>0, <2>1, <2>2 DEF BudgetExact
  <2>4. UnsetTimers' /\ PauseExact'
    BY <1>0, <2>1 DEF UnsetTimers, PauseExact, Live, HasToken
  <2> QED BY <1>b, <2>1, <2>3, <2>4
<1>3. ASSUME NEW w \in Waits, BeginWait(w, base[w]) PROVE WaitInv'
  <2> DEFINE b == base[w]
             R == Reach(b, closed)
             H == [held EXCEPT ![w] = R]
             expired == {x \in R : ~HasToken(held, x) /\ Exhausted(x)}
             K == Cut(H, expired)
  <2>1. /\ wait[w] = "none" /\ wait' = [wait EXCEPT ![w] = "held"] /\ base' = [base EXCEPT ![w] = b]
        /\ Retime(K, expired, expired) /\ UNCHANGED <<now, ran>>
    BY <1>3 DEF BeginWait
  <2>2. b \in WaitScopes /\ closed \in SUBSET WaitScopes /\ R \in SUBSET WaitScopes /\ base' = base
    BY <1>0, <2>1, ReachScopes DEF WaitTypeOK
  <2>3. H \in [Waits -> SUBSET WaitScopes] /\ H[w] = R /\ \A v \in Waits : v # w => H[v] = held[v]
    BY <1>0, <2>2 DEF WaitTypeOK
  <2>4. \A v \in Waits : H[v] = IF wait'[v] = "held" THEN Reach(base[v], closed) ELSE {}
    BY <1>0, <2>1, <2>3 DEF HeldExact, WaitTypeOK
  <2>5. expired \in SUBSET WaitScopes /\ \A x \in expired : Exhausted(x)
    BY <2>2
  <2>6. \A x \in R : HasToken(held, x) \/ ~Exhausted(x) \/ x \in expired
    OBVIOUS
  <2> HIDE DEF H, R, expired
  <2>7. K \in [Waits -> SUBSET WaitScopes] /\ \A v \in Waits : K[v] \subseteq H[v]
    BY <2>3 DEF Cut
  <2> HIDE DEF K
  <2>8. \A x \in WaitScopes \ expired : timer[x] = "armed" /\ HasToken(K, x) => ~Exhausted(x)
    <3> SUFFICES ASSUME NEW x \in WaitScopes \ expired, timer[x] = "armed", HasToken(K, x) PROVE ~Exhausted(x)
      OBVIOUS
    <3>1. ~HasToken(held, x)
      BY <1>0 DEF PauseExact, Live
    <3>2. x \in R
      BY <2>3, <2>7, <3>1 DEF HasToken
    <3> QED BY <2>6, <3>1, <3>2
  <2>9. BudgetExact' /\ PauseExact' /\ UnsetTimers'
    <3>1. wait' \in [Waits -> {"none", "held", "released"}] /\ base' \in [Waits -> WaitScopes]
      BY <1>0, <2>1, <2>2 DEF WaitTypeOK
    <3> QED BY <1>0, <2>1, <2>5, <2>7, <2>8, <3>1, RetimeKeepsBudgets
  <2>10. HeldExact'
    <3> SUFFICES ASSUME NEW v \in Waits
                 PROVE  held'[v] = IF wait'[v] = "held" THEN Reach(base'[v], closed') ELSE {}
      BY DEF HeldExact
    <3>1. held' = K /\ closed' = closed \cup expired
      BY <2>1 DEF Retime
    <3>2. CASE wait'[v] = "held"
      <4>1. H[v] = Reach(base[v], closed) /\ base[v] \in WaitScopes
        BY <1>0, <2>4, <3>2 DEF WaitTypeOK
      <4>2. K[v] = Reach(base[v], closed \cup expired)
        BY <2>2, <2>5, <4>1, CutIsReach DEF K
      <4> QED BY <2>2, <3>1, <3>2, <4>2
    <3>3. CASE wait'[v] # "held"
      BY <2>4, <2>7, <3>1, <3>3
    <3> QED BY <3>2, <3>3
  <2> QED BY <2>9, <2>10 DEF WaitInv, WaitsAccounted, WaitsExact
<1>4. ASSUME NEW w \in Waits, Release(w) PROVE WaitInv'
  <2> DEFINE H == [held EXCEPT ![w] = {}]
  <2>1. /\ wait' = [wait EXCEPT ![w] = "released"] /\ Retime(H, {}, {}) /\ UNCHANGED <<now, base, ran>>
    BY <1>4 DEF Release
  <2>2. H \in [Waits -> SUBSET WaitScopes] /\ H[w] = {} /\ \A v \in Waits : v # w => H[v] = held[v]
    BY <1>0 DEF WaitTypeOK
  <2> HIDE DEF H
  <2>3. \A x \in WaitScopes : timer[x] = "armed" /\ HasToken(H, x) => ~Exhausted(x)
    BY <1>0, <2>2 DEF PauseExact, HasToken, Live
  <2>4. BudgetExact' /\ PauseExact' /\ UnsetTimers'
    <3>1. wait' \in [Waits -> {"none", "held", "released"}] /\ base' \in [Waits -> WaitScopes]
      BY <1>0, <2>1 DEF WaitTypeOK
    <3> QED BY <1>0, <2>1, <2>2, <2>3, <3>1, RetimeKeepsBudgets
  <2>5. HeldExact'
    <3>1. held' = H /\ closed' = closed /\ base' = base
      BY <2>1 DEF Retime
    <3> QED BY <1>0, <2>1, <2>2, <3>1 DEF HeldExact, WaitTypeOK
  <2> QED BY <2>4, <2>5 DEF WaitInv, WaitsAccounted, WaitsExact
<1>5. ASSUME NEW x \in WaitScopes, CloseScope(x) PROVE WaitInv'
  <2>1. Retime(Cut(held, {x}), {x}, {}) /\ UNCHANGED <<now, wait, base, ran>>
    BY <1>5 DEF CloseScope
  <2> QED BY <2>1, ClosesSafely
<1>6. ASSUME NEW x \in WaitScopes, Fire(x) PROVE WaitInv'
  <2>1. CASE Retime(Cut(held, {x}), {x}, {x}) /\ Consumed(x) <= 0
    <3>1. Exhausted(x) /\ UNCHANGED <<now, wait, base, ran>>
      BY <1>6, <2>1 DEF Fire, Exhausted
    <3> QED BY <2>1, <3>1, ClosesSafely
  <2>2. CASE /\ Consumed(x) > 0
             /\ remaining' = [remaining EXCEPT ![x] = Consumed(x)]
             /\ startedAt' = [startedAt EXCEPT ![x] = now]
             /\ UNCHANGED <<closed, held, timer>>
    <3>1. timer[x] = "armed" /\ UNCHANGED <<now, wait, base, ran>>
      BY <1>6 DEF Fire
    <3>2. Consumed(x) = remaining[x] - (now - startedAt[x]) /\ Consumed(x) \in Nat
      BY <1>0, <1>a, <2>2, <3>1 DEF Consumed, BudgetExact
    <3>3. /\ remaining'[x] = Consumed(x) /\ startedAt'[x] = now
          /\ \A y \in WaitScopes : y # x => remaining'[y] = remaining[y] /\ startedAt'[y] = startedAt[y]
      BY <1>0, <2>2 DEF WaitTypeOK
    <3>4. WaitTypeOK'
      BY <1>0, <1>a, <2>2, <3>1, <3>2 DEF WaitTypeOK
    <3>5. ran[x] = Budget[x] - remaining[x] + (now - startedAt[x])
      BY <1>0, <3>1 DEF BudgetExact
    <3>6. BudgetExact'
      <4> SUFFICES ASSUME NEW y \in WaitScopes
                   PROVE  /\ timer[y] = "armed" => /\ startedAt'[y] <= now
                                                   /\ ran[y] = Budget[y] - remaining'[y] + (now - startedAt'[y])
                          /\ timer[y] = "paused" => ran[y] = Budget[y] - remaining'[y] /\ ran[y] < Budget[y]
                          /\ timer[y] = "expired" => ran[y] >= Budget[y]
        BY <2>2, <3>1, <3>4 DEF BudgetExact
      <4>1. CASE y = x
        BY <1>a, <3>1, <3>2, <3>3, <3>5, <4>1
      <4>2. CASE y # x
        BY <1>0, <3>3, <4>2 DEF BudgetExact
      <4> QED BY <4>1, <4>2
    <3>7. UnsetTimers' /\ PauseExact'
      BY <1>0, <2>2, <3>1 DEF UnsetTimers, PauseExact, HasToken
    <3> QED BY <1>b, <2>2, <3>1, <3>6, <3>7
  <2> QED BY <1>6, <2>1, <2>2 DEF Fire
<1>7. CASE Tick
  <2>1. /\ now' = now + 1 /\ UNCHANGED <<closed, wait, base, held, timer, remaining, startedAt>>
        /\ ran' = [x \in WaitScopes |-> IF timer[x] = "armed" THEN ran[x] + 1 ELSE ran[x]]
    BY <1>7 DEF Tick
  <2>2. now \in Nat
    BY <1>0 DEF WaitTypeOK
  <2>3. WaitTypeOK'
    BY <1>0, <1>a, <2>1, <2>2 DEF WaitTypeOK
  <2>4. BudgetExact'
    <3> SUFFICES ASSUME NEW y \in WaitScopes
                 PROVE  /\ timer'[y] = "armed" => /\ startedAt'[y] <= now'
                                                  /\ ran'[y] = Budget[y] - remaining'[y] + (now' - startedAt'[y])
                        /\ timer'[y] = "paused" => ran'[y] = Budget[y] - remaining'[y] /\ ran'[y] < Budget[y]
                        /\ timer'[y] = "expired" => ran'[y] >= Budget[y]
      BY <2>3 DEF BudgetExact
    <3>1. /\ ran'[y] = IF timer[y] = "armed" THEN ran[y] + 1 ELSE ran[y]
          /\ timer'[y] = timer[y] /\ remaining'[y] = remaining[y] /\ startedAt'[y] = startedAt[y] /\ now' = now + 1
      BY <2>1
    <3>2. /\ timer[y] = "armed" => startedAt[y] <= now /\ ran[y] = Budget[y] - remaining[y] + (now - startedAt[y])
          /\ timer[y] = "paused" => ran[y] = Budget[y] - remaining[y] /\ ran[y] < Budget[y]
          /\ timer[y] = "expired" => ran[y] >= Budget[y]
      BY <1>0 DEF BudgetExact
    <3> QED BY <1>a, <3>1, <3>2
  <2>5. UnsetTimers' /\ PauseExact'
    BY <1>0, <2>1 DEF UnsetTimers, PauseExact, HasToken
  <2> QED BY <1>b, <2>1, <2>4, <2>5
<1>8. CASE UNCHANGED waitVars
  BY <1>0, <1>8 DEF waitVars, WaitInv, WaitsAccounted, WaitsExact, BudgetExact, WaitTypeOK, HeldExact, PauseExact,
       UnsetTimers, Reach, HasToken
<1> QED BY <1>1, <1>2, <1>3, <1>4, <1>5, <1>6, <1>7, <1>8 DEF WaitNext

\* For any forest of scopes and any budgets, a pending wait holds tokens on exactly
\* the scopes from where it began up to the first closed one, a timer stands still
\* iff its scope holds a token, and the budget a timer has left is its initial
\* budget less the time it was armed, however waits, releases, closes and late
\* timer callbacks interleave (ApprovalWaitScope.ts, PausableTimeout.ts).
THEOREM WaitsAccountedTheorem == WaitSpec => []WaitsAccounted
<1>1. WaitInv => WaitsAccounted
  BY DEF WaitInv
<1> QED BY <1>1, InitWaitInv, NextWaitInv, PTL DEF WaitSpec

-----------------------------------------------------------------------------
(* PolicyRuntime                                                           *)

\* A principal that is registered or was: registration is never undone in the tree.
Registered(p) == p = Root \/ parent[p] # "none"

\* The ancestors of a principal are registered and in line: none is its own, each is
\* the parent of the next, and any group of them has a nearest one.
Lineage ==
    /\ \A q \in alive : Registered(q)
    /\ \A q \in Principals : \A a \in anc[q] : Registered(a)
    /\ \A a, b \in Principals : a \in anc[b] => b \notin anc[a]
    /\ \A q \in alive : \A a \in anc[q] : \E c \in anc[q] \cup {q} : parent[c] = a
    /\ \A q \in Principals : \A S \in SUBSET anc[q] :
         S # {} => \E a \in S : \A x \in S : x = a \/ x \in anc[a]

\* What a waiting request captured is of the past: revisions that were reached, and
\* the path from the requester to the authority it asked.
CaptureHolds(r) ==
    phase[r] \in Waiting =>
      /\ req[r].call \in Calls /\ req[r].target \in Scopes
      /\ Registered(req[r].p)
      /\ \A p \in req[r].path : Registered(p) /\ req[r].revs[p] <= rev[p]
      /\ req[r].fb <= fbRev
      /\ (phase[r] = "ancestor") => (req[r].path = PathTo(req[r].p, req[r].authority))
      /\ (phase[r] # "ancestor") => (req[r].path = PathToRoot(req[r].p))
      /\ (phase[r] = "chosen") => (choice[r] \in Choices)

\* Every call belongs to a registered principal.
Captures ==
    /\ \A c \in Calls : owner[c] # "none" => Registered(owner[c])
    /\ \A r \in Requests : CaptureHolds(r)

\* While nothing moved since the capture, no ancestor denies what is asked.
OpenHolds(r) ==
    (phase[r] \in Waiting \ {"ancestor"} /\ UnchangedPath(r) /\ UnchangedFallback(r))
      => ~Denied(req[r].p, req[r].target)
StillOpen == \A r \in Requests : OpenHolds(r)

\* A result is given once, at the end.
Unanswered == \A r \in Requests : phase[r] # "done" => result[r] = NoResult

\* The open prompt is the first of the queue.
OnePrompt == \A x \in Requests :
    phase[x] \in {"prompting", "chosen"} => (prompts # <<>> /\ Head(prompts) = x)

\* The inductive invariant.
PolicyInv == TypeOK /\ PrincipalTree /\ Lineage /\ Captures /\ StillOpen /\ Unanswered /\ OnePrompt
-----------------------------------------------------------------------------
(* PolicyEngine                                                            *)

\* The longest of some patterns.
LEMMA LongestExists ==
    ASSUME NEW S \in SUBSET Scopes, S # {}
    PROVE  Longest(S) \in S /\ \A x \in S : Length[x] <= Length[Longest(S)]
<1> DEFINE Bad == {T \in SUBSET Scopes : T # {} /\ ~\E s \in T : \A x \in T : Length[x] <= Length[s]}
<1>1. \A x \in Scopes : Length[x] \in Nat
  BY ScopesAssumption
<1>2. Bad = {}
  <2> SUFFICES ASSUME Bad # {} PROVE FALSE
    OBVIOUS
  <2>1. PICK T \in Bad : \A x \in T : T \ {x} \notin Bad
    <3>1. Bad \in SUBSET (SUBSET Scopes) /\ IsFiniteSet(Scopes)
      BY ScopesAssumption
    <3> HIDE DEF Bad
    <3> QED BY <3>1, SmallestSubset
  <2>2. T \subseteq Scopes /\ T # {} /\ ~\E s \in T : \A x \in T : Length[x] <= Length[s]
    BY <2>1
  <2>3. PICK y \in T : TRUE
    BY <2>2
  <2>4. CASE T \ {y} = {}
    <3>1. \A x \in T : x = y
      BY <2>4
    <3>2. Length[y] <= Length[y]
      BY <1>1, <2>2
    <3> QED BY <2>2, <3>1, <3>2
  <2>5. CASE T \ {y} # {}
    <3>1. PICK s \in T \ {y} : \A x \in T \ {y} : Length[x] <= Length[s]
      BY <2>1, <2>2, <2>5
    <3>2. Length[s] \in Nat /\ Length[y] \in Nat /\ \A x \in T : Length[x] \in Nat
      BY <1>1, <2>2
    <3>3. CASE Length[y] <= Length[s]
      BY <2>2, <3>1, <3>3
    <3>4. CASE Length[s] <= Length[y]
      <4>1. ASSUME NEW x \in T PROVE Length[x] <= Length[y]
        BY <3>1, <3>2, <3>4
      <4> QED BY <2>2, <4>1
    <3> QED BY <3>2, <3>3, <3>4
  <2> QED BY <2>4, <2>5
<1>3. \E s \in S : \A x \in S : Length[x] <= Length[s]
  BY <1>2
<1> QED BY <1>3 DEF Longest

\* The pattern that decides is one of the engine and covers the target.
LEMMA MatchIsStored ==
    ASSUME NEW e \in Engines, NEW t, Matches(e, t) # {}
    PROVE  /\ Longest(Matches(e, t)) \in Scopes
           /\ <<Longest(Matches(e, t)), t>> \in Covers
           /\ \A x \in Matches(e, t) : Length[x] <= Length[Longest(Matches(e, t))]
           /\ e[Longest(Matches(e, t))] \in Answers
<1>1. Matches(e, t) \in SUBSET Scopes
  BY DEF Matches
<1>2. Longest(Matches(e, t)) \in Matches(e, t)
  BY <1>1, LongestExists
<1>3. \A x \in Matches(e, t) : Length[x] <= Length[Longest(Matches(e, t))]
  BY <1>1, LongestExists
<1>4. ASSUME NEW x \in Matches(e, t) PROVE x \in Scopes /\ <<x, t>> \in Covers /\ e[x] \in Answers
  BY <1>4 DEF Matches, Engines
<1> QED BY <1>2, <1>3, <1>4

\* An engine without an answer has no pattern for the target.
LEMMA EvalAnswers ==
    ASSUME NEW e \in Engines, NEW t
    PROVE  /\ Eval(e, t) \in Answers \cup {"none"}
           /\ Eval(e, t) = "none" => Matches(e, t) = {}
<1>1. CASE Matches(e, t) = {}
  BY <1>1 DEF Eval
<1>2. CASE Matches(e, t) # {}
  BY <1>2, MatchIsStored DEF Eval, Answers
<1> QED BY <1>1, <1>2

\* An engine gives one answer to a target and to a scope around it that its deciding
\* pattern covers.
LEMMA EvalCovered ==
    ASSUME NEW e \in Engines, NEW s \in Scopes, NEW t \in Scopes, <<s, t>> \in Covers,
           Matches(e, t) = {} \/ <<Longest(Matches(e, t)), s>> \in Covers
    PROVE  Eval(e, s) = Eval(e, t)
<1>1. Matches(e, s) \subseteq Matches(e, t)
  <2> SUFFICES ASSUME NEW x \in Matches(e, s) PROVE x \in Matches(e, t)
    OBVIOUS
  <2>1. x \in Scopes /\ e[x] # "none" /\ <<x, s>> \in Covers
    BY DEF Matches
  <2>2. <<x, t>> \in Covers
    BY <2>1, ScopesAssumption
  <2> QED BY <2>1, <2>2 DEF Matches
<1>2. CASE Matches(e, t) = {}
  BY <1>1, <1>2 DEF Eval
<1>3. CASE Matches(e, t) # {}
  <2> DEFINE m == Longest(Matches(e, t))
             k == Longest(Matches(e, s))
  <2>1. m \in Scopes /\ <<m, t>> \in Covers /\ <<m, s>> \in Covers /\ e[m] \in Answers
    BY <1>3, MatchIsStored
  <2>2. m \in Matches(e, s)
    BY <2>1 DEF Matches, Answers
  <2>3. k \in Scopes /\ k \in Matches(e, s) /\ <<k, s>> \in Covers /\ Length[m] <= Length[k]
    <3>1. Matches(e, s) \in SUBSET Scopes /\ Matches(e, s) # {}
      BY <2>2 DEF Matches
    <3>2. k \in Matches(e, s) /\ Length[m] <= Length[k]
      BY <2>2, <3>1, LongestExists
    <3> QED BY <3>2 DEF Matches
  <2>4. Length[k] <= Length[m]
    BY <1>1, <1>3, <2>3, MatchIsStored
  <2>5. Length[k] \in Nat /\ Length[m] \in Nat
    BY <2>1, <2>3, ScopesAssumption
  <2>6. Length[k] = Length[m]
    BY <2>3, <2>4, <2>5
  <2>7. k = m
    BY <2>1, <2>3, <2>6, ScopesAssumption
  <2> QED BY <1>3, <2>2, <2>7 DEF Eval
<1> QED BY <1>2, <1>3

-----------------------------------------------------------------------------
(* Authority                                                               *)

\* The nearest ancestor that decides.
NearestIs(a, p, t) == a \in Deciding(p, t) /\ \A x \in Deciding(p, t) : x = a \/ x \in anc[a]

\* There is a nearest deciding ancestor when one decides.
LEMMA NearestFound ==
    ASSUME TypeOK, Lineage, NEW p \in Principals, NEW t, Deciding(p, t) # {}
    PROVE  NearestIs(Nearest(p, t), p, t) /\ Nearest(p, t) \in Principals
<1>1. Deciding(p, t) \in SUBSET anc[p]
  BY DEF Deciding
<1>2. \E a \in Deciding(p, t) : \A x \in Deciding(p, t) : x = a \/ x \in anc[a]
  BY <1>1 DEF Lineage
<1>3. NearestIs(Nearest(p, t), p, t)
  BY <1>2 DEF NearestIs, Nearest, NearestIn
<1>4. anc[p] \subseteq Principals
  BY DEF TypeOK
<1> QED BY <1>1, <1>3, <1>4 DEF NearestIs

\* There is only one.
LEMMA NearestUnique ==
    ASSUME TypeOK, Lineage, NEW p \in Principals, NEW t, NEW a, NearestIs(a, p, t)
    PROVE  Deciding(p, t) # {} /\ Nearest(p, t) = a
<1>1. Deciding(p, t) # {}
  BY DEF NearestIs
<1>2. NearestIs(Nearest(p, t), p, t) /\ Nearest(p, t) \in Principals
  BY <1>1, NearestFound
<1>3. a \in Principals
  BY DEF NearestIs, Deciding, TypeOK
<1>4. a = Nearest(p, t) \/ (a \in anc[Nearest(p, t)] /\ Nearest(p, t) \in anc[a])
  BY <1>2 DEF NearestIs
<1> QED BY <1>1, <1>2, <1>3, <1>4 DEF Lineage

\* A denial is some nearest ancestor's.
DeniedLaw == \A p \in Principals, t \in Scopes : Denied(p, t) =>
    \E b \in Principals : NearestIs(b, p, t) /\ Authority(b, t) = "deny"

\* resolveAncestor: a denial comes from a principal of the tree.
LEMMA DenialHasAuthor == TypeOK /\ Lineage => DeniedLaw
<1> SUFFICES ASSUME TypeOK, Lineage, NEW p \in Principals, NEW t \in Scopes, Denied(p, t)
             PROVE  \E b \in Principals : NearestIs(b, p, t) /\ Authority(b, t) = "deny"
  BY DEF DeniedLaw
<1>1. Deciding(p, t) # {} /\ Authority(Nearest(p, t), t) = "deny"
  BY DEF Denied
<1>2. NearestIs(Nearest(p, t), p, t) /\ Nearest(p, t) \in Principals
  BY <1>1, NearestFound
<1> QED BY <1>1, <1>2

\* What an authority answers.
LEMMA AuthorityAnswers ==
    ASSUME TypeOK, NEW a \in Principals, NEW t
    PROVE  Authority(a, t) \in Answers \cup {"none"}
<1>1. pol[a] \in Engines
  BY DEF TypeOK
<1>2. Eval(pol[a], t) \in Answers \cup {"none"}
  BY <1>1, EvalAnswers
<1>3. Fallback \in Answers \cup {"none"}
  BY DEF Fallback
<1> QED BY <1>2, <1>3 DEF Authority

-----------------------------------------------------------------------------
(* What a step leaves alone                                                *)

\* A registered principal keeps its place in the tree, and a change of its
\* policies moves its revision.
TreeKept == \A p \in Principals : Registered(p) =>
    /\ Registered(p)' /\ anc'[p] = anc[p]
    /\ rev[p] <= rev'[p]
    /\ (rev'[p] = rev[p]) => (pol'[p] = pol[p])

\* A change of the default response moves the fallback revision.
DefaultKept == fbRev <= fbRev' /\ ((fbRev' = fbRev) => (default' = default))

\* Steps that leave the tree and its policies alone.
LEMMA SameTree ==
    ASSUME TypeOK, UNCHANGED <<treeVars, pol, rev>>
    PROVE  TreeKept
BY DEF TypeOK, TreeKept, treeVars, Registered

\* A registration takes a name that was never used.
LEMMA RegisterKeepsTree ==
    ASSUME TypeOK, NEW p \in Agents, NEW q \in Principals, NEW i, Register(p, q, i)
    PROVE  TreeKept
<1>1. parent[p] = "none" /\ p # Root /\ rev' = rev
  BY TreeAssumption DEF Register, Principals
<1> SUFFICES ASSUME NEW x \in Principals, Registered(x)
             PROVE /\ Registered(x)' /\ anc'[x] = anc[x]
                   /\ rev[x] <= rev'[x] /\ pol'[x] = pol[x]
  BY DEF TreeKept
<1>2. x # p
  BY <1>1 DEF Registered
<1>3. rev[x] \in Nat
  BY DEF TypeOK
<1>4. anc'[x] = anc[x] /\ pol'[x] = pol[x] /\ parent'[x] = parent[x]
  BY <1>2 DEF Register, TypeOK
<1> QED BY <1>1, <1>3, <1>4 DEF Registered

\* A policy is added with a new revision.
LEMMA AddPolicyKeepsTree ==
    ASSUME TypeOK, UNCHANGED treeVars, NEW P, NEW s, NEW status, AddPolicy(P, s, status)
    PROVE  TreeKept
<1> SUFFICES ASSUME NEW x \in Principals, Registered(x)
             PROVE /\ Registered(x)' /\ anc'[x] = anc[x]
                   /\ rev[x] <= rev'[x]
                   /\ (rev'[x] = rev[x]) => (pol'[x] = pol[x])
  BY DEF TreeKept
<1>1. rev[x] \in Nat
  BY DEF TypeOK
<1>2. CASE x \in P
  <2>1. rev'[x] = rev[x] + 1
    BY <1>2 DEF AddPolicy
  <2> QED BY <1>1, <2>1 DEF treeVars, Registered
<1>3. CASE x \notin P
  <2>1. rev'[x] = rev[x] /\ pol'[x] = pol[x]
    BY <1>3 DEF AddPolicy
  <2> QED BY <1>1, <2>1 DEF treeVars, Registered
<1> QED BY <1>2, <1>3

\* An approval adds its policies with new revisions.
LEMMA InstallKeepsTree ==
    ASSUME TypeOK, UNCHANGED treeVars, NEW r, NEW ch, NEW P, Install(r, ch, P)
    PROVE  TreeKept
<1>1. CASE ch.lifetime = "once"
  BY <1>1, SameTree DEF Install
<1>2. CASE ch.lifetime # "once"
  BY <1>2, AddPolicyKeepsTree DEF Install
<1> QED BY <1>1, <1>2

\* A new context is a new revision with the same policies.
LEMMA ContextKeepsTree ==
    ASSUME TypeOK, NEW p \in Principals, UpdateContext(p)
    PROVE  TreeKept
<1> SUFFICES ASSUME NEW x \in Principals, Registered(x)
             PROVE /\ Registered(x)' /\ anc'[x] = anc[x]
                   /\ rev[x] <= rev'[x] /\ pol'[x] = pol[x]
  BY DEF TreeKept
<1>1. rev[x] \in Nat
  BY DEF TypeOK
<1>2. rev'[x] = rev[x] \/ rev'[x] = rev[x] + 1
  BY DEF UpdateContext, TypeOK
<1> QED BY <1>1, <1>2 DEF UpdateContext, treeVars, Registered

\* Steps that leave the configuration alone.
LEMMA SameDefault == ASSUME TypeOK, UNCHANGED confVars PROVE DefaultKept
BY DEF TypeOK, confVars, DefaultKept

\* setDefaultResponse moves the fallback revision.
LEMMA SetDefaultKeeps == ASSUME TypeOK, NEW d, SetDefault(d) PROVE DefaultKept
BY DEF TypeOK, SetDefault, DefaultKept

\* The captured principals, their chains and their policies are as they were if
\* the captured revisions still match.
LEMMA DenialIsOld ==
    ASSUME TypeOK, Lineage, TypeOK', Lineage', TreeKept, DefaultKept,
           NEW p \in Principals, NEW t \in Scopes, Registered(p),
           \A a \in anc[p] : pol'[a] = pol[a], default' = default, Denied(p, t)'
    PROVE  Denied(p, t)
<1>1. anc'[p] = anc[p] /\ anc[p] \subseteq Principals
  BY DEF TreeKept, TypeOK
<1>2. \A a \in anc[p] : Registered(a) /\ anc'[a] = anc[a]
  BY <1>1 DEF Lineage, TreeKept
<1>3. ASSUME NEW a \in anc[p] PROVE Authority(a, t)' = Authority(a, t)
  <2>1. pol'[a] = pol[a]
    BY <1>3
  <2>2. Eval(pol'[a], t) = Eval(pol[a], t)
    BY <2>1
  <2> QED BY <2>2 DEF Authority, Fallback
<1>4. Deciding(p, t)' = Deciding(p, t)
  BY <1>1, <1>3 DEF Deciding
<1>5. PICK b \in Principals : NearestIs(b, p, t)' /\ Authority(b, t)' = "deny"
  <2>1. DeniedLaw'
    BY DenialHasAuthor, PTL
  <2> QED BY <2>1 DEF DeniedLaw
<1>6. b \in anc[p] /\ NearestIs(b, p, t)
  <2>1. b \in Deciding(p, t)' /\ \A x \in Deciding(p, t)' : x = b \/ x \in anc'[b]
    BY <1>5 DEF NearestIs
  <2>2. b \in anc[p]
    BY <1>4, <2>1 DEF Deciding
  <2> QED BY <1>2, <1>4, <2>1, <2>2 DEF NearestIs
<1>7. Deciding(p, t) # {} /\ Nearest(p, t) = b
  BY <1>6, NearestUnique
<1>8. Authority(b, t) = "deny"
  BY <1>3, <1>5, <1>6
<1> QED BY <1>7, <1>8 DEF Denied

-----------------------------------------------------------------------------
(* The tree of principals                                                  *)

\* A registration adds a leaf below a registered principal.
LEMMA RegisterLineage ==
    ASSUME TypeOK, PrincipalTree, Lineage, NEW p \in Agents, NEW q \in Principals, NEW i, Register(p, q, i)
    PROVE  PrincipalTree' /\ Lineage'
<1>1. /\ p \in Principals /\ p # Root /\ p \notin alive /\ parent[p] = "none" /\ ~Registered(p)
      /\ q \in alive /\ Registered(q) /\ q # p /\ q # "none"
  BY TreeAssumption DEF Register, Registered, Principals, Lineage
<1>2. /\ alive' = alive \cup {p}
      /\ parent'[p] = q /\ \A x \in Principals \ {p} : parent'[x] = parent[x]
      /\ anc'[p] = anc[q] \cup {q} /\ \A x \in Principals \ {p} : anc'[x] = anc[x]
  BY <1>1 DEF Register, TypeOK
<1>3. \A x \in Principals : anc[x] \subseteq Principals /\ p \notin anc[x]
  BY <1>1 DEF Lineage, TypeOK
<1>4. PrincipalTree'
  <2>1. \A x \in alive : x \in Principals \ {p}
    BY <1>1 DEF TypeOK
  <2> QED BY <1>1, <1>2, <2>1 DEF PrincipalTree
<1>5. \A x \in Principals : Registered(x)' <=> (Registered(x) \/ x = p)
  BY <1>1, <1>2 DEF Registered
<1>6. \A x \in alive' : Registered(x)'
  BY <1>1, <1>2, <1>5 DEF Lineage, TypeOK
<1>7. \A x \in Principals : \A a \in anc'[x] : Registered(a)'
  BY <1>1, <1>2, <1>3, <1>5 DEF Lineage
<1>8. \A a, b \in Principals : a \in anc'[b] => b \notin anc'[a]
  BY <1>1, <1>2, <1>3 DEF Lineage
<1>9. ASSUME NEW x \in alive', NEW a \in anc'[x] PROVE \E c \in anc'[x] \cup {x} : parent'[c] = a
  <2>1. CASE x # p
    <3>1. x \in alive /\ x \in Principals /\ anc'[x] = anc[x]
      BY <1>2, <1>9, <2>1 DEF TypeOK
    <3>2. PICK c \in anc[x] \cup {x} : parent[c] = a
      BY <1>9, <3>1 DEF Lineage
    <3>3. c \in Principals \ {p}
      BY <1>3, <2>1, <3>1, <3>2
    <3> QED BY <1>2, <3>1, <3>2, <3>3
  <2>2. CASE x = p /\ a = q
    BY <1>2, <2>2
  <2>3. CASE x = p /\ a # q
    <3>1. a \in anc[q]
      BY <1>2, <1>9, <2>3
    <3>2. PICK c \in anc[q] \cup {q} : parent[c] = a
      BY <1>1, <3>1 DEF Lineage
    <3>3. c \in Principals \ {p} /\ c \in anc'[x]
      BY <1>1, <1>2, <1>3, <2>3, <3>2
    <3> QED BY <1>2, <3>2, <3>3
  <2> QED BY <2>1, <2>2, <2>3
<1>10. ASSUME NEW x \in Principals, NEW S \in SUBSET anc'[x], S # {}
       PROVE  \E a \in S : \A y \in S : y = a \/ y \in anc'[a]
  <2>1. ASSUME NEW z \in Principals, S \in SUBSET anc[z]
        PROVE  \E a \in S : \A y \in S : y = a \/ y \in anc'[a]
    <3>1. PICK a \in S : \A y \in S : y = a \/ y \in anc[a]
      BY <1>10, <2>1 DEF Lineage
    <3>2. a \in Principals \ {p}
      BY <1>3, <2>1, <3>1
    <3> QED BY <1>2, <3>1, <3>2
  <2>2. CASE x # p
    BY <1>2, <1>10, <2>1, <2>2
  <2>3. CASE x = p /\ q \notin S
    BY <1>2, <1>10, <2>1, <2>3
  <2>4. CASE x = p /\ q \in S
    <3>1. anc'[q] = anc[q]
      BY <1>1, <1>2
    <3>2. \A y \in S : y = q \/ y \in anc[q]
      BY <1>2, <1>10, <2>4
    <3> QED BY <2>4, <3>1, <3>2
  <2> QED BY <2>2, <2>3, <2>4
<1>11. Lineage'
  BY <1>6, <1>7, <1>8, <1>9, <1>10 DEF Lineage
<1> QED BY <1>4, <1>11

\* A removal takes a principal with everything below it.
LEMMA RemoveLineage ==
    ASSUME TypeOK, PrincipalTree, Lineage, NEW p \in Agents, Remove(p)
    PROVE  PrincipalTree' /\ Lineage'
<1>1. /\ p # Root /\ alive' = alive \ {p} /\ UNCHANGED <<parent, anc>>
      /\ ~\E c \in alive : parent[c] = p
  BY TreeAssumption DEF Remove, HasChildren
<1>2. ASSUME NEW q \in alive, p \in anc[q] PROVE FALSE
  <2>1. PICK c \in anc[q] \cup {q} : parent[c] = p
    BY <1>2 DEF Lineage
  <2>2. c \in alive
    BY <2>1 DEF PrincipalTree
  <2> QED BY <1>1, <2>1, <2>2
<1>3. PrincipalTree'
  BY <1>1, <1>2 DEF PrincipalTree
<1>4. Lineage'
  BY <1>1 DEF Lineage, Registered
<1> QED BY <1>3, <1>4

\* Steps that leave the tree alone.
LEMMA SameLineage ==
    ASSUME PrincipalTree, Lineage, UNCHANGED treeVars
    PROVE  PrincipalTree' /\ Lineage'
BY DEF PrincipalTree, Lineage, Registered, treeVars

-----------------------------------------------------------------------------
(* Requests                                                                *)

\* Evaluate() answers r, with or without installing a choice; r's turn in the
\* prompt queue, if it had one, may be over.
Ends(r) ==
    /\ \E status \in Answers \cup {"none"}, source \in Sources : Finish(r, status, source)
    /\ \/ UNCHANGED <<pol, rev, db, once>>
       \/ \E ch \in Choices, P \in SUBSET Principals :
            Install(r, ch, P) /\ (db' = db \/ db' = [db EXCEPT ![ch.scope] = ch.status])
    /\ UNCHANGED <<treeVars, confVars, owner>>
    /\ prompts' = prompts \/ (prompts # <<>> /\ Head(prompts) = r /\ prompts' = Tail(prompts))

\* What an evaluation can come to.
Verdicts == [status : Answers \cup {"none"}, source : Sources]

\* The answer of the requester's own policies.
LEMMA OwnAnswers ==
    ASSUME TypeOK, NEW r \in Requests, CaptureHolds(r), phase[r] \in Waiting
    PROVE  Own(r) \in Answers \cup {"none"}
<1>1. req[r].p \in Principals /\ req[r].call \in Calls
  BY DEF TypeOK, Captured, CaptureHolds
<1>2. pol[req[r].p] \in Engines /\ once[req[r].call] \in Engines
  BY <1>1 DEF TypeOK
<1>3. /\ Eval(pol[req[r].p], req[r].target) \in Answers \cup {"none"}
      /\ Eval(once[req[r].call], req[r].target) \in Answers \cup {"none"}
  BY <1>2, EvalAnswers
<1> QED BY <1>3 DEF Own

\* The verdict before any approval.
LEMMA SettledTyped ==
    ASSUME TypeOK, NEW p \in Principals, NEW c \in Calls, NEW t
    PROVE  Settled(p, c, t) \in Verdicts
<1>1. pol[p] \in Engines /\ once[c] \in Engines
  BY DEF TypeOK
<1>2. Eval(pol[p], t) \in Answers \cup {"none"} /\ Eval(once[c], t) \in Answers \cup {"none"}
  BY <1>1, EvalAnswers
<1>3. Fallback \in Answers \cup {"none"}
  BY DEF Fallback
<1> QED BY <1>2, <1>3 DEF Settled, Verdicts, Sources, NoResult, Answers

\* The verdict when a queued request gets its turn.
LEMMA RecheckTyped ==
    ASSUME TypeOK, NEW r \in Requests, CaptureHolds(r), phase[r] \in Waiting
    PROVE  Recheck(r) \in Verdicts
<1>1. req[r].p \in Principals
  BY DEF TypeOK, Captured
<1>2. pol[req[r].p] \in Engines
  BY <1>1 DEF TypeOK
<1>3. Eval(pol[req[r].p], req[r].target) \in Answers \cup {"none"}
  BY <1>2, EvalAnswers
<1>4. Fallback \in Answers \cup {"none"}
  BY DEF Fallback
<1>5. Own(r) \in Answers \cup {"none"}
  BY OwnAnswers
<1> QED BY <1>3, <1>4, <1>5 DEF Recheck, Verdicts, Sources, NoResult, Answers

\* An answer without an approval ends the request.
LEMMA AnswerEnds ==
    ASSUME NEW r, NEW status \in Answers \cup {"none"}, NEW source \in Sources, Answer(r, status, source),
           UNCHANGED <<treeVars, confVars, owner>>,
           prompts' = prompts \/ (prompts # <<>> /\ Head(prompts) = r /\ prompts' = Tail(prompts))
    PROVE  Ends(r)
BY DEF Answer, Ends

\* So does an approval that is installed.
LEMMA InstallEnds ==
    ASSUME NEW r, NEW status \in Answers \cup {"none"}, NEW source \in Sources, Finish(r, status, source),
           NEW ch \in Choices, NEW P \in SUBSET Principals, Install(r, ch, P),
           db' = db \/ db' = [db EXCEPT ![ch.scope] = ch.status],
           UNCHANGED <<treeVars, confVars, owner>>,
           prompts' = prompts \/ (prompts # <<>> /\ Head(prompts) = r /\ prompts' = Tail(prompts))
    PROVE  Ends(r)
BY DEF Ends

\* The reply of an ancestor ends the request, whatever it finds.
LEMMA AncestorEnds ==
    ASSUME TypeOK, NEW r \in Requests, CaptureHolds(r), NEW ch \in Choices, AncestorDecides(r, ch)
    PROVE  Ends(r)
<1> DEFINE p == req[r].p
           t == req[r].target
<1>1. phase[r] = "ancestor" /\ UNCHANGED <<treeVars, confVars, owner, prompts>>
  BY DEF AncestorDecides
<1>2. Own(r) \in Answers \cup {"none"} /\ req[r].path \in SUBSET Principals
  BY <1>1, OwnAnswers DEF Waiting, TypeOK, Captured
<1>3. ch.status \in Answers \cup {"none"} /\ "deny" \in Answers \cup {"none"}
  BY DEF Choices, Answers
<1>4. {"agent", "superseded", "ancestor", "closed"} \subseteq Sources
  BY DEF Sources
<1>5. CASE FailClosed(r)
  BY <1>1, <1>3, <1>4, <1>5, AnswerEnds DEF FailClosed
<1>6. CASE Answer(r, Own(r), "superseded")
  BY <1>1, <1>2, <1>4, <1>6, AnswerEnds
<1>7. CASE Answer(r, "deny", "ancestor")
  BY <1>1, <1>3, <1>4, <1>7, AnswerEnds
<1>8. CASE Finish(r, ch.status, "agent") /\ Install(r, ch, req[r].path \ {req[r].authority}) /\ db' = db
  <2>1. req[r].path \ {req[r].authority} \in SUBSET Principals
    BY <1>2
  <2> QED BY <1>1, <1>3, <1>4, <1>8, <2>1, InstallEnds
<1> QED BY <1>5, <1>6, <1>7, <1>8 DEF AncestorDecides

\* So does the reply of the model.
LEMMA LlmEnds ==
    ASSUME TypeOK, NEW r \in Requests, CaptureHolds(r), NEW ch \in Choices, LlmDecides(r, ch)
    PROVE  Ends(r)
<1>1. phase[r] = "llm" /\ UNCHANGED <<treeVars, confVars, owner, prompts>>
  BY DEF LlmDecides
<1>2. Own(r) \in Answers \cup {"none"} /\ req[r].path \in SUBSET Principals
  BY <1>1, OwnAnswers DEF Waiting, TypeOK, Captured
<1>3. ch.status \in Answers \cup {"none"} /\ "deny" \in Answers \cup {"none"}
  BY DEF Choices, Answers
<1>4. {"llm", "superseded", "closed"} \subseteq Sources
  BY DEF Sources
<1>5. CASE FailClosed(r)
  BY <1>1, <1>3, <1>4, <1>5, AnswerEnds DEF FailClosed
<1>6. CASE Answer(r, Own(r), "superseded")
  BY <1>1, <1>2, <1>4, <1>6, AnswerEnds
<1>7. CASE Finish(r, ch.status, "llm") /\ Install(r, ch, req[r].path) /\ db' = db
  BY <1>1, <1>2, <1>3, <1>4, <1>7, InstallEnds
<1> QED BY <1>5, <1>6, <1>7 DEF LlmDecides

\* So does the user's choice.
LEMMA UserEnds ==
    ASSUME TypeOK, OnePrompt, NEW r \in Requests, CaptureHolds(r), UserCompletes(r)
    PROVE  Ends(r)
<1>1. phase[r] = "chosen" /\ UNCHANGED <<treeVars, confVars, owner>> /\ prompts' = Tail(prompts)
  BY DEF UserCompletes
<1>2. Own(r) \in Answers \cup {"none"} /\ req[r].path \in SUBSET Principals /\ choice[r] \in Choices
  BY <1>1, OwnAnswers DEF Waiting, TypeOK, Captured, CaptureHolds
<1>3. choice[r].status \in Answers \cup {"none"} /\ "deny" \in Answers \cup {"none"}
  BY <1>2 DEF Choices, Answers
<1>4. {"user", "superseded", "closed"} \subseteq Sources
  BY DEF Sources
<1>5. prompts # <<>> /\ Head(prompts) = r
  BY <1>1 DEF OnePrompt
<1>6. CASE FailClosed(r)
  BY <1>1, <1>3, <1>4, <1>5, <1>6, AnswerEnds DEF FailClosed
<1>7. CASE Answer(r, Own(r), "superseded")
  BY <1>1, <1>2, <1>4, <1>5, <1>7, AnswerEnds
<1>8. CASE /\ Finish(r, choice[r].status, "user") /\ Install(r, choice[r], req[r].path)
           /\ db' = IF choice[r].lifetime = "local" THEN [db EXCEPT ![choice[r].scope] = choice[r].status] ELSE db
  <2>1. db' = db \/ db' = [db EXCEPT ![choice[r].scope] = choice[r].status]
    BY <1>8
  <2> QED BY <1>1, <1>2, <1>3, <1>4, <1>5, <1>8, <2>1, InstallEnds
<1> QED BY <1>6, <1>7, <1>8 DEF UserCompletes

\* So do a failed review and an abort.
LEMMA FailEnds ==
    ASSUME NEW r, ReviewFails(r) \/ UserAborted(r)
    PROVE  Ends(r)
<1>1. "deny" \in Answers \cup {"none"} /\ "closed" \in Sources
  BY DEF Answers, Sources
<1> QED BY <1>1, AnswerEnds DEF ReviewFails, UserAborted, FailClosed

\* A prompt that need not open ends the request.
LEMMA OpenEnds ==
    ASSUME TypeOK, NEW r \in Requests, CaptureHolds(r), PromptOpens(r), Recheck(r) # NoResult
    PROVE  Ends(r)
<1>1. /\ Answer(r, Recheck(r).status, Recheck(r).source) /\ prompts' = Tail(prompts)
      /\ prompts # <<>> /\ Head(prompts) = r /\ phase[r] = "queued"
      /\ UNCHANGED <<treeVars, confVars, owner>>
  BY DEF PromptOpens, UpNext
<1>2. Recheck(r) \in Verdicts
  BY <1>1, RecheckTyped DEF Waiting
<1>3. Recheck(r).status \in Answers \cup {"none"} /\ Recheck(r).source \in Sources
  BY <1>2 DEF Verdicts
<1> QED BY <1>1, <1>3, AnswerEnds

\* A target that the policies decide needs no approval.
LEMMA EvaluateEnds ==
    ASSUME TypeOK, NEW r \in Requests, NEW c \in Calls, NEW t \in Targets, Evaluate(r, c, t),
           Settled(owner[c], c, t) # NoResult
    PROVE  Ends(r)
<1>1. owner[c] \in Principals
  BY DEF Evaluate, TypeOK
<1>2. Settled(owner[c], c, t) \in Verdicts
  BY <1>1, SettledTyped
<1>3. Settled(owner[c], c, t).status \in Answers \cup {"none"} /\ Settled(owner[c], c, t).source \in Sources
  BY <1>2 DEF Verdicts
<1> QED BY <1>3, AnswerEnds DEF Evaluate

-----------------------------------------------------------------------------
(* Types                                                                   *)

\* Types of what an approval installs.
LEMMA InstallTyped ==
    ASSUME TypeOK, NEW r, NEW ch \in Choices, NEW P, Install(r, ch, P)
    PROVE  /\ pol' \in [Principals -> Engines] /\ rev' \in [Principals -> Nat]
           /\ once' \in [Calls -> Engines]
<1>1. ch.scope \in Scopes /\ ch.status \in Answers
  BY DEF Choices
<1>2. ASSUME NEW e \in Engines PROVE [e EXCEPT ![ch.scope] = ch.status] \in Engines
  BY <1>1 DEF Engines
<1>3. CASE ch.lifetime = "once"
  <2>1. pol' = pol /\ rev' = rev
        /\ once' = [once EXCEPT ![req[r].call] = [once[req[r].call] EXCEPT ![ch.scope] = ch.status]]
    BY <1>3 DEF Install
  <2>2. once' \in [Calls -> Engines]
    BY <1>2, <2>1 DEF TypeOK
  <2> QED BY <2>1, <2>2 DEF TypeOK
<1>4. CASE ch.lifetime # "once"
  <2>1. AddPolicy(P, ch.scope, ch.status) /\ once' = once
    BY <1>4 DEF Install
  <2>2. \A p \in Principals : pol[p] \in Engines /\ rev[p] \in Nat
    BY DEF TypeOK
  <2>3. rev' \in [Principals -> Nat]
    BY <2>1, <2>2 DEF AddPolicy
  <2>4. pol' \in [Principals -> Engines]
    BY <1>2, <2>1, <2>2 DEF AddPolicy
  <2> QED BY <2>1, <2>3, <2>4 DEF TypeOK
<1> QED BY <1>3, <1>4

\* Types of what a request leaves.
LEMMA FinishTyped ==
    ASSUME TypeOK, NEW r \in Requests, NEW status \in Answers \cup {"none"}, NEW source \in Sources,
           Finish(r, status, source)
    PROVE  /\ phase' \in [Requests -> Waiting \cup {"idle", "done"}]
           /\ req' \in [Requests -> Captured]
           /\ aborted' \subseteq Requests
           /\ choice' \in [Requests -> Choices \cup {NoChoice}]
           /\ result' \in [Requests -> [status : Answers \cup {"none"}, source : Sources]]
<1>1. NoRequest \in Captured
  BY DEF NoRequest, Captured, Principals
<1>2. phase' \in [Requests -> Waiting \cup {"idle", "done"}] /\ aborted' \subseteq Requests
  BY DEF Finish, TypeOK
<1>3. req' \in [Requests -> Captured]
  <2> HIDE DEF NoRequest, Captured
  <2> QED BY <1>1 DEF Finish, TypeOK
<1>4. choice' \in [Requests -> Choices \cup {NoChoice}]
  BY DEF Finish, TypeOK
<1>5. result' \in [Requests -> [status : Answers \cup {"none"}, source : Sources]]
  BY DEF Finish, TypeOK
<1> QED BY <1>2, <1>3, <1>4, <1>5

\* The end of a request keeps the types.
LEMMA EndsTyped ==
    ASSUME TypeOK, NEW r \in Requests, Ends(r)
    PROVE  TypeOK'
<1>1. PICK status \in Answers \cup {"none"}, source \in Sources : Finish(r, status, source)
  BY DEF Ends
<1>2. /\ phase' \in [Requests -> Waiting \cup {"idle", "done"}]
      /\ req' \in [Requests -> Captured]
      /\ aborted' \subseteq Requests
      /\ choice' \in [Requests -> Choices \cup {NoChoice}]
      /\ result' \in [Requests -> [status : Answers \cup {"none"}, source : Sources]]
  BY <1>1, FinishTyped
<1>3. prompts' \in Seq(Requests)
  <2>1. prompts \in Seq(Requests)
    BY DEF TypeOK
  <2>2. CASE prompts # <<>> /\ prompts' = Tail(prompts)
    BY <2>1, <2>2, HeadTailProperties
  <2> QED BY <2>1, <2>2 DEF Ends
<1>4. /\ pol' \in [Principals -> Engines] /\ rev' \in [Principals -> Nat]
      /\ once' \in [Calls -> Engines] /\ db' \in Engines
  <2>1. CASE UNCHANGED <<pol, rev, db, once>>
    BY <2>1 DEF TypeOK
  <2>2. ASSUME NEW ch \in Choices, NEW P \in SUBSET Principals, Install(r, ch, P),
               db' = db \/ db' = [db EXCEPT ![ch.scope] = ch.status]
        PROVE  /\ pol' \in [Principals -> Engines] /\ rev' \in [Principals -> Nat]
               /\ once' \in [Calls -> Engines] /\ db' \in Engines
    <3>1. ch.scope \in Scopes /\ ch.status \in Answers /\ db \in Engines
      BY DEF Choices, TypeOK
    <3>2. db' \in Engines
      BY <2>2, <3>1 DEF Engines
    <3> QED BY <2>2, <3>2, InstallTyped
  <2> QED BY <2>1, <2>2 DEF Ends
<1>5. UNCHANGED <<alive, parent, anc, default, fbRev, closing, owner>>
  BY DEF Ends, treeVars, confVars
<1>6. /\ alive' \subseteq Principals
      /\ parent' \in [Principals -> Principals \cup {"none"}]
      /\ anc' \in [Principals -> SUBSET Principals]
      /\ default' \in Responses /\ fbRev' \in Nat /\ closing' \in BOOLEAN
      /\ owner' \in [Calls -> Principals \cup {"none"}]
  BY <1>5 DEF TypeOK
<1> QED BY <1>2, <1>3, <1>4, <1>6 DEF TypeOK

\* A registration keeps the types.
LEMMA RegisterTyped ==
    ASSUME TypeOK, NEW p \in Agents, NEW q \in Principals, NEW i, Register(p, q, i)
    PROVE  TypeOK'
<1>1. p \in Principals /\ pol[q] \in Engines /\ Fallback \in Answers \cup {"none"} /\ NoEngine \in Engines
  BY DEF Principals, TypeOK, Fallback, NoEngine, Engines
<1>2. alive' \subseteq Principals
  BY <1>1 DEF Register, TypeOK
<1>3. parent' \in [Principals -> Principals \cup {"none"}]
  BY <1>1 DEF Register, TypeOK
<1>4. anc' \in [Principals -> SUBSET Principals]
  BY <1>1 DEF Register, TypeOK
<1>5. pol' \in [Principals -> Engines]
  <2> DEFINE e == IF ~i THEN NoEngine
                  ELSE [s \in Scopes |-> IF pol[q][s] = "none" /\ q = Root /\ FallbackScope(s)
                                         THEN Fallback ELSE pol[q][s]]
  <2>1. pol' = [pol EXCEPT ![p] = e]
    BY DEF Register
  <2>2. e \in Engines
    <3>1. \A s \in Scopes : pol[q][s] \in Answers \cup {"none"}
      BY <1>1 DEF Engines
    <3> QED BY <1>1, <3>1 DEF Engines
  <2> HIDE DEF e
  <2> QED BY <2>1, <2>2 DEF TypeOK
<1>6. UNCHANGED <<rev, default, fbRev, closing, db, owner, once, phase, req, aborted, choice, result, prompts>>
  BY DEF Register, confVars, reqVars
<1> QED BY <1>2, <1>3, <1>4, <1>5, <1>6 DEF TypeOK

\* What Evaluate() captures before it awaits an approval.
Awaits(r, c, t) ==
    \E k \in {"ancestor", "llm", "queued"}, path \in SUBSET Principals, a \in Principals, system \in BOOLEAN :
      /\ Await(r, k, Capture(c, t, path, a, system))
      /\ k = "ancestor" => path = PathTo(owner[c], a)
      /\ k # "ancestor" => path = PathToRoot(owner[c])
      /\ phase[r] = "idle" /\ owner[c] \in Principals /\ ~Denied(owner[c], t)
      /\ UNCHANGED <<treeVars, confVars, owner>>

\* A target that nothing decides waits for an approval.
LEMMA EvaluateAwaits ==
    ASSUME TypeOK, Lineage, NEW r \in Requests, NEW c \in Calls, NEW t \in Targets, Evaluate(r, c, t),
           Settled(owner[c], c, t) = NoResult
    PROVE  Awaits(r, c, t)
<1> DEFINE p == owner[c]
<1>1. p \in Principals /\ phase[r] = "idle" /\ UNCHANGED <<treeVars, confVars, owner>>
  BY DEF Evaluate, TypeOK
<1>2. ~Denied(p, t)
  <2>1. NoResult.source = "none"
    BY DEF NoResult
  <2> QED BY <2>1 DEF Settled
<1>3. /\ \A a \in Principals : PathTo(p, a) \in SUBSET Principals
      /\ PathToRoot(p) \in SUBSET Principals /\ Root \in Principals
  BY <1>1 DEF PathTo, PathToRoot, Principals, TypeOK
<1>4. CASE Allowed(p, t)
  <2>1. Nearest(p, t) \in Principals
    BY <1>1, <1>4, NearestFound DEF Allowed
  <2>2. Await(r, "ancestor", Capture(c, t, PathTo(p, Nearest(p, t)), Nearest(p, t), FromSystem(Nearest(p, t), t)))
    BY <1>4 DEF Evaluate
  <2>3. FromSystem(Nearest(p, t), t) \in BOOLEAN
    BY DEF FromSystem
  <2> QED BY <1>1, <1>2, <1>3, <2>1, <2>2, <2>3 DEF Awaits
<1>5. CASE Await(r, "llm", Capture(c, t, PathToRoot(p), Root, FALSE))
  BY <1>1, <1>2, <1>3, <1>5 DEF Awaits
<1>6. CASE Await(r, "queued", Capture(c, t, PathToRoot(p), Root, FALSE))
  BY <1>1, <1>2, <1>3, <1>6 DEF Awaits
<1> QED BY <1>4, <1>5, <1>6 DEF Evaluate

\* The start of a wait keeps the types.
LEMMA AwaitsTyped ==
    ASSUME TypeOK, NEW r \in Requests, NEW c \in Calls, NEW t \in Targets, Awaits(r, c, t)
    PROVE  TypeOK'
<1>1. PICK k \in {"ancestor", "llm", "queued"}, path \in SUBSET Principals, a \in Principals, system \in BOOLEAN :
        /\ Await(r, k, Capture(c, t, path, a, system)) /\ owner[c] \in Principals
        /\ UNCHANGED <<treeVars, confVars, owner>>
  BY DEF Awaits
<1>2. Capture(c, t, path, a, system) \in Captured
  <2>1. t \in Scopes /\ owner[c] \in Principals /\ fbRev \in Nat
    BY <1>1, ScopesAssumption DEF TypeOK
  <2>2. [q \in Principals |-> IF q \in path THEN rev[q] ELSE 0] \in [Principals -> Nat]
    BY DEF TypeOK
  <2> QED BY <2>1, <2>2 DEF Capture, Captured
<1>3. phase' \in [Requests -> Waiting \cup {"idle", "done"}]
  BY <1>1 DEF Await, Waiting, TypeOK
<1>4. req' \in [Requests -> Captured]
  <2> HIDE DEF Captured, Capture
  <2> QED BY <1>1, <1>2 DEF Await, TypeOK
<1>5. prompts' \in Seq(Requests)
  BY <1>1 DEF Await, TypeOK
<1>6. UNCHANGED <<alive, parent, anc, pol, rev, default, fbRev, closing, db, owner, once, aborted, choice, result>>
  BY <1>1 DEF Await, treeVars, confVars
<1> QED BY <1>3, <1>4, <1>5, <1>6 DEF TypeOK

-----------------------------------------------------------------------------
(* Pending requests                                                        *)

\* A request that waits after a step waited before it, for the same approval.
Pursued(x) == phase'[x] \in Waiting =>
    /\ phase[x] \in Waiting /\ req'[x] = req[x]
    /\ (phase'[x] = "ancestor") => (phase[x] = "ancestor")
    /\ (phase[x] = "ancestor") => (phase'[x] = "ancestor")
    /\ (phase'[x] = "chosen") => (choice'[x] \in Choices)

\* A capture stays one of the past.
LEMMA PursuedCapture ==
    ASSUME TypeOK, TypeOK', Lineage, TreeKept, DefaultKept, NEW x \in Requests, CaptureHolds(x), Pursued(x)
    PROVE  CaptureHolds(x)'
<1> SUFFICES ASSUME phase'[x] \in Waiting PROVE CaptureHolds(x)'
  BY DEF CaptureHolds
<1> PICK q \in Captured : q = req[x]
  BY DEF TypeOK
<1>1. /\ phase[x] \in Waiting /\ req'[x] = q
      /\ (phase'[x] = "ancestor") => (phase[x] = "ancestor")
      /\ (phase[x] = "ancestor") => (phase'[x] = "ancestor")
      /\ (phase'[x] = "chosen") => (choice'[x] \in Choices)
  BY DEF Pursued
<1>2. q.p \in Principals /\ q.path \in SUBSET Principals /\ q.revs \in [Principals -> Nat] /\ q.fb \in Nat
  BY DEF TypeOK, Captured
<1>3. /\ q.call \in Calls /\ q.target \in Scopes /\ Registered(q.p)
      /\ \A p \in q.path : Registered(p) /\ q.revs[p] <= rev[p]
      /\ q.fb <= fbRev
      /\ (phase[x] = "ancestor") => (q.path = PathTo(q.p, q.authority))
      /\ (phase[x] # "ancestor") => (q.path = PathToRoot(q.p))
  BY <1>1 DEF CaptureHolds
<1>4. Registered(q.p)' /\ anc'[q.p] = anc[q.p] /\ anc[q.p] \in SUBSET Principals
  BY <1>2, <1>3 DEF TreeKept, TypeOK
<1>5. ASSUME NEW p \in q.path PROVE Registered(p)' /\ q.revs[p] <= rev'[p]
  <2>1. p \in Principals /\ q.revs[p] \in Nat /\ rev[p] \in Nat /\ rev'[p] \in Nat
    BY <1>2 DEF TypeOK
  <2>2. Registered(p)' /\ rev[p] <= rev'[p]
    BY <1>3, <2>1 DEF TreeKept
  <2> QED BY <1>3, <2>1, <2>2
<1>6. q.fb <= fbRev'
  <2>1. fbRev \in Nat /\ fbRev' \in Nat /\ fbRev <= fbRev'
    BY DEF TypeOK, DefaultKept
  <2> QED BY <1>2, <1>3, <2>1
<1>7. \A y \in anc[q.p] \cup {q.p} : anc'[y] = anc[y]
  BY <1>2, <1>3, <1>4 DEF TreeKept, Lineage
<1>8. PathTo(q.p, q.authority)' = PathTo(q.p, q.authority) /\ PathToRoot(q.p)' = PathToRoot(q.p)
  <2>1. {y \in anc'[q.p] \cup {q.p} : y = q.authority \/ q.authority \in anc'[y]}
          = {y \in anc[q.p] \cup {q.p} : y = q.authority \/ q.authority \in anc[y]}
    BY <1>4, <1>7
  <2> QED BY <1>1, <1>4, <2>1 DEF PathTo, PathToRoot
<1> QED BY <1>1, <1>3, <1>4, <1>5, <1>6, <1>8 DEF CaptureHolds

\* A request that may still be approved is still denied by nobody.
LEMMA PursuedOpen ==
    ASSUME TypeOK, TypeOK', Lineage, Lineage', TreeKept, DefaultKept, NEW x \in Requests,
           CaptureHolds(x), OpenHolds(x), Pursued(x)
    PROVE  OpenHolds(x)'
<1> SUFFICES ASSUME phase'[x] \in Waiting \ {"ancestor"}, UnchangedPath(x)', UnchangedFallback(x)',
                    Denied(req[x].p, req[x].target)'
             PROVE  FALSE
  BY DEF OpenHolds
<1> PICK q \in Captured : q = req[x]
  BY DEF TypeOK
<1>1. phase[x] \in Waiting \ {"ancestor"} /\ req'[x] = q
  BY DEF Pursued
<1>2. q.p \in Principals /\ q.path \in SUBSET Principals /\ q.revs \in [Principals -> Nat] /\ q.fb \in Nat
  BY DEF TypeOK, Captured
<1>3. /\ q.target \in Scopes /\ Registered(q.p)
      /\ \A p \in q.path : Registered(p) /\ q.revs[p] <= rev[p]
      /\ q.fb <= fbRev
      /\ q.path = PathToRoot(q.p)
  BY <1>1 DEF CaptureHolds
<1>4. ASSUME NEW p \in q.path PROVE rev[p] = q.revs[p] /\ pol'[p] = pol[p]
  <2>1. p \in Principals /\ q.revs[p] \in Nat /\ rev[p] \in Nat /\ rev'[p] \in Nat
    BY <1>2 DEF TypeOK
  <2>2. rev'[p] = q.revs[p] /\ rev[p] <= rev'[p] /\ q.revs[p] <= rev[p]
    BY <1>1, <1>3, <2>1 DEF UnchangedPath, TreeKept
  <2>3. rev[p] = q.revs[p] /\ rev'[p] = rev[p]
    BY <2>1, <2>2
  <2> QED BY <1>3, <2>1, <2>3 DEF TreeKept
<1>5. fbRev = q.fb /\ default' = default
  <2>1. fbRev \in Nat /\ fbRev' \in Nat /\ fbRev <= fbRev' /\ fbRev' = q.fb /\ q.fb <= fbRev
    BY <1>1, <1>3 DEF TypeOK, DefaultKept, UnchangedFallback
  <2>2. fbRev = q.fb /\ fbRev' = fbRev
    BY <1>2, <2>1
  <2> QED BY <2>2 DEF DefaultKept
<1>6. UnchangedPath(x) /\ UnchangedFallback(x)
  BY <1>4, <1>5 DEF UnchangedPath, UnchangedFallback
<1>7. \A a \in anc[q.p] : pol'[a] = pol[a]
  BY <1>3, <1>4 DEF PathToRoot
<1>8. Denied(q.p, q.target)
  <2>1. Denied(q.p, q.target)'
    BY <1>1
  <2> QED BY <1>2, <1>3, <1>5, <1>7, <2>1, DenialIsOld
<1> QED BY <1>1, <1>6, <1>8 DEF OpenHolds

\* A step keeps the invariant when each request either goes on waiting as it did or
\* has a capture of its own.
LEMMA StepKeeps ==
    ASSUME PolicyInv, TypeOK', PrincipalTree', Lineage', TreeKept, DefaultKept,
           \A c \in Calls : owner'[c] # owner[c] => Registered(owner[c])',
           \A x \in Requests : Pursued(x) \/ (CaptureHolds(x)' /\ OpenHolds(x)'),
           Unanswered', OnePrompt'
    PROVE  PolicyInv'
<1> USE DEF PolicyInv
<1>1. ASSUME NEW c \in Calls, owner'[c] # "none" PROVE Registered(owner[c])'
  <2>1. CASE owner'[c] = owner[c]
    <3>1. Registered(owner[c]) /\ owner[c] \in Principals
      BY <1>1, <2>1 DEF Captures, TypeOK
    <3>2. PICK p \in Principals : p = owner[c]
      BY <3>1
    <3>3. Registered(p)'
      BY <3>1, <3>2 DEF TreeKept
    <3> QED BY <2>1, <3>2, <3>3 DEF Registered
  <2> QED BY <2>1
<1>2. ASSUME NEW x \in Requests PROVE CaptureHolds(x)' /\ OpenHolds(x)'
  <2>1. CaptureHolds(x) /\ OpenHolds(x)
    BY DEF Captures, StillOpen
  <2>2. CASE Pursued(x)
    BY <2>1, <2>2, PursuedCapture, PursuedOpen
  <2> QED BY <2>2
<1>3. Captures'
  BY <1>1, <1>2 DEF Captures
<1>4. StillOpen'
  BY <1>2 DEF StillOpen
<1> QED BY <1>3, <1>4

\* A step that leaves the requests alone.
LEMMA SameRequests ==
    ASSUME PolicyInv, UNCHANGED <<phase, req, choice>>, NEW x \in Requests
    PROVE  Pursued(x)
BY DEF PolicyInv, Captures, CaptureHolds, Pursued

\* The end of a request keeps the invariant.
LEMMA EndsKeeps ==
    ASSUME PolicyInv, NEW r \in Requests, Ends(r)
    PROVE  PolicyInv'
<1> USE DEF PolicyInv
<1>1. TypeOK'
  BY EndsTyped
<1>2. UNCHANGED <<treeVars, confVars, owner>>
  BY DEF Ends
<1>3. PrincipalTree' /\ Lineage'
  BY <1>2, SameLineage
<1>4. TreeKept
  <2>1. CASE UNCHANGED <<pol, rev, db, once>>
    BY <1>2, <2>1, SameTree
  <2>2. ASSUME NEW ch \in Choices, NEW P \in SUBSET Principals, Install(r, ch, P) PROVE TreeKept
    BY <1>2, <2>2, InstallKeepsTree
  <2> QED BY <2>1, <2>2 DEF Ends
<1>5. DefaultKept
  BY <1>2, SameDefault
<1>6. PICK status \in Answers \cup {"none"}, source \in Sources : Finish(r, status, source)
  BY DEF Ends
<1>7. /\ phase'[r] = "done"
      /\ \A x \in Requests \ {r} : /\ phase'[x] = phase[x] /\ req'[x] = req[x]
                                   /\ choice'[x] = choice[x] /\ result'[x] = result[x]
  BY <1>6 DEF Finish, TypeOK
<1>8. ASSUME NEW x \in Requests PROVE Pursued(x)
  <2>1. CaptureHolds(x)
    BY DEF Captures
  <2> QED BY <1>7, <2>1 DEF Pursued, Waiting, CaptureHolds
<1>9. Unanswered'
  BY <1>7 DEF Unanswered
<1>10. OnePrompt'
  <2> SUFFICES ASSUME NEW x \in Requests, phase'[x] \in {"prompting", "chosen"}
               PROVE  prompts' # <<>> /\ Head(prompts') = x
    BY DEF OnePrompt
  <2>1. x # r /\ prompts # <<>> /\ Head(prompts) = x
    BY <1>7 DEF OnePrompt
  <2> QED BY <2>1 DEF Ends
<1> QED BY <1>1, <1>2, <1>3, <1>4, <1>5, <1>8, <1>9, <1>10, StepKeeps

\* The start of a wait keeps it.
LEMMA AwaitsKeeps ==
    ASSUME PolicyInv, NEW r \in Requests, NEW c \in Calls, NEW t \in Targets, Awaits(r, c, t)
    PROVE  PolicyInv'
<1> USE DEF PolicyInv
<1>1. TypeOK'
  BY AwaitsTyped
<1>2. PICK k \in {"ancestor", "llm", "queued"}, path \in SUBSET Principals, a \in Principals, system \in BOOLEAN :
        /\ Await(r, k, Capture(c, t, path, a, system))
        /\ k = "ancestor" => path = PathTo(owner[c], a)
        /\ k # "ancestor" => path = PathToRoot(owner[c])
        /\ phase[r] = "idle" /\ owner[c] \in Principals /\ ~Denied(owner[c], t)
        /\ UNCHANGED <<treeVars, confVars, owner>>
  BY DEF Awaits
<1>3. UNCHANGED <<treeVars, pol, rev, confVars, owner, result, choice>>
  BY <1>2 DEF Await
<1>4. PrincipalTree' /\ Lineage' /\ TreeKept /\ DefaultKept
  BY <1>3, SameLineage, SameTree, SameDefault
<1>5. /\ phase'[r] = k
      /\ \A x \in Requests \ {r} : phase'[x] = phase[x] /\ req'[x] = req[x]
  BY <1>2 DEF Await, TypeOK
<1>6. PICK p \in Principals : p = owner[c]
  BY <1>2
<1>7. PICK q \in Captured : q = Capture(c, t, path, a, system) /\ req'[r] = q
  <2>1. req'[r] = Capture(c, t, path, a, system)
    BY <1>2 DEF Await, TypeOK
  <2>2. req'[r] \in Captured
    BY <1>1 DEF TypeOK
  <2> QED BY <2>1, <2>2
<1>8. /\ q.call = c /\ q.p = p /\ q.target = t /\ q.path = path /\ q.authority = a /\ q.fb = fbRev
      /\ \A y \in path : q.revs[y] = rev[y]
  BY <1>6, <1>7 DEF Capture
<1>9. Registered(p) /\ t \in Scopes /\ p # "none"
  BY <1>6, ScopesAssumption, TreeAssumption DEF Captures
<1>10. UNCHANGED <<alive, parent, anc, default, fbRev>>
  BY <1>3 DEF treeVars, confVars
<1>11. CaptureHolds(r)'
  <2>1. \A y \in path : Registered(y)' /\ q.revs[y] <= rev'[y]
    <3>1. \A y \in path : Registered(y)
      BY <1>2, <1>6, <1>9 DEF PathTo, PathToRoot, Lineage
    <3>2. \A y \in path : rev[y] <= rev[y]
      BY DEF TypeOK
    <3> QED BY <1>3, <1>8, <1>10, <3>1, <3>2 DEF Registered
  <2>2. fbRev' <= fbRev'
    BY <1>1 DEF TypeOK
  <2>3. k # "chosen"
    OBVIOUS
  <2>4. (k = "ancestor") => (path = PathTo(p, a)')
    BY <1>2, <1>6, <1>10 DEF PathTo
  <2>5. (k # "ancestor") => (path = PathToRoot(p)')
    BY <1>2, <1>6, <1>10 DEF PathToRoot
  <2>6. Registered(p)'
    BY <1>9, <1>10 DEF Registered
  <2> QED BY <1>5, <1>7, <1>8, <1>9, <1>10, <2>1, <2>2, <2>3, <2>4, <2>5, <2>6 DEF CaptureHolds
<1>12. OpenHolds(r)'
  <2>1. Denied(p, t)' = Denied(p, t)
    BY <1>3, <1>10 DEF Denied, Deciding, Nearest, NearestIn, Authority, Fallback
  <2> QED BY <1>2, <1>6, <1>7, <1>8, <2>1 DEF OpenHolds
<1>13. ASSUME NEW x \in Requests, x # r PROVE Pursued(x)
  <2>1. CaptureHolds(x)
    BY DEF Captures
  <2> QED BY <1>3, <1>5, <1>13, <2>1 DEF Pursued, CaptureHolds
<1>14. Unanswered'
  BY <1>2, <1>3, <1>5 DEF Unanswered
<1>15. OnePrompt'
  <2> SUFFICES ASSUME NEW x \in Requests, phase'[x] \in {"prompting", "chosen"}
               PROVE  prompts' # <<>> /\ Head(prompts') = x
    BY DEF OnePrompt
  <2>1. prompts # <<>> /\ Head(prompts) = x
    BY <1>5 DEF OnePrompt
  <2>2. prompts' = prompts \/ prompts' = Append(prompts, r)
    BY <1>2 DEF Await
  <2>3. prompts \in Seq(Requests)
    BY DEF TypeOK
  <2> QED BY <2>1, <2>2, <2>3
<1> QED BY <1>1, <1>3, <1>4, <1>11, <1>12, <1>13, <1>14, <1>15, StepKeeps

\* Registrations, removals, decisions elsewhere and new configurations keep it.
LEMMA AmbientKeeps ==
    ASSUME PolicyInv, TypeOK', PrincipalTree', Lineage', TreeKept, DefaultKept,
           UNCHANGED <<phase, req, choice, result, prompts>>,
           \A c \in Calls : owner'[c] # owner[c] => Registered(owner[c])'
    PROVE  PolicyInv'
<1>1. Unanswered' /\ OnePrompt'
  BY DEF PolicyInv, Unanswered, OnePrompt
<1> QED BY <1>1, SameRequests, StepKeeps

\* A prompt that opens keeps it.
LEMMA PromptKeeps ==
    ASSUME PolicyInv, NEW r \in Requests, PromptOpens(r), Recheck(r) = NoResult
    PROVE  PolicyInv'
<1> USE DEF PolicyInv
<1>1. /\ phase' = [phase EXCEPT ![r] = "prompting"] /\ phase[r] = "queued"
      /\ prompts # <<>> /\ Head(prompts) = r
      /\ UNCHANGED <<treeVars, pol, rev, confVars, db, owner, once, req, aborted, choice, result, prompts>>
  BY DEF PromptOpens, UpNext
<1>2. TypeOK'
  BY <1>1 DEF TypeOK, treeVars, confVars, Waiting
<1>3. PrincipalTree' /\ Lineage' /\ TreeKept /\ DefaultKept
  BY <1>1, SameLineage, SameTree, SameDefault
<1>4. phase'[r] = "prompting" /\ \A x \in Requests \ {r} : phase'[x] = phase[x]
  BY <1>1 DEF TypeOK
<1>5. ASSUME NEW x \in Requests PROVE Pursued(x)
  <2>1. CaptureHolds(x)
    BY DEF Captures
  <2> QED BY <1>1, <1>4, <2>1 DEF Pursued, CaptureHolds, Waiting
<1>6. Unanswered' /\ OnePrompt'
  BY <1>1, <1>4 DEF Unanswered, OnePrompt
<1> QED BY <1>1, <1>2, <1>3, <1>5, <1>6, StepKeeps

\* The user's choice keeps it.
LEMMA ChooseKeeps ==
    ASSUME PolicyInv, NEW r \in Requests, NEW ch \in Choices, UserChooses(r, ch)
    PROVE  PolicyInv'
<1> USE DEF PolicyInv
<1>1. /\ phase' = [phase EXCEPT ![r] = "chosen"] /\ phase[r] = "prompting"
      /\ choice' = [choice EXCEPT ![r] = ch]
      /\ UNCHANGED <<treeVars, pol, rev, confVars, db, owner, once, req, aborted, result, prompts>>
  BY DEF UserChooses
<1>2. TypeOK'
  BY <1>1 DEF TypeOK, treeVars, confVars, Waiting
<1>3. PrincipalTree' /\ Lineage' /\ TreeKept /\ DefaultKept
  BY <1>1, SameLineage, SameTree, SameDefault
<1>4. /\ phase'[r] = "chosen" /\ choice'[r] = ch
      /\ \A x \in Requests \ {r} : phase'[x] = phase[x] /\ choice'[x] = choice[x]
  BY <1>1 DEF TypeOK
<1>5. ASSUME NEW x \in Requests PROVE Pursued(x)
  <2>1. CaptureHolds(x)
    BY DEF Captures
  <2> QED BY <1>1, <1>4, <2>1 DEF Pursued, CaptureHolds, Waiting
<1>6. Unanswered' /\ OnePrompt'
  BY <1>1, <1>4 DEF Unanswered, OnePrompt
<1> QED BY <1>1, <1>2, <1>3, <1>5, <1>6, StepKeeps

\* A prompt that was aborted in the queue keeps it.
LEMMA SkipKeeps ==
    ASSUME PolicyInv, PromptSkips
    PROVE  PolicyInv'
<1> USE DEF PolicyInv
<1>1. /\ prompts # <<>> /\ phase[Head(prompts)] = "done" /\ prompts' = Tail(prompts)
      /\ UNCHANGED <<treeVars, pol, rev, confVars, db, owner, once, phase, req, aborted, choice, result>>
  BY DEF PromptSkips, reqVars
<1>2. TypeOK'
  <2>1. prompts' \in Seq(Requests)
    BY <1>1, HeadTailProperties DEF TypeOK
  <2> QED BY <1>1, <2>1 DEF TypeOK, treeVars, confVars
<1>3. PrincipalTree' /\ Lineage' /\ TreeKept /\ DefaultKept
  BY <1>1, SameLineage, SameTree, SameDefault
<1>4. Unanswered' /\ OnePrompt'
  BY <1>1 DEF Unanswered, OnePrompt
<1>5. \A x \in Requests : Pursued(x)
  BY <1>1, SameRequests
<1> QED BY <1>1, <1>2, <1>3, <1>4, <1>5, StepKeeps

\* Every step of a request keeps it.
LEMMA RequestKeeps ==
    ASSUME PolicyInv, NEW r \in Requests, RequestStep(r)
    PROVE  PolicyInv'
<1> USE DEF PolicyInv
<1>1. CaptureHolds(r)
  BY DEF Captures
<1>2. ASSUME NEW c \in Calls, NEW t \in Targets, Evaluate(r, c, t) PROVE PolicyInv'
  <2>1. CASE Settled(owner[c], c, t) = NoResult
    BY <1>2, <2>1, EvaluateAwaits, AwaitsKeeps
  <2>2. CASE Settled(owner[c], c, t) # NoResult
    BY <1>2, <2>2, EvaluateEnds, EndsKeeps
  <2> QED BY <2>1, <2>2
<1>3. CASE Abort(r)
  <2>1. /\ aborted' = aborted \cup {r}
        /\ UNCHANGED <<treeVars, pol, rev, confVars, db, owner, once, phase, req, choice, result, prompts>>
    BY <1>3 DEF Abort
  <2>2. TypeOK'
    BY <2>1 DEF TypeOK, treeVars, confVars
  <2>3. PrincipalTree' /\ Lineage' /\ TreeKept /\ DefaultKept
    BY <2>1, SameLineage, SameTree, SameDefault
  <2> QED BY <2>1, <2>2, <2>3, AmbientKeeps
<1>4. ASSUME NEW ch \in Choices, AncestorDecides(r, ch) PROVE PolicyInv'
  BY <1>1, <1>4, AncestorEnds, EndsKeeps
<1>5. ASSUME NEW ch \in Choices, LlmDecides(r, ch) PROVE PolicyInv'
  BY <1>1, <1>5, LlmEnds, EndsKeeps
<1>6. CASE ReviewFails(r) \/ UserAborted(r)
  BY <1>6, FailEnds, EndsKeeps
<1>7. CASE PromptOpens(r)
  <2>1. CASE Recheck(r) = NoResult
    BY <1>7, <2>1, PromptKeeps
  <2>2. CASE Recheck(r) # NoResult
    BY <1>1, <1>7, <2>2, OpenEnds, EndsKeeps
  <2> QED BY <2>1, <2>2
<1>8. ASSUME NEW ch \in Choices, UserChooses(r, ch) PROVE PolicyInv'
  BY <1>8, ChooseKeeps
<1>9. CASE UserCompletes(r)
  BY <1>1, <1>9, UserEnds, EndsKeeps
<1> QED BY <1>2, <1>3, <1>4, <1>5, <1>6, <1>7, <1>8, <1>9 DEF RequestStep

\* Every step keeps it.
LEMMA PolicyStep ==
    ASSUME PolicyInv, [Next]_vars
    PROVE  PolicyInv'
<1> USE DEF PolicyInv
<1>1. ASSUME NEW p \in Agents, NEW q \in Principals, NEW i \in BOOLEAN, Register(p, q, i) PROVE PolicyInv'
  <2>1. UNCHANGED <<confVars, owner, phase, req, choice, result, prompts>>
    BY <1>1 DEF Register, reqVars
  <2>2. TypeOK' /\ PrincipalTree' /\ Lineage' /\ TreeKept
    BY <1>1, RegisterTyped, RegisterLineage, RegisterKeepsTree
  <2> QED BY <2>1, <2>2, SameDefault, AmbientKeeps
<1>2. ASSUME NEW p \in Agents, Remove(p) PROVE PolicyInv'
  <2>1. UNCHANGED <<parent, anc, pol, rev, confVars, owner, phase, req, choice, result, prompts>>
    BY <1>2 DEF Remove, reqVars
  <2>2. TypeOK'
    BY <1>2 DEF Remove, reqVars, confVars, TypeOK
  <2>3. TreeKept
    BY <2>1 DEF TypeOK, TreeKept, Registered
  <2> QED BY <1>2, <2>1, <2>2, <2>3, SameDefault, RemoveLineage, AmbientKeeps
<1>3. ASSUME NEW p \in Principals, UpdateContext(p) PROVE PolicyInv'
  <2>1. UNCHANGED <<treeVars, pol, confVars, owner, phase, req, choice, result, prompts>>
    BY <1>3 DEF UpdateContext, reqVars
  <2>2. TypeOK'
    BY <1>3 DEF UpdateContext, reqVars, confVars, treeVars, TypeOK
  <2> QED BY <1>3, <2>1, <2>2, SameDefault, SameLineage, ContextKeepsTree, AmbientKeeps
<1>4. ASSUME NEW d \in Responses, SetDefault(d) PROVE PolicyInv'
  <2>1. UNCHANGED <<treeVars, pol, rev, owner, phase, req, choice, result, prompts>>
    BY <1>4 DEF SetDefault, reqVars
  <2>2. TypeOK'
    BY <1>4 DEF SetDefault, reqVars, treeVars, TypeOK
  <2> QED BY <1>4, <2>1, <2>2, SetDefaultKeeps, SameLineage, SameTree, AmbientKeeps
<1>5. CASE BeginShutdown
  <2>1. UNCHANGED <<treeVars, pol, rev, default, fbRev, owner, phase, req, choice, result, prompts>>
    BY <1>5 DEF BeginShutdown, reqVars
  <2>2. TypeOK'
    BY <1>5 DEF BeginShutdown, reqVars, treeVars, TypeOK
  <2>3. DefaultKept
    BY <2>1 DEF DefaultKept, TypeOK
  <2> QED BY <2>1, <2>2, <2>3, SameLineage, SameTree, AmbientKeeps
<1>6. ASSUME NEW c \in Calls, NEW p \in Principals, BeginToolCall(c, p) PROVE PolicyInv'
  <2>1. UNCHANGED <<treeVars, pol, rev, confVars, phase, req, choice, result, prompts>>
    BY <1>6 DEF BeginToolCall, reqVars
  <2>2. TypeOK'
    BY <1>6 DEF BeginToolCall, reqVars, treeVars, confVars, TypeOK
  <2>3. Registered(p)'
    BY <1>6, <2>1 DEF BeginToolCall, Lineage, Registered, treeVars
  <2>4. ASSUME NEW d \in Calls, owner'[d] # owner[d] PROVE Registered(owner[d])'
    <3>1. owner'[d] = p
      BY <1>6, <2>4 DEF BeginToolCall, TypeOK
    <3> QED BY <2>3, <3>1 DEF Registered
  <2> QED BY <2>1, <2>2, <2>4, SameDefault, SameLineage, SameTree, AmbientKeeps
<1>7. ASSUME NEW r \in Requests, RequestStep(r) PROVE PolicyInv'
  BY <1>7, RequestKeeps
<1>8. CASE PromptSkips
  BY <1>8, SkipKeeps
<1>9. CASE UNCHANGED vars
  <2>1. UNCHANGED <<treeVars, pol, rev, confVars, db, owner, once, phase, req, aborted, choice, result, prompts>>
    BY <1>9 DEF vars, reqVars
  <2>2. TypeOK'
    BY <2>1 DEF TypeOK, treeVars, confVars
  <2>3. PrincipalTree' /\ Lineage' /\ TreeKept /\ DefaultKept
    BY <2>1, SameLineage, SameTree, SameDefault
  <2> QED BY <2>1, <2>2, <2>3, AmbientKeeps
<1> QED BY <1>1, <1>2, <1>3, <1>4, <1>5, <1>6, <1>7, <1>8, <1>9 DEF Next

\* It holds at the start.
LEMMA PolicyInit == Init => PolicyInv
<1> SUFFICES ASSUME Init PROVE PolicyInv
  OBVIOUS
<1> USE DEF Init
<1>1. TypeOK
  <2>1. db \in Engines /\ NoEngine \in Engines
    BY ScopesAssumption DEF NoEngine, Engines
  <2>2. pol \in [Principals -> Engines] /\ once \in [Calls -> Engines]
    BY <2>1
  <2>3. NoRequest \in Captured
    BY DEF NoRequest, Captured, Principals
  <2>4. req \in [Requests -> Captured]
    <3> HIDE DEF NoRequest, Captured
    <3> QED BY <2>3
  <2>5. result \in [Requests -> [status : Answers \cup {"none"}, source : Sources]]
    BY DEF NoResult, Sources
  <2>6. choice \in [Requests -> Choices \cup {NoChoice}]
    OBVIOUS
  <2>7. alive \subseteq Principals
    BY DEF Principals
  <2>8. /\ parent \in [Principals -> Principals \cup {"none"}]
        /\ anc \in [Principals -> SUBSET Principals]
        /\ rev \in [Principals -> Nat]
        /\ owner \in [Calls -> Principals \cup {"none"}]
    OBVIOUS
  <2>9. phase \in [Requests -> Waiting \cup {"idle", "done"}] /\ aborted \subseteq Requests
    OBVIOUS
  <2>10. default \in Responses /\ fbRev \in Nat /\ closing \in BOOLEAN
    OBVIOUS
  <2>11. prompts \in Seq(Requests)
    BY EmptySeq
  <2> HIDE DEF Init
  <2> QED BY <2>1, <2>2, <2>4, <2>5, <2>6, <2>7, <2>8, <2>9, <2>10, <2>11 DEF TypeOK
<1>2. PrincipalTree
  BY DEF PrincipalTree, Principals
<1>3. Lineage
  BY DEF Lineage, Registered, Principals
<1>4. \A r \in Requests : phase[r] = "idle" /\ result[r] = NoResult
  OBVIOUS
<1>5. Captures
  BY <1>4 DEF Captures, CaptureHolds, Waiting
<1>6. StillOpen /\ Unanswered /\ OnePrompt
  BY <1>4 DEF StillOpen, OpenHolds, Waiting, Unanswered, OnePrompt
<1> QED BY <1>1, <1>2, <1>3, <1>5, <1>6 DEF PolicyInv

\* It holds always.
LEMMA PolicyInvariant == Spec => []PolicyInv
<1>1. Init => PolicyInv
  BY PolicyInit
<1>2. PolicyInv /\ [Next]_vars => PolicyInv'
  BY PolicyStep
<1> QED BY <1>1, <1>2, PTL DEF Spec

-----------------------------------------------------------------------------
(* What a step may never do                                                *)

\* Another request's step neither answers nor moves a request that waits.
LEMMA OthersWait ==
    ASSUME PolicyInv, NEW r \in Requests, Next, phase[r] \in Waiting, ~RequestStep(r)
    PROVE  phase'[r] = phase[r] /\ result'[r] = NoResult
<1> USE DEF PolicyInv
<1>1. result[r] = NoResult
  BY DEF Unanswered, Waiting
<1>2. ASSUME NEW x \in Requests, RequestStep(x)
      PROVE  phase'[r] = phase[r] /\ result'[r] = result[r]
  <2>1. x # r /\ CaptureHolds(x)
    BY <1>2 DEF Captures
  <2>2. CASE Ends(x)
    <3>1. PICK status, source : Finish(x, status, source)
      BY <2>2 DEF Ends
    <3> QED BY <2>1, <3>1 DEF Finish, TypeOK
  <2>3. ASSUME NEW c \in Calls, NEW t \in Targets, Evaluate(x, c, t)
        PROVE  phase'[r] = phase[r] /\ result'[r] = result[r]
    <3>1. CASE Settled(owner[c], c, t) # NoResult
      BY <2>2, <2>3, <3>1, EvaluateEnds
    <3>2. CASE Settled(owner[c], c, t) = NoResult
      <4>1. PICK k, g : Await(x, k, g)
        BY <2>3, <3>2, EvaluateAwaits DEF Awaits
      <4> QED BY <2>1, <4>1 DEF Await, TypeOK
    <3> QED BY <3>1, <3>2
  <2>4. CASE PromptOpens(x)
    <3>1. CASE Recheck(x) # NoResult
      BY <2>1, <2>2, <2>4, <3>1, OpenEnds
    <3>2. CASE Recheck(x) = NoResult
      BY <2>1, <2>4, <3>2 DEF PromptOpens, TypeOK
    <3> QED BY <3>1, <3>2
  <2>5. CASE Abort(x)
    BY <2>5 DEF Abort
  <2>6. ASSUME NEW ch \in Choices, AncestorDecides(x, ch) PROVE Ends(x)
    BY <2>1, <2>6, AncestorEnds
  <2>7. ASSUME NEW ch \in Choices, LlmDecides(x, ch) PROVE Ends(x)
    BY <2>1, <2>7, LlmEnds
  <2>8. ASSUME NEW ch \in Choices, UserChooses(x, ch)
        PROVE  phase'[r] = phase[r] /\ result'[r] = result[r]
    BY <2>1, <2>8 DEF UserChooses, TypeOK
  <2>9. ReviewFails(x) \/ UserAborted(x) => Ends(x)
    BY FailEnds
  <2>10. UserCompletes(x) => Ends(x)
    BY <2>1, UserEnds
  <2> QED BY <1>2, <2>2, <2>3, <2>4, <2>5, <2>6, <2>7, <2>8, <2>9, <2>10 DEF RequestStep
<1>3. CASE UNCHANGED reqVars
  BY <1>1, <1>3 DEF reqVars
<1> QED BY <1>1, <1>2, <1>3 DEF Next, Register, Remove, UpdateContext, SetDefault, BeginShutdown,
          BeginToolCall, PromptSkips

\* How a request that waits is answered with a fresh approval: everything the
\* approval was asked for still holds.
Granted(r, ch, P) ==
    /\ ch \in Choices
    /\ result'[r].status = ch.status
    /\ Own(r) = "none" /\ ~Denied(req[r].p, req[r].target)
    /\ Active(r) /\ ~Inactive(r) /\ P \in SUBSET req[r].path
    /\ Install(r, ch, P)

\* An approval is granted only after everything was looked at again.
LEMMA FreshApproval ==
    ASSUME PolicyInv, NEW r \in Requests, RequestStep(r), phase[r] \in Waiting,
           result'[r].source \in {"agent", "llm", "user"}
    PROVE  /\ phase'[r] = "done"
           /\ \E ch \in Choices, P \in SUBSET Principals : Granted(r, ch, P)
<1> USE DEF PolicyInv
<1>0. CaptureHolds(r) /\ OpenHolds(r) /\ result[r] = NoResult /\ NoResult.source = "none"
  BY DEF Captures, StillOpen, Unanswered, Waiting, NoResult
<1>1. ASSUME NEW status, NEW source, Finish(r, status, source)
      PROVE  phase'[r] = "done" /\ result'[r].status = status /\ result'[r].source = source
  BY <1>1 DEF Finish, TypeOK
<1>2. ASSUME NEW status, NEW source, Answer(r, status, source), source \notin {"agent", "llm", "user"} PROVE FALSE
  BY <1>1, <1>2 DEF Answer
<1>3. ~FailClosed(r)
  BY <1>2 DEF FailClosed
<1>4. req[r].path \in SUBSET Principals
  BY DEF TypeOK, Captured
<1>5. ASSUME NEW ch \in Choices, AncestorDecides(r, ch)
      PROVE  phase'[r] = "done" /\ \E P \in SUBSET Principals : Granted(r, ch, P)
  <2>1. /\ ~Inactive(r) /\ Active(r) /\ Own(r) = "none" /\ ~Denied(req[r].p, req[r].target)
        /\ Finish(r, ch.status, "agent") /\ Install(r, ch, req[r].path \ {req[r].authority})
    BY <1>2, <1>3, <1>5 DEF AncestorDecides
  <2>2. req[r].path \ {req[r].authority} \in SUBSET req[r].path
    OBVIOUS
  <2> QED BY <1>1, <1>4, <2>1, <2>2 DEF Granted
<1>6. ASSUME NEW ch \in Choices, LlmDecides(r, ch)
      PROVE  phase'[r] = "done" /\ \E P \in SUBSET Principals : Granted(r, ch, P)
  <2>1. /\ ~Inactive(r) /\ Own(r) = "none" /\ LlmGrants(r, ch) /\ phase[r] = "llm"
        /\ Finish(r, ch.status, "llm") /\ Install(r, ch, req[r].path)
    BY <1>2, <1>3, <1>6 DEF LlmDecides
  <2>2. Active(r) /\ ~Denied(req[r].p, req[r].target)
    BY <1>0, <2>1 DEF LlmGrants, OpenHolds, Waiting
  <2> QED BY <1>1, <1>4, <2>1, <2>2 DEF Granted
<1>7. CASE UserCompletes(r)
  <2>1. /\ ~Inactive(r) /\ ~UserStale(r) /\ Own(r) = "none" /\ phase[r] = "chosen"
        /\ Active(r) /\ UnchangedPath(r)
        /\ Finish(r, choice[r].status, "user") /\ Install(r, choice[r], req[r].path)
    BY <1>2, <1>3, <1>7 DEF UserCompletes
  <2>2. ~Denied(req[r].p, req[r].target)
    BY <1>0, <2>1 DEF OpenHolds, Waiting, UserStale
  <2>3. choice[r] \in Choices
    BY <1>0, <2>1 DEF CaptureHolds
  <2> QED BY <1>1, <1>4, <2>1, <2>2, <2>3 DEF Granted
<1>8. CASE PromptOpens(r)
  <2>1. CASE Recheck(r) = NoResult
    BY <1>0, <1>8, <2>1 DEF PromptOpens
  <2>2. CASE Recheck(r) # NoResult
    <3>1. Answer(r, Recheck(r).status, Recheck(r).source)
      BY <1>8, <2>2 DEF PromptOpens
    <3>2. Recheck(r).source \notin {"agent", "llm", "user"}
      BY <1>0 DEF Recheck
    <3> QED BY <1>2, <3>1, <3>2
  <2> QED BY <2>1, <2>2
<1>9. ~\E c \in Calls, t \in Targets : Evaluate(r, c, t)
  BY DEF Evaluate, Waiting
<1>10. ~Abort(r) /\ ~ReviewFails(r) /\ ~UserAborted(r) /\ ~\E ch \in Choices : UserChooses(r, ch)
  BY <1>0, <1>3 DEF Abort, ReviewFails, UserAborted, UserChooses
<1> QED BY <1>5, <1>6, <1>7, <1>8, <1>9, <1>10 DEF RequestStep

\* A denial that came meanwhile wins over the approval.
LEMMA DenialWinsStep ==
    ASSUME PolicyInv, [Next]_vars, NEW r \in Requests, phase[r] \in Waiting,
           result'[r].source \in {"agent", "llm", "user"}
    PROVE  Own(r) = "none" /\ ~Denied(req[r].p, req[r].target)
<1>1. NoResult.source = "none" /\ result[r] = NoResult
  BY DEF NoResult, PolicyInv, Unanswered, Waiting
<1>2. Next
  BY <1>1 DEF vars, reqVars
<1>3. RequestStep(r)
  BY <1>1, <1>2, OthersWait
<1> QED BY <1>3, FreshApproval DEF Granted

\* A prompt opens for a request that is still undecided, one at a time.
LEMMA PromptStep ==
    ASSUME PolicyInv, [Next]_vars, NEW r \in Requests, phase[r] = "queued", phase'[r] = "prompting"
    PROVE  /\ Own(r) = "none" /\ ~Denied(req[r].p, req[r].target)
           /\ default = "ask_user" /\ ~closing
           /\ \A x \in Requests : phase[x] \notin {"prompting", "chosen"}
<1> USE DEF PolicyInv
<1>1. Next /\ RequestStep(r) /\ CaptureHolds(r)
  <2>1. Next
    BY DEF vars, reqVars
  <2> QED BY <2>1, OthersWait DEF Waiting, Captures
<1>2. ~Ends(r)
  BY DEF Ends, Finish, TypeOK
<1>3. PromptOpens(r)
  <2>1. ~\E c \in Calls, t \in Targets : Evaluate(r, c, t)
    BY DEF Evaluate
  <2>2. ~Abort(r) /\ ~\E ch \in Choices : UserChooses(r, ch)
    BY DEF Abort, UserChooses
  <2>3. ~\E ch \in Choices : AncestorDecides(r, ch)
    BY DEF AncestorDecides
  <2>4. ~\E ch \in Choices : LlmDecides(r, ch)
    BY DEF LlmDecides
  <2>5. ~ReviewFails(r) /\ ~UserAborted(r)
    BY <1>2, FailEnds
  <2>6. ~UserCompletes(r)
    BY DEF UserCompletes
  <2> QED BY <1>1, <2>1, <2>2, <2>3, <2>4, <2>5, <2>6 DEF RequestStep
<1>4. Recheck(r) = NoResult /\ prompts # <<>> /\ Head(prompts) = r
  BY <1>1, <1>2, <1>3, OpenEnds DEF PromptOpens, UpNext
<1>5. NoResult.source = "none"
  BY DEF NoResult
<1>6. /\ ~Inactive(r) /\ Own(r) = "none" /\ ~Denied(req[r].p, req[r].target) /\ default = "ask_user"
  BY <1>4, <1>5 DEF Recheck
<1>7. \A x \in Requests : phase[x] \notin {"prompting", "chosen"}
  BY <1>4 DEF OnePrompt
<1> QED BY <1>6, <1>7 DEF Inactive

\* What is decided by now is heeded, whatever happened while evaluate() awaited
\* the approval: a denial wins over a late reply, and no prompt opens for a request
\* that is settled, or while another is open.
THEOREM PoliciesHeededTheorem == Spec => PoliciesHeeded
<1>1. PolicyInv /\ [Next]_vars =>
        [\A r \in Requests :
           (phase[r] \in Waiting /\ result'[r].status = "allow"
              /\ result'[r].source \in {"agent", "llm", "user"})
           => /\ Own(r) = "none"
              /\ ~Denied(req[r].p, req[r].target)]_vars
  BY DenialWinsStep
<1>2. PolicyInv /\ [Next]_vars =>
        [\A r \in Requests : (phase[r] = "queued" /\ phase'[r] = "prompting")
           => /\ Own(r) = "none" /\ ~Denied(req[r].p, req[r].target)
              /\ default = "ask_user" /\ ~closing
              /\ \A x \in Requests : phase[x] \notin {"prompting", "chosen"}]_vars
  BY PromptStep
<1> QED BY <1>1, <1>2, PolicyInvariant, PTL DEF Spec, PoliciesHeeded, DenialWins, NoRedundantPrompt

\* The reply to a request that is no longer active denies and installs nothing.
LEMMA LateStep ==
    ASSUME PolicyInv, [Next]_vars, NEW r \in Requests, phase[r] \in Waiting, phase'[r] = "done", Inactive(r)
    PROVE  result'[r].status = "deny" /\ UNCHANGED <<pol, once, db>>
<1> USE DEF PolicyInv
<1>1. RequestStep(r)
  <2>1. phase'[r] # phase[r]
    BY DEF Waiting
  <2>2. Next
    BY <2>1 DEF vars, reqVars
  <2> QED BY <2>1, <2>2, OthersWait
<1>2. ASSUME FailClosed(r) PROVE result'[r].status = "deny" /\ UNCHANGED <<pol, once, db>>
  BY <1>2 DEF FailClosed, Answer, Finish, TypeOK
<1>3. CASE PromptOpens(r)
  <2>1. Recheck(r) = [status |-> "deny", source |-> "closed"]
    BY DEF Recheck
  <2>2. Recheck(r) # NoResult
    BY <2>1 DEF NoResult
  <2>3. FailClosed(r)
    BY <1>3, <2>1, <2>2 DEF PromptOpens, FailClosed
  <2> QED BY <1>2, <2>3
<1>4. ~\E c \in Calls, t \in Targets : Evaluate(r, c, t)
  BY DEF Evaluate, Waiting
<1>5. ~Abort(r)
  BY DEF Abort, Waiting
<1>6. ~\E ch \in Choices : UserChooses(r, ch)
  BY DEF UserChooses, TypeOK
<1>7. ASSUME NEW ch \in Choices, AncestorDecides(r, ch) PROVE FailClosed(r)
  BY <1>7 DEF AncestorDecides
<1>8. ASSUME NEW ch \in Choices, LlmDecides(r, ch) PROVE FailClosed(r)
  BY <1>8 DEF LlmDecides
<1>9. ReviewFails(r) \/ UserAborted(r) => FailClosed(r)
  BY DEF ReviewFails, UserAborted
<1>10. UserCompletes(r) => FailClosed(r)
  BY DEF UserCompletes
<1> QED BY <1>1, <1>2, <1>3, <1>4, <1>5, <1>6, <1>7, <1>8, <1>9, <1>10 DEF RequestStep

\* An approval is granted to an active request.
LEMMA FreshIsActive ==
    ASSUME PolicyInv, [Next]_vars, NEW r \in Requests, phase[r] \in Waiting,
           result'[r].source \in {"agent", "llm", "user"}
    PROVE  Active(r)
<1>1. NoResult.source = "none" /\ result[r] = NoResult
  BY DEF NoResult, PolicyInv, Unanswered, Waiting
<1>2. Next
  BY <1>1 DEF vars, reqVars
<1>3. RequestStep(r)
  BY <1>1, <1>2, OthersWait
<1> QED BY <1>3, FreshApproval DEF Granted

\* An approval reaches only principals that are registered when it lands.
LEMMA RemovedIsFrozen ==
    ASSUME PolicyInv, [Next]_vars, NEW p \in Agents, p \notin alive, p \notin alive'
    PROVE  pol'[p] = pol[p]
<1> USE DEF PolicyInv
<1>0. p \in Principals
  BY DEF Principals
<1>1. CASE pol' = pol
  BY <1>1
<1>2. ASSUME NEW q \in Agents, NEW b \in Principals, NEW i \in BOOLEAN, Register(q, b, i) PROVE pol'[p] = pol[p]
  BY <1>0, <1>2 DEF Register, TypeOK
<1>3. ASSUME NEW r \in Requests, RequestStep(r) PROVE pol'[p] = pol[p]
  <2>1. ASSUME NEW ch, NEW P, Install(r, ch, P), P \subseteq alive PROVE pol'[p] = pol[p]
    BY <1>0, <2>1 DEF Install, AddPolicy
  <2>2. ASSUME NEW status, NEW source, Answer(r, status, source) PROVE pol' = pol
    BY <2>2 DEF Answer
  <2>3. FailClosed(r) => pol' = pol
    BY <2>2 DEF FailClosed
  <2>4. ASSUME NEW c \in Calls, NEW t \in Targets, Evaluate(r, c, t) PROVE pol' = pol
    BY <2>2, <2>4 DEF Evaluate, Await
  <2>5. ASSUME NEW ch \in Choices, AncestorDecides(r, ch) PROVE pol'[p] = pol[p]
    <3>1. CASE Active(r) /\ Install(r, ch, req[r].path \ {req[r].authority})
      BY <2>1, <3>1 DEF Active
    <3> QED BY <2>2, <2>3, <2>5, <3>1 DEF AncestorDecides
  <2>6. ASSUME NEW ch \in Choices, LlmDecides(r, ch) PROVE pol'[p] = pol[p]
    <3>1. CASE Active(r) /\ Install(r, ch, req[r].path)
      BY <2>1, <3>1 DEF Active
    <3> QED BY <2>2, <2>3, <2>6, <3>1 DEF LlmDecides, LlmGrants
  <2>7. CASE UserCompletes(r)
    <3>1. CASE Active(r) /\ Install(r, choice[r], req[r].path)
      BY <2>1, <3>1 DEF Active
    <3> QED BY <2>2, <2>3, <2>7, <3>1 DEF UserCompletes
  <2>8. CASE PromptOpens(r)
    BY <2>2, <2>8 DEF PromptOpens
  <2>9. Abort(r) \/ ReviewFails(r) \/ UserAborted(r) \/ (\E ch \in Choices : UserChooses(r, ch)) => pol' = pol
    BY <2>3 DEF Abort, ReviewFails, UserAborted, UserChooses
  <2> QED BY <1>3, <2>4, <2>5, <2>6, <2>7, <2>8, <2>9 DEF RequestStep
<1> QED BY <1>1, <1>2, <1>3 DEF Next, Remove, UpdateContext, SetDefault, BeginShutdown, BeginToolCall,
          PromptSkips, vars

\* However late a reply comes, a request that was aborted, expired or overtaken by
\* shutdown is denied and installs nothing, and a removed principal neither gains
\* nor passes on a policy.
THEOREM LateReplyInertTheorem == Spec => LateReplyInert
<1>1. ASSUME PolicyInv, [Next]_vars
      PROVE  /\ \A r \in Requests :
                  (phase[r] \in Waiting /\ phase'[r] = "done" /\ (r \in aborted \/ closing))
                  => /\ result'[r].status = "deny" /\ UNCHANGED <<pol, once, db>>
             /\ \A p \in Agents : (p \notin alive /\ p \notin alive')
                  => /\ pol'[p] = pol[p]
                     /\ \A r \in Requests : (phase[r] \in Waiting /\ p \in req[r].path)
                          => result'[r].source \notin {"agent", "llm", "user"}
  <2>1. ASSUME NEW r \in Requests, phase[r] \in Waiting, phase'[r] = "done", r \in aborted \/ closing
        PROVE  result'[r].status = "deny" /\ UNCHANGED <<pol, once, db>>
    BY <1>1, <2>1, LateStep DEF Inactive
  <2>2. ASSUME NEW p \in Agents, p \notin alive, p \notin alive'
        PROVE  pol'[p] = pol[p]
    BY <1>1, <2>2, RemovedIsFrozen
  <2>3. ASSUME NEW p \in Agents, p \notin alive, NEW r \in Requests, phase[r] \in Waiting, p \in req[r].path
        PROVE  result'[r].source \notin {"agent", "llm", "user"}
    BY <1>1, <2>3, FreshIsActive DEF Active
  <2> QED BY <2>1, <2>2, <2>3
<1>2. PolicyInv /\ [Next]_vars =>
        [/\ \A r \in Requests :
              (phase[r] \in Waiting /\ phase'[r] = "done" /\ (r \in aborted \/ closing))
              => /\ result'[r].status = "deny" /\ UNCHANGED <<pol, once, db>>
         /\ \A p \in Agents : (p \notin alive /\ p \notin alive')
              => /\ pol'[p] = pol[p]
                 /\ \A r \in Requests : (phase[r] \in Waiting /\ p \in req[r].path)
                      => result'[r].source \notin {"agent", "llm", "user"}]_vars
  BY <1>1
<1> QED BY <1>2, PolicyInvariant, PTL DEF Spec, LateReplyInert

\* An ancestor that allows a target by a pattern allows every scope around the
\* target that the pattern covers: Longest finds the same pattern for it.
LEMMA WithinAuthority ==
    ASSUME TypeOK, NEW a \in Principals, NEW t \in Scopes, NEW s \in AllowedScopes(a, t)
    PROVE  Authority(a, s) = Authority(a, t)
<1>1. pol[a] \in Engines
  BY DEF TypeOK
<1>2. s \in Scopes /\ <<s, t>> \in Covers
  BY DEF AllowedScopes, Hierarchy
<1>3. Matches(pol[a], t) = {} \/ <<Longest(Matches(pol[a], t)), s>> \in Covers
  BY <1>1, EvalAnswers DEF AllowedScopes, FromSystem, SourceScope
<1>4. Eval(pol[a], s) = Eval(pol[a], t)
  BY <1>1, <1>2, <1>3, EvalCovered
<1> QED BY <1>4 DEF Authority

\* What an ancestor's approval installs is what that ancestor may do itself.
LEMMA DerivedStep ==
    ASSUME PolicyInv, [Next]_vars, NEW r \in Requests, phase[r] = "ancestor",
           result'[r] = [status |-> "allow", source |-> "agent"]
    PROVE  LET a == req[r].authority IN
           /\ \A p \in Principals, s \in Scopes : pol'[p][s] # pol[p][s]
                => /\ Authority(a, s) = "allow"
                   /\ p \in PathToRoot(req[r].p) /\ a \in anc[p]
           /\ \A s \in Scopes : once'[req[r].call][s] # once[req[r].call][s]
                => Authority(a, s) = "allow"
<1> USE DEF PolicyInv
<1> DEFINE a == req[r].authority
<1>1. NoResult.source = "none" /\ result[r] = NoResult /\ phase[r] \in Waiting /\ CaptureHolds(r)
  BY DEF NoResult, Unanswered, Waiting, Captures
<1>2. Next
  BY <1>1 DEF vars, reqVars
<1>3. RequestStep(r)
  BY <1>1, <1>2, OthersWait
<1>4. PICK ch \in Choices : AncestorDecides(r, ch)
  <2>1. ~Abort(r) /\ ~ReviewFails(r) /\ ~UserAborted(r)
    BY <1>1 DEF Abort, ReviewFails, UserAborted, FailClosed, Answer, Finish, TypeOK
  <2>2. ~PromptOpens(r) /\ ~UserCompletes(r) /\ ~(\E ch \in Choices : UserChooses(r, ch) \/ LlmDecides(r, ch))
    BY DEF PromptOpens, UpNext, UserCompletes, UserChooses, LlmDecides
  <2>3. ~\E c \in Calls, t \in Targets : Evaluate(r, c, t)
    BY DEF Evaluate
  <2> QED BY <1>3, <2>1, <2>2, <2>3 DEF RequestStep
<1>5. ASSUME NEW status, NEW source, Finish(r, status, source)
      PROVE  status = "allow" /\ source = "agent"
  BY <1>5 DEF Finish, TypeOK
<1>6. ASSUME NEW status, NEW source, Answer(r, status, source)
      PROVE  source = "agent"
  BY <1>5, <1>6 DEF Answer
<1>7. /\ AncestorGrants(r, ch) /\ Finish(r, ch.status, "agent") /\ Install(r, ch, req[r].path \ {a})
  BY <1>4, <1>6 DEF AncestorDecides, FailClosed
<1>8. ch.status = "allow" /\ a \in Principals /\ req[r].target \in Scopes /\ req[r].p \in Principals
  BY <1>1, <1>5, <1>7 DEF TypeOK, Captured, CaptureHolds
<1>9. Authority(a, ch.scope) = "allow"
  <2>1. Authority(a, req[r].target) = "allow" /\ ch.scope \in AllowedScopes(a, req[r].target)
    BY <1>7 DEF AncestorGrants, Allowed, ValidAgentChoice
  <2> QED BY <1>8, <2>1, WithinAuthority
<1>10. req[r].path = PathTo(req[r].p, a)
  BY <1>1 DEF CaptureHolds
<1>11. ASSUME NEW p \in Principals, NEW s \in Scopes, pol'[p][s] # pol[p][s]
       PROVE  Authority(a, s) = "allow" /\ p \in PathToRoot(req[r].p) /\ a \in anc[p]
  <2>1. p \in req[r].path \ {a} /\ pol'[p] = [pol[p] EXCEPT ![ch.scope] = ch.status]
    BY <1>7, <1>11 DEF Install, AddPolicy
  <2>2. s = ch.scope
    BY <1>11, <2>1 DEF TypeOK, Engines
  <2> QED BY <1>9, <1>10, <2>1, <2>2 DEF PathTo, PathToRoot
<1>12. ASSUME NEW s \in Scopes, once'[req[r].call][s] # once[req[r].call][s]
       PROVE  Authority(a, s) = "allow"
  <2>1. req[r].call \in Calls
    BY <1>1 DEF CaptureHolds
  <2>2. once'[req[r].call] = [once[req[r].call] EXCEPT ![ch.scope] = ch.status]
    BY <1>7, <1>12, <2>1 DEF Install, TypeOK
  <2>3. s = ch.scope
    BY <1>12, <2>1, <2>2 DEF TypeOK, Engines
  <2> QED BY <1>9, <2>3
<1> QED BY <1>11, <1>12

\* The principals stay a tree that removals never cut, and what an ancestor's
\* approval installs has a scope that ancestor is itself allowed and reaches only
\* principals below it on the way to the requester.
THEOREM AuthorityBoundedTheorem == Spec => AuthorityBounded
<1>1. PolicyInv => WellFormed
  BY DEF PolicyInv, WellFormed
<1>2. PolicyInv /\ [Next]_vars =>
        [\A r \in Requests :
           (phase[r] = "ancestor" /\ result'[r] = [status |-> "allow", source |-> "agent"])
           => LET a == req[r].authority IN
              /\ \A p \in Principals, s \in Scopes : pol'[p][s] # pol[p][s]
                   => /\ Authority(a, s) = "allow"
                      /\ p \in PathToRoot(req[r].p) /\ a \in anc[p]
              /\ \A s \in Scopes : once'[req[r].call][s] # once[req[r].call][s]
                   => Authority(a, s) = "allow"]_vars
  BY DerivedStep
<1> QED BY <1>1, <1>2, PolicyInvariant, PTL DEF Spec, AuthorityBounded, DerivedWithinAuthority
=============================================================================
