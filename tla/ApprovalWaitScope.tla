------------------------- MODULE ApprovalWaitScope -------------------------
(***************************************************************************)
(* Execution budgets that stand still while an approval is pending:        *)
(* src/src/runtime/ApprovalWaitScope.ts and PausableTimeout.ts.            *)
(*                                                                         *)
(* Scopes form a forest.  A wait begun on a scope takes a token there and  *)
(* on every ancestor up to the first closed one; a scope's timer is paused *)
(* while the scope holds a token.  All of it is synchronous, so an action  *)
(* is a whole call, the expiry and the close() it may trigger included.    *)
(* Time is a counter; a timer callback may run later than it is due.       *)
(*                                                                         *)
(* Every scope has one timer, whose callback closes the scope: that is how *)
(* the turn timeout and the status wait use it.  Listeners are left out.   *)
(***************************************************************************)
EXTENDS Integers, FiniteSets

CONSTANTS
    WaitScopes,\* approval wait scopes
    Above,     \* the ancestors of each scope
    Waits,     \* calls of beginWait()
    Budget,    \* milliseconds of each scope's timer, in ticks
    Chunk,     \* the longest delay one host timer can be armed for
    MaxTime    \* bound on the clock

ASSUME ForestAssumption ==
    /\ Above \in [WaitScopes -> SUBSET WaitScopes]
    /\ \A x \in WaitScopes : x \notin Above[x] /\ \A y \in Above[x] : Above[y] \subseteq Above[x]
ASSUME BudgetAssumption ==
    /\ Budget \in [WaitScopes -> Nat \ {0}] /\ Chunk \in Nat \ {0} /\ MaxTime \in Nat

VARIABLES
    now,        \* performance.now()
    closed,     \* scopes with this.closed
    wait,       \* "none", "held" or "released", for each beginWait() call
    base,       \* the scope a wait was begun on
    held,       \* the scopes where a wait still has its token in this.waits
    timer,      \* state of each scope's PausableTimeout
    remaining,  \* its remaining budget when it was last armed or paused
    startedAt,  \* when it was last armed; 0 while it is not armed and nothing reads it
    ran         \* history: ticks that passed while it was armed

waitVars == <<now, closed, wait, base, held, timer, remaining, startedAt, ran>>

Live == {"armed", "paused"}

-----------------------------------------------------------------------------
\* A scope x of a wait's chain lies at or above y.
AtOrAbove(x, y) == x = y \/ x \in Above[y]

\* The scopes beginWait() on b reaches: its ancestors below the first closed one.
Reach(b, cl) == {x \in Above[b] \cup {b} :
                   \A y \in cl : ~(AtOrAbove(y, b) /\ AtOrAbove(x, y))}

\* close() of the scopes C releases their tokens and, through releaseParent,
\* those of the scopes above.
CutOnlyHere(H, C) == [w \in Waits |-> H[w] \ C]                        \* mutant
Cut(H, C) == [w \in Waits |-> {x \in H[w] : \A c \in C \cap H[w] : ~AtOrAbove(x, c)}]

HasToken(H, x) == \E w \in Waits : x \in H[w]

\* consumeElapsed().
Consumed(x) == IF remaining[x] >= now - startedAt[x]
               THEN remaining[x] - (now - startedAt[x]) ELSE 0

\* pause() of an armed timer finds its budget used up and expires at once.
Exhausted(x) == timer[x] = "armed" /\ Consumed(x) <= 0

\* updateWaiting() on every scope, once the tokens are H and C are closed by
\* the expiry of their own timers (`expired') or by close().
IsPaused(H, x) == HasToken(H, x)
Retime(H, C, expired) ==
    /\ held' = H
    /\ closed' = closed \cup C
    /\ timer' = [x \in WaitScopes |->
                   IF timer[x] \notin Live THEN timer[x]
                   ELSE IF x \in expired THEN "expired"
                   ELSE IF x \in C THEN "disposed"
                   ELSE IF IsPaused(H, x) THEN "paused" ELSE "armed"]
    /\ remaining' = [x \in WaitScopes |->
                       IF timer[x] = "armed" /\ (IsPaused(H, x) \/ x \in expired)
                       THEN Consumed(x) ELSE remaining[x]]
    /\ startedAt' = [x \in WaitScopes |->
                       IF timer'[x] # "armed" THEN 0
                       ELSE IF timer[x] = "paused" THEN now ELSE startedAt[x]]

-----------------------------------------------------------------------------
\* setTimeout(): refused on a closed scope, paused at once on a waiting one.
SetTimeout(x) ==
    /\ x \notin closed /\ timer[x] = "none"
    /\ timer' = [timer EXCEPT ![x] = IF HasToken(held, x) THEN "paused" ELSE "armed"]
    /\ remaining' = [remaining EXCEPT ![x] = Budget[x]]
    /\ startedAt' = [startedAt EXCEPT ![x] = IF HasToken(held, x) THEN 0 ELSE now]
    /\ UNCHANGED <<now, closed, wait, base, held, ran>>

\* dispose() of the handle setTimeout() returned.
DisposeTimeout(x) ==
    /\ timer[x] \in Live
    /\ timer' = [timer EXCEPT ![x] = "disposed"]
    /\ startedAt' = [startedAt EXCEPT ![x] = 0]
    /\ UNCHANGED <<now, closed, wait, base, held, remaining, ran>>

\* beginWait(): the scopes that start waiting pause their timers; one whose
\* budget is used up expires instead and closes its scope on the spot.
BeginWait(w, b) ==
    LET H       == [held EXCEPT ![w] = Reach(b, closed)]
        expired == {x \in Reach(b, closed) : ~HasToken(held, x) /\ Exhausted(x)}
    IN  /\ wait[w] = "none"
        /\ wait' = [wait EXCEPT ![w] = "held"]
        /\ base' = [base EXCEPT ![w] = b]
        /\ Retime(Cut(H, expired), expired, expired)
        /\ UNCHANGED <<now, ran>>

\* The release function beginWait() returned; calling it again does nothing.
Release(w) ==
    /\ wait[w] = "held"
    /\ wait' = [wait EXCEPT ![w] = "released"]
    /\ Retime([held EXCEPT ![w] = {}], {}, {})
    /\ UNCHANGED <<now, base, ran>>

CloseScope(x) ==
    /\ x \notin closed
    /\ Retime(Cut(held, {x}), {x}, {})
    /\ UNCHANGED <<now, wait, base, ran>>

\* The host timer of an armed timeout fires: the budget is used up, or a chunk
\* of it is and the timeout is armed again.
Fire(x) ==
    /\ timer[x] = "armed"
    /\ now - startedAt[x] >= (IF remaining[x] <= Chunk THEN remaining[x] ELSE Chunk)
    /\ \/ /\ Consumed(x) <= 0
          /\ Retime(Cut(held, {x}), {x}, {x})
       \/ /\ Consumed(x) > 0
          /\ remaining' = [remaining EXCEPT ![x] = Consumed(x)]
          /\ startedAt' = [startedAt EXCEPT ![x] = now]
          /\ UNCHANGED <<closed, held, timer>>
    /\ UNCHANGED <<now, wait, base, ran>>

Tick ==
    /\ now < MaxTime
    /\ now' = now + 1
    /\ ran' = [x \in WaitScopes |-> IF timer[x] = "armed" THEN ran[x] + 1 ELSE ran[x]]
    /\ UNCHANGED <<closed, wait, base, held, timer, remaining, startedAt>>

WaitInit ==
    /\ now = 0 /\ closed = {}
    /\ wait = [w \in Waits |-> "none"]
    /\ base \in [Waits -> WaitScopes]
    /\ held = [w \in Waits |-> {}]
    /\ timer = [x \in WaitScopes |-> "none"]
    /\ remaining = [x \in WaitScopes |-> 0]
    /\ startedAt = [x \in WaitScopes |-> 0]
    /\ ran = [x \in WaitScopes |-> 0]

WaitNext ==
    \/ \E x \in WaitScopes : SetTimeout(x)
    \/ \E x \in WaitScopes : DisposeTimeout(x)
    \/ \E w \in Waits : BeginWait(w, base[w])
    \/ \E w \in Waits : Release(w)
    \/ \E x \in WaitScopes : CloseScope(x)
    \/ \E x \in WaitScopes : Fire(x)
    \/ Tick


-----------------------------------------------------------------------------
(* Properties                                                              *)

\* Every variable has its type; no budget is overdrawn below zero.
WaitTypeOK ==
    /\ now \in Nat
    /\ closed \subseteq WaitScopes
    /\ wait \in [Waits -> {"none", "held", "released"}]
    /\ base \in [Waits -> WaitScopes]
    /\ held \in [Waits -> SUBSET WaitScopes]
    /\ timer \in [WaitScopes -> Live \cup {"none", "expired", "disposed"}]
    /\ remaining \in [WaitScopes -> Nat]
    /\ startedAt \in [WaitScopes -> Nat]
    /\ ran \in [WaitScopes -> Nat]

\* A pending wait holds tokens on exactly the scopes from where it began up to
\* the first closed one, whatever closed or was released in between: closing a
\* scope neither leaves an ancestor paused for good nor frees one that another
\* wait still holds.
HeldExact ==
    \A w \in Waits : held[w] = IF wait[w] = "held" THEN Reach(base[w], closed) ELSE {}

\* A timer that still runs belongs to an open scope, and it stands still iff
\* the scope holds a token.
PauseExact ==
    \A x \in WaitScopes : timer[x] \in Live =>
        /\ x \notin closed
        /\ timer[x] = "paused" <=> HasToken(held, x)

\* Tokens and timers are exactly where the pending waits put them.
WaitsExact == HeldExact /\ PauseExact

\* The budget a timer has left is its initial budget less the time it was
\* armed: pausing, resuming and re-arming in chunks neither lose, refund nor
\* overdraw time; a timer expires only when its budget is used up, and a wait that
\* begins after that does not rescue it.
BudgetExact ==
    /\ WaitTypeOK
    /\ \A x \in WaitScopes :
        /\ timer[x] = "armed"
             => /\ startedAt[x] <= now
                /\ ran[x] = Budget[x] - remaining[x] + (now - startedAt[x])
        /\ timer[x] = "paused" => ran[x] = Budget[x] - remaining[x] /\ ran[x] < Budget[x]
        /\ timer[x] = "expired" => ran[x] >= Budget[x]

\* Waits and budgets are accounted for exactly.
WaitsAccounted == BudgetExact /\ WaitsExact
=============================================================================
