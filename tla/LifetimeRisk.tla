---------------------------- MODULE LifetimeRisk ----------------------------
(***************************************************************************)
(* What a follower's vault promises about money, with the markets, the     *)
(* orders and the cash left out: a budget is granted once, capital is put  *)
(* at risk only while the grant is open and only inside the budget, and a  *)
(* settled loss is charged against the budget for ever.  FollowerVault     *)
(* implements this specification.                                          *)
(***************************************************************************)
EXTENDS Integers

VARIABLES
  budget,   \* the granted lifetime budget, 0 before the grant
  atRisk,   \* cost of the positions that are still open
  lost,     \* settled losses; profits never reduce it
  closed    \* the follower has revoked the grant

vars == <<budget, atRisk, lost, closed>>

Init == budget = 0 /\ atRisk = 0 /\ lost = 0 /\ closed = FALSE

\* The single grant.
Grant ==
  /\ budget = 0
  /\ budget' > 0
  /\ UNCHANGED <<atRisk, lost, closed>>

\* An order or a settlement may be interrupted by the revocation.
StaysOrCloses == closed' \in {closed, TRUE}

\* Capital is put at risk: never beyond the budget, never after the revocation.
Spend ==
  /\ ~closed
  /\ budget > 0
  /\ atRisk' >= atRisk
  /\ atRisk' + lost <= budget
  /\ StaysOrCloses
  /\ UNCHANGED <<budget, lost>>

\* A position is settled: its cost leaves atRisk, and at most that cost is lost.
Settle ==
  /\ 0 <= atRisk' /\ atRisk' <= atRisk
  /\ lost <= lost' /\ lost' - lost <= atRisk - atRisk'
  /\ StaysOrCloses
  /\ UNCHANGED budget

Close ==
  /\ budget > 0
  /\ closed' = TRUE
  /\ UNCHANGED <<budget, atRisk, lost>>

Next == Grant \/ Spend \/ Settle \/ Close

Spec == Init /\ [][Next]_vars
=============================================================================
