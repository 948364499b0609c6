-------------------------- MODULE MCFollowerVault --------------------------
(***************************************************************************)
(* A small vault: two markets, prices of two thirds and one, budgets that  *)
(* two orders can exhaust.                                                 *)
(***************************************************************************)
EXTENDS FollowerVault, TLC

MCScale == 3
MCPrices == {2, 3}
MCQuantities == {1, 2}
MCAmounts == {1, 3}

MCPolicy(sides, yes, no, order, budget, until) ==
  [allowedSides |-> sides, maxPrice |-> <<yes, no>>, maxOrderCost |-> order,
   totalRiskBudget |-> budget, validUntil |-> until]

\* Both sides with a budget of two orders, one side only with an order limit above
\* the budget, and a policy the vault has to refuse.
MCPolicies ==
  {MCPolicy({1, 2}, 3, 3, 2, 3, 1), MCPolicy({2}, 3, 2, 3, 2, 1), MCPolicy({1, 2}, 3, 0, 2, 3, 1)}

MCSymmetry == Permutations(Markets) \cup Permutations(Venues)
=============================================================================
