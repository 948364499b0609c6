--------------------------- MODULE MCOwnerConsole ---------------------------
(***************************************************************************)
(* Two tabs, which may be open one after the other or at once, and three   *)
(* transactions: one whose outcome is open, a second one that must not     *)
(* come, and one that has been settled before.                             *)
(***************************************************************************)
EXTENDS OwnerConsole, TLC

MCSymmetry == Permutations(Tabs) \cup Permutations(Txs)
=============================================================================
