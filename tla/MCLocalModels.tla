--------------------------- MODULE MCLocalModels ---------------------------
(***************************************************************************)
(* The two local models: a session with one or two markets, and the        *)
(* receipt of a market.  The files share no state and no property relates  *)
(* them, so each takes its calls while the other has not begun.            *)
(***************************************************************************)
EXTENDS LocalSession, Receipt, TLC

MCInit == LocalInit /\ ReceiptInit
MCNext ==
  \/ ReceiptInit /\ LocalNext /\ UNCHANGED receiptVars
  \/ LocalInit /\ ReceiptNext /\ UNCHANGED localVars
MCSpec == MCInit /\ [][MCNext]_<<localVars, receiptVars>>
MCSymmetry == Permutations(Markets) \cup Permutations(Enrollments) \cup Permutations(Followers)
=============================================================================
