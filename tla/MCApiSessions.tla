--------------------------- MODULE MCApiSessions ---------------------------
(***************************************************************************)
(* Two accounts, one session id that both may claim, two requests at once. *)
(***************************************************************************)
EXTENDS ApiSessions, TLC

MCSymmetry == Permutations(Accounts) \cup Permutations(Challenges) \cup Permutations(Tokens)
                \cup Permutations(EnrollmentIds)
MCSlotSymmetry == MCSymmetry \cup Permutations(Requests)
=============================================================================
