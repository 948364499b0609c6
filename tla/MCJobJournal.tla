---------------------------- MODULE MCJobJournal ----------------------------
(***************************************************************************)
(* Two workers, two intents, leases of one and two seconds.                *)
(***************************************************************************)
EXTENDS JobJournal, TLC

MCSymmetry == Permutations(WorkerIds) \cup Permutations(Intents)
=============================================================================
