------------------------------ MODULE MCRelayer ------------------------------
(***************************************************************************)
(* Two workers that share a signer and are configured with different run   *)
(* budgets and different limits of gas and fee, and two jobs.              *)
(***************************************************************************)
EXTENDS Relayer

CONSTANTS w1, w2

\* The first worker may sign both jobs in this run, the second only one; and the second
\* neither signs nor sends the dearer transaction.
MCLimit == [w \in Workers |-> IF w = w1 THEN 3 ELSE 1]
MCCosts == {1, 2}
MCWithinCaps == [w \in Workers |-> IF w = w1 THEN {1, 2} ELSE {1}]
=============================================================================
