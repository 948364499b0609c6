------------------------- MODULE MCLifecycleScript -------------------------
(***************************************************************************)
(* The nine steps of the three commands, or fewer of them and some sent    *)
(* twice, at most two of them waiting to be mined; and one block that is   *)
(* replaced, or one transfer to the vault once the enrollment is revoked.  *)
(***************************************************************************)
EXTENDS LifecycleScript
=============================================================================
