-------------------------- MODULE MCNativeCustody --------------------------
(***************************************************************************)
(* Two vaults, one market in two generations, two pools, a grid of two     *)
(* units per lot.                                                          *)
(***************************************************************************)
EXTENDS NativeCustody, TLC

CONSTANTS v1, v2, p1, p2

MCSymmetry == Permutations({v1, v2}) \cup Permutations({p1, p2})
=============================================================================
