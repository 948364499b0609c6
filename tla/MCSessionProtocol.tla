------------------------- MODULE MCSessionProtocol -------------------------
(***************************************************************************)
(* Small instances of SessionProtocol.  Time 0..4: market m1 trades in     *)
(* [0, 3) in collateral k1, m2 in [1, 4) in k2; the good manifest closes   *)
(* enrollment at 1 and sets the cutoffs to 2 and 3.                        *)
(***************************************************************************)
EXTENDS SessionProtocol

CONSTANTS m1, m2, k1, k2, t1, t2

MCStart == [m \in Markets |-> IF m = m1 THEN 0 ELSE 1]
MCExpiry == [m \in Markets |-> IF m = m1 THEN 3 ELSE 4]
MCMixedCollateral == [m \in Markets |-> IF m = m1 THEN k1 ELSE k2]

MCManifest(refs, until, sessionUntil) ==
  [refs |-> refs, terms |-> t1, enrollUntil |-> until, sessionUntil |-> sessionUntil]
MCRef(m, cutoff) == [id |-> m, cutoff |-> cutoff]

MCGood == MCManifest(<<MCRef(m1, 2), MCRef(m2, 3)>>, 1, 4)

\* The good manifest and one that names a market twice.
MCManifests == {MCGood, MCManifest(<<MCRef(m1, 2), MCRef(m1, 2)>>, 1, 4)}

\* Both sides until the session ends, one side until time 2.
MCPolicies ==
  {[sides |-> {"YES", "NO"}, validUntil |-> 4, terms |-> t1],
   [sides |-> {"YES"}, validUntil |-> 2, terms |-> t1]}
=============================================================================
