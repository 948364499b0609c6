---------------------------- MODULE OrderResults ----------------------------
(***************************************************************************)
(* What the vault and the native adapter say to each other about one order *)
(* (contracts/src/ProofCastInterfaces.sol): the sides, the statuses, the   *)
(* worst cost of an order and the answers the vault accepts.               *)
(***************************************************************************)
EXTENDS Integers

CONSTANT PriceScale   \* PRICE_SCALE, 10^6 in the contracts

ASSUME ScaleAssumption == PriceScale \in Nat \ {0}

Sides == {1, 2}   \* 1 buys YES, 2 buys NO

OutcomeIndex(side) == side - 1

Statuses == {"ZERO_FILL", "PARTIAL_FILL", "FILLED", "SUBMITTED",
             "PAYOUT_PENDING", "RECOVERED"}

\* The cost an order may reach: rounded up.
ExpectedCost(price, quantity) == (price * quantity + PriceScale - 1) \div PriceScale

\* The consistency the vault demands of the adapter's answer, given what the
\* balance really lost.
ResultAccepted(status, spent, filled, price, quantity) ==
  /\ spent <= ExpectedCost(price, quantity)
  /\ filled <= quantity
  /\ status \in {"ZERO_FILL", "SUBMITTED"} => spent = 0 /\ filled = 0
  /\ status = "PARTIAL_FILL" => spent # 0 /\ filled # 0 /\ filled < quantity
  /\ status = "FILLED" => spent # 0 /\ filled = quantity
  /\ status \notin {"PAYOUT_PENDING", "RECOVERED"}
  /\ spent > 0 => status \in {"FILLED", "PARTIAL_FILL"}
=============================================================================
