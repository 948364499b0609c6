------------------------ MODULE FollowerVaultProofs ------------------------
(***************************************************************************)
(* Proofs about FollowerVault for every set of markets, venues, inputs and *)
(* policies and every bound, and for every adapter that is not entered     *)
(* while it is being called.  The inductive invariant adds to the types    *)
(* and to the budget the facts the budget rests on: before the policy is   *)
(* installed no money has moved through the books; the follower's deposits *)
(* are explained by the cash, the open risk and the loss; and what a call  *)
(* checked before it entered the adapter still holds when it returns,      *)
(* whatever was done in between.  On top of it: the total, the counters    *)
(* and the recovery records agree, so that no held position is refused,    *)
(* and the execution log explains them all.                                *)
(***************************************************************************)
EXTENDS FollowerVault, SumTheorems, SequenceTheorems

\* Until the executor installs a policy the books are empty; once it has, the
\* budget is positive (initializePolicy's two guards).
PolicyOnce ==
  /\ ~active => policy = NoPolicy /\ openRisk = 0 /\ realizedLoss = 0 /\ ~revoked
  /\ active => policy.totalRiskBudget > 0

\* Every unit deposited is still there, at risk, or booked as lost.
DepositsExplained == netDeposited <= cash + openRisk + realizedLoss

\* What the vault checked before an order was sent to the adapter still holds.
StillAdmitted(call) ==
  /\ active /\ ~call.revoked
  /\ call.quantity # 0
  /\ ExpectedCost(call.price, call.quantity) <= policy.totalRiskBudget - realizedLoss - openRisk
  /\ PositionCompatible(call.market, call.venue, call.side)

\* The call that waits for the adapter: there is one at most, the deposits are
\* explained by the balance it started from, and its checks still hold.
CallHolds ==
  /\ Len(calls) <= 1
  /\ calls # <<>> =>
       /\ netDeposited <= calls[1].before + openRisk + realizedLoss
       /\ calls[1].revoked => revoked
       /\ calls[1].kind = "trade" => StillAdmitted(calls[1])

IInv == TypeOK /\ PolicyOnce /\ LifetimeBudget /\ DepositsExplained /\ CallHolds

-----------------------------------------------------------------------------
\* What _remainingRisk returns under the budget: exactly the unused part.
LEMMA RemainingRiskValue ==
  ASSUME TypeOK, LifetimeBudget
  PROVE  RemainingRisk = policy.totalRiskBudget - realizedLoss - openRisk
BY DEF TypeOK, PolicyType, LifetimeBudget, RemainingRisk

\* The initial state satisfies the inductive invariant.
LEMMA InitIInv == Init => IInv
<1> SUFFICES ASSUME Init PROVE IInv
  OBVIOUS
<1>1. NoPolicy \in PolicyType
  BY DEF NoPolicy, PolicyType
<1>2. NoPosition \in PositionType
  BY DEF NoPosition, PositionType
<1>3. <<>> \in Seq(ExecutionType) /\ <<>> \in Seq(CallType)
  OBVIOUS
<1>4. TypeOK
  <2>1. marketOpenRisk \in [Markets -> Nat] /\ recoveryConfigs \in [Markets -> PositionType]
    BY <1>2 DEF Init
  <2>2. /\ active \in BOOLEAN /\ revoked \in BOOLEAN
        /\ executions \in Seq(ExecutionType) /\ calls \in Seq(CallType)
    BY <1>3 DEF Init
  <2> QED
    BY <1>1, <2>1, <2>2 DEF Init, TypeOK
<1>5. PolicyOnce /\ LifetimeBudget /\ DepositsExplained
  BY DEF Init, PolicyOnce, LifetimeBudget, DepositsExplained, NoPolicy
<1>6. CallHolds
  BY DEF Init, CallHolds
<1> QED
  BY <1>4, <1>5, <1>6 DEF IInv

-----------------------------------------------------------------------------
(* The calls of the adapter.                                               *)

\* At most one call waits, and when it returns none is left.
LEMMA TopCall ==
  ASSUME IInv, calls # <<>>
  PROVE  /\ Top = calls[1] /\ Top \in CallType /\ DOMAIN calls = {1}
         /\ SubSeq(calls, 1, Len(calls) - 1) = <<>>
<1>1. calls \in Seq(CallType) /\ Len(calls) = 1
  <2>1. calls \in Seq(CallType) /\ Len(calls) \in Nat /\ Len(calls) # 0 /\ Len(calls) <= 1
    BY DEF IInv, TypeOK, CallHolds
  <2>2. \A k \in Nat : k # 0 /\ k <= 1 => k = 1
    OBVIOUS
  <2> QED
    BY <2>1, <2>2, Zenon
<1>2. DOMAIN calls = {1} /\ calls[1] \in CallType
  BY <1>1
<1> QED
  BY <1>1, <1>2 DEF Top

\* An answer the vault accepts moves money exactly when it moves shares: without this an
\* order could leave a position without a basis, or a basis without a position.
LEMMA SpentIffFilled ==
  ASSUME NEW status \in Statuses, NEW spent \in Nat, NEW filled \in Nat, NEW price, NEW quantity \in Nat,
         quantity # 0, ResultAccepted(status, spent, filled, price, quantity)
  PROVE  spent = 0 <=> filled = 0
BY DEF Statuses, ResultAccepted

\* What an order leaves behind when the adapter has answered: the cost is the balance's
\* loss, and it is within what the budget still has now.
Booked(m, v, s, spent, filled) ==
  /\ active /\ ~calls[1].revoked /\ calls[1].before = cash' + spent /\ cash' \in Nat
  /\ PositionCompatible(m, v, s)
  /\ spent <= policy.totalRiskBudget - realizedLoss - openRisk
  /\ spent = 0 <=> filled = 0
  /\ openRisk' = openRisk + spent
  /\ totalSpent' = totalSpent + spent
  /\ marketOpenRisk' = [marketOpenRisk EXCEPT ![m] = @ + spent]
  /\ executions' = Append(executions,
       [marketId |-> m, side |-> s, actualCost |-> spent, filledAmount |-> filled])
  /\ recoveryConfigs' =
       IF filled > 0
       THEN [recoveryConfigs EXCEPT ![m] = AddPosition(@, v, s, spent, filled)]
       ELSE recoveryConfigs

\* What a recovery leaves behind when the adapter has paid: the basis leaves the books
\* and the balance's gain decides the loss.
Closed(m, basis, delta) ==
  /\ basis = recoveryConfigs[m].costBasis
  /\ basis <= openRisk /\ basis <= marketOpenRisk[m]
  /\ cash' \in Nat /\ cash' = calls[1].before + delta
  /\ openRisk' = openRisk - basis
  /\ marketOpenRisk' = [marketOpenRisk EXCEPT ![m] = @ - basis]
  /\ realizedLoss' = IF delta < basis THEN realizedLoss + (basis - delta) ELSE realizedLoss
  /\ recoveryConfigs' = [recoveryConfigs EXCEPT ![m].positionAmount = 0,
                                                ![m].costBasis = 0,
                                                ![m].resolved = TRUE]

\* Whatever the adapter answers and whatever was done in the meantime, an order is booked.
LEMMA TradeEffect ==
  ASSUME IInv, EndTrade
  PROVE  \E m \in Markets, v \in Venues, s \in Sides, spent \in Nat, filled \in Nat :
           Booked(m, v, s, spent, filled)
<1> DEFINE call == calls[1]
<1>1. calls # <<>> /\ Top = call /\ call.kind = "trade" /\ call \in CallType
  BY TopCall DEF EndTrade, Return
<1>2. /\ call.market \in Markets /\ call.venue \in Venues /\ call.side \in Sides
      /\ call.price \in Nat /\ call.quantity \in Nat /\ call.before \in Nat
  BY <1>1, InputsAssumption DEF CallType
<1>3. StillAdmitted(call)
  BY <1>1 DEF IInv, CallHolds
<1> HIDE DEF call
<1>4. PICK status \in Statuses, filled \in 0..Top.quantity, after \in 0..cash :
        LET market == Top.market
            spent == Top.before - after
        IN  /\ cash - after <= ExpectedCost(Top.price, Top.quantity)
            /\ spent >= 0
            /\ ResultAccepted(status, spent, filled, Top.price, Top.quantity)
            /\ cash' = after
            /\ openRisk' = openRisk + spent
            /\ totalSpent' = totalSpent + spent
            /\ marketOpenRisk' = [marketOpenRisk EXCEPT ![market] = @ + spent]
            /\ executions' = Append(executions,
                 [marketId |-> market, side |-> Top.side, actualCost |-> spent, filledAmount |-> filled])
            /\ recoveryConfigs' =
                 IF filled > 0
                 THEN [recoveryConfigs EXCEPT ![market] = AddPosition(@, Top.venue, Top.side, spent, filled)]
                 ELSE recoveryConfigs
  BY DEF EndTrade
<1> DEFINE spent == call.before - after
<1>5. after \in Nat /\ filled \in Nat
  BY <1>1, <1>2 DEF IInv, TypeOK
<1>6. spent \in Nat /\ call.before = after + spent
  BY <1>1, <1>2, <1>4, <1>5
<1>7. /\ ResultAccepted(status, spent, filled, call.price, call.quantity)
      /\ cash' = after
      /\ openRisk' = openRisk + spent
      /\ totalSpent' = totalSpent + spent
      /\ marketOpenRisk' = [marketOpenRisk EXCEPT ![call.market] = @ + spent]
      /\ executions' = Append(executions,
           [marketId |-> call.market, side |-> call.side, actualCost |-> spent, filledAmount |-> filled])
      /\ recoveryConfigs' =
           IF filled > 0
           THEN [recoveryConfigs EXCEPT ![call.market] = AddPosition(@, call.venue, call.side, spent, filled)]
           ELSE recoveryConfigs
  BY <1>1, <1>4
<1> HIDE DEF spent
<1>8. spent = 0 <=> filled = 0
  BY <1>2, <1>3, <1>5, <1>6, <1>7, SpentIffFilled DEF StillAdmitted
<1>9. spent <= policy.totalRiskBudget - realizedLoss - openRisk
  <2>1. ExpectedCost(call.price, call.quantity) \in Int
    BY <1>2, ScaleAssumption DEF ExpectedCost
  <2>2. spent <= ExpectedCost(call.price, call.quantity)
    BY <1>7 DEF ResultAccepted
  <2>3. /\ ExpectedCost(call.price, call.quantity) <= policy.totalRiskBudget - realizedLoss - openRisk
        /\ policy.totalRiskBudget - realizedLoss - openRisk \in Int
    BY <1>3 DEF StillAdmitted, IInv, TypeOK, PolicyType
  <2> HIDE DEF StillAdmitted
  <2> QED
    BY <1>6, <2>1, <2>2, <2>3
<1>10. active /\ ~call.revoked /\ PositionCompatible(call.market, call.venue, call.side)
  BY <1>3 DEF StillAdmitted
<1>11. Booked(call.market, call.venue, call.side, spent, filled)
  BY <1>5, <1>6, <1>7, <1>8, <1>9, <1>10 DEF Booked, call
<1> QED
  BY <1>2, <1>5, <1>6, <1>11

\* Whatever the adapter pays, a recovery closes a position.
LEMMA RecoverEffect ==
  ASSUME IInv, NEW payout \in 0..MaxCash, EndRecover(payout)
  PROVE  \E m \in Markets, basis \in Nat, delta \in Nat : Closed(m, basis, delta)
<1> DEFINE call == calls[1]
           delta == cash + payout - call.before
<1>1. calls # <<>> /\ Top = call /\ call \in CallType
  BY TopCall DEF EndRecover, Return
<1>2. call.market \in Markets /\ call.before \in Nat
  BY <1>1 DEF CallType
<1> HIDE DEF call
<1>3. cash \in Nat /\ payout \in Nat /\ cash + payout >= call.before
  BY <1>1, <1>2, BoundsAssumption DEF EndRecover, IInv, TypeOK
<1>4. delta \in Nat /\ cash + payout \in Nat /\ cash + payout = call.before + delta
  BY <1>2, <1>3
<1>5. recoveryConfigs[call.market].costBasis \in Nat
  BY <1>2 DEF IInv, TypeOK, PositionType
<1>6. LET basis == recoveryConfigs[call.market].costBasis
      IN  /\ basis <= openRisk /\ basis <= marketOpenRisk[call.market]
          /\ cash' = cash + payout
          /\ openRisk' = openRisk - basis
          /\ marketOpenRisk' = [marketOpenRisk EXCEPT ![call.market] = @ - basis]
          /\ realizedLoss' = IF delta < basis THEN realizedLoss + (basis - delta) ELSE realizedLoss
          /\ recoveryConfigs' = [recoveryConfigs EXCEPT ![call.market].positionAmount = 0,
                                                        ![call.market].costBasis = 0,
                                                        ![call.market].resolved = TRUE]
  BY <1>1 DEF EndRecover, BooksCover
<1> HIDE DEF delta
<1>7. Closed(call.market, recoveryConfigs[call.market].costBasis, delta)
  BY <1>4, <1>6 DEF Closed, call
<1> QED
  BY <1>2, <1>4, <1>5, <1>7

-----------------------------------------------------------------------------
(* The actions that keep the invariant, one lemma each.                    *)

\* Entering the adapter changes nothing but the stack: the call holds what it checked.
LEMMA BeginIInv ==
  ASSUME IInv, NEW call \in CallType, Enter(call), call.before = cash,
         call.revoked => revoked, call.kind = "trade" => StillAdmitted(call)
  PROVE  IInv'
<1>1. /\ calls = <<>> /\ calls' = <<call>>
      /\ UNCHANGED <<now, policy, active, revoked, risk, cash, netDeposited>>
  BY DEF Enter, AdapterFree
<1>2. TypeOK'
  BY <1>1 DEF IInv, TypeOK, risk
<1>3. PolicyOnce' /\ LifetimeBudget' /\ DepositsExplained'
  BY <1>1 DEF IInv, PolicyOnce, LifetimeBudget, DepositsExplained, risk
<1>4. Len(calls') <= 1 /\ calls'[1] = call
  BY <1>1
<1>5. StillAdmitted(call) => StillAdmitted(call)'
  BY <1>1 DEF StillAdmitted, PositionCompatible, risk
<1>6. netDeposited' <= call.before + openRisk' + realizedLoss'
  BY <1>1 DEF IInv, DepositsExplained, risk
<1>7. CallHolds'
  BY <1>1, <1>4, <1>5, <1>6 DEF CallHolds, StillAdmitted, PositionCompatible, risk
<1> QED
  BY <1>2, <1>3, <1>7 DEF IInv

\* An order that is sent to the adapter keeps the inductive invariant.
LEMMA BeginTradeIInv ==
  ASSUME IInv, NEW m \in Markets, NEW v \in Venues, NEW s \in Sides, NEW p \in Prices,
         NEW q \in Quantities, BeginTrade(m, v, s, p, q)
  PROVE  IInv'
<1> DEFINE call == [kind |-> "trade", market |-> m, venue |-> v, side |-> s, price |-> p,
                    quantity |-> q, before |-> cash, revoked |-> revoked]
<1>1. call \in CallType /\ Enter(call)
  BY DEF BeginTrade, CallType, IInv, TypeOK
<1>2. call.before = cash /\ (call.revoked => revoked)
  OBVIOUS
<1>3. StillAdmitted(call)
  <2>1. RemainingRisk = policy.totalRiskBudget - realizedLoss - openRisk
    BY RemainingRiskValue DEF IInv
  <2>2. active /\ ~revoked /\ q # 0 /\ ExpectedCost(p, q) <= RemainingRisk /\ PositionCompatible(m, v, s)
    BY DEF BeginTrade, PolicyLive, CostAdmitted
  <2> QED
    BY <2>1, <2>2 DEF StillAdmitted
<1> HIDE DEF call
<1> QED
  BY <1>1, <1>2, <1>3, BeginIInv

\* A recovery that is sent to the adapter keeps the inductive invariant.
LEMMA BeginRecoverIInv ==
  ASSUME IInv, NEW m \in Markets, BeginRecover(m)
  PROVE  IInv'
<1> DEFINE call == [kind |-> "recovery", market |-> m, before |-> cash, revoked |-> revoked]
<1>1. call \in CallType /\ Enter(call)
  BY DEF BeginRecover, CallType, IInv, TypeOK
<1>2. call.before = cash /\ (call.revoked => revoked) /\ call.kind # "trade"
  OBVIOUS
<1> HIDE DEF call
<1> QED
  BY <1>1, <1>2, BeginIInv

\* An order keeps the inductive invariant, whatever the adapter answers.
LEMMA EndTradeIInv == ASSUME IInv, EndTrade PROVE IInv'
<1>0. PICK m \in Markets, v \in Venues, s \in Sides, spent \in Nat, filled \in Nat :
        Booked(m, v, s, spent, filled)
  BY TradeEffect
<1>1. /\ active /\ cash' \in Nat
      /\ totalSpent' = totalSpent + spent
      /\ marketOpenRisk' = [marketOpenRisk EXCEPT ![m] = @ + spent]
      /\ executions' = Append(executions,
           [marketId |-> m, side |-> s, actualCost |-> spent, filledAmount |-> filled])
      /\ recoveryConfigs' =
           IF filled > 0
           THEN [recoveryConfigs EXCEPT ![m] = AddPosition(@, v, s, spent, filled)]
           ELSE recoveryConfigs
  BY <1>0 DEF Booked
<1>11. /\ calls[1].before = cash' + spent
       /\ spent <= policy.totalRiskBudget - realizedLoss - openRisk
       /\ openRisk' = openRisk + spent
  BY <1>0 DEF Booked
<1>2. /\ calls # <<>> /\ calls' = <<>>
      /\ UNCHANGED <<now, policy, active, revoked, realizedLoss, recoveryCount, netDeposited>>
  BY TopCall DEF EndTrade, Return
<1>3. [marketId |-> m, side |-> s, actualCost |-> spent, filledAmount |-> filled] \in ExecutionType
  BY DEF ExecutionType
<1>4. executions' \in Seq(ExecutionType)
  BY <1>1, <1>3 DEF IInv, TypeOK
<1>5. recoveryConfigs' \in [Markets -> PositionType]
  <2>1. AddPosition(recoveryConfigs[m], v, s, spent, filled) \in PositionType
    BY DEF IInv, TypeOK, PositionType, AddPosition, OutcomeIndex, Sides
  <2> QED
    BY <1>1, <2>1 DEF IInv, TypeOK
<1>6. marketOpenRisk' \in [Markets -> Nat]
  BY <1>1 DEF IInv, TypeOK
<1>7. openRisk' \in Nat /\ totalSpent' \in Nat /\ cash' \in Nat /\ calls' \in Seq(CallType)
  <2>1. openRisk \in Nat /\ totalSpent \in Nat
    BY DEF IInv, TypeOK
  <2>2. openRisk' = openRisk + spent /\ totalSpent' = totalSpent + spent /\ cash' \in Nat
    BY <1>1, <1>11
  <2>3. calls' \in Seq(CallType)
    BY <1>2
  <2> QED
    BY <2>1, <2>2, <2>3
<1>8. TypeOK'
  BY <1>2, <1>4, <1>5, <1>6, <1>7 DEF IInv, TypeOK
<1>9. LifetimeBudget' /\ DepositsExplained'
  <2>1. /\ openRisk \in Nat /\ realizedLoss \in Nat /\ netDeposited \in Int /\ cash' \in Nat
        /\ policy.totalRiskBudget \in Nat
    BY <1>1 DEF IInv, TypeOK, PolicyType
  <2>2. netDeposited <= calls[1].before + openRisk + realizedLoss
    BY <1>2 DEF IInv, CallHolds
  <2>3. LifetimeBudget'
    BY <1>2, <1>11, <2>1 DEF LifetimeBudget
  <2> DEFINE before == calls[1].before
             after == cash'
  <2>4. netDeposited <= before + openRisk + realizedLoss /\ before = after + spent /\ after \in Nat
    BY <1>11, <2>1, <2>2
  <2> HIDE DEF before, after
  <2>5. netDeposited <= after + (openRisk + spent) + realizedLoss
    BY <2>1, <2>4
  <2>6. netDeposited <= cash' + (openRisk + spent) + realizedLoss
    BY <2>5 DEF after
  <2>7. DepositsExplained'
    BY <1>2, <1>11, <2>6 DEF DepositsExplained
  <2> QED
    BY <2>3, <2>7
<1>10. PolicyOnce' /\ CallHolds'
  BY <1>1, <1>2 DEF IInv, PolicyOnce, CallHolds
<1> QED
  BY <1>8, <1>9, <1>10 DEF IInv

\* A recovery keeps the inductive invariant, whatever it pays.
LEMMA EndRecoverIInv ==
  ASSUME IInv, NEW payout \in 0..MaxCash, EndRecover(payout)
  PROVE  IInv'
<1>0. PICK m \in Markets, basis \in Nat, delta \in Nat : Closed(m, basis, delta)
  BY RecoverEffect
<1>1. /\ basis <= marketOpenRisk[m]
      /\ marketOpenRisk' = [marketOpenRisk EXCEPT ![m] = @ - basis]
      /\ recoveryConfigs' = [recoveryConfigs EXCEPT ![m].positionAmount = 0,
                                                    ![m].costBasis = 0,
                                                    ![m].resolved = TRUE]
  BY <1>0 DEF Closed
<1>2. /\ calls # <<>> /\ calls' = <<>> /\ recoveryCount' = recoveryCount + 1
      /\ UNCHANGED <<now, policy, active, revoked, totalSpent, executions, netDeposited>>
  BY TopCall DEF EndRecover, Return
<1>3. recoveryConfigs' \in [Markets -> PositionType]
  <2>1. [recoveryConfigs[m] EXCEPT !.positionAmount = 0, !.costBasis = 0, !.resolved = TRUE] \in PositionType
    BY DEF IInv, TypeOK, PositionType
  <2>2. recoveryConfigs' = [recoveryConfigs EXCEPT ![m] =
          [recoveryConfigs[m] EXCEPT !.positionAmount = 0, !.costBasis = 0, !.resolved = TRUE]]
    BY <1>1 DEF IInv, TypeOK, PositionType
  <2> QED
    BY <2>1, <2>2 DEF IInv, TypeOK
<1>4. marketOpenRisk' \in [Markets -> Nat]
  BY <1>1, SMTT(40) DEF IInv, TypeOK
<1>5. /\ basis \in Nat /\ basis <= openRisk
      /\ cash' \in Nat /\ cash' = calls[1].before + delta
      /\ openRisk' = openRisk - basis
      /\ realizedLoss' = IF delta < basis THEN realizedLoss + (basis - delta) ELSE realizedLoss
  BY <1>0 DEF Closed
<1>6. openRisk' \in Nat /\ realizedLoss' \in Nat /\ recoveryCount' \in Nat /\ calls' \in Seq(CallType)
  <2>1. openRisk \in Nat /\ realizedLoss \in Nat /\ recoveryCount \in Nat
    BY DEF IInv, TypeOK
  <2>2. openRisk' \in Nat /\ realizedLoss' \in Nat
    BY <1>5, <2>1
  <2>3. recoveryCount' \in Nat /\ calls' \in Seq(CallType)
    BY <1>2, <2>1
  <2> QED
    BY <2>2, <2>3
<1>7. TypeOK'
  BY <1>2, <1>3, <1>4, <1>5, <1>6 DEF IInv, TypeOK
<1>8. LifetimeBudget' /\ DepositsExplained'
  <2>1. /\ openRisk \in Nat /\ realizedLoss \in Nat /\ netDeposited \in Int
        /\ policy.totalRiskBudget \in Nat /\ calls[1].before \in Int
    BY <1>2, TopCall DEF IInv, TypeOK, PolicyType, CallType
  <2>2. netDeposited <= calls[1].before + openRisk + realizedLoss /\ openRisk + realizedLoss <= policy.totalRiskBudget
    BY <1>2 DEF IInv, CallHolds, LifetimeBudget
  <2>3. LifetimeBudget'
    BY <1>2, <1>5, <2>1, <2>2 DEF LifetimeBudget
  <2>4. netDeposited <= cash' + openRisk' + realizedLoss'
    BY <1>5, <2>1, <2>2
  <2>5. DepositsExplained'
    BY <1>2, <2>4 DEF DepositsExplained
  <2> QED
    BY <2>3, <2>5
<1>9. PolicyOnce' /\ CallHolds'
  BY <1>2, <1>5 DEF IInv, TypeOK, PolicyOnce, CallHolds
<1> QED
  BY <1>7, <1>8, <1>9 DEF IInv

\* A pending payout keeps the inductive invariant.
LEMMA EndPendingIInv ==
  ASSUME IInv, NEW payout \in 0..MaxCash, EndRecoverPending(payout)
  PROVE  IInv'
<1>1. /\ calls # <<>> /\ calls' = <<>> /\ cash' = cash + payout
      /\ UNCHANGED <<now, policy, active, revoked, risk, netDeposited>>
  BY TopCall DEF EndRecoverPending, Return
<1>2. payout \in Nat
  BY BoundsAssumption
<1> QED
  BY <1>1, <1>2 DEF risk, IInv, TypeOK, PolicyOnce, LifetimeBudget, DepositsExplained, CallHolds

\* Moving tokens while a call waits changes nothing the call has checked.
LEMMA CallStays ==
  ASSUME IInv, UNCHANGED <<policy, active, risk, calls>>, netDeposited' \in Int,
         calls # <<>> => netDeposited' <= netDeposited,
         revoked' \in {revoked, TRUE}
  PROVE  CallHolds'
<1>1. CASE calls = <<>>
  BY <1>1 DEF CallHolds
<1>2. CASE calls # <<>>
  <2>1. calls[1].before \in Nat /\ openRisk \in Nat /\ realizedLoss \in Nat /\ netDeposited \in Int
    BY <1>2, TopCall DEF CallType, IInv, TypeOK
  <2>2. netDeposited' <= calls[1].before + openRisk + realizedLoss
    BY <1>2, <2>1 DEF IInv, CallHolds
  <2>3. calls[1].revoked => revoked'
    BY <1>2 DEF IInv, CallHolds
  <2>4. calls[1].kind = "trade" => StillAdmitted(calls[1])'
    BY <1>2 DEF IInv, CallHolds, StillAdmitted, PositionCompatible, risk
  <2> QED
    BY <1>2, <2>2, <2>3, <2>4 DEF IInv, CallHolds, StillAdmitted, PositionCompatible, risk
<1> QED
  BY <1>1, <1>2

-----------------------------------------------------------------------------
\* Every step of the vault keeps the inductive invariant.
LEMMA StepIInv == IInv /\ [Next]_vars => IInv'
<1> SUFFICES ASSUME IInv, [Next]_vars PROVE IInv'
  OBVIOUS
<1>0. cash \in Nat /\ netDeposited \in Int
  BY DEF IInv, TypeOK
<1>1. CASE Tick
  <2>1. CallHolds'
    BY <1>0, <1>1, CallStays DEF Tick
  <2> QED
    BY <1>1, <2>1 DEF Tick, risk, IInv, TypeOK, PolicyOnce, LifetimeBudget, DepositsExplained
<1>2. ASSUME NEW a \in Amounts, Deposit(a) PROVE IInv'
  <2>1. CallHolds'
    <3>1. netDeposited' \in Int /\ (calls # <<>> => netDeposited' <= netDeposited)
      BY <1>0, <1>2, InputsAssumption DEF Deposit
    <3> QED
      BY <1>2, <3>1, CallStays DEF Deposit
  <2> QED
    BY <1>2, <2>1, InputsAssumption
    DEF Deposit, risk, IInv, TypeOK, PolicyType, PolicyOnce, LifetimeBudget, DepositsExplained
<1>3. ASSUME NEW a \in Amounts, Withdraw(a) PROVE IInv'
  <2>1. CallHolds'
    <3>1. netDeposited' \in Int /\ netDeposited' <= netDeposited
      BY <1>0, <1>3, InputsAssumption DEF Withdraw
    <3> QED
      BY <1>3, <3>1, CallStays DEF Withdraw
  <2> QED
    BY <1>3, <2>1, InputsAssumption
    DEF Withdraw, risk, IInv, TypeOK, PolicyType, PolicyOnce, LifetimeBudget, DepositsExplained
<1>4. ASSUME NEW a \in Amounts, Donate(a) PROVE IInv'
  <2>1. CallHolds'
    BY <1>0, <1>4, CallStays DEF Donate
  <2> QED
    BY <1>4, <2>1, InputsAssumption
    DEF Donate, risk, IInv, TypeOK, PolicyType, PolicyOnce, LifetimeBudget, DepositsExplained
<1>5. ASSUME NEW p \in Policies, InitializePolicy(p) PROVE IInv'
  <2>1. p \in PolicyType /\ p.totalRiskBudget \in Nat /\ p.totalRiskBudget > 0
    BY <1>5, InputsAssumption DEF InitializePolicy, PolicyType
  <2>2. openRisk = 0 /\ realizedLoss = 0 /\ ~active
    BY <1>5 DEF InitializePolicy, IInv, PolicyOnce
  <2>3. UNCHANGED <<now, revoked, risk, cash, calls, netDeposited>>
    BY <1>5 DEF InitializePolicy
  <2>4. calls # <<>> => calls[1].kind # "trade"
    BY <2>2 DEF IInv, CallHolds, StillAdmitted
  <2>5. CallHolds'
    BY <2>3, <2>4 DEF IInv, CallHolds, risk
  <2> QED
    BY <1>5, <2>1, <2>2, <2>5
    DEF InitializePolicy, risk, IInv, TypeOK, PolicyOnce, LifetimeBudget, DepositsExplained
<1>6. CASE Revoke
  <2>1. CallHolds'
    BY <1>0, <1>6, CallStays DEF Revoke
  <2> QED
    BY <1>6, <2>1 DEF Revoke, risk, IInv, TypeOK, PolicyOnce, LifetimeBudget, DepositsExplained
<1>7. ASSUME NEW m \in Markets, NEW v \in Venues, NEW s \in Sides, NEW p \in Prices,
             NEW q \in Quantities, BeginTrade(m, v, s, p, q)
      PROVE  IInv'
  BY <1>7, BeginTradeIInv
<1>8. CASE EndTrade
  BY <1>8, EndTradeIInv
<1>9. ASSUME NEW m \in Markets, BeginRecover(m) PROVE IInv'
  BY <1>9, BeginRecoverIInv
<1>10. ASSUME NEW payout \in 0..MaxCash, EndRecover(payout) PROVE IInv'
  BY <1>10, EndRecoverIInv
<1>11. ASSUME NEW payout \in 0..MaxCash, EndRecoverPending(payout) PROVE IInv'
  BY <1>11, EndPendingIInv
<1>12. CASE UNCHANGED vars
  <2>1. CallHolds'
    BY <1>0, <1>12, CallStays DEF vars
  <2> QED
    BY <1>12, <2>1 DEF vars, risk, IInv, TypeOK, PolicyOnce, LifetimeBudget, DepositsExplained
<1> QED
  BY <1>1, <1>2, <1>3, <1>4, <1>5, <1>6, <1>7, <1>8, <1>9, <1>10, <1>11, <1>12 DEF Next

\* The inductive invariant holds in every reachable state of the vault.
THEOREM VaultInvariant == Spec => []IInv
BY InitIInv, StepIInv, PTL DEF Spec

\* Type correctness, for all inputs: no subtraction of executeTrade, withdraw or
\* recover underflows, whatever happens while the adapter works.
THEOREM VaultTypeOK == Spec => []TypeOK
<1>1. IInv => TypeOK
  BY DEF IInv
<1> QED
  BY <1>1, VaultInvariant, PTL

\* The lifetime budget holds in every reachable state, also while a call waits for the
\* adapter, for every adapter that cannot be entered twice.
THEOREM VaultLifetimeBudget == Spec => []LifetimeBudget
<1>1. IInv => LifetimeBudget
  BY DEF IInv
<1> QED
  BY <1>1, VaultInvariant, PTL

\* Trading never costs the follower more than the budget, for every adapter that cannot
\* be entered twice, every price and every payout.
THEOREM VaultNetLoss == Spec => []NetLossWithinBudget
<1>1. IInv => NetLossWithinBudget
  BY DEF IInv, TypeOK, PolicyType, LifetimeBudget, DepositsExplained, NetLossWithinBudget
<1> QED
  BY <1>1, VaultInvariant, PTL

-----------------------------------------------------------------------------
(* The vault implements LifetimeRisk.                                      *)

\* The vault starts as an ungranted ledger.
LEMMA LedgerInit == Init => Ledger!Init
BY DEF Init, NoPolicy, ClosedOutside, Ledger!Init

\* While a call waits the ledger sees the revocation flag the call began with.
LEMMA ClosedValue ==
  ASSUME IInv
  PROVE  /\ ClosedOutside \in BOOLEAN
         /\ ClosedOutside => revoked
         /\ calls = <<>> => ClosedOutside = revoked
         /\ calls # <<>> => ClosedOutside = calls[1].revoked
<1>1. revoked \in BOOLEAN
  BY DEF IInv, TypeOK
<1>2. CASE calls = <<>>
  BY <1>1, <1>2 DEF ClosedOutside
<1>3. CASE calls # <<>>
  <2>1. calls[1] \in CallType
    BY <1>3, TopCall
  <2>2. calls[1].revoked \in BOOLEAN
    BY <2>1 DEF CallType
  <2>3. calls[1].revoked => revoked
    BY <1>3 DEF IInv, CallHolds
  <2> QED
    BY <1>1, <1>3, <2>2, <2>3 DEF ClosedOutside
<1> QED
  BY <1>2, <1>3

\* Every step of the vault is a step of the ledger or leaves it unchanged.
LEMMA LedgerStep == IInv /\ [Next]_vars => [Ledger!Next]_(Ledger!vars)
<1> SUFFICES ASSUME IInv, [Next]_vars PROVE [Ledger!Next]_(Ledger!vars)
  OBVIOUS
<1> DEFINE Books == UNCHANGED <<policy, openRisk, realizedLoss>>
<1>0. Books /\ ClosedOutside' = ClosedOutside => UNCHANGED Ledger!vars
  BY DEF Ledger!vars
<1>1. UNCHANGED <<revoked, calls>> => ClosedOutside' = ClosedOutside
  BY DEF ClosedOutside
<1>2. IInv'
  BY StepIInv
<1>3. CASE Tick
  BY <1>0, <1>1, <1>3 DEF Tick, risk
<1>4. ASSUME NEW a \in Amounts, Deposit(a) \/ Withdraw(a) \/ Donate(a) PROVE UNCHANGED Ledger!vars
  BY <1>0, <1>1, <1>4 DEF Deposit, Withdraw, Donate, risk
<1>5. ASSUME NEW p \in Policies, InitializePolicy(p) PROVE Ledger!Grant
  <2>1. policy.totalRiskBudget = 0
    BY <1>5 DEF InitializePolicy, IInv, PolicyOnce, NoPolicy
  <2>2. policy'.totalRiskBudget > 0
    BY <1>5, InputsAssumption DEF InitializePolicy, PolicyType
  <2> QED
    BY <1>1, <1>5, <2>1, <2>2 DEF InitializePolicy, risk, Ledger!Grant
<1>6. CASE Revoke
  <2>1. policy.totalRiskBudget > 0 /\ ~revoked /\ revoked' /\ Books /\ calls' = calls
    BY <1>6 DEF Revoke, risk, IInv, PolicyOnce
  <2>2. CASE calls = <<>>
    <3>1. ClosedOutside' = TRUE
      BY <1>2, <2>1, <2>2 DEF ClosedOutside
    <3> QED
      BY <2>1, <3>1 DEF Ledger!Close, Ledger!Next
  <2>3. CASE calls # <<>>
    <3>1. ~calls[1].revoked
      BY <2>1, <2>3 DEF IInv, CallHolds
    <3>2. ClosedOutside' = ClosedOutside
      BY <2>1, <2>3, <3>1 DEF ClosedOutside
    <3> QED
      BY <1>0, <2>1, <3>2
  <2> QED
    BY <2>2, <2>3
<1>7. ASSUME NEW call, Enter(call), call.revoked = revoked PROVE UNCHANGED Ledger!vars
  <2>1. calls = <<>> /\ calls' = <<call>> /\ Books /\ revoked' = revoked
    BY <1>7 DEF Enter, AdapterFree, risk
  <2>2. ClosedOutside' = ClosedOutside
    BY <1>7, <2>1 DEF ClosedOutside
  <2> QED
    BY <1>0, <2>1, <2>2
<1>8. ASSUME NEW m \in Markets, NEW v \in Venues, NEW s \in Sides, NEW p \in Prices,
             NEW q \in Quantities, BeginTrade(m, v, s, p, q)
      PROVE  UNCHANGED Ledger!vars
  <2> DEFINE call == [kind |-> "trade", market |-> m, venue |-> v, side |-> s, price |-> p,
                      quantity |-> q, before |-> cash, revoked |-> revoked]
  <2>1. Enter(call) /\ call.revoked = revoked
    BY <1>8 DEF BeginTrade
  <2> HIDE DEF call
  <2> QED
    BY <1>7, <2>1
<1>9. ASSUME NEW m \in Markets, BeginRecover(m) PROVE UNCHANGED Ledger!vars
  <2> DEFINE call == [kind |-> "recovery", market |-> m, before |-> cash, revoked |-> revoked]
  <2>1. Enter(call) /\ call.revoked = revoked
    BY <1>9 DEF BeginRecover
  <2> HIDE DEF call
  <2> QED
    BY <1>7, <2>1
<1>10. ASSUME calls # <<>>, calls' = <<>>, revoked' = revoked
       PROVE  ClosedOutside' \in {ClosedOutside, TRUE}
  <2>1. ClosedOutside => ClosedOutside'
    BY <1>10 DEF ClosedOutside
  <2>2. ClosedOutside \in BOOLEAN /\ ClosedOutside' \in BOOLEAN
    BY <1>2, ClosedValue DEF ClosedOutside, IInv, TypeOK
  <2> QED
    BY <2>1, <2>2
<1>11. CASE EndTrade
  <2>0. PICK m \in Markets, v \in Venues, s \in Sides, spent \in Nat, filled \in Nat :
          Booked(m, v, s, spent, filled)
    BY <1>11, TradeEffect
  <2>1. active /\ ~calls[1].revoked /\ openRisk' = openRisk + spent
    BY <2>0 DEF Booked
  <2>2. /\ calls # <<>> /\ calls' = <<>>
        /\ UNCHANGED <<policy, realizedLoss, revoked>>
    BY <1>11, TopCall DEF EndTrade, Return
  <2>3. ~ClosedOutside /\ ClosedOutside' \in {ClosedOutside, TRUE}
    BY <1>10, <2>1, <2>2, ClosedValue
  <2>4. openRisk' >= openRisk /\ openRisk' + realizedLoss <= policy.totalRiskBudget
    BY <1>2, <2>1, <2>2 DEF IInv, TypeOK, LifetimeBudget
  <2>5. policy.totalRiskBudget > 0
    BY <2>1 DEF IInv, PolicyOnce
  <2> QED
    BY <2>2, <2>3, <2>4, <2>5 DEF Ledger!Spend, Ledger!StaysOrCloses, Ledger!Next
<1>12. ASSUME NEW payout \in 0..MaxCash, EndRecover(payout) PROVE Ledger!Settle
  <2>1. PICK m \in Markets, basis \in Nat, delta \in Nat : Closed(m, basis, delta)
    BY <1>12, RecoverEffect
  <2>2. /\ basis <= openRisk
        /\ openRisk' = openRisk - basis
        /\ realizedLoss' = IF delta < basis THEN realizedLoss + (basis - delta) ELSE realizedLoss
    BY <2>1 DEF Closed
  <2>3. calls # <<>> /\ calls' = <<>> /\ UNCHANGED <<policy, revoked>>
    BY <1>12, TopCall DEF EndRecover, Return
  <2>4. ClosedOutside' \in {ClosedOutside, TRUE}
    BY <1>10, <2>3
  <2>5. /\ 0 <= openRisk' /\ openRisk' <= openRisk
        /\ realizedLoss <= realizedLoss' /\ realizedLoss' - realizedLoss <= openRisk - openRisk'
    BY <2>2 DEF IInv, TypeOK
  <2> QED
    BY <2>3, <2>4, <2>5 DEF Ledger!Settle, Ledger!StaysOrCloses
<1>13. ASSUME NEW payout \in 0..MaxCash, EndRecoverPending(payout) PROVE Ledger!Settle
  <2>1. calls # <<>> /\ calls' = <<>> /\ UNCHANGED <<policy, revoked, openRisk, realizedLoss>>
    BY <1>13, TopCall DEF EndRecoverPending, Return, risk
  <2>2. ClosedOutside' \in {ClosedOutside, TRUE}
    BY <1>10, <2>1
  <2>3. openRisk \in Nat /\ realizedLoss \in Nat
    BY DEF IInv, TypeOK
  <2>4. /\ 0 <= openRisk' /\ openRisk' <= openRisk
        /\ realizedLoss <= realizedLoss' /\ realizedLoss' - realizedLoss <= openRisk - openRisk'
    BY <2>1, <2>3
  <2> QED
    BY <2>1, <2>2, <2>4 DEF Ledger!Settle, Ledger!StaysOrCloses
<1>14. CASE UNCHANGED vars
  BY <1>0, <1>1, <1>14 DEF vars, risk
<1> QED
  BY <1>3, <1>4, <1>5, <1>6, <1>8, <1>9, <1>11, <1>12, <1>13, <1>14 DEF Next, Ledger!Next

\* The vault implements the lifetime risk ledger for every value of the constants.
THEOREM VaultImplementsLedger == Spec => ImplementsLifetimeRisk
<1>1. Spec => Ledger!Init /\ [][Ledger!Next]_(Ledger!vars)
  BY LedgerInit, LedgerStep, VaultInvariant, PTL DEF Spec
<1> QED
  BY <1>1 DEF ImplementsLifetimeRisk, Ledger!Spec

-----------------------------------------------------------------------------
(* The key of a held position.                                             *)

\* No step moves the venue or the outcome of a position that stays open.
THEOREM VaultKeepsKeys == Spec => HeldPositionKeepsItsKey
<1> DEFINE Keeps ==
      \A m \in Markets :
        recoveryConfigs[m].positionAmount > 0 /\ recoveryConfigs'[m].positionAmount > 0 =>
          /\ recoveryConfigs'[m].venue = recoveryConfigs[m].venue
          /\ recoveryConfigs'[m].outcomeIndex = recoveryConfigs[m].outcomeIndex
<1>1. ASSUME IInv, [Next]_vars PROVE Keeps
  <2>1. CASE EndTrade
    <3>0. PICK m \in Markets, v \in Venues, s \in Sides, spent \in Nat, filled \in Nat :
            Booked(m, v, s, spent, filled)
      BY <1>1, <2>1, TradeEffect
    <3>1. /\ PositionCompatible(m, v, s)
          /\ recoveryConfigs' = IF filled > 0
             THEN [recoveryConfigs EXCEPT ![m] = AddPosition(@, v, s, spent, filled)]
             ELSE recoveryConfigs
      BY <3>0 DEF Booked
    <3>2. AddPosition(recoveryConfigs[m], v, s, spent, filled).venue = v
          /\ AddPosition(recoveryConfigs[m], v, s, spent, filled).outcomeIndex = OutcomeIndex(s)
      BY DEF AddPosition
    <3> QED
      BY <1>1, <3>1, <3>2 DEF IInv, TypeOK, PositionType, PositionCompatible
  <2>2. ASSUME NEW payout \in 0..MaxCash, EndRecover(payout) PROVE Keeps
    <3>0. PICK m \in Markets, basis \in Nat, delta \in Nat : Closed(m, basis, delta)
      BY <1>1, <2>2, RecoverEffect
    <3>1. recoveryConfigs' = [recoveryConfigs EXCEPT ![m].positionAmount = 0,
                                                     ![m].costBasis = 0,
                                                     ![m].resolved = TRUE]
      BY <3>0 DEF Closed
    <3>2. /\ recoveryConfigs'[m].positionAmount = 0
          /\ \A n \in Markets \ {m} : recoveryConfigs'[n] = recoveryConfigs[n]
      BY <1>1, <3>1 DEF IInv, TypeOK, PositionType
    <3> QED
      BY <3>2
  <2>3. CASE UNCHANGED recoveryConfigs
    BY <2>3
  <2> QED
    BY <1>1, <2>1, <2>2, <2>3
    DEF Next, vars, risk, Tick, Deposit, Withdraw, Donate, InitializePolicy, Revoke, BeginTrade,
        BeginRecover, Enter, EndRecoverPending
<1>2. Spec => [][Keeps]_vars
  BY <1>1, VaultInvariant, PTL DEF Spec
<1> QED
  BY <1>2 DEF HeldPositionKeepsItsKey

-----------------------------------------------------------------------------
(* Quotes.                                                                 *)

\* Rounding a quotient down and multiplying back never exceeds the dividend.
LEMMA DivTimes ==
  ASSUME NEW a \in Nat, NEW b \in Nat \ {0}
  PROVE  a \div b \in Nat /\ b * (a \div b) <= a
OBVIOUS

\* What is below the next multiple rounds down to the multiple's factor.
LEMMA DivBelow ==
  ASSUME NEW a \in Nat, NEW b \in Nat \ {0}, NEW c \in Nat, a < (c + 1) * b
  PROVE  a \div b <= c
OBVIOUS

\* Rounding down is monotone.
LEMMA DivMonotone ==
  ASSUME NEW a \in Nat, NEW b \in Nat \ {0}, NEW c \in Nat, a <= c
  PROVE  a \div b <= c \div b
OBVIOUS

\* A quote for a cost never costs more than that cost (previewTrade's floor against
\* executeTrade's ceiling).
LEMMA QuoteCost ==
  ASSUME NEW maxCost \in Nat, NEW price \in Nat \ {0}
  PROVE  /\ QuoteQuantity(maxCost, price) \in Nat
         /\ ExpectedCost(price, QuoteQuantity(maxCost, price)) \in Nat
         /\ ExpectedCost(price, QuoteQuantity(maxCost, price)) <= maxCost
         /\ (price * QuoteQuantity(maxCost, price)) \div PriceScale
              <= ExpectedCost(price, QuoteQuantity(maxCost, price))
<1> DEFINE q == QuoteQuantity(maxCost, price)
           worth == price * q
<1>1. maxCost * PriceScale \in Nat
  BY ScaleAssumption
<1>2. q \in Nat /\ worth <= maxCost * PriceScale
  BY <1>1, DivTimes DEF QuoteQuantity
<1>3. worth \in Nat
  BY <1>2
<1> HIDE DEF q, worth
<1>4. worth + PriceScale - 1 \in Nat /\ worth + PriceScale - 1 < (maxCost + 1) * PriceScale
  BY <1>1, <1>2, <1>3, ScaleAssumption
<1>5. (worth + PriceScale - 1) \div PriceScale <= maxCost
  BY <1>4, DivBelow, ScaleAssumption
<1>6. worth \div PriceScale <= (worth + PriceScale - 1) \div PriceScale
  BY <1>3, <1>4, DivMonotone, ScaleAssumption
<1>7. (worth + PriceScale - 1) \div PriceScale \in Nat
  BY <1>4, DivTimes, ScaleAssumption
<1> QED
  BY <1>2, <1>5, <1>6, <1>7 DEF ExpectedCost, q, worth

\* Whatever previewTrade quotes, executeTrade admits in the same state.
THEOREM VaultQuotes == Spec => []QuoteIsAdmitted
<1>1. ASSUME IInv PROVE QuoteIsAdmitted
  <2> SUFFICES ASSUME NEW s \in Sides, NEW p \in Prices, PreviewSucceeds(s, p)
               PROVE  CostAdmitted(p, QuoteQuantity(PreviewMaxCost, p))
    BY DEF QuoteIsAdmitted
  <2>1. p \in Nat \ {0}
    BY InputsAssumption DEF PreviewSucceeds, SideAndPriceAllowed
  <2>2. RemainingRisk \in Nat
    BY <1>1, RemainingRiskValue DEF IInv, TypeOK, PolicyType, LifetimeBudget
  <2>3. /\ PreviewMaxCost \in Nat
        /\ PreviewMaxCost <= policy.maxOrderCost
        /\ PreviewMaxCost <= RemainingRisk
        /\ PreviewMaxCost <= cash
    BY <1>1, <2>2 DEF IInv, TypeOK, PolicyType, PreviewMaxCost, Least
  <2> DEFINE q == QuoteQuantity(PreviewMaxCost, p)
             expected == ExpectedCost(p, q)
  <2>4. expected \in Nat /\ expected <= PreviewMaxCost /\ (p * q) \div PriceScale <= expected
    BY <2>1, <2>3, QuoteCost
  <2>5. (p * q) \div PriceScale # 0 /\ (p * q) \div PriceScale \in Nat
    <3>1. p * q \in Nat
      BY <2>1, <2>3, QuoteCost
    <3> QED
      BY <3>1, DivTimes, ScaleAssumption DEF PreviewSucceeds
  <2> HIDE DEF q, expected
  <2>6. /\ expected # 0 /\ expected <= policy.maxOrderCost
        /\ expected <= RemainingRisk /\ expected <= cash
    BY <1>1, <2>2, <2>3, <2>4, <2>5 DEF IInv, TypeOK, PolicyType
  <2> QED
    BY <2>6 DEF CostAdmitted, q, expected
<1> QED
  BY <1>1, VaultInvariant, PTL
-----------------------------------------------------------------------------
(* The books.                                                              *)

\* A held position is open and knows its venue.
HeldIsOpen ==
  \A m \in Markets :
    recoveryConfigs[m].positionAmount > 0 =>
      ~recoveryConfigs[m].resolved /\ recoveryConfigs[m].venue # NoVenue

\* The books before any trade.
LEMMA InitBooks == Init => BooksAgree /\ HeldIsOpen
<1> SUFFICES ASSUME Init PROVE BooksAgree /\ HeldIsOpen
  OBVIOUS
<1>1. marketOpenRisk = [m \in Markets |-> 0] /\ openRisk = 0
  BY DEF Init
<1>2. SumFunctionOnSet(marketOpenRisk, Markets) = 0
  BY <1>1, MarketsAssumption, SumZero
<1>3. openRisk = SumFunction(marketOpenRisk)
  BY <1>1, <1>2 DEF SumFunction
<1> QED
  BY <1>1, <1>3 DEF Init, NoPosition, BooksAgree, HeldIsOpen

\* The total and one market's counter and record move together.
LEMMA BooksMove ==
  ASSUME TypeOK, BooksAgree, NEW m \in Markets, NEW d \in Int,
         marketOpenRisk[m] + d \in Nat,
         openRisk' = openRisk + d,
         marketOpenRisk' = [marketOpenRisk EXCEPT ![m] = @ + d],
         recoveryConfigs'[m].costBasis = recoveryConfigs[m].costBasis + d,
         recoveryConfigs'[m].positionAmount = 0 <=> recoveryConfigs'[m].costBasis = 0,
         \A n \in Markets \ {m} : recoveryConfigs'[n] = recoveryConfigs[n]
  PROVE  BooksAgree'
<1>1. marketOpenRisk \in [Markets -> Nat] /\ openRisk \in Nat
  BY DEF TypeOK
<1>2. /\ marketOpenRisk' \in [Markets -> Nat]
      /\ marketOpenRisk'[m] = marketOpenRisk[m] + d
      /\ \A n \in Markets \ {m} : marketOpenRisk'[n] = marketOpenRisk[n]
  BY <1>1
<1>3. SumFunctionOnSet(marketOpenRisk', Markets)
        = SumFunctionOnSet(marketOpenRisk, Markets) - marketOpenRisk[m] + marketOpenRisk'[m]
  <2> DEFINE f == marketOpenRisk
             g == marketOpenRisk'
  <2>1. /\ \A n \in Markets : f[n] \in Nat /\ g[n] \in Nat
        /\ \A n \in Markets \ {m} : f[n] = g[n]
    BY <1>1, <1>2
  <2> HIDE DEF f, g
  <2>2. SumFunctionOnSet(g, Markets) = SumFunctionOnSet(f, Markets) - f[m] + g[m]
    BY <2>1, MarketsAssumption, SumChange
  <2> QED
    BY <2>2 DEF f, g
<1>4. openRisk = SumFunctionOnSet(marketOpenRisk, Markets)
  BY <1>1 DEF BooksAgree, SumFunction
<1>5. openRisk' = SumFunctionOnSet(marketOpenRisk', Markets)
  BY <1>1, <1>2, <1>3, <1>4
<1>6. openRisk' = SumFunction(marketOpenRisk')
  BY <1>2, <1>5 DEF SumFunction
<1>7. ASSUME NEW n \in Markets
      PROVE  /\ marketOpenRisk'[n] = recoveryConfigs'[n].costBasis
             /\ recoveryConfigs'[n].positionAmount = 0 <=> recoveryConfigs'[n].costBasis = 0
  BY <1>2 DEF BooksAgree
<1> QED
  BY <1>6, <1>7 DEF BooksAgree

\* Every step keeps the books in agreement and the held positions open.
LEMMA StepBooks == IInv /\ BooksAgree /\ HeldIsOpen /\ [Next]_vars => BooksAgree' /\ HeldIsOpen'
<1> SUFFICES ASSUME IInv, BooksAgree, HeldIsOpen, [Next]_vars PROVE BooksAgree' /\ HeldIsOpen'
  OBVIOUS
<1>1. ASSUME EndTrade PROVE BooksAgree' /\ HeldIsOpen'
  <2>0. PICK m \in Markets, v \in Venues, s \in Sides, spent \in Nat, filled \in Nat :
          Booked(m, v, s, spent, filled)
    BY <1>1, TradeEffect
  <2>1. /\ spent = 0 <=> filled = 0
        /\ openRisk' = openRisk + spent
        /\ marketOpenRisk' = [marketOpenRisk EXCEPT ![m] = @ + spent]
        /\ recoveryConfigs' =
             IF filled > 0
             THEN [recoveryConfigs EXCEPT ![m] = AddPosition(@, v, s, spent, filled)]
             ELSE recoveryConfigs
    BY <2>0 DEF Booked
  <2>2. marketOpenRisk[m] + spent \in Nat
    BY DEF IInv, TypeOK
  <2>3. recoveryConfigs[m] \in PositionType
    BY DEF IInv, TypeOK
  <2>4. /\ recoveryConfigs'[m].costBasis = recoveryConfigs[m].costBasis + spent
        /\ recoveryConfigs'[m].positionAmount = 0 <=> recoveryConfigs'[m].costBasis = 0
    BY <2>1, <2>3 DEF IInv, TypeOK, BooksAgree, PositionType, AddPosition
  <2>5. \A n \in Markets \ {m} : recoveryConfigs'[n] = recoveryConfigs[n]
    BY <2>1 DEF IInv, TypeOK
  <2>6. BooksAgree'
    <3>1. spent \in Int
      OBVIOUS
    <3> QED
      BY <2>1, <2>2, <2>4, <2>5, <3>1, BooksMove DEF IInv
  <2>7. HeldIsOpen'
    BY <2>1, <2>5, VenueAssumption DEF IInv, TypeOK, HeldIsOpen, AddPosition
  <2> QED
    BY <2>6, <2>7
<1>2. ASSUME NEW payout \in 0..MaxCash, EndRecover(payout) PROVE BooksAgree' /\ HeldIsOpen'
  <2>0. PICK m \in Markets, basis \in Nat, delta \in Nat : Closed(m, basis, delta)
    BY <1>2, RecoverEffect
  <2>1. /\ openRisk' = openRisk - basis
        /\ marketOpenRisk' = [marketOpenRisk EXCEPT ![m] = @ - basis]
        /\ recoveryConfigs' = [recoveryConfigs EXCEPT ![m].positionAmount = 0,
                                                      ![m].costBasis = 0,
                                                      ![m].resolved = TRUE]
        /\ basis <= marketOpenRisk[m] /\ basis = recoveryConfigs[m].costBasis
    BY <2>0 DEF Closed
  <2>2. basis \in Nat /\ -basis \in Int /\ marketOpenRisk[m] + -basis \in Nat
    BY <2>1, SMTT(40) DEF IInv, TypeOK, PositionType
  <2>3. /\ recoveryConfigs'[m].costBasis = 0
        /\ recoveryConfigs'[m].positionAmount = 0
        /\ \A n \in Markets \ {m} : recoveryConfigs'[n] = recoveryConfigs[n]
    BY <2>1 DEF IInv, TypeOK, PositionType
  <2>4. openRisk' = openRisk + -basis /\ recoveryConfigs'[m].costBasis = basis + -basis
    BY <2>1, <2>2, <2>3, SMTT(40) DEF IInv, TypeOK
  <2>5. marketOpenRisk' = [marketOpenRisk EXCEPT ![m] = @ + -basis]
    BY <2>1, <2>2 DEF IInv, TypeOK
  <2>6. BooksAgree'
    BY <2>1, <2>2, <2>3, <2>4, <2>5, BooksMove DEF IInv
  <2>7. HeldIsOpen'
    BY <2>3 DEF HeldIsOpen
  <2> QED
    BY <2>6, <2>7
<1>3. CASE UNCHANGED <<openRisk, marketOpenRisk, recoveryConfigs>>
  BY <1>3 DEF BooksAgree, HeldIsOpen
<1> QED
  BY <1>1, <1>2, <1>3
  DEF Next, vars, risk, Tick, Deposit, Withdraw, Donate, InitializePolicy, Revoke, BeginTrade,
      BeginRecover, Enter, EndRecoverPending

\* None of recover's checks on the vault's own books can refuse a held position, for any
\* number of markets, orders and recoveries.
THEOREM VaultRecoverable == Spec => []PositionsRecoverable
<1>1. ASSUME IInv, BooksAgree, HeldIsOpen PROVE PositionsRecoverable
  <2> SUFFICES ASSUME NEW m \in Markets, recoveryConfigs[m].positionAmount > 0
               PROVE  RecoveryAvailable(m) /\ BooksCover(m)
    BY <1>1 DEF PositionsRecoverable
  <2>1. RecoveryAvailable(m)
    BY <1>1 DEF IInv, TypeOK, PositionType, HeldIsOpen, RecoveryAvailable
  <2>2. marketOpenRisk[m] = recoveryConfigs[m].costBasis /\ marketOpenRisk \in [Markets -> Nat]
    BY <1>1 DEF IInv, TypeOK, BooksAgree
  <2>3. marketOpenRisk[m] <= SumFunctionOnSet(marketOpenRisk, Markets)
    BY <2>2, MarketsAssumption, SumCovers
  <2>4. openRisk = SumFunctionOnSet(marketOpenRisk, Markets)
    BY <1>1, <2>2 DEF BooksAgree, SumFunction
  <2>5. BooksCover(m)
    BY <2>2, <2>3, <2>4 DEF BooksCover
  <2> QED
    BY <2>1, <2>5
<1> QED
  BY <1>1, InitBooks, StepBooks, VaultInvariant, PTL DEF Spec

-----------------------------------------------------------------------------
(* The log.                                                                *)

\* What the log bought of one outcome of a market, and for how much.
Costs(log) == [i \in DOMAIN log |-> log[i].actualCost]
Entry(e, m, index) == e.marketId = m /\ OutcomeIndex(e.side) = index
CostsOf(log, m, index) ==
  [i \in DOMAIN log |-> IF Entry(log[i], m, index) THEN log[i].actualCost ELSE 0]
FillsOf(log, m, index) ==
  [i \in DOMAIN log |-> IF Entry(log[i], m, index) THEN log[i].filledAmount ELSE 0]

\* LogExplainsBooks, market by market.
PositionLogged(m) ==
  LET index == recoveryConfigs[m].outcomeIndex
  IN  /\ recoveryConfigs[m].positionAmount <= SumFunction(FillsOf(executions, m, index))
      /\ recoveryConfigs[m].costBasis <= SumFunction(CostsOf(executions, m, index))

SpentIsLogged == totalSpent = SumFunction(Costs(executions))

\* What is proved of the sums, column by column, is the property the run checks.
LEMMA LogExplained ==
  ASSUME SpentIsLogged, \A m \in Markets : PositionLogged(m)
  PROVE  LogExplainsBooks
BY DEF SpentIsLogged, PositionLogged, Costs, CostsOf, FillsOf, Entry, LogExplainsBooks

\* One more entry adds its own amounts to the columns it belongs to.
LEMMA ColumnsGrow ==
  ASSUME NEW log \in Seq(ExecutionType), NEW e \in ExecutionType, NEW m, NEW index
  PROVE  /\ SumFunction(Costs(Append(log, e))) = SumFunction(Costs(log)) + e.actualCost
         /\ SumFunction(CostsOf(log, m, index)) \in Nat
         /\ SumFunction(FillsOf(log, m, index)) \in Nat
         /\ SumFunction(CostsOf(Append(log, e), m, index)) =
              SumFunction(CostsOf(log, m, index)) + (IF Entry(e, m, index) THEN e.actualCost ELSE 0)
         /\ SumFunction(FillsOf(Append(log, e), m, index)) =
              SumFunction(FillsOf(log, m, index)) + (IF Entry(e, m, index) THEN e.filledAmount ELSE 0)
<1> DEFINE longer == Append(log, e)
           n == Len(log)
<1>1. /\ n \in Nat /\ DOMAIN log = 1..n /\ DOMAIN longer = 1..(n + 1)
      /\ longer[n + 1] = e
      /\ \A i \in 1..n : longer[i] = log[i]
  OBVIOUS
<1>2. longer \in Seq(ExecutionType)
  OBVIOUS
<1>3. ASSUME NEW i \in 1..(n + 1) PROVE longer[i].actualCost \in Nat /\ longer[i].filledAmount \in Nat
  <2>1. longer[i] \in ExecutionType
    BY <1>1, <1>2, ElementOfSeq
  <2> QED
    BY <2>1 DEF ExecutionType
<1> HIDE DEF longer, n
<1>4. SumFunction(Costs(longer)) = SumFunction(Costs(log)) + e.actualCost
  <2> DEFINE f == Costs(log)
             g == Costs(longer)
  <2>1. /\ DOMAIN f = 1..n /\ DOMAIN g = 1..(n + 1)
        /\ \A i \in 1..(n + 1) : g[i] \in Nat
        /\ \A i \in 1..n : f[i] = g[i]
        /\ g[n + 1] = e.actualCost
    BY <1>1, <1>3 DEF Costs
  <2> HIDE DEF f, g
  <2>2. SumFunction(g) = SumFunction(f) + g[n + 1]
    BY <1>1, <2>1, SumAppend
  <2> QED
    BY <2>1, <2>2 DEF f, g
<1>5. /\ SumFunction(CostsOf(log, m, index)) \in Nat
      /\ SumFunction(CostsOf(longer, m, index)) =
           SumFunction(CostsOf(log, m, index)) + (IF Entry(e, m, index) THEN e.actualCost ELSE 0)
  <2> DEFINE f == CostsOf(log, m, index)
             g == CostsOf(longer, m, index)
  <2>1. /\ DOMAIN f = 1..n /\ DOMAIN g = 1..(n + 1)
        /\ \A i \in 1..(n + 1) : g[i] \in Nat
        /\ \A i \in 1..n : f[i] = g[i]
        /\ g[n + 1] = IF Entry(e, m, index) THEN e.actualCost ELSE 0
    BY <1>1, <1>3 DEF CostsOf
  <2> HIDE DEF f, g
  <2>2. SumFunction(f) \in Nat /\ SumFunction(g) = SumFunction(f) + g[n + 1]
    BY <1>1, <2>1, SumAppend
  <2> QED
    BY <2>1, <2>2 DEF f, g
<1>6. /\ SumFunction(FillsOf(log, m, index)) \in Nat
      /\ SumFunction(FillsOf(longer, m, index)) =
           SumFunction(FillsOf(log, m, index)) + (IF Entry(e, m, index) THEN e.filledAmount ELSE 0)
  <2> DEFINE f == FillsOf(log, m, index)
             g == FillsOf(longer, m, index)
  <2>1. /\ DOMAIN f = 1..n /\ DOMAIN g = 1..(n + 1)
        /\ \A i \in 1..(n + 1) : g[i] \in Nat
        /\ \A i \in 1..n : f[i] = g[i]
        /\ g[n + 1] = IF Entry(e, m, index) THEN e.filledAmount ELSE 0
    BY <1>1, <1>3 DEF FillsOf
  <2> HIDE DEF f, g
  <2>2. SumFunction(f) \in Nat /\ SumFunction(g) = SumFunction(f) + g[n + 1]
    BY <1>1, <2>1, SumAppend
  <2> QED
    BY <2>1, <2>2 DEF f, g
<1> QED
  BY <1>4, <1>5, <1>6 DEF longer

\* The empty log explains the empty books.
LEMMA InitLog == Init => SpentIsLogged /\ \A m \in Markets : PositionLogged(m)
<1> SUFFICES ASSUME Init PROVE SpentIsLogged /\ \A m \in Markets : PositionLogged(m)
  OBVIOUS
<1>1. ASSUME NEW f, DOMAIN f = {} PROVE SumFunction(f) = 0
  <2>1. SumFunctionOnSet(f, {}) = 0
    BY FS_EmptySet, SumZero
  <2> QED
    BY <1>1, <2>1 DEF SumFunction
<1>2. executions = <<>> /\ totalSpent = 0 /\ DOMAIN executions = {}
  BY DEF Init
<1>3. SumFunction(Costs(executions)) = 0
  BY <1>1, <1>2 DEF Costs
<1>4. ASSUME NEW m \in Markets PROVE PositionLogged(m)
  <2>1. recoveryConfigs[m].positionAmount = 0 /\ recoveryConfigs[m].costBasis = 0
    BY DEF Init, NoPosition
  <2>2. \A index : /\ SumFunction(FillsOf(executions, m, index)) = 0
                   /\ SumFunction(CostsOf(executions, m, index)) = 0
    BY <1>1, <1>2 DEF FillsOf, CostsOf
  <2> QED
    BY <2>1, <2>2 DEF PositionLogged
<1> QED
  BY <1>2, <1>3, <1>4 DEF SpentIsLogged

\* Every step keeps the log's account of the books.
LEMMA StepLog ==
  ASSUME IInv, BooksAgree, SpentIsLogged, \A m \in Markets : PositionLogged(m), [Next]_vars
  PROVE  SpentIsLogged' /\ \A m \in Markets : PositionLogged(m)'
<1>1. ASSUME EndTrade PROVE SpentIsLogged' /\ \A n \in Markets : PositionLogged(n)'
  <2>0. PICK m \in Markets, v \in Venues, s \in Sides, spent \in Nat, filled \in Nat :
          Booked(m, v, s, spent, filled)
    BY <1>1, TradeEffect
  <2>1. /\ PositionCompatible(m, v, s)
        /\ spent = 0 <=> filled = 0
        /\ totalSpent' = totalSpent + spent
        /\ executions' = Append(executions,
             [marketId |-> m, side |-> s, actualCost |-> spent, filledAmount |-> filled])
        /\ recoveryConfigs' =
             IF filled > 0
             THEN [recoveryConfigs EXCEPT ![m] = AddPosition(@, v, s, spent, filled)]
             ELSE recoveryConfigs
    BY <1>1, <2>0 DEF Booked
  <2> DEFINE e == [marketId |-> m, side |-> s, actualCost |-> spent, filledAmount |-> filled]
  <2>2. executions \in Seq(ExecutionType) /\ e \in ExecutionType /\ executions' = Append(executions, e)
    BY <2>1 DEF IInv, TypeOK, ExecutionType
  <2>3. e.actualCost = spent /\ e.filledAmount = filled
        /\ \A n, index : Entry(e, n, index) <=> n = m /\ index = OutcomeIndex(s)
    BY DEF Entry
  <2> HIDE DEF e
  <2>4. SpentIsLogged'
    BY <2>1, <2>2, <2>3, ColumnsGrow DEF SpentIsLogged
  <2>5. ASSUME NEW n \in Markets, NEW index
        PROVE  /\ SumFunction(CostsOf(executions, n, index)) \in Nat
               /\ SumFunction(FillsOf(executions, n, index)) \in Nat
               /\ SumFunction(CostsOf(executions', n, index)) =
                    SumFunction(CostsOf(executions, n, index))
                      + (IF n = m /\ index = OutcomeIndex(s) THEN spent ELSE 0)
               /\ SumFunction(FillsOf(executions', n, index)) =
                    SumFunction(FillsOf(executions, n, index))
                      + (IF n = m /\ index = OutcomeIndex(s) THEN filled ELSE 0)
    BY <2>2, <2>3, ColumnsGrow
  <2>6. ASSUME NEW n \in Markets PROVE PositionLogged(n)'
    <3> DEFINE index == recoveryConfigs[n].outcomeIndex
    <3>1. recoveryConfigs[n] \in PositionType /\ PositionLogged(n)
      BY DEF IInv, TypeOK
    <3>2. CASE recoveryConfigs'[n] = recoveryConfigs[n]
      <4>1. /\ SumFunction(FillsOf(executions', n, index)) >= SumFunction(FillsOf(executions, n, index))
            /\ SumFunction(CostsOf(executions', n, index)) >= SumFunction(CostsOf(executions, n, index))
            /\ SumFunction(CostsOf(executions', n, index)) \in Nat
            /\ SumFunction(FillsOf(executions', n, index)) \in Nat
        BY <2>5
      <4>2. /\ recoveryConfigs[n].positionAmount <= SumFunction(FillsOf(executions, n, index))
            /\ recoveryConfigs[n].costBasis <= SumFunction(CostsOf(executions, n, index))
            /\ recoveryConfigs[n].positionAmount \in Nat /\ recoveryConfigs[n].costBasis \in Nat
        BY <3>1 DEF PositionLogged, PositionType
      <4>3. /\ recoveryConfigs[n].positionAmount <= SumFunction(FillsOf(executions', n, index))
            /\ recoveryConfigs[n].costBasis <= SumFunction(CostsOf(executions', n, index))
        BY <2>5, <4>1, <4>2
      <4> QED
        BY <3>2, <4>3 DEF PositionLogged
    <3>3. CASE recoveryConfigs'[n] # recoveryConfigs[n]
      <4>1. n = m /\ recoveryConfigs'[n] = AddPosition(recoveryConfigs[n], v, s, spent, filled)
        BY <2>1, <3>3 DEF IInv, TypeOK
      <4>2. /\ recoveryConfigs'[n].outcomeIndex = OutcomeIndex(s)
            /\ recoveryConfigs'[n].positionAmount = recoveryConfigs[n].positionAmount + filled
            /\ recoveryConfigs'[n].costBasis = recoveryConfigs[n].costBasis + spent
        BY <4>1 DEF AddPosition
      <4>3. recoveryConfigs[n].positionAmount # 0 => index = OutcomeIndex(s)
        BY <2>1, <4>1 DEF PositionCompatible
      <4>4. recoveryConfigs[n].positionAmount = 0 => recoveryConfigs[n].costBasis = 0
        BY DEF BooksAgree
      <4>5. /\ recoveryConfigs[n].positionAmount <= SumFunction(FillsOf(executions, n, OutcomeIndex(s)))
            /\ recoveryConfigs[n].costBasis <= SumFunction(CostsOf(executions, n, OutcomeIndex(s)))
        BY <2>5, <3>1, <4>3, <4>4 DEF PositionLogged
      <4>6. /\ SumFunction(FillsOf(executions', n, OutcomeIndex(s))) =
                 SumFunction(FillsOf(executions, n, OutcomeIndex(s))) + filled
            /\ SumFunction(CostsOf(executions', n, OutcomeIndex(s))) =
                 SumFunction(CostsOf(executions, n, OutcomeIndex(s))) + spent
            /\ SumFunction(CostsOf(executions, n, OutcomeIndex(s))) \in Nat
            /\ SumFunction(FillsOf(executions, n, OutcomeIndex(s))) \in Nat
        BY <2>5, <4>1
      <4>7. recoveryConfigs[n].positionAmount \in Nat /\ recoveryConfigs[n].costBasis \in Nat
        BY <3>1 DEF PositionType
      <4>8. /\ recoveryConfigs'[n].positionAmount <= SumFunction(FillsOf(executions', n, OutcomeIndex(s)))
            /\ recoveryConfigs'[n].costBasis <= SumFunction(CostsOf(executions', n, OutcomeIndex(s)))
        BY <4>2, <4>5, <4>6, <4>7
      <4> QED
        BY <4>2, <4>8 DEF PositionLogged
    <3> QED
      BY <3>2, <3>3
  <2> QED
    BY <2>4, <2>6
<1>2. ASSUME NEW payout \in 0..MaxCash, EndRecover(payout)
      PROVE  SpentIsLogged' /\ \A n \in Markets : PositionLogged(n)'
  <2>0. PICK m \in Markets, basis \in Nat, delta \in Nat : Closed(m, basis, delta)
    BY <1>2, RecoverEffect
  <2>1. /\ UNCHANGED <<totalSpent, executions>>
        /\ recoveryConfigs' = [recoveryConfigs EXCEPT ![m].positionAmount = 0,
                                                      ![m].costBasis = 0,
                                                      ![m].resolved = TRUE]
    BY <1>2, <2>0 DEF EndRecover, Closed
  <2>2. ASSUME NEW n \in Markets PROVE PositionLogged(n)'
    <3>1. recoveryConfigs[n] \in PositionType /\ PositionLogged(n)
      BY DEF IInv, TypeOK
    <3>2. recoveryConfigs'[n].outcomeIndex = recoveryConfigs[n].outcomeIndex
      BY <2>1 DEF IInv, TypeOK, PositionType
    <3>3. \/ recoveryConfigs'[n] = recoveryConfigs[n]
          \/ recoveryConfigs'[n].positionAmount = 0 /\ recoveryConfigs'[n].costBasis = 0
      BY <2>1 DEF IInv, TypeOK, PositionType
    <3>4. \A index : /\ 0 <= SumFunction(FillsOf(executions, n, index))
                     /\ 0 <= SumFunction(CostsOf(executions, n, index))
      <4>1. /\ [marketId |-> m, side |-> 1, actualCost |-> 0, filledAmount |-> 0] \in ExecutionType
            /\ executions \in Seq(ExecutionType)
        BY DEF IInv, TypeOK, ExecutionType, Sides
      <4> QED
        BY <4>1, ColumnsGrow
    <3> QED
      BY <2>1, <3>1, <3>2, <3>3, <3>4 DEF PositionLogged
  <2> QED
    BY <2>1, <2>2 DEF SpentIsLogged
<1>3. CASE UNCHANGED <<totalSpent, executions, recoveryConfigs>>
  BY <1>3 DEF SpentIsLogged, PositionLogged
<1> QED
  BY <1>1, <1>2, <1>3
  DEF Next, vars, risk, Tick, Deposit, Withdraw, Donate, InitializePolicy, Revoke, BeginTrade,
      BeginRecover, Enter, EndRecoverPending

\* For logs of any length, the log of executions explains every counter and every record.
THEOREM VaultLog == Spec => []LogExplainsBooks
<1> DEFINE Logged == SpentIsLogged /\ \A m \in Markets : PositionLogged(m)
<1>1. IInv /\ BooksAgree /\ Logged /\ [Next]_vars => Logged'
  BY StepLog
<1>2. Logged => LogExplainsBooks
  BY LogExplained
<1>3. Init => Logged
  BY InitLog
<1> HIDE DEF Logged
<1> QED
  BY <1>1, <1>2, <1>3, InitBooks, StepBooks, VaultInvariant, PTL DEF Spec
=============================================================================
