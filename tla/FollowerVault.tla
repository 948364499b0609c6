--------------------------- MODULE FollowerVault ---------------------------
(***************************************************************************)
(* One follower's vault (contracts/src/ProofCastFollowerVault.sol): the    *)
(* follower's collateral, the policy the executor installs, the orders     *)
(* placed through the adapter and the recovery of the positions bought.    *)
(*                                                                         *)
(* executeTrade and recover call the adapter in the middle of their work   *)
(* and have no guard of their own against being entered again, nor has the *)
(* executor that relays a trade.  They are therefore two steps here, up to *)
(* the adapter and from its answer on, and calls is the stack of calls     *)
(* that wait for it: meanwhile the owner, the executor and anybody with    *)
(* tokens may act in the same transaction.  What keeps the adapter from    *)
(* being entered twice is its own nonReentrant (AdapterFree).  For the     *)
(* rest it is arbitrary: the vault's checks decide on what it reports and  *)
(* on what the balance became.  A call that reverts leaves no trace and is *)
(* no step; one that cannot return is one that reverts.  The collateral is *)
(* a token whose transfers call nobody.  Resolution module, operator,      *)
(* venue and generation of a market are one value, its "venue".            *)
(***************************************************************************)
EXTENDS OrderResults, Sequences, FiniteSets, Functions

CONSTANTS
  Markets,        \* market ids
  Venues,         \* (resolution module, operator, venue, generation) tuples
  NoVenue,        \* the zero resolution module
  Prices,         \* signal prices a request may carry
  Quantities,     \* order quantities a request may carry
  Amounts,        \* token amounts of deposits and withdrawals
  Policies,       \* policies the executor may try to install
  MaxTime,        \* bound: last block timestamp
  MaxCash,        \* bound: the vault's balance, and what is taken out beyond the deposits
  MaxExecutions   \* bound: executeTrade calls

PolicyType ==
  [allowedSides: SUBSET Sides, maxPrice: [Sides -> Nat], maxOrderCost: Nat,
   totalRiskBudget: Nat, validUntil: Nat]

ASSUME InputsAssumption ==
  /\ Prices \subseteq Nat /\ Quantities \subseteq Nat /\ Amounts \subseteq Nat
  /\ Policies \subseteq PolicyType
ASSUME BoundsAssumption == MaxTime \in Nat /\ MaxCash \in Nat /\ MaxExecutions \in Nat
ASSUME VenueAssumption == NoVenue \notin Venues
ASSUME MarketsAssumption == IsFiniteSet(Markets)   \* a market id is a 32-byte word

VARIABLES
  now,             \* block.timestamp
  policy,          \* the policy's limits; zeros until it is installed
  active,          \* policy.active
  revoked,
  openRisk,        \* cost of all open positions
  realizedLoss,
  totalSpent,
  executions,      \* executions[1..executionCount]
  marketOpenRisk,
  recoveryConfigs, \* per market: what is held and what it cost
  recoveryCount,
  cash,            \* collateral.balanceOf(vault)
  calls,           \* the calls waiting for the adapter, innermost last
  netDeposited     \* history: deposits minus withdrawals; what is paid in while a
                   \* call waits is not told from the adapter's money, nor counted

risk == <<openRisk, realizedLoss, totalSpent, executions, marketOpenRisk,
          recoveryConfigs, recoveryCount>>
vars == <<now, policy, active, revoked, risk, cash, calls, netDeposited>>

NoPolicy ==
  [allowedSides |-> {}, maxPrice |-> [s \in Sides |-> 0], maxOrderCost |-> 0,
   totalRiskBudget |-> 0, validUntil |-> 0]

NoPosition ==
  [venue |-> NoVenue, outcomeIndex |-> 0, positionAmount |-> 0, costBasis |-> 0,
   resolved |-> FALSE]

-----------------------------------------------------------------------------
(* The contract's view functions.                                          *)

\* Faulty variant of RemainingRisk: a settled loss frees its budget again.
RemainingRiskForgetsLoss ==
  IF openRisk > policy.totalRiskBudget THEN 0 ELSE policy.totalRiskBudget - openRisk

RemainingRisk ==
  IF realizedLoss > policy.totalRiskBudget \/ openRisk > policy.totalRiskBudget - realizedLoss
  THEN 0
  ELSE policy.totalRiskBudget - realizedLoss - openRisk

SideAndPriceAllowed(side, price) ==
  /\ side \in policy.allowedSides
  /\ price # 0
  /\ price <= policy.maxPrice[side]

\* Faulty variant of PolicyLive: the revocation flag is not read.
PolicyLiveIgnoresRevocation == active /\ now <= policy.validUntil

PolicyLive == active /\ ~revoked /\ now <= policy.validUntil

Least(a, b) == IF a <= b THEN a ELSE b

PreviewMaxCost == Least(Least(policy.maxOrderCost, RemainingRisk), cash)

\* Faulty variant of QuoteQuantity: rounded up.
QuoteQuantityRoundedUp(maxCost, price) == (maxCost * PriceScale + price - 1) \div price

\* The quantity previewTrade quotes for a cost: rounded down.
QuoteQuantity(maxCost, price) == (maxCost * PriceScale) \div price

PreviewSucceeds(side, price) ==
  /\ PolicyLive
  /\ SideAndPriceAllowed(side, price)
  /\ QuoteQuantity(PreviewMaxCost, price) # 0
  /\ (price * QuoteQuantity(PreviewMaxCost, price)) \div PriceScale # 0

\* executeTrade's checks on the order's worst cost.
CostAdmitted(price, quantity) ==
  LET expected == ExpectedCost(price, quantity)
  IN  expected # 0 /\ expected <= policy.maxOrderCost /\ expected <= RemainingRisk /\ expected <= cash

-----------------------------------------------------------------------------
Init ==
  /\ now = 0
  /\ policy = NoPolicy /\ active = FALSE /\ revoked = FALSE
  /\ openRisk = 0 /\ realizedLoss = 0 /\ totalSpent = 0
  /\ executions = <<>>
  /\ marketOpenRisk = [m \in Markets |-> 0]
  /\ recoveryConfigs = [m \in Markets |-> NoPosition]
  /\ recoveryCount = 0
  /\ cash = 0 /\ calls = <<>> /\ netDeposited = 0

\* A transaction has one timestamp.
Tick ==
  /\ calls = <<>>
  /\ now < MaxTime
  /\ now' = now + 1
  /\ UNCHANGED <<policy, active, revoked, risk, cash, calls, netDeposited>>

\* deposit: the amount is what the token really moved, not what was asked.
Deposit(amount) ==
  /\ cash + amount <= MaxCash
  /\ cash' = cash + amount
  /\ netDeposited' = IF calls = <<>> THEN netDeposited + amount ELSE netDeposited
  /\ UNCHANGED <<now, policy, active, revoked, risk, calls>>

\* withdraw: open positions are no claim on the remaining cash.
Withdraw(amount) ==
  /\ amount <= cash
  /\ netDeposited - amount >= -MaxCash
  /\ cash' = cash - amount
  /\ netDeposited' = netDeposited - amount
  /\ UNCHANGED <<now, policy, active, revoked, risk, calls>>

\* Anybody sends the vault tokens.
Donate(amount) ==
  /\ cash + amount <= MaxCash
  /\ cash' = cash + amount
  /\ UNCHANGED <<now, policy, active, revoked, risk, calls, netDeposited>>

InitializePolicy(next) ==
  /\ ~active
  /\ next.allowedSides # {}
  /\ \A s \in Sides : next.maxPrice[s] \in 1..PriceScale
  /\ next.maxOrderCost # 0 /\ next.totalRiskBudget # 0
  /\ next.validUntil > now
  /\ policy' = next
  /\ active' = TRUE
  /\ UNCHANGED <<now, revoked, risk, cash, calls, netDeposited>>

Revoke ==
  /\ active /\ ~revoked
  /\ revoked' = TRUE
  /\ UNCHANGED <<now, policy, active, risk, cash, calls, netDeposited>>

-----------------------------------------------------------------------------
(* Calls of the adapter.                                                   *)

\* Faulty variant of AdapterFree: the adapter may be entered once more.
AdapterFreeTwice == Len(calls) < 2

\* The adapter's nonReentrant: placeBuyIoc and recover share one lock.
AdapterFree == calls = <<>>

Top == calls[Len(calls)]

\* The call reads the balance and enters the adapter.
Enter(call) ==
  /\ AdapterFree
  /\ calls' = Append(calls, call)
  /\ UNCHANGED <<now, policy, active, revoked, risk, cash, netDeposited>>

Return(kind) ==
  /\ calls # <<>>
  /\ Top.kind = kind
  /\ calls' = SubSeq(calls, 1, Len(calls) - 1)

-----------------------------------------------------------------------------
(* executeTrade                                                            *)

\* Faulty variant of PositionCompatible: any second trade is accepted.
PositionCompatibleAlways(market, venue, side) == TRUE

\* An open position may only grow on the same venue and the same side.
PositionCompatible(market, venue, side) ==
  recoveryConfigs[market].positionAmount # 0 =>
    /\ recoveryConfigs[market].venue = venue
    /\ recoveryConfigs[market].outcomeIndex = OutcomeIndex(side)

\* Faulty variant of AddPosition: the resolved mark of an earlier recovery is kept.
AddPositionKeepsResolved(config, venue, side, spent, filled) ==
  [config EXCEPT !.venue = venue, !.outcomeIndex = OutcomeIndex(side),
                 !.positionAmount = @ + filled, !.costBasis = @ + spent]

AddPosition(config, venue, side, spent, filled) ==
  [venue |-> venue, outcomeIndex |-> OutcomeIndex(side),
   positionAmount |-> config.positionAmount + filled,
   costBasis |-> config.costBasis + spent, resolved |-> FALSE]

\* Up to placeBuyIoc.  The request's expiry is the executor's choice and only has to
\* be later than now, so it is not a parameter.
BeginTrade(market, venue, side, price, quantity) ==
  /\ Len(executions) < MaxExecutions
  /\ PolicyLive
  /\ SideAndPriceAllowed(side, price)
  /\ quantity # 0
  /\ CostAdmitted(price, quantity)
  /\ PositionCompatible(market, venue, side)
  /\ Enter([kind |-> "trade", market |-> market, venue |-> venue, side |-> side, price |-> price,
            quantity |-> quantity, before |-> cash, revoked |-> revoked])

\* From the adapter's answer on: the adapter has taken what the vault approved at most.
EndTrade ==
  /\ Return("trade")
  /\ \E status \in Statuses, filled \in 0..Top.quantity, after \in 0..cash :
       LET market == Top.market
           spent == Top.before - after
       IN  /\ cash - after <= ExpectedCost(Top.price, Top.quantity)
           /\ spent >= 0
           /\ ResultAccepted(status, spent, filled, Top.price, Top.quantity)
           /\ cash' = after
           /\ openRisk' = openRisk + spent
           /\ totalSpent' = totalSpent + spent
           /\ marketOpenRisk' = [marketOpenRisk EXCEPT ![market] = @ + spent]
           /\ executions' = Append(executions,
                [marketId |-> market, side |-> Top.side, actualCost |-> spent, filledAmount |-> filled])
           /\ recoveryConfigs' =
                IF filled > 0
                THEN [recoveryConfigs EXCEPT ![market] = AddPosition(@, Top.venue, Top.side, spent, filled)]
                ELSE recoveryConfigs
  /\ UNCHANGED <<now, policy, active, revoked, realizedLoss, recoveryCount, netDeposited>>

-----------------------------------------------------------------------------
(* recover: anybody may call it, at any time, revoked or not.              *)

\* The guards on the vault's own books.
RecoveryAvailable(market) ==
  /\ ~recoveryConfigs[market].resolved
  /\ recoveryConfigs[market].positionAmount # 0
  /\ recoveryConfigs[market].venue # NoVenue

BooksCover(market) ==
  /\ openRisk >= recoveryConfigs[market].costBasis
  /\ marketOpenRisk[market] >= recoveryConfigs[market].costBasis

\* Up to the adapter's recover.
BeginRecover(market) ==
  /\ RecoveryAvailable(market)
  /\ Enter([kind |-> "recovery", market |-> market, before |-> cash, revoked |-> revoked])

\* The adapter has paid and reports RECOVERED: the position, read again, is closed for
\* what the balance gained.
EndRecover(payout) ==
  /\ Return("recovery")
  /\ BooksCover(Top.market)
  /\ cash + payout \in Top.before..MaxCash
  /\ LET market == Top.market
         basis == recoveryConfigs[market].costBasis
         delta == cash + payout - Top.before
     IN  /\ cash' = cash + payout
         /\ openRisk' = openRisk - basis
         /\ marketOpenRisk' = [marketOpenRisk EXCEPT ![market] = @ - basis]
         /\ realizedLoss' = IF delta < basis THEN realizedLoss + (basis - delta) ELSE realizedLoss
         /\ recoveryConfigs' = [recoveryConfigs EXCEPT ![market].positionAmount = 0,
                                                       ![market].costBasis = 0,
                                                       ![market].resolved = TRUE]
  /\ recoveryCount' = recoveryCount + 1
  /\ UNCHANGED <<now, policy, active, revoked, totalSpent, executions, netDeposited>>

\* The adapter reports PAYOUT_PENDING: the balance must be what it was.
EndRecoverPending(payout) ==
  /\ Return("recovery")
  /\ cash + payout = Top.before
  /\ cash' = cash + payout
  /\ UNCHANGED <<now, policy, active, revoked, risk, netDeposited>>

Next ==
  \/ Tick
  \/ \E a \in Amounts : Deposit(a) \/ Withdraw(a) \/ Donate(a)
  \/ \E p \in Policies : InitializePolicy(p)
  \/ Revoke
  \/ \E m \in Markets, v \in Venues, s \in Sides, p \in Prices, q \in Quantities :
       BeginTrade(m, v, s, p, q)
  \/ EndTrade
  \/ \E m \in Markets : BeginRecover(m)
  \/ \E payout \in 0..MaxCash : EndRecover(payout) \/ EndRecoverPending(payout)

Spec == Init /\ [][Next]_vars

-----------------------------------------------------------------------------
(* Properties                                                              *)

PositionType ==
  [venue: Venues \cup {NoVenue}, outcomeIndex: {0, 1}, positionAmount: Nat,
   costBasis: Nat, resolved: BOOLEAN]

ExecutionType ==
  [marketId: Markets, side: Sides, actualCost: Nat, filledAmount: Nat]

CallType ==
  [kind: {"trade"}, market: Markets, venue: Venues, side: Sides, price: Prices,
   quantity: Quantities, before: Nat, revoked: BOOLEAN]
  \cup [kind: {"recovery"}, market: Markets, before: Nat, revoked: BOOLEAN]

\* Every variable has its type; in particular no unsigned subtraction underflows.
TypeOK ==
  /\ now \in Nat
  /\ policy \in PolicyType
  /\ active \in BOOLEAN /\ revoked \in BOOLEAN
  /\ openRisk \in Nat /\ realizedLoss \in Nat /\ totalSpent \in Nat
  /\ executions \in Seq(ExecutionType)
  /\ marketOpenRisk \in [Markets -> Nat]
  /\ recoveryConfigs \in [Markets -> PositionType]
  /\ recoveryCount \in Nat
  /\ cash \in Nat
  /\ calls \in Seq(CallType)
  /\ netDeposited \in Int

\* The money at risk and the money already lost never exceed the follower's
\* lifetime budget together, whatever the adapter reports, whatever the owner, the
\* executor and others do while it works, and however often profitable positions are
\* recovered in between (_remainingRisk, executeTrade, recover).  The cost is admitted
\* before the adapter is called and booked after it: the property rests on the adapter's
\* lock.
LifetimeBudget == openRisk + realizedLoss <= policy.totalRiskBudget

\* End to end: trading can never cost the follower more than the budget.  What was
\* put in, less what was taken out and what is still there, is within it.  A deposit
\* made from inside a call of the adapter hides as much of the cost of the order and is
\* not counted as put in.
NetLossWithinBudget == netDeposited - cash <= policy.totalRiskBudget

\* The three places that hold the cost of a market's open position agree: the total,
\* the per-market counter and the recovery record; and a position is held exactly when
\* it cost something.
BooksAgree ==
  /\ openRisk = SumFunction(marketOpenRisk)
  /\ \A m \in Markets :
       /\ marketOpenRisk[m] = recoveryConfigs[m].costBasis
       /\ recoveryConfigs[m].positionAmount = 0 <=> recoveryConfigs[m].costBasis = 0

\* A held position can always be recovered as far as the vault is concerned: the books
\* agree, and none of recover's own checks on them can refuse it, ever.
PositionsRecoverable ==
  /\ BooksAgree
  /\ \A m \in Markets :
       recoveryConfigs[m].positionAmount > 0 => RecoveryAvailable(m) /\ BooksCover(m)

\* The log of executions explains the counters: their costs add up to totalSpent and
\* no position or basis exceeds what the log bought in that market on that side.
LogExplainsBooks ==
  LET Column(f(_), test(_)) ==
        SumFunction([i \in DOMAIN executions |-> IF test(executions[i]) THEN f(executions[i]) ELSE 0])
      Cost(e) == e.actualCost
      Filled(e) == e.filledAmount
      Any(e) == TRUE
  IN  /\ totalSpent = Column(Cost, Any)
      /\ \A m \in Markets :
           LET Mine(e) == e.marketId = m /\ OutcomeIndex(e.side) = recoveryConfigs[m].outcomeIndex
           IN  /\ recoveryConfigs[m].positionAmount <= Column(Filled, Mine)
               /\ recoveryConfigs[m].costBasis <= Column(Cost, Mine)

\* What previewTrade quotes, executeTrade admits in the same block: the rounding up of
\* the cost undoes the rounding down of the quantity and never overshoots a limit.
QuoteIsAdmitted ==
  \A s \in Sides, p \in Prices :
    PreviewSucceeds(s, p) => CostAdmitted(p, QuoteQuantity(PreviewMaxCost, p))

\* While a position is held, the key it is recovered by (venue and outcome) does not
\* change, so the adapter can always find it: a second trade in the same market may
\* neither flip the side nor move the venue.
HeldPositionKeepsItsKey ==
  [][\A m \in Markets :
       recoveryConfigs[m].positionAmount > 0 /\ recoveryConfigs'[m].positionAmount > 0 =>
         /\ recoveryConfigs'[m].venue = recoveryConfigs[m].venue
         /\ recoveryConfigs'[m].outcomeIndex = recoveryConfigs[m].outcomeIndex]_vars

\* A revocation inside a call takes effect for the ledger when the call returns: the
\* order it interrupts is still booked.
ClosedOutside == revoked /\ (calls = <<>> \/ calls[1].revoked)

\* The vault implements the lifetime risk ledger.
Ledger == INSTANCE LifetimeRisk
            WITH budget <- policy.totalRiskBudget, atRisk <- openRisk,
                 lost <- realizedLoss, closed <- ClosedOutside
ImplementsLifetimeRisk == Ledger!Spec
=============================================================================
