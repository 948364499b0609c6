SPECIFICATION Spec
CONSTANTS
  m1 = m1
  m2 = m2
  v1 = v1
  v2 = v2
  NoVenue = NoVenue
  Markets = {m1, m2}
  Venues = {v1, v2}
  PriceScale <- MCScale
  Prices <- MCPrices
  Quantities <- MCQuantities
  Amounts <- MCAmounts
  Policies <- MCPolicies
  MaxTime = 1
  MaxCash = 3
  MaxExecutions = 2
SYMMETRY MCSymmetry
INVARIANTS
  LifetimeBudget
  NetLossWithinBudget
  PositionsRecoverable
  LogExplainsBooks
  QuoteIsAdmitted
PROPERTIES
  HeldPositionKeepsItsKey
  ImplementsLifetimeRisk
CHECK_DEADLOCK FALSE
