SPECIFICATION FairSpec
CONSTANTS
  w1 = w1
  w2 = w2
  j1 = j1
  j2 = j2
  NoJob = NoJob
  Outside = Outside
  Workers = {w1, w2}
  Jobs = {j1, j2}
  Limit <- MCLimit
  Costs <- MCCosts
  WithinCaps <- MCWithinCaps
  MaxFaults = 1
  MaxChainEvents = 1
  MaxOutside = 1
INVARIANTS
  SentIsJournaled
  OneInFlight
  TerminalIsTrue
  BudgetHeld
PROPERTIES
  JournalIsFinal
  SignedIsSettled
CHECK_DEADLOCK FALSE
