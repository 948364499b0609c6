SPECIFICATION FairSpec
CONSTANTS
  m1 = m1
  m2 = m2
  k1 = k1
  k2 = k2
  t1 = t1
  t2 = t2
  c = c
  f = f
  s1 = s1
  e1 = e1
  NoAccount = NoAccount
  Accounts = {c, f}
  Sessions = {s1}
  Markets = {m1, m2}
  Enrollments = {e1}
  Manifests <- MCManifests
  TradingStart <- MCStart
  Expiry <- MCExpiry
  Collateral <- MCMixedCollateral
  Collaterals = {k1, k2}
  Terms = {t1, t2}
  Policies <- MCPolicies
  Nonces = {1}
  MaxTime = 4
  MaxAnnotations = 1
INVARIANTS
  ConsentPrecedesSignal
  ExecutedWithinConsent
  ExecutedOnce
  NonceAnchorsOneSignal
  EnrollmentMatchesVault
PROPERTIES
  HistoryIsFinal
  NoExecutionAfterStop
  PositionsAreRecovered
CHECK_DEADLOCK FALSE
