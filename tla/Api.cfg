SPECIFICATION Spec
CONSTANTS
  NoAccount = NoAccount
  NoChallenge = NoChallenge
  Accounts = {a1, a2}
  Challenges = {c1, c2}
  Tokens = {t1, t2}
  Requests = {r1, r2}
  Ids = {s1}
  EnrollmentIds = {e1, e2}
  Deadlines = {0, 1}
  ChallengeLife = 1
  SessionLife = 1
  MaxTime = 1
SYMMETRY MCSlotSymmetry
INVARIANTS
  OneSessionPerChallenge
  PublicIsObserved
  RowsAreSignedFor
PROPERTIES
  LoggedOutStaysOut
CHECK_DEADLOCK FALSE
