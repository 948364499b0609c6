SPECIFICATION MCSpec
CONSTANTS
  NoFollower = NoFollower
  Markets = {m1, m2}
  Enrollments = {e1, e2}
  Followers = {f1, f2}
  MaxTime = 4
  SignalIds = {"s1", "s2"}
  MaxFill = 2
SYMMETRY MCSymmetry
INVARIANTS
  LogExplainsSession
  NoSignalIsTrue
  OutcomesAreDistinct
CHECK_DEADLOCK FALSE
