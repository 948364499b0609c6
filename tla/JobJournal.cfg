SPECIFICATION JournalSpec
CONSTANTS
  NoWorker = NoWorker
  Intents = {i1, i2}
  WorkerIds = {w1, w2}
  Leases = {1, 2}
  MaxTime = 2
SYMMETRY MCSymmetry
INVARIANTS
  LeasesDisjoint
CHECK_DEADLOCK FALSE
