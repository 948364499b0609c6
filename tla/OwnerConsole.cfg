SPECIFICATION ConsoleSpec
CONSTANTS
  Tabs = {t1, t2}
  Txs = {x1, x2, x3}
SYMMETRY MCSymmetry
INVARIANTS
  UnknownIsRemembered
  OneOutstanding
CHECK_DEADLOCK FALSE
