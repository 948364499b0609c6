SPECIFICATION Spec
CONSTANTS
  v1 = v1
  v2 = v2
  p1 = p1
  p2 = p2
  NoPool = NoPool
  Vaults = {v1, v2}
  Markets = {m1}
  Pools = {p1, p2}
  PriceScale = 4
  TickSize = 1
  LotSize = 2
  MinQuantity = 2
  Prices = {1, 3}
  Quantities = {2, 3}
  MaxGeneration = 2
  MaxTrades = 3
  MaxDonations = 1
SYMMETRY MCSymmetry
INVARIANTS
  CustodyCovers
  HoldingsMatchVaults
  RecoveryNeverRefused
  AnswersFitVault
CHECK_DEADLOCK FALSE
