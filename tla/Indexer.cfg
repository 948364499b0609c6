SPECIFICATION FairSpec
CONSTANTS
  create = create
  deposit = deposit
  v1 = v1
  Factory = Factory
  NoVault = NoVault
  Txs = {create, deposit}
  Vaults = {v1}
  Emitter <- MCEmitter
  Creates <- MCCreates
  Confirmations = 1
  BatchSize = 2
  MaxReorg = 3
  MaxLag = 1
  MaxHeight = 4
  MaxHashes = 7
  MaxCrashes = 1
INVARIANTS
  IndexIsExact
  ScanReadsOneFork
PROPERTIES
  CatchesUp
CHECK_DEADLOCK FALSE
