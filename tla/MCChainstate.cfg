SPECIFICATION FairSpec
CONSTANTS
  g = g
  a1 = a1
  a2 = a2
  b1 = b1
  b2 = b2
  b3 = b3
  Blocks = {g, a1, a2, b1, b2, b3}
  Genesis = g
  NoBlock = NoBlock
  Parent <- MCParent
  Address <- MCAddress
  Good = {g, a1, a2, b1}
  Malformed = {b3}
  Early = {b1, b3}
  Threads = {t1, t2}
  NoThread = NoThread
  StepAhead = 0
  AnyFailed = FALSE
  AnyPrecious = FALSE
  MaxCalls = 2
INVARIANTS
  TipIsBest
  ChainNotFailed
  BlockIndexConsistent
PROPERTIES
  UnlockedWithProgress
  CallsReturn
CHECK_DEADLOCK FALSE
