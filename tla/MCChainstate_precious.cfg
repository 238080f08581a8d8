SPECIFICATION Spec
CONSTANTS
  g = g
  a1 = a1
  a2 = a2
  b1 = b1
  b2 = b2
  b3 = b3
  Blocks = {g, a1, b1}
  Genesis = g
  NoBlock = NoBlock
  Parent <- MCParent
  Address <- MCAddress
  Good = {g, a1, b1}
  Malformed = {}
  Early = {}
  Threads = {t1}
  NoThread = NoThread
  StepAhead = 0
  AnyFailed = FALSE
  AnyPrecious = TRUE
  MaxCalls = 7
INVARIANTS
  TipIsBest
CHECK_DEADLOCK FALSE
