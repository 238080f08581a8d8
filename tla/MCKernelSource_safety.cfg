SPECIFICATION Spec
CONSTANTS
  g = g
  a = a
  b = b
  t1 = t1
  t2 = t2
  Genesis <- MCGenesis
  Tree <- MCTree
  Txs = {t1, t2}
  MaxQueue = 2
  MaxStops = 2
  FirstLocators <- AnyLocator
  CrashPoints = {"first", "loop", "write", "done", "exited"}
  StakeMinAge = 1
  StakeTimes = {3}
INVARIANTS
  SoundLocatorKeepsSync
  DrainedIndexCoversChain
  IndexConsistent
