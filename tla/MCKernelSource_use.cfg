SPECIFICATION FairSpec
CONSTANTS
  g = g
  a = a
  b = b
  t1 = t1
  t2 = t2
  Genesis <- MCGenesis
  Tree <- MCTree
  Txs = {t1, t2}
  MaxQueue = 2
  MaxStops = 1
  FirstLocators <- NoLocator
  CrashPoints = {"first", "loop", "write", "done", "exited"}
  StakeMinAge = 1
  StakeTimes = {3}
PROPERTIES
  IndexCatchesUp
INVARIANTS
  SourceOnOwnChain
  SourceFoundWhenSynced
