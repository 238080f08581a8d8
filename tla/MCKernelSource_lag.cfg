SPECIFICATION Spec
CONSTANTS
  g = g
  a = a
  b = b
  t1 = t1
  t2 = t2
  Genesis <- MCGenesis
  Tree <- MCTree
  Txs = {t1, t2}
  MaxQueue = 2
  MaxStops = 1
  FirstLocators <- NoLocator
  CrashPoints = {}
  StakeMinAge = 1
  StakeTimes = {3}
INVARIANTS
  SourceFound
