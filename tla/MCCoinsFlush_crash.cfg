SPECIFICATION Spec
CONSTANTS
  g = g
  a1 = a1
  a2 = a2
  b2 = b2
  Blocks = {g, a1, a2, b2}
  Genesis = g
  NoBlock = NoBlock
  Parent <- MCParent
  Txs <- MCTxs
  Staked = {b2}
  BlocksPerFile = 3
  MaxStops = 2
INVARIANTS
  TypeOK
  CoinsOfTip
  WrittenInOrder
  FailsOnlyOnLostUndo
  ReplayKeepsTarget
CHECK_DEADLOCK FALSE
