SPECIFICATION Spec
CONSTANTS
  Outpoints = {o1, o2}
  Coins = {c1, c2}
  Blocks = {b1, b2}
  Genesis = b1
  Spent = Spent
  Closed = Closed
  NoEntry = NoEntry
  Null = Null
INVARIANTS
  CachesConsistent
PROPERTIES
  ImplementsUtxoSet
