SPECIFICATION FairSpec
CONSTANTS
  child = child
  source = source
  h = h
  q = q
  r = r
  None = None
  Txs = {child, source}
  Peers = {h, q, r}
  Announces <- MCAnnounces
  Parent <- MCParent
  Honest = {h}
  Preferred = {q}
  Priority <- MCPriority
  NonPrefDelay = 1
  TxidRelayDelay = 1
  OverloadDelay = 1
  MaxInFlight = 1
  MaxAnnounced = 1
  Interval = 2
  MaxUpsets = 1
INVARIANTS
  TrackerConsistent
PROPERTIES
  ImplementsAnnouncements
  HonestPeerServed
