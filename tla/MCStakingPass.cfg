SPECIFICATION Spec
CONSTANTS
  g = g
  a = a
  b = b
  m = m
  k = k
  Staked = Staked
  Genesis <- MCGenesis
  Tree <- MCTree
  First <- MCFirst
  Txs = {m, k}
  Minted = {m}
  Old = {k}
  Shared = {k}
  ProofHash <- MCProofHash
  StakeMinAge = 1
  Maturity = 2
  MaxQueue = 3
CHECK_DEADLOCK FALSE
INVARIANTS
  TypeOK
  BuiltBlockValid
  SubmittedBlockAccepted
  OrphanedStakesReturned
PROPERTIES
  SpentCoinCostsOnePass
  StakesWhenQuiet
