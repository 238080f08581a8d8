SPECIFICATION Spec
CONSTANTS
  w1 = w1
  None = None
  Main = main
  Wallets = {w1}
  CanStake = {w1}
  Workers = {r1, r2}
  Threads = {t1, t2, t3}
  Requests = {"setstaking", "loadwallet", "unloadwallet"}
  LoadOptions = {"keep"}
  InitSettings <- OneSetting
SYMMETRY Symmetry
INVARIANTS
  TypeOK
  EveryThreadReachable
  SubscribersHaveWallet
  NoThreadOutlivesManager
