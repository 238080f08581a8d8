SPECIFICATION SerialSpec
CONSTANTS
  w1 = w1
  None = None
  Main = main
  Wallets = {w1, w2}
  CanStake = {w1}
  Workers = {r1}
  Threads = {t1, t2}
  Requests = {"setstaking", "staking", "loadwallet", "unloadwallet"}
  LoadOptions = {"keep", "add", "remove"}
  InitSettings <- SomeSettings
INVARIANTS
  OneThreadPerWallet
  EnabledWalletHasStaker
  UnloadMarksOnce
