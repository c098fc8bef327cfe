CONSTANTS
  a = a
  b = b
  a0 = a0
  a1 = a1
  a1x = a1x
  b0 = b0
  Account = {a}
  Hash = {a0, a1}
  Sender <- MCSender
  Nonce <- MCNonce
  Fee <- MCFee
  Gas <- MCGas
  Order = "fees"
  BlockGasLimit = 9
  Unfunded = {}
  RawClients = {"c1"}
  SendClients = {}
  ManualMiners = {}
  Admin = {"automine", "interval"}
  InitialMode = "Mixed"
  MaxTransactions = 1
  AutoMineLimit = 2
  ListenerSize = 1
  Forced <- NoTxs
  Flaky = {}
  Early = {a1}
  MaxQueued = 1
  MaxRenotify = 1
SPECIFICATION Spec
INVARIANTS
  MinerAwake
  InvalidIsSpent
