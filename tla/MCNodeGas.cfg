CONSTANTS
  a = a
  b = b
  a0 = a0
  a1 = a1
  a1x = a1x
  b0 = b0
  Account = {a, b}
  Hash = {a0, b0}
  Sender <- MCSender
  Nonce <- MCNonce
  Fee <- MCFee
  Gas <- MCGas
  Order = "fees"
  BlockGasLimit = 1
  Unfunded = {}
  RawClients = {"c1", "c2"}
  SendClients = {}
  ManualMiners = {}
  Admin = {}
  InitialMode = "Auto"
  MaxTransactions = 3
  AutoMineLimit = 2
  ListenerSize = 1
  Forced <- NoTxs
  Flaky = {}
  Early = {}
  MaxQueued = 1
  MaxRenotify = 1
SPECIFICATION Spec
INVARIANT MinerAwake
