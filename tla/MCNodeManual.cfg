CONSTANTS
  a = a
  b = b
  a0 = a0
  a1 = a1
  a1x = a1x
  b0 = b0
  Account = {a}
  Hash = {a0, a1}
  Sender <- MCSender
  Nonce <- MCNonce
  Fee <- MCFee
  Gas <- MCGas
  Order = "fees"
  BlockGasLimit = 9
  Unfunded = {a1}
  RawClients = {}
  SendClients = {"s"}
  ManualMiners = {"m"}
  Admin = {}
  InitialMode = "Auto"
  MaxTransactions = 2
  AutoMineLimit = 2
  ListenerSize = 1
  Forced <- ForcedTxs
  Flaky = {a0}
  Early = {}
  MaxQueued = 1
  MaxRenotify = 1
SPECIFICATION Spec
INVARIANT NoncesConsecutive
