CONSTANTS
  a = a
  b = b
  a0 = a0
  a1 = a1
  a1x = a1x
  a2 = a2
  b0 = b0
  Account <- MCAccount
  Hash <- MCHash
  Sender <- MCSender
  Nonce <- MCNonce
  Fee <- MCFee
  MarkerLists <- MCMarkerLists
SPECIFICATION Spec
PROPERTY DropRemoves
