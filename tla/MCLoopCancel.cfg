CONSTANTS
  InitPayload = 1
  ContPayload = 1
  MaxSeq = 1
  MaxMessage = 2
  z = z
  bc = bc
  a = a
  b = b
  Cids = {bc, a, b}
  ZeroCid = z
  Bcast = bc
  Cmds = {"init", "cbor", "cancel"}
  Data = {d}
  Lengths = {1, 2}
  None = None
  MaxChannels = 1
  NonceLen = 1
  MsgSupported = TRUE
  MaxTxn = 2
SPECIFICATION Spec
PROPERTY CancelSetsToken
