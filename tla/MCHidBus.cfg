CONSTANTS
  InitPayload = 2
  ContPayload = 3
  MaxSeq = 2
  MaxMessage = 11
  z = z
  a = a
  b = b
  Cids <- MCCids
  ZeroCid = z
  Cmds = {cbor}
  Data = {d1, d2}
  Lengths <- MCLengths
  None = None
SPECIFICATION Spec
INVARIANT TypeOK
INVARIANT MessageIsWhatOneHostSent
INVARIANT IntactMessageDelivered
