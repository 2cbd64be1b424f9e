CONSTANTS
  Ids = {c1, c2}
  Rows = {r1, r2}
  Pins = {p1}
  MaxCredentials = 1
  Installs = {i1, i2}
  Deks = {k1, k2, k3}
  ZeroDek = ZeroDek
  OsKeychain = TRUE
  Faults = {"write", "load", "store"}
  None = None
SPECIFICATION Spec
INVARIANT TypeOK
INVARIANT StoreReadable
INVARIANT RowsKeepPromise
INVARIANT CapacityRespected
PROPERTY ImplementsDurableStore
