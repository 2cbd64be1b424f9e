SPECIFICATION Spec
CONSTANTS
  None = None
  c1 = c1
  c2 = c2
  c3 = c3
  alice = alice
  bob = bob
  Creds = {c1, c2, c3}
  Enclave = {c1, c2, c3}
  Rps = {rp1}
  Users = {alice, bob}
  MaxCredentials = 2
  MaxCount = 2
  U2fEnabled = TRUE
  Faults = {"flush", "key", "destroy"}
SYMMETRY Symmetry
INVARIANTS TypeOK CountersGrow PendingFresh OnePerUser RowsHaveKeys
PROPERTY ImplementsCredentialLife
