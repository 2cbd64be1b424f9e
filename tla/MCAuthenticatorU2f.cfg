SPECIFICATION Spec
CONSTANTS
  None = None
  c1 = c1
  c2 = c2
  c3 = c3
  alice = alice
  bob = bob
  Creds = {c1, c2}
  Enclave = {}
  Rps = {rp1}
  Users = {alice, bob}
  MaxCredentials = 2
  MaxCount = 3
  U2fEnabled = TRUE
  Faults = {}
INVARIANT NoCounterReused
