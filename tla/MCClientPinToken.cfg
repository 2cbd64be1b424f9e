CONSTANTS
  Pins = {p1, p2}
  Rps = {r1, r2}
  MaxRetries = 3
  Faults = {"flush", "reset"}
  None = None
SPECIFICATION Spec
INVARIANT TokenOfPresentPin
