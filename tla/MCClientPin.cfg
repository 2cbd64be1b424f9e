CONSTANTS
  Pins = {p1, p2}
  Rps = {r1, r2}
  MaxRetries = 8
  Faults = {"flush"}
  None = None
SPECIFICATION Spec
INVARIANT TypeOK
INVARIANT NoFreeGuess
INVARIANT TokenForOneRp
INVARIANT NoTokenAfterChange
