SPECIFICATION Spec
CONSTANTS
  None = None
  c1 = c1
  c2 = c2
  c3 = c3
  Creds = {c1, c2, c3}
  MaxSeed = 4
  Builds = {"tpm", "se", "none"}
  Prefs = {"auto", "tpm", "se", "software"}
  Faults = {"flush", "key", "destroy"}
SYMMETRY Symmetry
INVARIANTS TypeOK SessionKeysUsable KeysSurviveRestart OldSeedsDead ItemsAccounted
 
