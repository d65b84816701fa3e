SPECIFICATION Spec
CONSTANTS
  Keys = {k1, k2}
  FullKey = FullKey
  EnvKeys = {e1}
  NoKey = NoKey
  Requests = {r1, r2}
  Admins = {a1}
  MaxLog = 1
  MaxCrashes = 1
SYMMETRY Symmetry
INVARIANTS RevokedStaysOut UseLeavesTrace LogIsWhole
