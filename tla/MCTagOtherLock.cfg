SPECIFICATION Spec
CONSTANTS
  Codes = {c1, c2}
  Uids = {u1, u2}
  BatchIds = {b1}
  Keys = {}
  Writers = {w1}
  NoUid = NoUid
  NoKey = NoKey
  NoBatch = NoBatch
  NoCode = NoCode
  NoText = NoText
  BetaTagMove = FALSE
  AllowForce = FALSE
  MaxBatch = 1
  MaxHistory = 4
  EnvSecret = 0
  MaxSecrets = 1
SYMMETRY Symmetry
INVARIANT TapBindsWhatItWrote
