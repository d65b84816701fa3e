SPECIFICATION Spec
CONSTANTS
  Codes = {c1, c2}
  Uids = {u1}
  BatchIds = {b1}
  Keys = {}
  Writers = {w1, w2}
  NoUid = NoUid
  NoKey = NoKey
  NoBatch = NoBatch
  NoCode = NoCode
  NoText = NoText
  BetaTagMove = TRUE
  AllowForce = FALSE
  MaxBatch = 1
  MaxHistory = 4
  EnvSecret = 0
  MaxSecrets = 1
SYMMETRY Symmetry
INVARIANTS WritingTypeOK VerifiedWasPrinted
PROPERTIES CalmTapVerifies
