SPECIFICATION Spec
CONSTANTS
  Codes = {c1, c2}
  Uids = {}
  BatchIds = {b1, b2}
  Keys = {k1, EmptyKey}
  Requests = {r1, r2}
  NoUid = NoUid
  NoKey = NoKey
  EmptyKey = EmptyKey
  NoBatch = NoBatch
  NoReply = NoReply
  BetaTagMove = FALSE
  AllowForce = FALSE
  MaxBatch = 2
  MaxHistory = 4
  MaxCrashes = 1
SYMMETRY Symmetry
INVARIANT VoidedStaysVoided
