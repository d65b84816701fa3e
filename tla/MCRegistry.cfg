SPECIFICATION OpenBatchSpec
CONSTANTS
  Codes = {c1, c2}
  Uids = {u1, u2}
  BatchIds = {b1}
  Keys = {}
  NoUid = NoUid
  NoKey = NoKey
  NoBatch = NoBatch
  NoLock = NoLock
  BetaTagMove = TRUE
  AllowForce = TRUE
  MaxBatch = 1
  MaxHistory = 4
SYMMETRY Symmetry
INVARIANTS TagOnOneLock AuditTrail
PROPERTIES IssuedOnce TerminalOnceRendered TagsAreMarried
