SPECIFICATION FairSpec
CONSTANTS
  Codes = {c1}
  Uids = {u1, u2}
  BatchIds = {b1}
  Keys = {}
  Requests = {r1, r2}
  NoUid = NoUid
  NoKey = NoKey
  NoBatch = NoBatch
  NoReply = NoReply
  NoRow = NoRow
  BetaTagMove = FALSE
  AllowForce = FALSE
  MaxBatch = 1
  MaxHistory = 6
  MaxCrashes = 1
INVARIANT RegisteredHasTag
PROPERTIES PrintedGetsPhoto HandlersAnswer
