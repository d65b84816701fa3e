SPECIFICATION Spec
CONSTANTS
  Codes = {c1, c2}
  Uids = {u1, u2}
  BatchIds = {b1}
  Keys = {}
  Requests = {r1, r2}
  NoUid = NoUid
  NoKey = NoKey
  NoBatch = NoBatch
  NoReply = NoReply
  NoRow = NoRow
  BetaTagMove = TRUE
  AllowForce = FALSE
  MaxBatch = 1
  MaxHistory = 7
  MaxCrashes = 1
SYMMETRY Symmetry
INVARIANTS HandlersTypeOK TaggedWerePrinted ConfirmedTagIsFinal
PROPERTIES HandlersUseRegistry
