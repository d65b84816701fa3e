SPECIFICATION StoreSpec
CONSTANTS
  Readers = {g1, g2}
  Partial = Partial
  MaxUploads = 4
  MaxCuts = 2
SYMMETRY ReaderSymmetry
INVARIANTS StoreServesLastSave ServedIsWholeAndCurrent
CHECK_DEADLOCK FALSE
