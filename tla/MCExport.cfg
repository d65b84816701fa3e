SPECIFICATION Spec
CONSTANTS
  Requests <- MCRequests
  BodyOf <- MCBodyOf
  NumberOf <- MCNumberOf
  XMin = 0
  YMin = 0
  LockW = 60
  LockH = 90
  MaxBatch = 5
INVARIANTS ExportTypeOK LocksApart FitsMeansOnPlate FileReadsAsAsked PartsAgree
