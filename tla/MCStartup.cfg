SPECIFICATION FairSpec
CONSTANTS
  Codes = {c1, c2}
  OldTables <- MCOldTables
  Requests = {r1, r2}
  Targets = {"printed"}
  None = None
  MaxStops = 1
  MaxFails = 1
  MaxHistory = 3
INVARIANTS StartupTypeOK ReadyWhenServed HistoryTells
PROPERTY ServiceComesUp
