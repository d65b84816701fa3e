SPECIFICATION FairSpec
CONSTANTS
  Watchers = {w1}
  NoLock = NoLock
  MaxVersion = 3
  MaxFailures = 2
INVARIANT OkResultNamesWhatRuns
PROPERTIES AppliedIsAtLeastShown RequestIsTakenUp LastApplyReopens
