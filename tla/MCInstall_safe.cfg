SPECIFICATION FairSpec
CONSTANTS
  r1 = r1
  r2 = r2
  None = None
  Torn = Torn
  Releases <- MCReleases
  Ships <- TreeDropped
  TreeCount = 2
  MaxRuns = 2
  MaxKills = 1
  MaxReboots = 1
  MaxPanelCrashes = 1
  MaxWrites = 1
CHECK_DEADLOCK FALSE
INVARIANT TypeOK
INVARIANT CompleteIsWhole
INVARIANT FailedRestoresFiles
INVARIANT FailedLosesNothing
INVARIANT PreviousTreeKept
PROPERTY ImplementsAtomicRelease
PROPERTY PanelComesBack
