SPECIFICATION FairSpec
CONSTANTS
  k1 = k1
  k2 = k2
  Corrupt = Corrupt
  Last = 6
  Release <- Rotation
  Channels = {"stable", "beta"}
  AutoUpdate = TRUE
  MaxFaults = 2
  MaxFails = 2
  MaxKills = 0
  MaxManual = 2
  MaxInstalls = 0
CHECK_DEADLOCK FALSE
INVARIANT TypeOK
INVARIANT InstallsTrusted
INVARIANT NeverStranded
PROPERTY Converges
