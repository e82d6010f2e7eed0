SPECIFICATION Spec
CONSTANTS
  k1 = k1
  k2 = k2
  Corrupt = Corrupt
  Last = 5
  Release <- Pairs
  Channels = {"stable", "beta"}
  AutoUpdate = TRUE
  MaxFaults = 1
  MaxFails = 1
  MaxKills = 1
  MaxManual = 1
  MaxInstalls = 1
CHECK_DEADLOCK FALSE
INVARIANT UpdaterUpgrades
INVARIANT FailedKeepsWhole
