SPECIFICATION FairSpec
CONSTANTS
  ssh = ssh
  panel = panel
  ftp = ftp
  vpn = vpn
  Ssh = ssh
  Panel = panel
  StagePorts <- MCStagePorts
  FtpPorts <- MCFtpPorts
  Foreign <- MCForeign
  Servers <- Any
  MaxRuns = 2
  MaxKills = 1
  MaxReboots = 1
CHECK_DEADLOCK FALSE
INVARIANT TypeOK
INVARIANT SshReachable
INVARIANT ForeignRulesKept
INVARIANT CompleteKeepsFirewall
INVARIANT FailedRestoresFirewall
PROPERTY RollbackRestores
