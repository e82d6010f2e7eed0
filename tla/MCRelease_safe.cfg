SPECIFICATION FairSpec
CONSTANTS
  bind = bind
  tls = tls
  Gates = {bind, tls}
  Commits <- MCCommits
  MaxCommits = 3
  MaxFaults = 1
  MaxReopens = 1
  MaxRepairs = 1
CHECK_DEADLOCK FALSE
INVARIANT TypeOK
INVARIANT ReleaseWhole
INVARIANT CheckedSinceApproval
INVARIANT SuccessIsReleased
PROPERTY NeverReplaced
PROPERTY Converges
