SPECIFICATION Spec
CONSTANTS
  log = log
  report = report
  odd = odd
  marker = marker
  Names = {log, report, odd}
  BadNames = {odd}
  Marker = marker
  Secrets <- SecretWrites
  Stubborn <- StubbornWrites
  MaxFile = 2
  MaxTotal = 3
  MaxWrites = 4
SYMMETRY Files
CHECK_DEADLOCK FALSE
INVARIANT TypeOK
INVARIANT UploadClean
INVARIANT MembersHeld
INVARIANT UploadComplete
