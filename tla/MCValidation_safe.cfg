SPECIFICATION Spec
CONSTANTS
  v1 = v1
  v2 = v2
  Procs = {v1, v2}
  Dirs = {1, 2}
  GoodHooks = {1}
  MaxFiles = 3
  MaxHooks = 2
  MaxBoots = 3
  MaxRuns = 3
  MaxAdmin = 1
  MaxKills = 1
SYMMETRY Runs
CHECK_DEADLOCK FALSE
INVARIANT TypeOK
INVARIANT RebootVerified
INVARIANT RecordSurvives
INVARIANT NeverTorn
INVARIANT HookChecked
INVARIANT ReportKept
