SPECIFICATION Spec
CONSTANTS
  Chars <- MCChars
  MaxChars = 3
  Words <- MCWords
  MaxIds = 4
  MaxCore = 1
CHECK_DEADLOCK FALSE
INVARIANT AgreesWithSemVer
