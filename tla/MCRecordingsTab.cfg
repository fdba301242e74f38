SPECIFICATION Spec
CONSTANTS
  Spellings <- MCSpellings
  Root <- MCRoot
  Old <- MCOld
  Foreign <- MCForeign
  New <- MCNew
  MaxDay = 2
  MaxLives = 2
  MaxChanges = 1
  MaxFaults = 1
INVARIANTS TabMatchesDisk DailyDirKept
PROPERTY AllOrNothing
CHECK_DEADLOCK FALSE
