CONSTANTS
  Patience = 2
  Tries = 3
  MaxSets = 3
  MaxSlow = 2
  MaxFaults = 1
SPECIFICATION FairSpec
CHECK_DEADLOCK FALSE
INVARIANTS GreenIsReached LastCommandWins
PROPERTY ComesToRest
