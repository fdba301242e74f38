CONSTANTS
  Recursive = TRUE
  MaxMessages = 3
  MaxFailures = 2
  Cals <- MCCals
  Period = 1
  Second = 4
  MaxSent = 3
  MaxFaults = 1
SPECIFICATION Spec
CHECK_DEADLOCK FALSE
INVARIANT MaxRate
