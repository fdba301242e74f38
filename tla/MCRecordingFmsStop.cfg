CONSTANTS
  Configs <- MCFms
  Wait = 1
  MaxLines = 1
  MaxSpace = 0
  MaxToggles = 2
SPECIFICATION FairSpec
CHECK_DEADLOCK FALSE
PROPERTY FmsLineStops
