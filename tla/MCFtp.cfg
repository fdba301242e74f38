CONSTANTS
  NumFiles = 2
  MaxClicks = 3
  MaxConns = 2
  MaxFaults = 2
  MaxLates = 2
SPECIFICATION FtpSpec
CHECK_DEADLOCK FALSE
INVARIANTS LoggedIsSo UsesWhatIsThere
PROPERTY OperationsEnd
