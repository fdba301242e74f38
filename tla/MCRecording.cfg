CONSTANTS
  Configs <- MCConfigs
  Wait = 2
  MaxLines = 2
  MaxSpace = 1
  MaxToggles = 2
SPECIFICATION FairSpec
CHECK_DEADLOCK FALSE
INVARIANTS WritesToOpenFiles LinesAccounted IdleEquipment ExitLocked
PROPERTIES ListedStays StopEndsRecording ExitComesBack
