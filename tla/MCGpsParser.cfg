CONSTANTS
  Streams <- MCStreams
  Size3500 = 7
  Size3501 = 8
  MaxWords = 8
  FrameWords = 3
  ModeWord = 5
  ValidWord = 6
  Skip = 1
  Patience = 1
SPECIFICATION Spec
CHECK_DEADLOCK FALSE
INVARIANTS NothingMadeUp MessagesFound AirNavTrue
