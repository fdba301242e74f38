SPECIFICATION ChannelSpec
CONSTANTS
  Base = 4
  IntBytes = 2
  Term <- MCTerm
  MaxLine = 4
  Lines <- MCLines
  Texts <- MCTexts
  Arrays <- MCArrays
  NULL = NULL
  Failed = Failed
  Room = 3
  MaxSends = 3
PROPERTIES ImplementsMailbox AcceptEnds
CHECK_DEADLOCK FALSE
