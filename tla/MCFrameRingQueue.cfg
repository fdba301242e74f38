CONSTANTS
  N = 3
  K = 2
  MaxFrames = 7
SPECIFICATION FairSpec
INVARIANTS RingInv ReadyNotWritten
PROPERTIES OverrunOnlyWhenFull ImplementsQueue ReadyDelivered ShutdownEnds
CHECK_DEADLOCK FALSE
