\* Three packets from the server, two lines typed; the connection may end.
CONSTANTS
  MaxPackets = 3
  MaxLines = 2
SPECIFICATION FairSpec
INVARIANT ChatSound
PROPERTY WaitEnds
PROPERTY ClosingEnds
CHECK_DEADLOCK FALSE
