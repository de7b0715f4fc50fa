\* Two connections: the send state of the first outlives it.
CONSTANTS
  t1 = t1
  t2 = t2
  Threads = {t1, t2}
  NoThread = NoThread
  MaxPackets = 2
  PacketLen = 2
  MaxConns = 2
SPECIFICATION FairSpec
PROPERTY Flushes
CHECK_DEADLOCK FALSE
