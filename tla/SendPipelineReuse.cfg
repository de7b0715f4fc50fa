\* Two connections one after the other on the same Session object.
CONSTANTS
  t1 = t1
  t2 = t2
  Threads = {t1, t2}
  NoThread = NoThread
  MaxPackets = 3
  PacketLen = 2
  MaxConns = 2
SPECIFICATION FairSpec
INVARIANT TypeOK
INVARIANT SingleSend
INVARIANT BufferPinned
INVARIANT NoIdleBacklog
PROPERTY TransmitsByteStream
PROPERTY FlushesUnlessStalled
CHECK_DEADLOCK FALSE
