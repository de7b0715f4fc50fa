\* The peer waits for the answer to each packet; any size the ring can hold.
CONSTANTS
  BufSize = 8
  HeaderSize = 2
  ChunkMax = 4
  HeaderValues <- RingHeaders
  MaxPackets = 4
  Window = 1
SPECIFICATION FairSpec
INVARIANT NoFault
PROPERTY EveryPacketDispatched

