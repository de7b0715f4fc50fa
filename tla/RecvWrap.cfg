\* Pipelined packets, and one ends before the array does while the next wraps.
CONSTANTS
  BufSize = 8
  HeaderSize = 2
  ChunkMax = 4
  HeaderValues <- SmallHeaders
  MaxPackets = 4
  Window = 4
SPECIFICATION Spec
INVARIANT NoFault
CHECK_DEADLOCK FALSE
