\* The peer does not wait for answers; packets no longer than a chunk.
CONSTANTS
  BufSize = 8
  HeaderSize = 2
  ChunkMax = 4
  HeaderValues <- SmallHeaders
  MaxPackets = 5
  Window = 5
SPECIFICATION Spec
INVARIANT TypeOK
INVARIANT RingHoldsStream
INVARIANT NothingDropped
INVARIANT DispatchInOrder
CHECK_DEADLOCK FALSE
