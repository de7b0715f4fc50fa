\* Two objects, two connections and accepts: pool, sockets, active map, and the
\* end of every peer is noticed.
CONSTANTS
  w1 = w1
  w2 = w2
  s1 = s1
  s2 = s2
  Workers = {w1, w2}
  Sessions = {s1, s2}
  NoSession = NoSession
  MaxConns = 2
  Slots = 2
  Faults = {"register"}
SPECIFICATION FairSpec
INVARIANT TypeOK
INVARIANT OneOwner
INVARIANT OneSocket
INVARIANT LiveIsAttended
INVARIANT SlotsKept
PROPERTY ServesOnce
PROPERTY PeerEndIsNoticed
