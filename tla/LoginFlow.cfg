\* Two objects, two connections, three logins; the pool of units runs out.
CONSTANTS
  s1 = s1
  s2 = s2
  Sessions = {s1, s2}
  NoSession = NoSession
  MaxConns = 2
  MaxLogins = 3
  DbWorkers = 2
  PoolSize = 1
  PoolExtra = 1
  StaleReads = FALSE
SPECIFICATION FairSpec
INVARIANT TypeOK
INVARIANT UsersConsistent
INVARIANT LogoutOnItsWay
PROPERTY LoginAnswered
CHECK_DEADLOCK FALSE
