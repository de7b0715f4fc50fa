\* Two connections on two objects, two logins, one line of chat.
CONSTANTS
  s1 = s1
  s2 = s2
  Sessions = {s1, s2}
  NoSession = NoSession
  MaxConns = 2
  MaxLogins = 2
  MaxChats = 1
  DbWorkers = 2
  PoolSize = 1
  PoolExtra = 1
  StaleReads = TRUE
SPECIFICATION ChatSpec
SYMMETRY Symmetry
VIEW Observed
INVARIANT OwnAccount
INVARIANT ChatFindsUser
INVARIANT ChatNamesSender
CHECK_DEADLOCK FALSE
