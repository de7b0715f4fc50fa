\* One thread on the port, two connections and workers, two logins.
CONSTANTS
  p1 = p1
  p2 = p2
  Ports = {p1}
  PoolSize = 2
  MaxTasks = 2
  FrameJobs = 1
SPECIFICATION FairSpec
INVARIANT TypeOK
INVARIANT LeasesApart
INVARIANT PoolOutlivesThreads
INVARIANT NoTaskStranded
INVARIANT NoConnStranded
INVARIANT JobsBeforeStopRun
PROPERTY TasksRun
PROPERTY StopReturns
CHECK_DEADLOCK FALSE
