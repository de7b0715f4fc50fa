\* Finalize's notify_all between a worker's look at m_running and its sleep.
CONSTANTS
  p1 = p1
  p2 = p2
  Ports = {p1}
  PoolSize = 1
  MaxTasks = 1
  FrameJobs = 1
SPECIFICATION FairSpec
PROPERTY FinalizeReturns
CHECK_DEADLOCK FALSE
