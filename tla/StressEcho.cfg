\* Two sockets, one or two threads, two requests each; a body of two units.
CONSTANTS
  Concurrency = 2
  MaxThreads = 2
  BodyLen = 2
  MaxRequests = 2
SPECIFICATION FairSpec
INVARIANT ReportTrue
INVARIANT LateForGood

CHECK_DEADLOCK FALSE
PROPERTY RunEnds
