SPECIFICATION ShutdownSpec
CONSTANTS
  web = web  s1 = s1  s2 = s2
  WebThread = web
  Query = {"list", "details"}
  Caller <- TwoScans
  ForkMayFail = FALSE
  WorkerMayDie = FALSE
INVARIANT OneScanAtATime
CHECK_DEADLOCK FALSE
