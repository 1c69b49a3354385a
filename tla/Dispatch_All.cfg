SPECIFICATION FairShutdown
CONSTANTS
  web = web  s1 = s1  s2 = s2
  WebThread = web
  Query = {"list", "details"}
  Caller <- TwoScans
  ForkMayFail = FALSE
  WorkerMayDie = TRUE
INVARIANTS BusyHasCause
PROPERTIES CallReturns StopsWhenTold
CHECK_DEADLOCK FALSE
