SPECIFICATION ScanSpec
CONSTANTS
  web = web  s1 = s1  s2 = s2
  j1 = j1  j2 = j2
  WebThread = web
  Query = {"list", "details"}
  Caller <- OneScanner
  Job <- OneJob
  MaxPages <- TwoPages
  ForkMayFail = FALSE
  WorkerMayDie = FALSE
  ThreadMayFail = FALSE
  DiskMayFail = FALSE
INVARIANT StatusIsCurrent
