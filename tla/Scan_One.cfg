SPECIFICATION FairScan
CONSTANTS
  web = web  s1 = s1  s2 = s2
  j1 = j1  j2 = j2
  WebThread = web
  Query = {"details"}
  Caller <- TwoScanners
  Job <- OneJob
  MaxPages <- TwoPages
  ForkMayFail = TRUE
  WorkerMayDie = TRUE
  ThreadMayFail = TRUE
  DiskMayFail = TRUE
INVARIANTS OneThreadPerScan AnnouncedPagesSaved TextInOrder
PROPERTY ScanSettles
