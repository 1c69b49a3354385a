SPECIFICATION ScanSpec
CONSTANTS
  web = web  s1 = s1  s2 = s2
  j1 = j1  j2 = j2
  WebThread = web
  Query = {"details"}
  Caller <- TwoScanners
  Job <- TwoJobs
  MaxPages <- ThreeAndOne
  ForkMayFail = FALSE
  WorkerMayDie = FALSE
  ThreadMayFail = FALSE
  DiskMayFail = FALSE
PROPERTY ImplementsView
INVARIANTS AnnouncedPagesSaved OwnDocument
SYMMETRY Symmetry
