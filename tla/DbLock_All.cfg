\* The daemon with two threads and one worker; both processes may die at any
\* point; the daemon is restarted when no orphan is inside the lock.
SPECIFICATION FairSpec
CONSTANTS
  web = web  scan = scan  work = work  main = main  worker = worker
  Proc <- MCProc
  Main = main
  Thread <- MCThread
  procOf <- MCprocOf
  Inserter <- MCInserter
  Mortal <- MCProc
  QuietRestart = TRUE
INVARIANTS MutualExclusion FlagHasOwner InsertedRowIsLast
PROPERTIES ImplementsMutex SomebodyGetsIn
