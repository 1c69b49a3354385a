SPECIFICATION BackSpec
CONSTANTS
  Program = {"daemon"}
  Daemon = "daemon"
  DB_VERSION = 7
  Needs <- SqlNeeds
  Installations <- Complete
  FoundVersions <- ThisVersion
  MaxStarts <- SomeStarts
  Mortal = {}
  ScriptMayFail = FALSE
  Doc = {"d1", "d2", "d3", "d4"}
  Unreadable = {}
  Processors = 4
  MAX_THREADS = 3
  Deletable = {}
  MaxFailures = 0
INVARIANT SlotInArray
CHECK_DEADLOCK FALSE
