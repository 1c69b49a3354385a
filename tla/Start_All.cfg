SPECIFICATION FairBack
CONSTANTS
  Program = {"daemon", "config"}
  Daemon = "daemon"
  DB_VERSION = 7
  Needs <- SqlNeeds
  Installations <- SomeInstallations
  FoundVersions <- SomeVersions
  MaxStarts <- SomeStarts
  Mortal = {"daemon"}
  ScriptMayFail = TRUE
  Doc = {"d1", "d2", "d3"}
  Unreadable = {"d3"}
  Processors = 2
  MAX_THREADS = 3
  Deletable = {"d1"}
  MaxFailures = 1
INVARIANTS BackTypeOK VersionIsHonest ReadyIsUpgraded CompleteMeansDone
PROPERTIES ArchiveIsKept SlotsAreJoined StartEnds PopulationEnds
CHECK_DEADLOCK FALSE
