SPECIFICATION FairSpec
CONSTANTS
  cli = cli
  api = api
  old = old
  viewer = viewer
  neo4j = neo4j
  qdrant = qdrant
  v1 = v1
  v2 = v2
  k1 = k1
  k2 = k2
  k3 = k3
  Starters <- ThreeStarters
  CommandLine = {cli, old}
  Viewers <- OneViewer
  Services = {neo4j}
  Versions <- TwoVersions
  Checksums <- ThreeChecksums
  FileOf <- SameVersion
  Statements = 2
  ConnectAttempts = 2
  InitialDatabases <- AllDatabases
  MaxFaults = 2
CHECK_DEADLOCK FALSE
INVARIANTS
  TypeOK
  InitializedIsComplete
  RecordedIsApplied
  InitializedIsOwnFile
PROPERTIES
  SecondRunKeepsRecord
  FreshStaysFresh
  StartsEnd
