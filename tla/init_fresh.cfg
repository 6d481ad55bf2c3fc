SPECIFICATION Spec
CONSTANTS
  cli = cli
  api = api
  old = old
  viewer = viewer
  neo4j = neo4j
  qdrant = qdrant
  v1 = v1
  v2 = v2
  k1 = k1
  k2 = k2
  k3 = k3
  Starters <- OneStarter
  CommandLine = {cli}
  Viewers <- OneViewer
  Services = {neo4j, qdrant}
  Versions <- TwoVersions
  Checksums <- ThreeChecksums
  FileOf <- OneFile
  Statements = 2
  ConnectAttempts = 2
  InitialDatabases <- FreshDatabase
  MaxFaults = 0
CHECK_DEADLOCK FALSE
INVARIANTS
  FreshStartSucceeds
