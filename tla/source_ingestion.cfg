SPECIFICATION FairSpec
CONSTANTS
  r1 = r1
  r2 = r2
  r3 = r3
  readme = readme
  guide = guide
  empty = empty
  note = note
  i1 = i1
  i2 = i2
  up = up
  Runs = {r1, r2, r3}
  Items = {readme, guide, i1, i2}
  Texts = {up, note, empty}
  Downloads <- MCDownloads
  Files <- MCFiles
  Configs <- MCConfigs
  MayRun <- MCMayRun
  ChunkCount <- MCChunkCount
  MaxRetries = 2
  BatchSize = 2
  MaxFaults = 1
INVARIANTS
  TypeOK
  VectorsHaveContent
  DoneIsIndexed
  DoneIsInGraph
PROPERTIES
  RerunAddsNothing
  RunsEnd
CHECK_DEADLOCK FALSE
