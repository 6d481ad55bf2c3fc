SPECIFICATION FairSpec
CONSTANTS
  api = api
  again = again
  cli = cli
  c1 = c1
  c2 = c2
  c3 = c3
  Jobs <- AllJobs
  ApiJobs <- Requests
  Contents <- ThreeContents
  Pages <- SharedPages
  ChunkCount <- UnevenChunks
  FlushThreshold = 3
  BatchSize = 2
  MaxFailures = 2
CHECK_DEADLOCK FALSE
INVARIANTS
  TypeOK
  CompletedIsIndexed
  CountsAreTrue
  PointsAreStored
PROPERTIES
  JobsEnd
  JobsSettle
