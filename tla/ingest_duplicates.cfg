SPECIFICATION Spec
CONSTANTS
  api = api
  again = again
  cli = cli
  c1 = c1
  c2 = c2
  c3 = c3
  Jobs <- TwoJobs
  ApiJobs <- TwoJobs
  Contents <- ThreeContents
  Pages <- SamePage
  ChunkCount <- UnevenChunks
  FlushThreshold = 3
  BatchSize = 2
  MaxFailures = 0
CHECK_DEADLOCK FALSE
INVARIANT
  OneCopyPerContent
