SPECIFICATION FairSpec
CONSTANTS
  d1 = d1
  d2 = d2
  w1 = w1
  w2 = w2
  b1 = b1
  p1 = p1
  Malformed = malformed
  Docs <- MCDocs
  Workers <- Nobody
  Batches <- OneBatch
  Reprocessors <- OneReprocessor
  EventsEnabled = FALSE
  StreamMaxLen = 1
  MaxQueue = 0
  MaxClock = 0
  MaxDisruptions = 2
PROPERTY
  RunsEnd
