SPECIFICATION FairSpec
CONSTANTS
  d1 = d1
  d2 = d2
  w1 = w1
  w2 = w2
  b1 = b1
  p1 = p1
  Malformed = malformed
  Docs <- OneDoc
  Workers <- OneWorker
  Batches <- OneBatch
  Reprocessors <- Nobody
  EventsEnabled = TRUE
  StreamMaxLen = 1
  MaxQueue = 1
  MaxClock = 1
  MaxDisruptions = 2
PROPERTIES
  StreamDrains
  IngestedIsExtracted
