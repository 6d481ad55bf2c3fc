SPECIFICATION Spec
CONSTANTS
  d1 = d1
  d2 = d2
  w1 = w1
  w2 = w2
  b1 = b1
  p1 = p1
  Malformed = malformed
  Docs <- MCDocs
  Workers <- OneWorker
  Batches <- Nobody
  Reprocessors <- OneReprocessor
  EventsEnabled = TRUE
  StreamMaxLen = 1
  MaxQueue = 0
  MaxClock = 1
  MaxDisruptions = 0
PROPERTY
  ReprocessSelectsModified
