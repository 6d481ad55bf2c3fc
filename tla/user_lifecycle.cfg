SPECIFICATION FairSpec
CONSTANTS
  ann = ann
  ben = ben
  cron = cron
  manual = manual
  erase = erase
  restore = restore
  browser = browser
  Users <- TwoUsers
  LongDeleted = {ann}
  Cleaners = {cron, manual}
  DryRuns = {manual}
  Forced = {}
  Erasers = {erase}
  Restorers = {restore}
  Requests = {browser}
  UserOf <- AboutAnn
  ByAdmin = {restore}
  Retention = 1
  PageSize = 1
  MaxTime = 1
  MaxFaults = 2
CHECK_DEADLOCK FALSE
INVARIANTS
  TypeOK
  AuditTellsRemovals
  ReportAddsUp
  ErasureIsComplete
PROPERTIES
  RemovedWasDue
  CleanupsEnd
