SPECIFICATION FairSpec
CONSTANTS
  Rows = {r1, r2}
  Batches = {b1, b2}
  BatchSize = 2
  Concurrency = 1
  MaxRetries = 2
  MaxFaults = 1
INVARIANTS ProcessedIsPublished ClaimsAreDistinct
PROPERTIES SettledStays RecordedSettles
CHECK_DEADLOCK FALSE
