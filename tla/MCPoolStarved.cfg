SPECIFICATION FairSpec
CONSTANTS
  Slot = {s1, s2, s3}
  MaxWorkers = 3
  QueueSize = 4
  High = 3
  Low = 2
  MaxBatches = 7
CHECK_DEADLOCK FALSE

PROPERTY BatchesSettle
