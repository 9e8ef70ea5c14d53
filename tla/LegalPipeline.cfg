\* Two partitions with two records and one, one retry, two disruptions.
SPECIFICATION MCSpec
CONSTANTS
  Partition = {p1, p2}
  Records = 2
  Retries = 1
  MaxDisruptions = 2
INVARIANTS TypeOK AckedIsMergedOrSkipped
PROPERTIES EveryRecordIsMerged ComesToRest
\* Everything is acknowledged and nothing is pending.
CHECK_DEADLOCK FALSE
