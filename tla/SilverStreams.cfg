\* Three records, two interruptions or backfills.
SPECIFICATION MCSpec
CONSTANTS
  a = a  b = b
  Rows = 3
  Id = {a, b}
  IdOf <- Ids
  Kind <- Kinds
  MaxBackfills = 1
  MaxDisruptions = 2
INVARIANTS TypeOK BronzeIsTopic PassedIsAccountedFor OneRowPerEvent DuplicatesAreAlerted
PROPERTIES FirstResultsKept ExactlyOnce EveryRecordIsAccountedFor
\* Everything is read and nothing is left to do.
CHECK_DEADLOCK FALSE
