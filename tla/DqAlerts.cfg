\* The results of a run and its alerts after an interruption.
SPECIFICATION MCSpec
CONSTANTS
  a = a  b = b
  Rows = 3
  Id = {a, b}
  IdOf <- Ids
  Kind <- Kinds
  MaxBackfills = 0
  MaxDisruptions = 1
INVARIANTS AlertsMatchResults
CHECK_DEADLOCK FALSE
