\* Both topics, one instance in each group.
SPECIFICATION MCFairSpec
CONSTANTS
  ui = ui  legal = legal
  u1 = u1
  priority = priority  batch = batch
  c1 = c1  c2 = c2
  NoRow = NoRow  Subscribed = Subscribed  Undecodable = Undecodable
  Event = {ui, legal}
  RequestedAt <- Requested
  Key = {u1}
  KeyOf <- KeyOfAll
  Partition = {priority, batch}
  Log <- TwoLogs
  Instance = {c1, c2}
  Reads <- TwoGroups
  MaxAttempts = 2
  MaxDisruptions = 1
INVARIANTS RowsConverge
PROPERTIES EveryRecordIsSettled
CHECK_DEADLOCK FALSE
