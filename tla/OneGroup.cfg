\* One topic partition, two instances of its group.
SPECIFICATION MCSpec
CONSTANTS
  ui = ui  legal = legal
  u1 = u1
  priority = priority  batch = batch
  c1 = c1  c2 = c2
  NoRow = NoRow  Subscribed = Subscribed  Undecodable = Undecodable
  Event = {ui, legal}
  RequestedAt <- Requested
  Key = {u1}
  KeyOf <- KeyOfAll
  Partition = {priority}
  Log <- ShortLog
  Instance = {c1, c2}
  Reads <- SameGroup
  MaxAttempts = 2
  MaxDisruptions = 2
SYMMETRY Symmetry
INVARIANTS TypeOK CommittedIsSettled ClosesSettled
PROPERTIES RewrittenOnlyEarlier AtLeastOnce
CHECK_DEADLOCK FALSE
