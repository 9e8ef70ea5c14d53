\* Two runs of the tool over two topics, one producer with one batch.
SPECIFICATION MCSpec
CONSTANTS
  priority = priority  dlq = dlq
  Tool = {TopicInit, operator}
  TopicInit = TopicInit
  TopicName = {priority, dlq}
  Setup <- Setups
  Specs <- TopicsYaml
  Missing = Missing
  Target = priority
  Brokers = 3
  Producer = {ui}
  Batches = 1
  Anomaly = {"garbage"}
  Message <- Messages
  QueueLimit = 1
  MaxDisruptions = 2
INVARIANTS TypeOK AppliedConforms CleanExitLosesNothing ConfirmedIsReplicated
PROPERTIES TopicsOnlyImprove StopEnds
