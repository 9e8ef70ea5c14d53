\* Three events, two dates, two sources.
SPECIFICATION MCSpec
CONSTANTS
  ui = ui  late = late  legal = legal
  today = today  before = before
  UI = UI  LEGAL = LEGAL
  Event = {ui, late, legal}
  Date = {today, before}
  Source = {UI, LEGAL}
  DateOf <- DateOfEvent
  SourceOf <- SourceOfEvent
  Priority = {ui, late}
  MaxDisruptions = 1
INVARIANTS TypeOK StaleIsPending BackfillDelivers
PROPERTIES FirstMergeKept AtomicRefresh EveryEventIsCounted
