\* Two alerts, two handler threads, two attempts, two disruptions.
SPECIFICATION MCSpec
CONSTANTS
  Alert = {a1, a2}
  Handler = {h1, h2}
  Loop = Loop
  None = None
  MergeAttempts = 2
  MaxDisruptions = 2
INVARIANTS TypeOK SpooledUntilRecorded
PROPERTIES EveryReportIsRecorded RecordedOnce
