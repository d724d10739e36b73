SPECIFICATION FairSpec
CONSTANTS
  None = None
  NumBeats = 1
  MaxCommands = 1
  MaxRuns = 2
  MaxCalls = 2
  MaxSwaps = 1
  ViaProxy = FALSE
  Links <- MCLinks
INVARIANTS
  TypeOK
  TimelineIsOfRun
  CompletedIsRecorded
  RecordedOnceAndFinal
  QuietIsCurrent
PROPERTY MissionsEnd
