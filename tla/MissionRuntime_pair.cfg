SPECIFICATION Spec
CONSTANTS
  Runs = {r1, r2}
  Clients = {}
  QueueSize = 8
  ReplaySize = 8
  NumBeats = 1
  None = None
  Threads = {t1}
  EventLoop = EventLoop
  MaxCommands = 1
  MaxFaults = 1
  MaxRestarts = 1
  Routes = {"async", "coop"}
INVARIANT RowsLagRuns
INVARIANT BeatsAreCommands
PROPERTY OutcomeStays
CHECK_DEADLOCK FALSE
SYMMETRY Symmetry
