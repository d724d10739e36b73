SPECIFICATION Spec
CONSTANTS
  Runs = {r1}
  Clients = {c1}
  QueueSize = 2
  ReplaySize = 2
  NumBeats = 3
  None = None
  Threads = {}
  EventLoop = EventLoop
  MaxCommands = 1
  MaxFaults = 2
  MaxRestarts = 1
  Routes = {"async"}
INVARIANT TimelineInOrder
PROPERTY StrandedOnlyWhenFull
