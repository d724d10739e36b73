SPECIFICATION FairSpec
CONSTANTS
  Runs = {r1}
  Clients = {c1}
  QueueSize = 8
  ReplaySize = 8
  NumBeats = 2
  None = None
  Threads = {}
  EventLoop = EventLoop
  MaxCommands = 1
  MaxFaults = 1
  MaxRestarts = 1
  Routes = {"async", "sync"}
INVARIANT TypeOK
INVARIANT CompletionIsDurable
INVARIANT TimelineIsScript
PROPERTY RunsSettle
PROPERTY StreamsEnd
