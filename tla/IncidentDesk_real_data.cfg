SPECIFICATION Spec
CONSTANTS
  None = None
  Tabs = {tab}
  LiveIncidents = {live}
  DemoIncidents = {demo}
  Roles = {"analyst"}
  MaxFaults = 0
  MaxMoves = 1
INVARIANT RealDataEverywhere
CHECK_DEADLOCK FALSE
