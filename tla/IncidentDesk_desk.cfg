SPECIFICATION FairSpec
CONSTANTS
  None = None
  Tabs = {tab}
  LiveIncidents = {live}
  DemoIncidents = {demo}
  Roles = {"analyst"}
  MaxFaults = 1
  MaxMoves = 3
INVARIANTS TypeOK SignedInIsLive ExpiryFollowsUser LiveNeverFaked EditsTold
PROPERTIES LegalUnlessOvertaken TabsSettle
CHECK_DEADLOCK FALSE
