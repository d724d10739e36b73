SPECIFICATION Spec
CONSTANTS
  Workers = {w1, w2}
  EventIds = {e1, e2}
  Actors = {alice}
  Correlations = {c1}
  SourceTypes = {"authentication.login.success"}
  MaxFaults = 0
  Null = Null
SYMMETRY Interchangeable
INVARIANT DurableCallsComplete
