SPECIFICATION Spec
CONSTANTS
  Workers = {w1}
  EventIds = {e1, e2, e3}
  Actors = {alice}
  Correlations = {c1}
  SourceTypes = {"authentication.login.failure", "authentication.login.success", "document.download.success"}
  MaxFaults = 1
  Null = Null
SYMMETRY Interchangeable
INVARIANTS
  TypeOK
  SeparateCallsComplete
  SnapshotJustified
