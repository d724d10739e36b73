SPECIFICATION Spec
CONSTANTS
  Workers = {w1, w2}
  EventIds = {e1, e2}
  Actors = {alice}
  Correlations = {c1}
  SourceTypes = {"authentication.login.failure", "authentication.login.success"}
  MaxFaults = 1
  Null = Null
SYMMETRY Interchangeable
INVARIANTS
  AlertOncePerSignature
  DurableIsKnown
PROPERTIES
  LeaksOnlyBlock
  LedgerSpec
