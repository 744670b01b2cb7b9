CONSTANTS
  Clients = {c1, c2, c3}
  Records = {r1, r2}
  Existing = {r1}
  HistoryLimit = 1
  Nobody = Nobody
SPECIFICATION FairSpec
INVARIANTS
  CreateAtomic
  AcknowledgedDurable
  VersionsNumbered
PROPERTIES
  OperationsEnd
