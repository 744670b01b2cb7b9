CONSTANTS
  Clients = {c1, c2, c3}
  Records = {r1, r2}
  Existing = {r1}
  HistoryLimit = 3
  Nobody = Nobody
SPECIFICATION SpecWithoutCrash
CHECK_DEADLOCK FALSE
SYMMETRY ClientSymmetry
INVARIANTS
  NoLostUpdate
