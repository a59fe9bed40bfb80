SPECIFICATION Spec
CONSTANTS
  Workers = {w1}
  NoJob = nojob
  Jobs = {j1, j2}
  ContainerIds = {c1, c2}
  NoContainer = none
  MaxWorkers = 1
  MaxJobCount = 1
  Unsupported = {}
  RemoveMayFail = TRUE
  Heavy = {}
  SameLanguage = {j1, j2}
SYMMETRY Symmetry
CHECK_DEADLOCK FALSE
INVARIANTS
  RunsOwnCode
