SPECIFICATION Spec
CONSTANTS
  Workers = {w1, w2}
  NoJob = nojob
  Jobs = {j1, j2, j3}
  ContainerIds = {c1, c2, c3}
  NoContainer = none
  MaxWorkers = 2
  MaxJobCount = 1
  Unsupported = {j3}
  RemoveMayFail = FALSE
  Heavy = {j1}
  SameLanguage = {j1, j2}
SYMMETRY Symmetry
CHECK_DEADLOCK FALSE
INVARIANTS
  TypeOK
  EnoughContainers
  OneLiveExecution
  OutputIsEarned
  MixedCodeNeedsAbandoned
PROPERTIES
  ServiceSpec
  
