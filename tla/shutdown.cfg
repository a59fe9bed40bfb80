SPECIFICATION FairShutdownSpec
CONSTANTS
  Workers = {w1}
  Monitor = monitor
  NoJob = nojob
  Jobs = {j1, j2}
  ContainerIds = {c1, c2, c3, c4}
  NoContainer = none
  MaxWorkers = 1
  MaxJobCount = 1
  Unsupported = {j2}
  RemoveMayFail = TRUE
  Heavy = {j1}
  SameLanguage = {}
CHECK_DEADLOCK FALSE
INVARIANTS
  ShutdownTypeOK
PROPERTIES
  ServiceSpec
  WorkersReturn
  TakenAnswered
