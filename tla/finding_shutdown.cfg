SPECIFICATION FairShutdownSpec
CONSTANTS
  Workers = {w1}
  Monitor = monitor
  NoJob = nojob
  Jobs = {j1}
  ContainerIds = {c1, c2, c3, c4}
  NoContainer = none
  MaxWorkers = 1
  MaxJobCount = 1
  Unsupported = {}
  RemoveMayFail = FALSE
  Heavy = {j1}
  SameLanguage = {}
CHECK_DEADLOCK FALSE
PROPERTY ShutdownCompletes
