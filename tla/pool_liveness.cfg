SPECIFICATION FairSpec
CONSTANTS
  Workers = {w1}
  NoJob = nojob
  Jobs = {j1, j2}
  ContainerIds = {c1, c2, c3}
  NoContainer = none
  MaxWorkers = 1
  MaxJobCount = 1
  Unsupported = {}
  RemoveMayFail = TRUE
  Heavy = {j1}
  SameLanguage = {j2}
CHECK_DEADLOCK FALSE
PROPERTIES
  JobsAnswered
  WatchersEnd
  PoolRefilled
