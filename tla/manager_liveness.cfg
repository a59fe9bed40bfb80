SPECIFICATION FairSpec
CONSTANTS
  Workers = {w1, w2}
  Removers = {r1}
  ContainerIds = {c1, c2}
  Monitor = monitor
  Nobody = nobody
  NoContainer = none
  MaxWorkers = 1
  MaxRetries = 2
  Faults = {"exit", "prune", "crash"}
PROPERTIES
  VanishedDropped
  PoolHeals
  LeaseReturned
