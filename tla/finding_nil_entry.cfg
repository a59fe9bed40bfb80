SPECIFICATION Spec
CONSTANTS
  Workers = {w1, w2}
  Removers = {r1}
  ContainerIds = {c1, c2, c3}
  Monitor = monitor
  Nobody = nobody
  NoContainer = none
  MaxWorkers = 2
  MaxRetries = 2
  Faults = {}
SYMMETRY Symmetry
INVARIANTS
  HealthCheckReadsEntry
