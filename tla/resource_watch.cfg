SPECIFICATION Spec
CONSTANTS
  Cores = 2
  Slices = 4
  Quota = 4
  MemoryLimit = 3
  Uptime = 8
  MaxSystem = 60
CHECK_DEADLOCK FALSE
INVARIANTS
  TypeOK
  CpuNeverOutsurges
PROPERTIES
  OnlyHogsCut
