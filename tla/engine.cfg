SPECIFICATION FairSpec
CONSTANTS
  CompilerSubject = compiler
  ProblemSubject = problems
  Messages = {m1, m2, m3}
  Nothing = nothing
  RequestSpace <- Requests
  MaxWorkers = 2
  MaxJobCount = 1
  PendingLimit = 2
  MayCrash = TRUE
CHECK_DEADLOCK FALSE
INVARIANTS
  TypeOK
  OnlySupportedExecuted
  PendingAwaited
  RepliesInOrder
  SuccessIsReal
PROPERTIES
  RequestsAnswered
