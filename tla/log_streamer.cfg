SPECIFICATION FairSpec
CONSTANTS
  Entries = {e1, e2, e3}
  Nobody = nobody
  Hidden = {e2}
  Fatal = {e3}
CHECK_DEADLOCK FALSE
INVARIANTS
  TypeOK
  SameStory
  NoPanicAsConfigured
PROPERTIES
  LogReturns
