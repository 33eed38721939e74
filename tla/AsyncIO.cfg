\* An overlapped descriptor and one with helper threads, and three operations,
\* event objects and loops inside another one altogether.
SPECIFICATION FairSpec
CONSTANTS
  a = a
  s = s
  Async = {a}
  Sync = {s}
  MaxEvent = 2
  MaxOps = 3
INVARIANTS
  TypeOK
  Matched
  OwnResult
  WaitsForLive
PROPERTIES
  Answered
CHECK_DEADLOCK FALSE
