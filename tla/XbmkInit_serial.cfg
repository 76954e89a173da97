SPECIFICATION FairSpec
CONSTANTS
  Parents = {p1, p2, p3}
  MaxNest = 2
  MaxCalls = 2
  OverlappingStarts = FALSE
INVARIANTS OneBuild
PROPERTY LockReleased
CHECK_DEADLOCK FALSE
