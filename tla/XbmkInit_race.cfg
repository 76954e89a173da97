SPECIFICATION Spec
CONSTANTS
  Parents = {p1, p2}
  MaxNest = 2
  MaxCalls = 2
  OverlappingStarts = TRUE
INVARIANT OneBuild
CHECK_DEADLOCK FALSE
