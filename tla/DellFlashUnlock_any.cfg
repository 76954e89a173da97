SPECIFICATION UnlockSpec
CONSTANTS
  Polls = 3
  Detours = 4
  Machines <- SomeMachines
INVARIANT ToldTrue
PROPERTY UnlockedInTheEnd
CHECK_DEADLOCK FALSE
