SPECIFICATION Spec
CONSTANTS
  p1 = p1
  p2 = p2
  n1 = n1
  n2 = n2
  Creators = {p1, p2}
  Names = {n1, n2}
  RetryMax = 2
  Surroundings <- SomeMachines
INVARIANTS Unique NothingLeft
PROPERTIES OthersKept CreatorsEnd
CHECK_DEADLOCK FALSE
