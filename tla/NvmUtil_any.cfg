SPECIFICATION FairSpec
CONSTANTS
  half = 2
  W = 4
  NVM_CHECKSUM = 3
  Macs = {0, 1, 2}
  BadMacs = {0}
  Tails = {"a", "b", "ff"}
  Users = {u1, u2}
  InitialFiles <- SomeFiles
  Garbage <- SomeGarbage
  MaxRuns = 2
INVARIANT NothingLeft
PROPERTIES ImplementsGbeFile KeepsAValidPart EndsAsTold
