SPECIFICATION LibSpec
CONSTANTS
  ByteBits = 2
  Word = 2
  PageSize = 4
  SizeBits = 6
  None = None
  Abort = Abort
  Crash = Crash
  Refused = Refused
  Inputs <- SomeInputs
  Offsets <- SomeOffsets
  Counts = {0, 1, 3, 4}
  FileMax = 4
INVARIANTS StringsAsPromised NumbersAsAsked EnvironmentFits VendorFilesMade FailuresTold
PROPERTY IoEnds
CHECK_DEADLOCK FALSE
