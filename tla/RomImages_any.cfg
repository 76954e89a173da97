SPECIFICATION RomSpec
CONSTANTS
  t1 = t1
  t2 = t2
  Targets <- TwoTargets
  Boards <- SomeBoards
  Keymaps <- TwoKeymaps
  MaxUpsets = 1
INVARIANTS ImagesAsConfigured BootsAsNamed ReleasedClean
