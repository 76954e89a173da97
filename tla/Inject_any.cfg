SPECIFICATION FairSpec
CONSTANTS
  Roms = {r1, r2}
  Macs = {"built", "chosen"}
  DefaultMac = "built"
INVARIANTS Verified EndsAsAsked
PROPERTY ImplementsRelease
