SPECIFICATION Spec
CONSTANTS
  Targets = {a, b}
  MaxVer = 2
  Misfortunes = {{}, {"revert"}, {"torncopy"}, {"tornhash"}, {"xclean"}}
INVARIANTS BuildCurrent HashedCurrent NeverOther
PROPERTY WorkKept
