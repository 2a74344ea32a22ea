SPECIFICATION Spec
CONSTANTS
  Roots <- MCRoots
  Letter = {97}
  MaxLen = 6
  MaxMatch = 4
  None = None
  Options = {"o1", "o2"}
  MaxSettings = 3
INVARIANTS
  KillSwitchHolds
  LoadedIsSound
  StaysUnderRoot
  ListedKeyIsFound
  ListStartCovers
CHECK_DEADLOCK FALSE
