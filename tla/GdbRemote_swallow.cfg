CONSTANTS
  Worlds <- MCRefusing
  Blocks = 2
  MaxConsole = 0
  MaxCorrupt = 0
  LinkMayFail = FALSE

SPECIFICATION SpecBefore
INVARIANT WriteMeansStored
