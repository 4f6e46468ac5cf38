SPECIFICATION Spec
CONSTANTS
  MaxLines = 4
  MaxDevices = 6
  MaxLeft = 3
INVARIANTS EntryHasRoom ListedAreLive DownIsClean
CHECK_DEADLOCK FALSE
