SPECIFICATION Spec
CONSTANTS
  Binaries <- MCBinaries
  Faults = {"elf", "phs", "chunks", "shs"}
INVARIANT ReadsInsideFile
PROPERTY KeepsPromise
CHECK_DEADLOCK FALSE
