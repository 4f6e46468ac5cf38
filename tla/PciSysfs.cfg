SPECIFICATION Spec
CONSTANTS
  Devices <- MCDevices
  MapTable <- MCMapTable
  Transfers <- MCTransfers
  Values = {1}
  Width = 256
  BadSizes = {0, 16}
  Faults = {"open", "id", "mmap", "read", "ones", "size", "write", "read64", "ones64", "size64", "write64"}
  MaxFailed = 2
INVARIANTS ReadyMeansMapped RegistersRestored NothingLeftOpen
PROPERTY WritesWhatItNames
CHECK_DEADLOCK FALSE
