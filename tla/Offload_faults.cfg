CONSTANTS
  P = P
  Q = Q
  A = A
  B = B
  C = C
  NullMem = NullMem
  NullPrg = NullPrg
  Programs <- MCPrograms
  Chunks <- MCChunks
  Comm <- MCComm
  Mems <- MCOneMem
  MemSize <- MCOneMemSize
  CanRead <- MCOneMem
  CanWrite <- MCOneMem
  Kernels <- MCRefused
  Addr <- MCAddr
  HEAD = 2
  ALIGN = 2
  MaxPoll = 2
  MaxLaunch = 1
  Faults = {"report", "silent"}

SPECIFICATION Spec
INVARIANTS
  TypeOK
PROPERTIES
  
  StoresOnlyIntoOwnAreas
  LaunchIsBounded
  LaunchReturns
