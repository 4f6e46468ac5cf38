CONSTANTS
  P = P
  Q = Q
  A = A
  B = B
  C = C
  NullMem = NullMem
  NullPrg = NullPrg
  Programs <- MCPrograms
  Chunks <- MCChunks
  Comm <- MCComm
  Mems <- MCMems
  MemSize <- MCMemSize
  CanRead <- MCCanRead
  CanWrite <- MCCanWrite
  Kernels <- MCAlternate
  Addr <- MCAddr
  HEAD = 2
  ALIGN = 2
  MaxPoll = 1
  MaxLaunch = 2
  Faults = {"report"}

SPECIFICATION Spec
INVARIANTS
  ImageInPlace
  DeviceSeesArguments
PROPERTIES
  OutputReachesBuffer
  UnwrittenBufferKept
  ResultsOnlyWhenFinished
