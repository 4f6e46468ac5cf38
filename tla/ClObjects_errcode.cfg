SPECIFICATION Spec
CONSTANTS
  Flags = {"own", "use", "alloc"}
  AppKinds = {"context"}
  Several = {}
  MaxHandles = 2
  MaxBlock = 4
PROPERTY ErrcodeTellsResult
