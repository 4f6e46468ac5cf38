SPECIFICATION Spec
CONSTANTS
  Flags = {"own", "use", "alloc"}
  AppKinds = {"context", "queue", "mem", "program", "kernel"}
  Several = {"program", "kernel"}
  MaxHandles = 2
  MaxBlock = 12
INVARIANTS TypeOK HandlesUsable OwnershipSound LeaksKnown TouchesLive
PROPERTY CreateKeepsOthers
