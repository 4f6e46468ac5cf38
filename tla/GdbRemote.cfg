CONSTANTS
  Worlds <- MCWorlds
  Blocks = 2
  MaxConsole = 2
  MaxCorrupt = 1
  LinkMayFail = TRUE

SPECIFICATION SpecBefore
INVARIANTS
  TypeOK
  AnswersAreForRequests
  HaltedAndDrained
  TransfersComplete
  StopResynchronizes
PROPERTIES
  CallsReturnWhileUp
  
