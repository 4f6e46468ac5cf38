CONSTANTS
  Found <- MCFound
  MaxDevices = 3
  MaxEntries = 2

SPECIFICATION Spec
INVARIANTS
  TypeOK
  TargetListedOnce
  OffersReachedDevices
PROPERTY ReachedIsOffered
