SPECIFICATION FairSpec
CONSTANTS
  RingSize = 1
  N = 2
INVARIANTS
  TypeOK
  AckedStored
  OvertakenFew
  InStep
  ConfirmedStored
PROPERTIES
  UpdateEnds
  RingDrains
