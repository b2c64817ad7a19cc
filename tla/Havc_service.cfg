SPECIFICATION FairSpec
CONSTANTS
  Prompt = FALSE
  RefBound = 3
INVARIANTS
  TypeOK
  HeldWhileWorking
  AtRestAsleep
PROPERTIES
  CloseEndsWorker
