SPECIFICATION FairSpec
CONSTANTS
  VehiclePrompt = TRUE
INVARIANTS
  TypeOK
  NotLeftUp
PROPERTIES
  SteadyKept
  CommandAnswered
