SPECIFICATION FairSpec
CONSTANTS
  Prompt = TRUE
  RefBound = 2
PROPERTIES
  HvacAnswered
