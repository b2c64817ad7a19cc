SPECIFICATION FairSpec
CONSTANTS
  PieceBound = 2
  QueueBound = 1
PROPERTIES
  LossReconnects
