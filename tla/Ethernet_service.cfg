SPECIFICATION FairSpec
CONSTANTS
  PieceBound = 4
  QueueBound = 1
INVARIANTS
  PacketsWhole
  NothingOldSent
PROPERTIES
  UsedInTurn
  PacketReturned
  RequestsWritten
