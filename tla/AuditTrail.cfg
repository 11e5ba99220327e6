SPECIFICATION FairSpec
CONSTANTS
  Requests = {r1, r2}
  MaxRetries = 2
  Capacity = 2
  MaxEvents = 3
  MaxBoots = 2
  Faults = {"db", "redis", "kill"}
INVARIANTS
  TypeOK
  StoredOnceInOrder
  DeliveredAreAccountedFor
  HandlersEndFirst
PROPERTIES
  StartEnds
  ShutdownEnds
  BufferMoves
CHECK_DEADLOCK FALSE
