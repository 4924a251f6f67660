\* A build with configASSERT: two of three tasks also run setFilter or setMask.
CONSTANTS
  Tasks = {canService, user, filterTask}
  NoTask = NoTask
  Configurers = {user, filterTask}
  Brackets = 3
  Asserts = TRUE
SPECIFICATION FairSpec
INVARIANTS
  CsExclusive
  OnlyUnlockAsserts
  QuiescentBusIsFree
  LockCoversFirstBracket
  BusNeverWedges
PROPERTIES
  BusProgress
CHECK_DEADLOCK FALSE
