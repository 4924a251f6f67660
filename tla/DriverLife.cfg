CONSTANTS
  d1 = d1
  d2 = d2
  j1 = j1
  Nobody = Nobody
  Drivers = {d1, d2}
  Jobs = {j1}
SPECIFICATION FairSpec
INVARIANTS
  EntersBuilt
  DeletesOwnTask
  HandlersHitLive
  FirstRegistrationIsWhole
  SemaphoresExist
PROPERTIES
  CanServiceStarts
CHECK_DEADLOCK FALSE
