CONSTANTS
  NRx = 3
  NErr = 1
  NTx = 2
  Rollover = FALSE
  WarmBoot = FALSE
  Pacing = "driver"
  SingleCore = TRUE
SPECIFICATION FairSpec
INVARIANTS
  SenderNotStranded
PROPERTIES
  RefinesMailbox
  InterruptsServed
  SenderReturns
CHECK_DEADLOCK FALSE
