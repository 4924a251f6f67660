CONSTANTS
  NRx = 3
  NErr = 0
  NTx = 0
  Rollover = TRUE
  WarmBoot = FALSE
  Pacing = "buffer"
  SingleCore = TRUE
SPECIFICATION Spec
INVARIANTS
  NoFrameTwice
CHECK_DEADLOCK FALSE
