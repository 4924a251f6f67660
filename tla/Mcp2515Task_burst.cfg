CONSTANTS
  NRx = 3
  NErr = 0
  NTx = 2
  Rollover = TRUE
  WarmBoot = FALSE
  Pacing = "any"
  SingleCore = FALSE
SPECIFICATION Spec
INVARIANTS
  NoLostWakeup
  ReadsAreFrames
  BackToBackSends
  SenderNotStranded
CHECK_DEADLOCK FALSE
