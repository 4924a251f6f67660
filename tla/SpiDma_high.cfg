CONSTANTS
  Channels <- HighChannels
  NumChannels = 12
  Size = 2
  FifoDepth = 2
  NTransfers = 1
  MultiCore = FALSE
  Timeouts = FALSE
SPECIFICATION FairSpec
PROPERTIES
  TransferReturns
CHECK_DEADLOCK FALSE
