CONSTANTS
  Channels <- LowChannels
  NumChannels = 12
  Size = 3
  FifoDepth = 2
  NTransfers = 3
  MultiCore = TRUE
  Timeouts = TRUE
SPECIFICATION FairSpec
INVARIANTS
  TransferSettles
  NoStaleToken
  NoPhantomEnd
  TransferNotStranded
PROPERTIES
  TransferReturns
CHECK_DEADLOCK FALSE
