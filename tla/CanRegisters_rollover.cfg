\* One task in setFilter or setMask on a driver set up with RxBufferType::Rollover.
CONSTANTS
  t1 = t1
  Configurers = {t1}
  Calls <- MCCalls
  Senders = {}
  SendIds = {}
  BusFrames <- MCBusFrames
  Mhz = 16
  Setups <- MCSetups
  WarmBoot = FALSE
  NOps = 2
SPECIFICATION Spec
INVARIANT RolloverTakesAll
CHECK_DEADLOCK FALSE
