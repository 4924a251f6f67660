CONSTANTS
  t1 = t1
  t2 = t2
  Configurers = {t1, t2}
  Calls <- MCCalls
  s1 = s1
  s2 = s2
  Senders = {s1, s2}
  SendIds <- MCSendIds
  BusFrames <- MCBusFrames
  Mhz = 16
  Setups <- MCSetups
  WarmBoot = FALSE
  NOps = 5
SPECIFICATION FairSpec
INVARIANTS
  HeldIsInChip
  FiltersSelect
  ConfigHasOwner
  RolloverKept
  SendsAsMeant
  ReadsAsSent
  RateIsNominal
PROPERTIES
  BackOnBus
CHECK_DEADLOCK FALSE
