CONSTANTS
  Word = 3
  UsPerSec = 2
  NsPerUs = 3
  Horizon = 7
  NFrames = 2
  NOther = 2
SPECIFICATION Spec
INVARIANTS
  StampIsOwnEdge
  StampIsAnEdge
  TimespecExact
CHECK_DEADLOCK FALSE
