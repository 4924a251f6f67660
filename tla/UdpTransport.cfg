CONSTANTS
  Fds = {f0, f1, f2}
  NoFd = NoFd
SPECIFICATION FairSpec
INVARIANTS
  SocketsAccounted
  UsesOwnSocket
PROPERTIES
  OthersKeepTheirs
  ReadReturns
