SPECIFICATION Spec
CONSTANTS
  N = 1
  NUsers = 2
  Workers = {w1}
  w1 = w1
  Debug = TRUE
  UserCmds = {"WRITE", "REPLACE"}
  MaxRecv = 2
  MaxCmds = 2
  MaxCrashes = 1
  MaxTimeouts = 1
CHECK_DEADLOCK FALSE
INVARIANT NoDuplicateLine
INVARIANT WrittenEverywhere
INVARIANT NoZombiePeer
PROPERTY BoardReplicated
