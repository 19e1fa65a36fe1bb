SPECIFICATION FairSpec
CONSTANTS
  N = 1
  NUsers = 1
  Workers = {w1}
  w1 = w1
  Debug = TRUE
  UserCmds = {"WRITE"}
  MaxRecv = 1
  MaxCmds = 1
  MaxCrashes = 1
  MaxTimeouts = 3
CHECK_DEADLOCK FALSE
PROPERTY WriteAnswered
