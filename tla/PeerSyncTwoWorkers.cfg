SPECIFICATION Spec
CONSTANTS
  N = 2
  NUsers = 1
  Workers = {w1, w2}
  w1 = w1
  w2 = w2
  Debug = TRUE
  UserCmds = {"WRITE", "REPLACE"}
  MaxRecv = 2
  MaxCmds = 1
  MaxCrashes = 0
  MaxTimeouts = 0
CHECK_DEADLOCK FALSE
SYMMETRY Symmetry
INVARIANT TypeOK
INVARIANT PeersFirst
