SPECIFICATION Spec
CONSTANTS
  N = 2
  NUsers = 1
  Workers = {w1}
  w1 = w1
  Debug = TRUE
  UserCmds = {"WRITE", "REPLACE"}
  MaxRecv = 2
  MaxCmds = 2
  MaxCrashes = 1
  MaxTimeouts = 1
CHECK_DEADLOCK FALSE
INVARIANT FilesAgree
INVARIANT AnsweredOnce
INVARIANT NeverAlone
INVARIANT SuccessEventBacked
