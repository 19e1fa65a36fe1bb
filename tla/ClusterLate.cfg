SPECIFICATION FairSpec
CONSTANTS
  Servers = {s1, s2}
  s1 = s1
  s2 = s2
  Earlier = 1
  IntMax = 2147483647
  Debug = {}
  Kinds = {"WRITE"}
  MaxCmds = 3
  MaxShared = 3
  Fragile = {}
  MaxBreaks = 2
CHECK_DEADLOCK FALSE
PROPERTY Answered
