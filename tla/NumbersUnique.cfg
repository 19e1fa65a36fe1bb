SPECIFICATION Spec
CONSTANTS
  Servers = {s1, s2}
  s1 = s1
  s2 = s2
  Earlier = 1
  IntMax = 2147483647
  Debug = {}
  Kinds = {"WRITE"}
  MaxCmds = 2
  MaxShared = 2
  Fragile = {}
  MaxBreaks = 0
CHECK_DEADLOCK FALSE
INVARIANT NumbersUnique
