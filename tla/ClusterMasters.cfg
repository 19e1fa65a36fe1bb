SPECIFICATION Spec
CONSTANTS
  Servers = {s1, s2, s3}
  s1 = s1
  s2 = s2
  s3 = s3
  Earlier = 0
  IntMax = 2147483647
  Debug = {s1}
  Kinds = {"WRITE", "REPLACE"}
  MaxCmds = 3
  MaxShared = 2
  Fragile = {s1}
  MaxBreaks = 1
SYMMETRY Alike
CHECK_DEADLOCK FALSE
INVARIANT TypeOK
INVARIANT WroteEverywhere
INVARIANT NumbersApart
INVARIANT SameNumbers
INVARIANT ReadsAgree
INVARIANT Released
