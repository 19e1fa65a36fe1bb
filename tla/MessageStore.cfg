SPECIFICATION Spec
CONSTANTS
  Workers = {w1, w2}
  w1 = w1
  w2 = w2
  a = a
  b = b
  Chars <- TheChars
  NL = NL
  Pad = Pad
  Texts <- TheTexts
  InitialFiles <- TheFiles
  IntMax = 4
  MaxWrites = 3
  MaxReplaces = 2
  MaxRestarts = 1
CHECK_DEADLOCK FALSE
INVARIANT TypeOK
INVARIANT AnswersTrue
INVARIANT NumbersGrow
INVARIANT StartsAgain
PROPERTY OthersKept
PROPERTY Implements
