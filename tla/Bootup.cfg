SPECIFICATION Spec
CONSTANTS
  Contents <- TheContents
  Texts <- TheTexts
  Lines <- TheLines
  MaxEdits = 1
CHECK_DEADLOCK FALSE
INVARIANT TypeOK
INVARIANT OptionsWin
INVARIANT ReadyWhenUsed
