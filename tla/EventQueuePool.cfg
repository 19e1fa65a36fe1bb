SPECIFICATION FairSpec
CONSTANTS
  Main = Main
  w1 = w1
  w2 = w2
  w3 = w3
  Workers = {w1, w2, w3}
  MaxSpurious = 2
  MaxEvents = 4
CHECK_DEADLOCK FALSE
INVARIANT TypeOK
INVARIANT LeftBehind
INVARIANT SignalFindsEvent
PROPERTY HandledUnlessMissed
