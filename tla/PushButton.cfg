SPECIFICATION Spec
CONSTANTS
  NChannels = 2
  Period = 5
  MaxReps = 3
  Callback <- MCCallback
  None = None
  Reject = 1
  Residual = 2
  ScrollDelay = 3
  Scrolling = TRUE
  EdgesAt <- MCHandler
  MaxLag = 1
INVARIANTS TypeOK OneDetector NoLeak OnTime
PROPERTIES LongMeansHeld HoldEnds
