SPECIFICATION Spec
CONSTANTS
  Line <- MCLine
  Wiper <- MCWiper
  MaxSize = 2
  STEPS_PER_REV = 10
INVARIANT TypeOK
PROPERTIES PressServed InOrder ComesRound ChangesAsDisplayed
