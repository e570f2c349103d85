SPECIFICATION Spec
CONSTANTS
  Key <- MCKey
  Depth = 2
  NPolls = 2
  MaxEvents = 2
  MaxFaults = 1
INVARIANTS TypeOK KnowsKeys LedsShowLocks ReadIsTyped
PROPERTIES TypedIsRead Recovers
