CONSTANTS
  Start = 3
  IntMod = 6
  Inputs <- MCInputs
  MaxLines = 3
  Room = 2
SPECIFICATION FairSpec
INVARIANTS
  TypeOK
  ShowsZero
PROPERTIES
  BothEndUnlessStopped
CHECK_DEADLOCK FALSE
