CONSTANTS
  Size <- MCSize
  MaxBytes <- MCMaxBytes
SPECIFICATION Spec
INVARIANTS
  TypeOK
  NothingLost
  OneLineEach
  WholeLinesNeverCrash
CHECK_DEADLOCK FALSE
