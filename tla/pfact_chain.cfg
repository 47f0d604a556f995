CONSTANTS
  Numbers <- MCNumbers
  PipeRoom = 2
  ExitMod = 3
  IntMod = 64
  Garbage = {TRUE, FALSE}
SPECIFICATION FairSpec
INVARIANTS
  TypeOK
  AnswerTrue
  AnsweredOnce
  SievePrimes
  StagesCounted
  NothingLeft
PROPERTIES
  EndsUnlessBlocked
CHECK_DEADLOCK FALSE
