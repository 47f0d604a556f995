CONSTANT MaxKids = 5
SPECIFICATION FairSpec
INVARIANTS
  TypeOK
  DoneMeansReaped
  WaitFindsChild
PROPERTIES
  EndsWhenExitsApart
CHECK_DEADLOCK FALSE
