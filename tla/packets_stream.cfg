CONSTANTS
  NumMod = 3
  Files <- MCFiles
  MaxDelivered = 4
SPECIFICATION FairSpec
INVARIANTS
  TypeOK
  ListInOrder
  CursorsLive
  PacketsInOrder
  NothingLeaked
  FileRebuilt
PROPERTIES
  ImplementsReassembly
  ProgramsEnd
CHECK_DEADLOCK FALSE
