CONSTANTS
  c1 = c1
  c2 = c2
  c3 = c3
  NULL = NULL
  Clients = {c1}
  MaxByte = 15
  SohSize = 2
  StxSize = 3
  NameCap = 4
  SendBuf = 1
  JunkBytes = {0}
  JunkLFs = {FALSE}
  OpenResults = {"open"}
  StoreResults = {"stored"}
  Marks = {1}
  Faults = {"disconnect"}
  MaxFaults = 1
  NameLen <- MCNameLen
  Blocks <- MCBlocks5
SPECIFICATION Spec
INVARIANTS
  FinishedMeansComplete
CHECK_DEADLOCK FALSE
