CONSTANTS
  c1 = c1
  c2 = c2
  c3 = c3
  NULL = NULL
  Clients = {c1}
  MaxByte = 15
  SohSize = 2
  StxSize = 3
  NameCap = 4
  SendBuf = 3
  JunkBytes = {0}
  JunkLFs = {FALSE}
  OpenResults = {"open"}
  StoreResults = {"stored"}
  Marks = {1}
  Faults = {"timeout"}
  MaxFaults = 1
  NameLen <- MCNameLen
  Blocks <- MCBlocks2
SPECIFICATION Spec
INVARIANTS
  OneAnswerPerCopy
CHECK_DEADLOCK FALSE
