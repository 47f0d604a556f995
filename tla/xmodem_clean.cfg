CONSTANTS
  c1 = c1
  c2 = c2
  c3 = c3
  NULL = NULL
  Clients = {c1, c2}
  MaxByte = 15
  SohSize = 2
  StxSize = 3
  NameCap = 4
  SendBuf = 1
  JunkBytes = {0}
  JunkLFs = {FALSE}
  OpenResults = {"open"}
  StoreResults = {"stored", "failed"}
  Marks = {1, 2}
  Faults = {"crc", "number"}
  MaxFaults = 1
  NameLen <- MCNameLen
  Blocks <- MCBlocks2
SPECIFICATION FairSpec
INVARIANTS
  AckMeansStored
  StaysUp
PROPERTIES
  ImplementsUpload
  EveryTransferEnds
CHECK_DEADLOCK FALSE
