CONSTANTS
  c1 = c1
  c2 = c2
  c3 = c3
  NULL = NULL
  Clients = {c1}
  MaxByte = 15
  SohSize = 2
  StxSize = 3
  NameCap = 4
  SendBuf = 2
  JunkBytes = {0, 1, 4}
  JunkLFs = {TRUE, FALSE}
  OpenResults = {"open", "failed", "no_dir"}
  StoreResults = {"stored", "failed"}
  Marks = {1}
  Faults = {"crc", "number", "timeout", "disconnect"}
  MaxFaults = 2
  NameLen <- MCNameLen
  Blocks <- MCBlocks17
SPECIFICATION Spec
INVARIANTS
  TypeOK
  InSync
  FileIsPrefix
  FinishedOrGone
CHECK_DEADLOCK FALSE
