CONSTANTS
  NumMod = 65536
  Files <- MCText
  MaxDelivered = 3
SPECIFICATION Spec
INVARIANTS
  RepeatsReplaced
CHECK_DEADLOCK FALSE
