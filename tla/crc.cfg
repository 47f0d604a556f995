CONSTANTS
  Width = 16
  KeyBits <- MCKeyBits
  Messages <- MCMessages
  MaxBurst = 9
SPECIFICATION Spec
INVARIANTS
  SameRegisters
  IsRemainder
  DetectsBursts
CHECK_DEADLOCK FALSE
