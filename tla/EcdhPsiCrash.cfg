SPECIFICATION Spec
CONSTANTS
  N <- N13
  Key <- MCKeyCommon
  Dup <- MCDup
  Targets <- Receiver
  BatchSize = 2
  Window = 1
  Recovery = TRUE
  MaxCrash = 2
INVARIANTS TypeOK LinkInv StoreInv ResumeSafe StoreComplete KeysConsistent KeptDupCorrect SameDecision
