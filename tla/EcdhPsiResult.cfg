SPECIFICATION Spec
CONSTANTS
  N <- N32
  Key <- MCKey
  Dup <- MCDup
  Targets <- Receiver
  BatchSize = 2
  Window = 1
  Recovery = TRUE
  MaxCrash = 1
INVARIANTS ResultExact
