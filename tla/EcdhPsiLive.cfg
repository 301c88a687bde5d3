SPECIFICATION FairSpec
CONSTANTS
  N <- N33
  Key <- MCKey
  Dup <- MCDup
  Targets <- Both
  BatchSize = 2
  Window = 1
  Recovery = TRUE
  MaxCrash = 0
INVARIANTS ResultExact
PROPERTIES Completes
