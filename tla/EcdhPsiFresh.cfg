SPECIFICATION FairSpec
CONSTANTS
  N <- N32
  Key <- MCKey
  Dup <- MCDup
  Targets <- Both
  BatchSize = 2
  Window = 1
  Recovery = FALSE
  MaxCrash = 1
INVARIANTS ResultExact
PROPERTIES Completes
