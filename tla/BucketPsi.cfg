SPECIFICATION FairSpec
CONSTANTS
  Inputs <- MCInputs
  Configs <- MCConfigs
  BucketSize = 1
  IndexCache = 2
  MaxCrash = 1
INVARIANTS CountBacked SameBucket ResultExact
PROPERTIES Completes
