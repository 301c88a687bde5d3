SPECIFICATION FairSpec
CONSTANTS
  Inputs <- MCInputsResume
  Configs <- MCRecovery
  BucketSize = 1
  IndexCache = 2
  MaxCrash = 1
PROPERTIES PeerLossNoticed
