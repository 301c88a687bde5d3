SPECIFICATION Spec
INVARIANTS
  OnlineExact CacheWhole ThreePcExact NtyExact NpartyExact KmprtExact ThresholdExact
  JoinExact Rr22Exact ApsiExact DkpirExact SealPirExact SpiralExact HintPirExact
