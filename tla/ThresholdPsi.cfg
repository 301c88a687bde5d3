SPECIFICATION Spec
CONSTANTS
  Tasks <- MCTasks
  Batch = 2
  Window = 1
INVARIANT ThresholdResult
