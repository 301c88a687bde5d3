SPECIFICATION Spec
CONSTANTS
  Tasks <- MCTasks
  Block = 2
INVARIANTS Rr22Exact
