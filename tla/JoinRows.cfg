SPECIFICATION Spec
CONSTANTS
  Tasks <- MCTasks
  Batch = 2
INVARIANTS JoinIsSql
