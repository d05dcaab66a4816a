CONSTANTS
  MaxTasks = 4  MaxWeight = 2  MaxSize = 3  MaxTarget = 4  Keys = {0, 1}
  a = a b = b c = c d = d
  Nodes <- MCNodes  MaxEdges = 4
SPECIFICATION MCSpec
INVARIANTS PlanIsAPartition PlanIsShortest BytesOnlyShrinkBatches
INVARIANTS OrderIsTopological RejectsExactlyCycles
CHECK_DEADLOCK FALSE
