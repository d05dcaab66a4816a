CONSTANTS
  src = src  mid = mid  left = left  right = right  out = out
  Nodes = {src, mid, out}
  InputNodes = {src}
  Edges <- ChainEdges
  Priority <- ChainPriority
  Target <- ChainTarget
  QueueMax <- ChainQueueMax
  Tasks = {1, 2, 3, 4, 5, 6, 7, 8, 9, 10}
  MaxItems = 1
  MaxOut = 2
  Weights = {1, 3}
  Budget = 2
  Timed = {}
  Slots = 1
  Fallible = {mid}
  Main = Main  NoNode = NoNode  NoTask = NoTask
SPECIFICATION FairSpec
INVARIANTS TypeOK TasksInPlace CountersExact NoMissedWakeup BudgetExact PlannerKeepsOneBatch
PROPERTIES RunEnds
