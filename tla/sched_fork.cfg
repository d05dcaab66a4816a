CONSTANTS
  src = src  mid = mid  left = left  right = right  out = out
  Nodes = {src, left, right, out}
  InputNodes = {src}
  Edges <- ForkEdges
  Priority <- ForkPriority
  Target <- ForkTarget
  QueueMax <- ForkQueueMax
  Tasks = {1, 2, 3, 4, 5, 6, 7, 8}
  MaxItems = 2
  MaxOut = 1
  Weights = {1}
  Budget = 2
  Timed = {out}
  Slots = 2
  Fallible = {}
  Main = Main  NoNode = NoNode  NoTask = NoTask
SPECIFICATION Spec
INVARIANTS CompletedMeansDone
PROPERTIES ImplementsTaskRun
