CONSTANTS
  NoNode = NoNode src = src model = model other = other lft = lft right = right
  merge = merge pack = pack clone = clone
  Nodes = {src, model, other, lft, right, merge, pack}
  Targets <- MCTargets Outputs <- MCOutputs Inputs <- MCInputs
  BroadcastPorts <- MCBroadcast ListPorts <- MCList OptionalPorts <- MCOptional
  QueueMax <- MCQueueMax Items <- MCItems Results <- MCResults
SPECIFICATION Spec
INVARIANTS TypeOK CountsAreExact CompletedAllBranches JoinsInStep OnlyLeftoversStayOpen
CHECK_DEADLOCK FALSE
