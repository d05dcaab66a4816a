CONSTANTS
  NoNode = NoNode src = src model = model other = other lft = lft right = right
  merge = merge pack = pack clone = clone
  Nodes = {src, model, lft, merge}
  Targets <- RaceTargets Outputs <- MCOutputs Inputs <- MCInputs
  BroadcastPorts <- MCBroadcast ListPorts <- MCList OptionalPorts <- MCOptional
  QueueMax <- MCQueueMax Items <- RaceItems Results <- RaceResults
SPECIFICATION Spec
INVARIANTS CompletedAllBranches
CHECK_DEADLOCK FALSE
