CONSTANTS
  NoNode = NoNode src = src model = model other = other lft = lft right = right
  merge = merge pack = pack clone = clone
  Nodes = {src, other, clone}
  Targets <- CloneTargets Outputs <- MCOutputs Inputs <- MCInputs
  BroadcastPorts <- MCBroadcast ListPorts <- MCList OptionalPorts <- MCOptional
  QueueMax <- MCQueueMax Items <- CloneItems Results <- CloneResults
SPECIFICATION Spec
INVARIANTS OptionalInputsAreUsed
CHECK_DEADLOCK FALSE
