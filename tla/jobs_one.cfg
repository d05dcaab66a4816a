CONSTANTS
  r1 = r1  r2 = r2  j1 = j1  j2 = j2
  Runners = {r1, r2}
  Jobs = {j1}
  NoRunner = NoRunner  NoJob = NoJob
  Target <- AnyTarget
  MaxAttempts = 2
  Punctual = TRUE
  Stoppable = {j1}  Removable = {}
  MaxVersion = 0
  MaxCrashes = 1
SPECIFICATION Spec
SYMMETRY Interchangeable
INVARIANTS OneExecutor
