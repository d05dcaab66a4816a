CONSTANTS
  r1 = r1  r2 = r2  j1 = j1  j2 = j2
  Runners = {r1}
  Jobs = {j1}
  NoRunner = NoRunner  NoJob = NoJob
  Target <- AnyTarget
  MaxAttempts = 3
  Punctual = TRUE
  Stoppable = {j1}  Removable = {j1}
  MaxVersion = 1
  MaxCrashes = 2
SPECIFICATION FairSpec
PROPERTIES JobsSettle StopIsObeyed
