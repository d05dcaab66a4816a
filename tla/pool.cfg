CONSTANTS
  huge = huge  asr = asr  tts = tts  merge = merge
  accelerator = accelerator  cpu = cpu
  Workers = {huge, asr, tts, merge}
  Keys = {accelerator, cpu}
  NoKey = NoKey
  Limits <- MCLimits
  Requires <- MCRequires
  ExclusiveKey <- MCExclusive
  Priority <- MCPriority
  MaxBatches = 2
SPECIFICATION FairSpec
INVARIANTS TypeOK LedgerIsExact SleepersAreNotified
PROPERTIES WaitsOnlyForSharers EveryoneIsServed
CHECK_DEADLOCK FALSE
