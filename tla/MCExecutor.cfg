SPECIFICATION ExecFairSpec
CONSTANTS
  PipeCapacity = 1
  MaxChunks = 2
  ExitStatuses <- Statuses
INVARIANTS
  NoGap
  CompleteOutput
  HonestExitCode
PROPERTIES
  ExecuteReturns
CHECK_DEADLOCK FALSE
