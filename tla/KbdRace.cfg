SPECIFICATION Spec
CONSTANTS
  COMMAND_QUEUE_SIZE = 2
  Calls <- KmainCalls
  PromptIrq = FALSE
  WriteEnables = TRUE
  PollTimeout = TRUE
  InputTimeout = TRUE
  PromptCommands = FALSE
  MaxCalls = 2
  MaxKeys = 1
  MaxResends = 1
INVARIANTS TypeOK BusyMeansPending
PROPERTY PendingKept
