SPECIFICATION FairSpec
CONSTANTS
  COMMAND_QUEUE_SIZE = 8
  Calls <- KmainCalls
  PromptIrq = TRUE
  WriteEnables = TRUE
  PollTimeout = TRUE
  InputTimeout = TRUE
  PromptCommands = TRUE
  MaxCalls = 1
  MaxKeys = 0
  MaxResends = 0
PROPERTY AsksAfterSet
