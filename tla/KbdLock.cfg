SPECIFICATION FairSpec
CONSTANTS
  COMMAND_QUEUE_SIZE = 3
  Calls <- AllCalls
  PromptIrq = TRUE
  WriteEnables = FALSE
  PollTimeout = TRUE
  InputTimeout = TRUE
  PromptCommands = TRUE
  MaxCalls = 3
  MaxKeys = 1
  MaxResends = 1
INVARIANTS ReadyMeansEmpty WritesArrive NoAnswerDecoded ScanSetLearned
PROPERTIES ImplementsFifo DriverDrains AsksAfterSet
