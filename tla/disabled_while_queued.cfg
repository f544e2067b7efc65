CONSTANTS
  NoProgram = 0
  NoZone = "off"
  Zones = {"a", "b"}
  Programs = {1, 2}
  InitialPrograms <- BothDue
  ProgramInputs <- NoInputs
  QuickPayloads <- NoPayloads
  StopCalls = {}
  ManualCalls = {}
  ShutdownCalls = {}
  Slots = {1, 2}
  QueueCap = 2
  Poll = 1
  Grace = 1
  Lookback = 4
  StepMinutes = 1
  ManualMinutes = 1
  PromptSetup = TRUE
  MaxTime = 1
  MaxRequests = 0
  MaxEdits = 1
  MaxFaults = 0
  MaxCrashes = 0
SPECIFICATION FairSpec
PROPERTIES EveryQueuedRecorded
