CONSTANTS
  NoProgram = 0
  NoZone = "off"
  Zones = {"a"}
  Programs = {1}
  InitialPrograms <- DueAtBoot
  ProgramInputs <- Postpone
  QuickPayloads <- NoPayloads
  StopCalls = {}
  ManualCalls = {}
  ShutdownCalls = {}
  Slots = {1}
  QueueCap = 2
  Poll = 1
  Grace = 1
  Lookback = 4
  StepMinutes = 1
  ManualMinutes = 1
  PromptSetup = TRUE
  MaxTime = 2
  MaxRequests = 0
  MaxEdits = 1
  MaxFaults = 0
  MaxCrashes = 0
SPECIFICATION FairSpec
PROPERTIES EditsTakeEffect
