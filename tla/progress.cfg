CONSTANTS
  NoProgram = 0
  NoZone = "off"
  Zones = {"a", "b"}
  Programs = {1}
  InitialPrograms <- DueAtBoot
  ProgramInputs <- NoInputs
  QuickPayloads <- NoPayloads
  StopCalls = {}
  ManualCalls = {}
  ShutdownCalls = {}
  Slots = {1}
  QueueCap = 1
  Poll = 1
  Grace = 0
  Lookback = 4
  StepMinutes = 1
  ManualMinutes = 1
  PromptSetup = TRUE
  MaxTime = 1
  MaxRequests = 1
  MaxEdits = 0
  MaxFaults = 0
  MaxCrashes = 1
SPECIFICATION FairSpec
PROPERTIES EveryOccurrenceRecorded EveryRequestRecorded EveryRunEnds
