CONSTANTS
  NoProgram = 0
  NoZone = "off"
  Zones = {"a", "b"}
  Programs = {1}
  InitialPrograms <- OneProgram
  ProgramInputs <- Reschedule
  QuickPayloads <- NoPayloads
  StopCalls = {}
  ManualCalls = {}
  ShutdownCalls = {"sigterm"}
  Slots = {1, 2}
  QueueCap = 2
  Poll = 1
  Grace = 0
  Lookback = 2
  StepMinutes = 1
  ManualMinutes = 1
  PromptSetup = TRUE
  MaxTime = 2
  MaxRequests = 0
  MaxEdits = 1
  MaxFaults = 0
  MaxCrashes = 1
SPECIFICATION Spec
INVARIANTS TypeOK RestartNeverRefires NoOrphans
PROPERTIES ImplementsLedger
