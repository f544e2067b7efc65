CONSTANTS
  Parts = {"dashboard", "history", "search", "map", "weather", "program", "schedules", "quick run", "zones",
           "stub executor", "mock api", "preview", "controller", "zone gate", "weather gate", "legacy app"}
  Zones = {"a", "b"}
  None = "none"
  Programs = {"p", "q"}
  Names = {"n", "m", ""}
  Blank = ""
  Minutes <- Typed
  Requests = {1, 2}
  Polls = {"p"}
  Commands = {"c"}
  Clients = {"x", "y"}
  RunTime = 2
  MaxMoves = 2
  Filters = {"p"}
  All = "all"
  Recorded <- RunOf
  PageSize = 1
  Loads = {"l", "m"}
  MaxRuns = 3
  MaxFailures = 1
  Fetches = {1, 2}
  MaxTexts = 4
  MinVertices = 2
  MaxVertices = 2
  Patches = {1}
  Rain = {1000, 1020, 10000}
  Freeze <- AroundLimits
  RainTexts = {0, 39, 394, 1020}
  FreezeTexts <- TextsAround
  Times = {0, 6}
  Intervals = {0, 1}
  Years = {0, 24, 2026}
  MaxEdits = 2
  ListMoves = 4
  MaxWrites = 3
  Durations = {1, 3}
  Runs <- OneRun
  Days = {0, 14}
  MaxTime = 5
  DayLength = 8
  Week = 3
  Horizon = 3
  LastStart = 20
  StartTimes <- Starts
  Jumps <- ClockChanges
  Lag = 1
  StartupGrace = 2
  HardExpirySlack = 1
  ServiceMoves = 3
  GateZones = {"a"}
  Ttl = 2
  Timeout = 1
  Places = {"p", "q"}
  Skies <- OneSky
  Limits = {1}
  Cache = 1
  Stale = 1
  Retry = 1
  Lookback = 2
  Lookahead = 1
  LastTime = 2
  MaxSaves = 1
  LegacyZones = {"a"}
  LegacyRun = 1
  MaxDays = 1
SPECIFICATION Spec
INVARIANTS NeverShownShort StartedAsChosen EmptyMeansNone OlderSkipsNothing OneDraft DrawnForZone ShownIsStored
  UntouchedStaysExact AdvertisedAccepted ValidIsAccepted ListAgrees
  PreviewAgrees CountdownIsTrue DisabledBites PredictionComesTrue
PROPERTIES VerifiedAtReturn ShownSettles NeverOutOfOrder SwitchKept DeletedStaysGone ShownIsAccepted ImplementsApi
CHECK_DEADLOCK FALSE
