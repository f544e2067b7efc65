-------------------------------- MODULE Parts --------------------------------
(***************************************************************************)
(* The components beside the scheduler.  A behaviour is of one of them:    *)
(* "part" says which, and the variables that are not its own stay unused.  *)
(* A name that several components use stands for the variable of the one   *)
(* that runs.                                                              *)
(***************************************************************************)
EXTENDS Integers, Sequences, FiniteSets

CONSTANTS Parts,                                       \* the components that may run
          Zones, None, Programs, Names, Blank, Minutes, Requests, Polls, Commands, Clients,  \* of several components
          RunTime, MaxMoves,                           \* of Dashboard; the second also of QuickRun, LegacyApp and MapEditor
          Filters, All, Recorded, PageSize, Loads, MaxRuns, MaxFailures,                     \* of History
          Fetches, MaxTexts,                           \* of Search
          MinVertices, MaxVertices, Patches,           \* of MapEditor
          Rain, Freeze, RainTexts, FreezeTexts,        \* of WeatherForm
          Times, Intervals, Years, MaxEdits,           \* of ProgramEditor
          ListMoves,                                   \* of Schedules
          MaxWrites,                                   \* of ZonesManager
          Durations, Runs, Days, MaxTime,              \* of StubExecutor and MockApi; the first also of Controller
          DayLength, Week, Horizon, LastStart, StartTimes, Jumps,                            \* of Preview
          Lag, StartupGrace, HardExpirySlack, ServiceMoves,                                  \* of Controller
          GateZones, Ttl, Timeout,                     \* of ZoneGate
          Places, Skies, Limits, Cache, Stale, Retry, Lookback, Lookahead, LastTime, MaxSaves,  \* of WeatherGate
          LegacyZones, LegacyRun, MaxDays              \* of LegacyApp
VARIABLES
  part,
  yard, requests, live, tab, commands, busy, selected, chosen, moves,                                  \* Dashboard
  runs, filter, page, data, loading, failed, loads, crossed, walk, failures,                           \* History
  open, query, timer, fetches, current, shown, found, unavailable, texts,                              \* Search
  placed, stored, editing, tool, pin, polygon, saving, patches, home,                                  \* MapEditor
  field, initial, units, text, touched, sent, refresh, others,                                         \* WeatherForm
  program, enabled, draft, pc, request, edits,                                                         \* ProgramEditor
  programs, confirm,                                                                                   \* Schedules
  zones, dialog, submitting,                                                                           \* QuickRun
  rows, unsure, writes,                                                                                \* ZonesManager
  endsAt, programRun, startedAt, reachable, rainDelay, now, answered,                                  \* StubExecutor
  running, unreachable, cached, rainDelayDays,                                                         \* MockApi
  jump,                                                                                                \* Preview
  device, static, run, cache, clients, lock, ours, missed,                                             \* Controller
  offFor, snapshot, age, holder,                                                                       \* ZoneGate
  sky, settings, failedAt, warming, decision, prediction, saves,                                       \* WeatherGate
  house, expanded, panel                                                                               \* LegacyApp
vars == <<part,
  yard, requests, live, tab, commands, busy, selected, chosen, moves,
  runs, filter, page, data, loading, failed, loads, crossed, walk, failures,
  open, query, timer, fetches, current, shown, found, unavailable, texts,
  placed, stored, editing, tool, pin, polygon, saving, patches, home,
  field, initial, units, text, touched, sent, refresh, others,
  program, enabled, draft, pc, request, edits,
  programs, confirm,
  zones, dialog, submitting,
  rows, unsure, writes,
  endsAt, programRun, startedAt, reachable, rainDelay, now, answered,
  running, unreachable, cached, rainDelayDays,
  jump,
  device, static, run, cache, clients, lock, ours, missed,
  offFor, snapshot, age, holder,
  sky, settings, failedAt, warming, decision, prediction, saves,
  house, expanded, panel>>

Dashboard == INSTANCE Dashboard
History == INSTANCE History
Search == INSTANCE Search
MapEditor == INSTANCE MapEditor WITH MaxHomes <- MaxMoves
WeatherForm == INSTANCE WeatherForm
ProgramEditor == INSTANCE ProgramEditor
Schedules == INSTANCE Schedules WITH MaxMoves <- ListMoves
QuickRun == INSTANCE QuickRun
ZonesManager == INSTANCE ZonesManager
StubExecutor == INSTANCE StubExecutor WITH Minutes <- Durations
MockApi == INSTANCE MockApi WITH Minutes <- Durations
Preview == INSTANCE Preview WITH LastTime <- LastStart
Controller == INSTANCE Controller WITH Minutes <- Durations, MaxMoves <- ServiceMoves
ZoneGate == INSTANCE ZoneGate WITH Zones <- GateZones
WeatherGate == INSTANCE WeatherGate
LegacyApp == INSTANCE LegacyApp WITH Zones <- LegacyZones, RunTime <- LegacyRun

ASSUME DashboardParts == Dashboard!DashboardAssumption
ASSUME HistoryParts == History!HistoryAssumption
ASSUME SearchParts == Search!SearchAssumption
ASSUME MapParts == MapEditor!MapEditorAssumption
ASSUME WeatherParts == WeatherForm!WeatherFormAssumption
ASSUME ProgramParts == ProgramEditor!ProgramEditorAssumption
ASSUME SchedulesParts == Schedules!SchedulesAssumption
ASSUME QuickRunParts == QuickRun!QuickRunAssumption
ASSUME ZonesParts == ZonesManager!ZonesManagerAssumption
ASSUME StubParts == StubExecutor!StubAssumption /\ MockApi!MockAssumption
ASSUME PreviewParts == Preview!PreviewAssumption
ASSUME ControllerParts == Controller!ControllerAssumption
ASSUME GateParts == ZoneGate!ZoneGateAssumption
ASSUME SkyParts == WeatherGate!WeatherGateAssumption
ASSUME LegacyParts == LegacyApp!LegacyAssumption

-----------------------------------------------------------------------------
\* The variables that are not the running component's.
Unused ==
  /\ IF part = "dashboard" THEN TRUE ELSE yard = 0 /\ chosen = 0
  /\ IF part \in {"dashboard", "schedules", "zones", "legacy app"} THEN TRUE ELSE requests = 0 /\ busy = 0
  /\ IF part \in {"dashboard", "legacy app"} THEN TRUE ELSE live = 0 /\ tab = 0 /\ commands = 0
  /\ IF part \in {"dashboard", "map"} THEN TRUE ELSE selected = 0
  /\ IF part \in {"dashboard", "schedules", "quick run", "controller", "legacy app"} THEN TRUE ELSE moves = 0
  /\ IF part = "history" THEN TRUE ELSE runs = 0 /\ filter = 0 /\ data = 0 /\ failed = 0 /\ loads = 0 /\ walk = 0
       /\ failures = 0
  /\ IF part \in {"history", "program"} THEN TRUE ELSE page = 0
  /\ IF part \in {"history", "search"} THEN TRUE ELSE loading = 0
  /\ IF part \in {"history", "map"} THEN TRUE ELSE crossed = 0
  /\ IF part = "search" THEN TRUE ELSE open = 0 /\ query = 0 /\ timer = 0 /\ fetches = 0 /\ current = 0 /\ found = 0
       /\ unavailable = 0 /\ texts = 0
  /\ IF part \in {"search", "schedules"} THEN TRUE ELSE shown = 0
  /\ IF part = "map" THEN TRUE ELSE placed = 0 /\ tool = 0 /\ pin = 0 /\ polygon = 0 /\ saving = 0 /\ patches = 0
       /\ home = 0
  /\ IF part \in {"map", "weather", "weather gate"} THEN TRUE ELSE stored = 0
  /\ IF part \in {"map", "zones"} THEN TRUE ELSE editing = 0
  /\ IF part \in {"weather", "legacy app"} THEN TRUE ELSE field = 0
  /\ IF part = "weather" THEN TRUE ELSE initial = 0 /\ units = 0 /\ text = 0 /\ touched = 0 /\ sent = 0 /\ refresh = 0
       /\ others = 0
  /\ IF part \in {"program", "preview"} THEN TRUE ELSE program = 0
  /\ IF part \in {"program", "quick run", "zone gate"} THEN TRUE ELSE enabled = 0
  /\ IF part \in {"program", "zones"} THEN TRUE ELSE draft = 0
  /\ IF part = "program" THEN TRUE ELSE pc = 0 /\ edits = 0
  /\ IF part \in {"program", "quick run"} THEN TRUE ELSE request = 0
  /\ IF part = "schedules" THEN TRUE ELSE programs = 0 /\ confirm = 0
  /\ IF part \in {"quick run", "zones"} THEN TRUE ELSE zones = 0
  /\ IF part = "quick run" THEN TRUE ELSE dialog = 0 /\ submitting = 0
  /\ IF part = "zones" THEN TRUE ELSE rows = 0 /\ unsure = 0 /\ writes = 0
  /\ IF part = "stub executor" THEN TRUE ELSE endsAt = 0 /\ programRun = 0 /\ startedAt = 0 /\ reachable = 0
       /\ rainDelay = 0
  /\ IF part \in {"stub executor", "mock api", "preview", "weather gate"} THEN TRUE ELSE now = 0
  /\ IF part \in {"stub executor", "mock api"} THEN TRUE ELSE answered = 0
  /\ IF part = "mock api" THEN TRUE ELSE running = 0 /\ unreachable = 0 /\ cached = 0 /\ rainDelayDays = 0
  /\ IF part = "preview" THEN TRUE ELSE jump = 0
  /\ IF part = "controller" THEN TRUE ELSE device = 0 /\ static = 0 /\ cache = 0 /\ lock = 0 /\ ours = 0 /\ missed = 0
  /\ IF part \in {"controller", "weather gate"} THEN TRUE ELSE run = 0
  /\ IF part \in {"controller", "zone gate"} THEN TRUE ELSE clients = 0
  /\ IF part = "zone gate" THEN TRUE ELSE offFor = 0 /\ age = 0 /\ holder = 0
  /\ IF part \in {"zone gate", "weather gate"} THEN TRUE ELSE snapshot = 0
  /\ IF part = "weather gate" THEN TRUE ELSE sky = 0 /\ settings = 0 /\ failedAt = 0 /\ warming = 0 /\ decision = 0
       /\ prediction = 0 /\ saves = 0
  /\ IF part = "legacy app" THEN TRUE ELSE house = 0 /\ expanded = 0 /\ panel = 0

StayUnused ==
  /\ part' = part
  /\ IF part = "dashboard" THEN TRUE ELSE UNCHANGED <<yard, chosen>>
  /\ IF part \in {"dashboard", "schedules", "zones", "legacy app"} THEN TRUE ELSE UNCHANGED <<requests, busy>>
  /\ IF part \in {"dashboard", "legacy app"} THEN TRUE ELSE UNCHANGED <<live, tab, commands>>
  /\ IF part \in {"dashboard", "map"} THEN TRUE ELSE UNCHANGED selected
  /\ IF part \in {"dashboard", "schedules", "quick run", "controller", "legacy app"} THEN TRUE ELSE UNCHANGED moves
  /\ IF part = "history" THEN TRUE ELSE UNCHANGED <<runs, filter, data, failed, loads, walk, failures>>
  /\ IF part \in {"history", "program"} THEN TRUE ELSE UNCHANGED page
  /\ IF part \in {"history", "search"} THEN TRUE ELSE UNCHANGED loading
  /\ IF part \in {"history", "map"} THEN TRUE ELSE UNCHANGED crossed
  /\ IF part = "search" THEN TRUE ELSE UNCHANGED <<open, query, timer, fetches, current, found, unavailable, texts>>
  /\ IF part \in {"search", "schedules"} THEN TRUE ELSE UNCHANGED shown
  /\ IF part = "map" THEN TRUE ELSE UNCHANGED <<placed, tool, pin, polygon, saving, patches, home>>
  /\ IF part \in {"map", "weather", "weather gate"} THEN TRUE ELSE UNCHANGED stored
  /\ IF part \in {"map", "zones"} THEN TRUE ELSE UNCHANGED editing
  /\ IF part \in {"weather", "legacy app"} THEN TRUE ELSE UNCHANGED field
  /\ IF part = "weather" THEN TRUE ELSE UNCHANGED <<initial, units, text, touched, sent, refresh, others>>
  /\ IF part \in {"program", "preview"} THEN TRUE ELSE UNCHANGED program
  /\ IF part \in {"program", "quick run", "zone gate"} THEN TRUE ELSE UNCHANGED enabled
  /\ IF part \in {"program", "zones"} THEN TRUE ELSE UNCHANGED draft
  /\ IF part = "program" THEN TRUE ELSE UNCHANGED <<pc, edits>>
  /\ IF part \in {"program", "quick run"} THEN TRUE ELSE UNCHANGED request
  /\ IF part = "schedules" THEN TRUE ELSE UNCHANGED <<programs, confirm>>
  /\ IF part \in {"quick run", "zones"} THEN TRUE ELSE UNCHANGED zones
  /\ IF part = "quick run" THEN TRUE ELSE UNCHANGED <<dialog, submitting>>
  /\ IF part = "zones" THEN TRUE ELSE UNCHANGED <<rows, unsure, writes>>
  /\ IF part = "stub executor" THEN TRUE ELSE UNCHANGED <<endsAt, programRun, startedAt, reachable, rainDelay>>
  /\ IF part \in {"stub executor", "mock api", "preview", "weather gate"} THEN TRUE ELSE UNCHANGED now
  /\ IF part \in {"stub executor", "mock api"} THEN TRUE ELSE UNCHANGED answered
  /\ IF part = "mock api" THEN TRUE ELSE UNCHANGED <<running, unreachable, cached, rainDelayDays>>
  /\ IF part = "preview" THEN TRUE ELSE UNCHANGED jump
  /\ IF part = "controller" THEN TRUE ELSE UNCHANGED <<device, static, cache, lock, ours, missed>>
  /\ IF part \in {"controller", "weather gate"} THEN TRUE ELSE UNCHANGED run
  /\ IF part \in {"controller", "zone gate"} THEN TRUE ELSE UNCHANGED clients
  /\ IF part = "zone gate" THEN TRUE ELSE UNCHANGED <<offFor, age, holder>>
  /\ IF part \in {"zone gate", "weather gate"} THEN TRUE ELSE UNCHANGED snapshot
  /\ IF part = "weather gate" THEN TRUE ELSE UNCHANGED <<sky, settings, failedAt, warming, decision, prediction,
       saves>>
  /\ IF part = "legacy app" THEN TRUE ELSE UNCHANGED <<house, expanded, panel>>

Init ==
  /\ part \in Parts /\ Unused
  /\ \/ part = "dashboard" /\ Dashboard!Init
     \/ part = "history" /\ History!Init
     \/ part = "search" /\ Search!Init
     \/ part = "map" /\ MapEditor!Init
     \/ part = "weather" /\ WeatherForm!Init
     \/ part = "program" /\ ProgramEditor!Init
     \/ part = "schedules" /\ Schedules!Init
     \/ part = "quick run" /\ QuickRun!Init
     \/ part = "zones" /\ ZonesManager!Init
     \/ part = "stub executor" /\ StubExecutor!Init
     \/ part = "mock api" /\ MockApi!Init
     \/ part = "preview" /\ Preview!Init
     \/ part = "controller" /\ Controller!Init
     \/ part = "zone gate" /\ ZoneGate!Init
     \/ part = "weather gate" /\ WeatherGate!Init
     \/ part = "legacy app" /\ LegacyApp!Init

Next ==
  /\ StayUnused
  /\ \/ part = "dashboard" /\ Dashboard!Next
     \/ part = "history" /\ History!Next
     \/ part = "search" /\ Search!Next
     \/ part = "map" /\ MapEditor!Next
     \/ part = "weather" /\ WeatherForm!Next
     \/ part = "program" /\ ProgramEditor!Next
     \/ part = "schedules" /\ Schedules!Next
     \/ part = "quick run" /\ QuickRun!Next
     \/ part = "zones" /\ ZonesManager!Next
     \/ part = "stub executor" /\ StubExecutor!Next
     \/ part = "mock api" /\ MockApi!Next
     \/ part = "preview" /\ Preview!Tick
     \/ part = "controller" /\ Controller!Next
     \/ part = "zone gate" /\ ZoneGate!Next
     \/ part = "weather gate" /\ WeatherGate!Next
     \/ part = "legacy app" /\ LegacyApp!Next

\* The fairness of the dashboard.
Fairness ==
  /\ \A p \in Polls : WF_(Dashboard!vars)(part = "dashboard" /\ Dashboard!Poll(p))
  /\ \A r \in Polls \cup Commands :
       /\ WF_(Dashboard!vars)(part = "dashboard" /\ (Dashboard!Answer(r) \/ Dashboard!AnswerFails(r)))
       /\ WF_(Dashboard!vars)(part = "dashboard" /\ Dashboard!Land(r))
Spec == Init /\ [][Next]_vars /\ Fairness

-----------------------------------------------------------------------------
(* The properties of the components, each of the one that runs.            *)

\* The countdown of a run never ends before the run.
NeverShownShort == (part = "dashboard" => Dashboard!NeverShownShort) /\ (part = "legacy app" => LegacyApp!NeverShownShort)
\* A zone starts with minutes picked in its own row or with the default.
StartedAsChosen == part = "dashboard" => Dashboard!StartedAsChosen
\* Stop is offered for whatever waters (docs/PRODUCT.md, F2.3).
StopWhenWatering == part = "dashboard" => Dashboard!StopWhenWatering
\* "Nothing matches these filters" is said only when nothing does.
EmptyMeansNone == part = "history" => History!EmptyMeansNone
\* Paging to older runs passes over none.
OlderSkipsNothing == part = "history" => History!OlderSkipsNothing
\* A pin and a polygon are never drafted together.
OneDraft == part = "map" => MapEditor!OneDraft
\* A zone is never given a placement drawn for another.
DrawnForZone == part = "map" => MapEditor!DrawnForZone
\* Updates answered one at a time leave the map page showing what is stored.
ShownIsStored == part = "map" => MapEditor!ShownIsStored
\* A threshold nobody edited is saved as it is stored.
UntouchedStaysExact == part = "weather" => WeatherForm!UntouchedStaysExact
\* Whatever lies in the advertised range can be saved.
AdvertisedAccepted == part = "weather" => WeatherForm!AdvertisedAccepted
\* A draft that passes the form passes the route.
ValidIsAccepted == part = "program" => ProgramEditor!ValidIsAccepted
\* Renaming and switching a zone at once loses neither.
ListAgrees == part = "zones" => ZonesManager!ListAgrees
\* The preview names the occurrence that the executor fires next.
PreviewAgrees == part = "preview" => Preview!PreviewAgrees
\* The countdown of a zone the service has started is the controller's.
CountdownIsTrue == part = "controller" => Controller!CountdownIsTrue
\* A zone disabled for longer than a snapshot and a fetch may last never starts.
DisabledBites == part = "zone gate" => ZoneGate!DisabledBites
\* What the forecast predicts is what the run decides.
PredictionComesTrue == part = "weather gate" => WeatherGate!PredictionComesTrue
\* No run is skipped for the weather of another place (weather.py, M3.E5).
SkippedForPlace == part = "weather gate" => WeatherGate!SkippedForPlace

\* A command returns success only with its effect, or the outage, on the page.
VerifiedAtReturn ==
  [][(part = "dashboard" => Dashboard!ReturnsVerified) /\ (part = "legacy app" => LegacyApp!ReturnsVerified)]_vars
\* Results of an older text never replace a newer one's.
NeverOutOfOrder == [][part = "search" => Search!FoundGrows]_vars
\* Saving a program does not switch it.
SwitchKept == [][part = "program" => ProgramEditor!SaveKeepsSwitch]_vars
\* A deleted program stays off the list.
DeletedStaysGone == [][part = "schedules" => Schedules!GoneStays]_vars
\* The route accepts what the dialog submits.
ShownIsAccepted == [][part = "quick run" => QuickRun!SubmitsAccepted]_vars
\* Once nothing changes, a visible dashboard shows the yard as it is.
ShownSettles == <>[](part = "dashboard" => Dashboard!ShownAsItIs)

Stub == part = "stub executor"
Mock == part = "mock api"
Api == INSTANCE ExecutorApi WITH
  plan <- IF Stub THEN StubExecutor!Watering ELSE IF Mock THEN MockApi!Listed ELSE <<>>,
  reachable <- IF Stub THEN reachable ELSE IF Mock THEN ~unreachable ELSE TRUE,
  delay <- IF Stub THEN rainDelay ELSE IF Mock THEN rainDelayDays ELSE 0,
  cached <- IF Mock THEN cached ELSE <<>>,
  answer <- IF Stub \/ Mock THEN answered ELSE StubExecutor!Unavailable,
  Delays <- Days, Programs <- Runs
\* The mock of the legacy app keeps every promise of the API that it stands in for; the
\* stub of the end-to-end tests all but two, which are about an unreachable controller:
\* its status is not of the last-known cache, and its rain delay is answered.
ImplementsApi ==
  Api!Init /\ [][(Mock => Api!Next) /\ (Stub => Api!NextUncached)]_(Api!vars)
==============================================================================
