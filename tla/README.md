# Sprinklergoose: a TLA+ verification project

Sprinklergoose waters a garden through a Rain Bird controller. A Python executor
(`apps/api`) talks to the controller and runs programs on schedule; a Next.js web
app (`apps/web-next`) edits programs, asks for runs and shows what happens; an older
single-page app (`apps/web`) does the manual part. Executor and web app share one
PostgreSQL database. This directory models the scheduler of the executor with
everything it touches, the executor's other services, and the pages and routes of
the web apps; it checks them with TLC, and proves with TLAPS, for every value of the
constants, all the safety properties the passing runs check.

## Inventory

| Part | State | Operations | Talks to |
|---|---|---|---|
| Scheduler engine (`scheduler.py`) | `_programs`, `_fired`, `_queue`, `_active`, `_run_task`, `_manual_until`, `_ready`, `_orphans_finalized`, `_refresh_needed`, `_last_refresh`, `_poke` | tick (orphans, refresh, evaluate, pump), `_execute`, `cancel_active`, `on_stop_all`, `on_manual_start`, start, stop | the store, the controller service, the weather gate |
| Scheduler store (`scheduler_db.py`) | PostgreSQL tables, an asyncpg pool | reads, the claim of run requests, inserts and updates of history, orphan finalization, LISTEN | PostgreSQL |
| Endpoints (`main.py`) | none of their own | start a zone, stop all, status, forecast, rain delay, rename | everything in the executor |
| Controller service (`rainbird.py`) | the call lock, `_runs` (countdowns), status cache, static info | start_zone, stop_all, get_status, rain delay, rename | the controller |
| Zone enablement (`zone_config.py`) | a snapshot with its age, a refresh lock | is_enabled, enabled_map | PostgreSQL |
| Weather gate (`weather.py`) | settings, snapshot, time of the last failure | update_settings, refresh, evaluate | Open-Meteo |
| Forecast (`forecast.py`), occurrences (`scheduler.py`, `schedule.ts`) | none | pure functions | |
| Web routes (`app/api/**`, `db/**`) | tables of the database | program, zone, geometry and settings edits, run requests, history, NOTIFY | PostgreSQL, the endpoints |
| Live status and dashboard (`use-live-status.ts`, `dashboard.tsx`, `executor.ts`) | the last status and when it came, the selected zone and its minutes, busy | poll, command, countdown, hide and show | the status and zone routes |
| Schedules, editor, quick run | list and one busy slot; a draft; a selection | switch, run now, delete; edit and save; submit | the program routes |
| History, search | page, filter, rows; query, timer, results | page and filter; type, choose | the history and geocoding routes |
| Zones and map pages | rows, one field, busy; a zone, a tool, a draft | rename, switch; place, clear, move home | the zone routes |
| Weather form | two thresholds as text, the units | type, flip units, save | the settings route |
| Legacy app (`apps/web`), its mock, the stub executor of the end-to-end tests | as the dashboard; the mock's and the stub's zones, run, rain delay | as the dashboard; rename, rain delay | the endpoints |

What makes them correct, and what is hard:

- **Scheduler engine.** One event loop interleaves the loop, a task per run and the
  HTTP calls at every await. An occurrence must water at most once, across
  restarts; every occurrence and request must get a history row; no water without
  a row; one run at a time; a stop-all must stop what it finds; rows must say what
  happened. Hard: cancellation at any await, store calls that raise although they
  took effect, kills, a poke that runs the loop before the canceller, reads that
  are stale after an await, the queue at its cap.
- **Store.** Each write is atomic; a timed out or abandoned call may have committed.
- **Endpoints.** A manual start or a stop first lets the scheduler give way, then
  commands the hardware; checks made before the awaits can be stale.
- **Controller service.** One command at a time; countdowns belong to the zone that
  really runs although the controller reports late and calls overlap.
- **Zone enablement.** No start on configuration older than its bound, whatever fails.
- **Weather gate.** A decision rests on data of the present location; the forecast's
  badge says what the run will decide.
- **Web routes.** What is saved is what the executor assumes of a program.
- **Live status.** The newest answer wins in the end; a countdown never ends before
  the water; a command that reports success has been seen.
- **Forms and lists.** What is shown is what is stored once requests have been
  answered, whichever order they are answered in; what passes the form passes the
  route; a value nobody touched is saved as it was.
- **Stand-ins.** The stub and the mock keep the API's promises, or the tests that use
  them test something else. The mock keeps them all; the stub keeps them while it is
  reachable.

`PROJECT.json` lists every component, modelled or not, and every hazard at its line.

## Modules

The scheduler:

- `Scheduler.tla` – the scheduler engine, the store, the hooks of the endpoints,
  the web routes that write what it reads, and the controller as "the zone it
  waters, for which row, until when". One action per stretch of code between two
  awaits.
- `RunLedger.tla` – what the history promises, without tasks, queue or awaits.
- `SchedulerProps.tla` – types, safety properties, the mapping of `Scheduler` to
  `RunLedger`, fairness, liveness, and the strengthenings `QueueInd` and `TypeInd`.
- `SchedulerInvariants.tla` – the other inductive invariants, state predicates only.
- `MCScheduler.tla` – small instances for TLC; one `.cfg` per run.
- `SchedulerProofs`, `SchedulerTypeProofs`, `SchedulerHistoryProofs`,
  `SchedulerRestartProofs`, `SchedulerLedgerProofs`, `SchedulerCalmProofs` – theorems and
  their proofs, each module on top of the one before.

The other parts, one module each, with their properties at the end:

| Module | Code | Beyond one component |
|---|---|---|
| `Controller` | `rainbird.py` | the controller with its lag and its dial, several requests |
| `ZoneGate` | `zone_config.py` | the start and status endpoints, an admin |
| `WeatherGate` | `weather.py`, `forecast.py` | the scheduler's refresh and its run's evaluation, the settings row, the sky |
| `Preview` | `schedule.ts` against `scheduler.py` | the calendar with a clock change |
| `Dashboard` | `use-live-status.ts`, `dashboard.tsx`, `executor.ts`, the zone and status routes | the yard, other users, the proxy's timeout |
| `Schedules`, `ProgramEditor`, `QuickRun` | `schedules-manager.tsx`, `program-editor.tsx`, `quick-run-dialog.tsx` and their routes | other admins |
| `ZonesManager`, `MapEditor` | `zones-manager.tsx`, `map-page-client.tsx`, the zone route | other admins, several requests in flight |
| `WeatherForm` | `weather-settings.tsx`, `units.ts`, the settings route | the map page's home marker |
| `History`, `Search` | `history-list.tsx`, `search-control.tsx` and their routes | runs recorded meanwhile |
| `LegacyApp` | `apps/web` | the executor, other pages |
| `ExecutorApi`, `StubExecutor`, `MockApi` | `client.ts`, `docs/API.md`; `stub-executor.mjs`; `mock.ts` | the mock implements the API, the stub does while reachable |
| `Parts` | | all of these but `ExecutorApi`, each as the component that runs |
| `MCParts` | | the constants of a small instance of `Parts` for TLC |
| `ExecutorProofs` | | theorems about `ZoneGate`, `WeatherGate`, `Controller`, and that `StubExecutor` and `MockApi` implement `ExecutorApi` |
| `PageProofs` | | theorems about the pages and the preview: every other module of this table |

`Parts` has them in one specification, for any constants: its variable `part` says in
the initial state which component runs and never changes; the component's variables
have their own names, a name that several components use stands for the variable of the
one that runs, and those of the others stay unused. So a behaviour is one of that
component alone, and each property of `Parts` is the component's property under
`part = "..."`. The run `parts` and the theorems speak of the same formulas: TLC
evaluates them on the instance of `MCParts`, the proofs are for every instance. In every module a request
is a record that goes through the route's statements one at a time, so that other
requests, other users and the page's own handlers come between them.

### State of the scheduler

The variables carry the source's names without the underscore: `fired` is `_fired`,
`queue` is `_queue`, and so on. `cache` is `_programs`. `program_runs` holds the
rows with their steps, indexed by id. `loop`, `tasks` and `calls` are the
coroutines: `pc` names the await (or, for `admit`, `evaluate` and `pump`, the Python
loop) the coroutine is at, the other fields are its local variables. `active` holds
one `ActiveRun` or `NoRun`. `hw` is the controller. Python's `None` is `None`.

### Actions of the scheduler and the code

| Actions | Code |
|---|---|
| `TickBegins`, `FinalizeOrphans`, `FinalizeFails` | `tick`, `_tick` up to the refresh |
| `FetchPrograms`, `FetchSteps`, `ReadRunKeys`, `ClaimRequests`, `RefreshFails`, `RefreshDone` | `_refresh`, one action per store call |
| `IgnoreRequest`, `OverflowRequest`, `InsertRequestMissed`, `AdmitRequest` | `_admit_run_now`, `_admit_quick_run` |
| `EvaluateProgram`, `SkipOccurrence`, `MissOccurrence`, `InsertMissed`, `AdmitOccurrence` | `_evaluate`, `_admit` |
| `PumpIdle`, `PumpDrops`, `PumpStarts` | `_pump` |
| `RunBegins` … `RunFinished` | `_execute`, await by await |
| `SetupFails`, `RunCrashes`, `HandlerFails` | its `except Exception` handlers |
| `CancelUnstarted`, `CancelSetup`, `CancelRun`, `InFlightCancelled`, `CancelHandler` | its `except CancelledError` handler, by where the cancellation lands |
| `CancelActive`, `StopClears`, `ItemCleared`, `ManualHolds`, `Command` | `cancel_active`, `on_stop_all`, `_clear_queue`, `on_manual_start`, and the endpoints around them |
| `Crash`, `ShutdownBegins`, `ShutdownEnds` | a kill; `stop` in the lifespan |
| `SaveProgram`, `ToggleProgram`, `DeleteProgram`, `ToggleZone`, `RunNow`, `QuickRun` | the web routes |
| `Notify` | `_listen_loop`, `_on_notify` |

### Abstractions of the scheduler

- *Scheduling.* Coroutines interleave only at awaits. `Yielded` is FALSE while the
  loop is inside a Python loop of its own. Created and cancelled tasks and calls
  whose awaited task has ended are on asyncio's ready queue and run before any
  awaited I/O completes (`Settled`, `Quiet`); the poked loop is on that queue too,
  so it can run before a canceller resumes. That order is the code's, since a
  task's `finally` pokes the loop before its awaiter is woken.
- *Store calls.* An awaited call is one action: it takes effect and its caller
  resumes, or it raises with or without its effect. A kill right after a commit is
  a kill before the caller's next await, for the caller's memory is lost. The call
  of a cancelled coroutine takes effect at once or never; that it could reach the
  server after the handler's own update is listed as a hazard. Claiming (SELECT,
  UPDATE) is one action: only this process claims. `fetch_programs` is two, because
  an edit may come in between.
- *Hardware commands.* `start_zone` takes effect and answers in two actions, so that
  it may fail or be cancelled after the module obeyed. The stop commands are one.
- *Data.* A step is its zone; every step lasts `StepMinutes`. An occurrence is an
  instant of `times`. Names, notes and initiators are left out (a row carries the
  request it answers). An ill-formed quick-run payload is the empty sequence: the
  web refuses to write one, the executor reads the table and tolerates it. The
  weather gate and the rain delay are a free choice at fire time. `watered`, `seen`
  and `clean` are history variables.
- *The controller's countdown* ends a zone at its time or at the instant after, so that a
  zone may outlast its step's sleep for a moment, or not.
- *Time* is a counter up to `MaxTime`. Ticks are shorter than an instant. At the
  bound every wait is over and every tick refreshes, so that nothing is stuck only
  because the model's clock has stopped. NOTIFYs on their way merge into one.
- *`PromptSetup`.* When TRUE, a tick begins only once the last run has its row (or
  is gone). The code does not guarantee it; the run `slow_setup` shows what happens
  without it, and the other runs assume it to look beyond that.

### Abstractions of the other parts

- *Requests.* A request is in flight from the moment it is sent until its answer lands
  in the page; it may fail before or after its effect. Answers land in any order. The
  proxy's timeout is an answer that comes before the effect (`ApplyLate`).
- *Identity instead of content.* What a page shows is compared by the number of the
  change it has seen (`change`), by the number of the save (`updated`), or by model
  values; names and programs are model values.
- *Numbers.* The weather form computes with the real conversions in integer
  hundredths (millimetres, inches, degrees), rounding as the code does. The preview's
  calendar has short days and weeks in half hours, one clock change of an hour, and
  the browser's and Python's reading of times that do not exist or come twice, which
  is the same.
- *Marks.* `crossed`, `unsure`, `missed`, `others`, `touched`, `ours` and `change` are
  history variables; the properties use them to say when a promise lapses, and the
  comment at each says why the code cannot keep it beyond.
- *Left out of the pages:* layout, toasts, icons, focus, the map's tiles and camera.

## Runs

Every bound is a constant of the `.cfg`, or a definition in `MCParts.tla` that a
`.cfg` names. Safety runs of the scheduler use `Spec`, liveness `FairSpec`; the `Spec` of `Parts` has the dashboard's
fairness, which its safety properties do not need.

| Run | Instance | Shows |
|---|---|---|
| `scheduling` | a program due at 1 and 2, two requests (one zone or malformed), cap 2 | `QueueInv`, `FiresOnce`, `OneRunAtATime`, `RequestsInOrder` |
| `cancellation` | a program due at 1 and 2, one stop-all, one manual start | `HistoryIsTrue`, `LoneStopStops` |
| `faults` | two steps, two failed calls, one stop-all | `NeverWaterWithoutHistory`, `NoWaterAfterRun`, `HistoryIsTrue`, `ImplementsLedger` |
| `recovery` | a weather-gated program, one edit, one crash, one graceful shutdown, no grace, a short lookback | `TypeOK`, `RestartNeverRefires`, `NoOrphans`, `ImplementsLedger` |
| `progress` | a program due at 0 and 1, one request, cap 1, no grace, one crash | `EveryOccurrenceRecorded`, `EveryRequestRecorded`, `EveryRunEnds` |
| `editing` | a program due at 0 and 1, one edit, NOTIFY delivered or lost | `EditsTakeEffect` |
| `parts` | the sixteen components of `Parts` | see below |
| `stop_all` (violation) | two programs due together, one stop-all | `StopAllStops` fails |
| `slow_setup` (violation) | `PromptSetup` FALSE | `FiresOnce` fails |
| `disabled_while_queued` (violation) | two programs due together, one edit | `EveryQueuedRecorded` fails |
| `stop_offered` (violation) | the dashboard | `StopWhenWatering` fails |
| `weather_moved` (violation) | the weather gate | `SkippedForPlace` fails |

What `parts` shows:

| Property | Component | Instance |
|---|---|---|
| `NeverShownShort`, `ShownSettles` | dashboard (and the legacy app for the first) | two zones, one poll and one command in flight, runs of 2, two moves of the yard; the legacy app with one zone |
| `VerifiedAtReturn` | dashboard, legacy app | the same |
| `StartedAsChosen` | dashboard | the same |
| `EmptyMeansNone`, `OlderSkipsNothing` | history | two programs, pages of one, three runs, two loads in flight |
| `NeverOutOfOrder` | search | two searches in flight, four texts |
| `OneDraft`, `DrawnForZone`, `ShownIsStored` | map | two zones, polygons of two points, a request at a time and up to two home moves |
| `UntouchedStaysExact`, `AdvertisedAccepted` | weather form | values at, beside and inside the limits, both units |
| `ValidIsAccepted`, `SwitchKept` | program editor | two zones, minutes in range and not, a year typed short |
| `DeletedStaysGone` | schedules | two programs, two requests, four moves |
| `ShownIsAccepted` | quick run | two zones, one switched meanwhile |
| `ListAgrees` | zones | two zones, three names, two requests |
| `PreviewAgrees` | preview | every day rule of a three-day week, no clock change or one of four, every instant |
| `CountdownIsTrue` | controller service | two zones, two requests, lag 1, the dial |
| `DisabledBites` | zone gate | two requests, time-to-live 2, fetch 1 |
| `PredictionComesTrue` | weather gate | two places, three instants, one save |
| `ImplementsApi` | mock, against all of the API; stub, against all but what it tells while unreachable | two zones, a program of two steps, going unreachable and back at any time |

Why these bounds: in the scheduler two instants put an occurrence before, at and after
another one, the grace period, a hold and the end of the lookback; two items fill and
overflow the queue; two faults make a start and its retry fail, or a call and the handler
that cleans up; two slots hold a surviving run beside a new one, and the liveness runs,
where nothing cancels, need one (were another needed, `PumpStarts` would block inside
`_pump` with every other coroutine waiting, and the deadlock check, on in every scheduler
run, would report it). One edit, crash or shutdown is enough to separate what is in
memory from what is in the database at every await.
In the pages two requests in flight give every order of answers, two rows every mix-up
of one row's answer with another's state, and the bounded moves are enough for a request
to be sent, overtaken and answered. `parts` does not check deadlock: most of its
components stop when their bounded moves are spent, or may simply be left alone.
Between them the runs fire every action. The longest takes about two minutes.

The five violations are disagreements between the code and what it says of itself;
`PROJECT.json` quotes the lines. In short: a stop-all can lose the reference to the
run that the pump has just started; an occurrence is in no bookkeeping while its
run is being set up; a program disabled while queued leaves no row; the dashboard
withholds its stop from water it has no countdown for; a forecast asked for before the
location changed decides runs after it. `LoneStopStops` and, with `PromptSetup`,
`FiresOnce` are what remains true of the first two.

`NoOrphans` is checked where only a shutdown cancels: with a stop-all and a manual
start together, a second cancellation inside the handler leaves a running row until the
next boot. `OneRunAtATime` is checked without cancelling calls, for the reason the
`stop_all` run shows.

`NoWaterAfterRun` is about every mix of skipped, failed and completed steps (`faults`:
two steps, two failed calls before or after their effect, a stop-all), for whether a stop
is owed at the end depends on the mix. It names what the code leaves open: `_execute`
only logs that the executor refused the stop; a killed run leaves its zone to the
controller's countdown; a cancelled run leaves it to the endpoint that cancels; and a run
none of whose starts was answered takes it that nothing waters.
`EveryRequestRecorded` is about each life of the process: a request in the table leads to
its row or to a later life, for docs/M2-SPEC.md:169 accepts that a crash between the claim and
the row loses one.

The API. `ExecutorApi` says what `docs/API.md` promises: one zone at a time, a manual start
ends what else waters, an unreachable controller takes no command, answers a GET of the
rain delay with 503 ("module-unreachable maps to **503**", docs/API.md:3-5, and main.py:218-223)
and a status with `reachable: false` and the "zones served from last-known cache with
`active` values as of `cached_at`" (docs/API.md:31-32). The cache is that of the moment
the controller was lost, the latest there can be. The mock does all of this
(`ExecutorApi!Next`). The stub does not, and its own comment says that its GETs "serve
cached/last-known state while unreachable" (stub-executor.mjs:235-236): its status goes on telling the
zones as they are now, which end and follow each other, with `reachable: false`
(stub-executor.mjs:222-232), and it answers a GET of the rain delay with 200
(stub-executor.mjs:292). It is checked against `ExecutorApi!NextUncached`, which is the
same but for these two answers; a test that goes unreachable with it sees something the
executor would not show.

The ledger. `RunLedger` says of the history alone that rows are only added; that an
occurrence of which a step was reached is never opened again; that steps go forward and
in order; that a run is completed or partial only if its steps say so; that a row is
written only by the run that opened it, while that run lives; and that a boot closes the
rest when nobody runs. `ImplementsLedger` maps rows to rows and the live tasks' rows to
`open`. It holds in every passing run of the scheduler; `faults` and `recovery` check it
where it is hardest. Writing it down showed two overwrites the code allows: a
cancellation or a failure while the closing UPDATE is under way turns a completed
row into a cancelled or failed one, and a completed step into a cancelled one.

Smaller differences met on the way, which no run asserts: `geometry-validation.ts` stores
rings as they come although its comment speaks of open ones; "command not sent" is
shown also when the command takes effect after the timeout; the search box says
"No results." while its timer runs; the zone gate's stated five seconds are exceeded by
the time a fetch takes; a two-digit year passes the editor and is refused by the route; the stub's two answers above;
the editor's save undoes another admin's switch made since the page was read; a late
success of a quick run clears the dialog reopened meanwhile; in the legacy app a rename
is not held back by a command under way and frees the controls; dragging the home marker is not
held back by a save under way.

### Fairness

`Fairness` is strong fairness of the clock, of NOTIFY, of the loop, of each run task
and of each call. asyncio's ready queue is first-in first-out and no coroutine keeps
the processor beyond its next await; store and controller calls end because
each has a timeout (`_op`, the aiohttp session). Strong, because a coroutine's step
is disabled for the moments another is between two awaits. No fairness is assumed
of edits, requests, crashes or faults.

In `Parts` only `ShownSettles` needs fairness, weak and of the dashboard: the browser
runs its interval while the tab is visible, and every request ends, since the proxy
waits five seconds for the executor.

## Proofs

Every theorem holds for every value of the constants that meets the named assumption
of its component (of `Scheduler`, the `ASSUME`s of the module), and under the hypotheses
stated with it; nothing else is assumed. The theorems about the components beside the scheduler
are about the `Spec` of `Parts`; each follows from a lemma about one component, whose
invariant is named below. The assumptions are what the code gives: times and counts are
numbers, no zone is called `None`, limits hold in the database, a queue holds at least one
item, a time of day lies within one, a program run has a step and each of its steps lasts
at least one tick, a page of the history holds a run, a day is more than two jumps of the
clocks long, and a preview looks at today.

### The scheduler

| Theorem | States | Invariant | Hypotheses |
|---|---|---|---|
| `QueueSafe` | `QueueInv` | `QueueInd` | none |
| `TypeCorrect` | `TypeOK` | `TypeInd` | none |
| `HistoryTrue` | `HistoryIsTrue` | `HistoryInd` | none |
| `WaterNeedsHistory` | `NeverWaterWithoutHistory` | `HistoryInd` | none |
| `NoRefire` | `RestartNeverRefires` | `RestartInd` | none |
| `WatersOnce` | `FiresOnce` | `OnceInd` | `PromptSetup` |
| `KeepsLedger` | `ImplementsLedger` | all of the above | `PromptSetup` |
| `RunsAlone` | `OneRunAtATime` | `OneAlive` | no stop-all, no manual start |
| `RequestsRunInOrder` | `RequestsInOrder` | `OrderInd` | no stop-all, no manual start |
| `NoneOrphaned` | `NoOrphans` | `OrphanInd` | the same, and no failed store call |
| `WaterEnds` | `NoWaterAfterRun` | `WaterInd` | none |
| `LoneStopEnds` | `LoneStopStops` | `StopInd` | `PromptSetup`, one life of the process |

The hypotheses are needed: the runs `slow_setup` and `stop_all` show what happens without
the first two; a failed final UPDATE leaves a running row until the next boot, as the
code intends. For `LoneStopEnds`, a
process that starts again evaluates an occurrence whose "cancelled" row the stop-all
failed to insert, and so may water it after all. Crashes, shutdowns, faults, edits,
requests and programs are otherwise unlimited.

Why the invariants are stronger than what they show:

- `QueueInd`: that a request inserted behind the queued ones is younger needs that the
  table and the claimed list hold only younger requests (`RequestsOrdered`).
- `TypeInd`: what a task's and a call's `pc` promises about its other fields – a status
  is known when it is about to be saved, a started zone exists, a clearing call has an
  item left.
- `HistoryInd`: each run at an await of its own owns one row nobody else owns (`OwnRows`);
  the row's marks are the run's outcomes, then the step in progress – whose mark depends
  on the await, because an abandoned UPDATE leaves either – then pending ones
  (`SameMarks`); and what the run is about to save follows from its outcomes
  (`SameStage`). `HistoryIsTrue` says only what finished rows look like, and no step that
  finishes one could keep it without this. `BootOrder` keeps the boot's finalization
  away from runs of this life.
- `RestartInd`: what an earlier life recorded is in the fired-set or before the lookback
  of the earliest tick there can be (`PastKnown`), once the watermark has been read; so
  nothing on its way to a row – queued, in a task, being cleared, being missed – has a row
  of an earlier life (`OnTheWayFresh`). A shutdown has the calls to itself, or a call of
  the old life could write in the new one.
- `OnceInd`: of one occurrence, there is never a queued item, a run or a row whose steps
  were reached beside another of these (`QueuedOnce`, `RunsOnce`, `TouchedOnce`), and
  whatever reached a step is known to `_evaluate` (`TouchedKnown`). Between the pump and
  the run's row neither is so, which `SetUpPromptly` bridges; that is the hypothesis.
- `OneAlive`: the task that lives is the one `run_task` names, so that the pump waits for
  it. `OrderInd` adds that everything waiting, in the table, claimed or queued, was asked
  for after everything that ran or runs.
- `OrphanInd`: until a shutdown, no run is cancelled and every running row has its run.
- `WaterInd`: while a cancellation is on its way to a run or being handled by it, its
  canceller waits (`CancellerWaits`), so that the run may end with its water on; a run about
  to close its row that is not being cancelled has had its stop, was refused it, or owes
  none (`DealtWith`); water names a row, of this life or an earlier one (`WateredRow`).
- `StopInd`: what a stop-all that came alone has found is not queued, not waiting, and
  known to `_evaluate` (`Spent`), so nobody runs it again; and a run of it that is still
  alive is the one the call awaits, past its steps or about to leave them (`Leaving`).
  Each step of the invariant needs another: the run it finds is on record, so `OnceInd`
  gives that its occurrence is known and not queued; a run somebody asked for was asked
  for before all that wait (`RanBefore`), so none of those is it; and a queue that holds
  one thing has it first, where `_clear_queue` marks it.

The refinement. `KeepsLedger` shows that every step of the scheduler maps to a step of
`RunLedger` or to a stutter. One lemma says what a step can write at all (`RunWrites`
and its like for the loop and the calls): an appended row, an UPDATE of the run's own
row, the mark that it waters, the finalization of orphans, or nothing. Each maps to one
ledger action; its guard follows from `OwnRows` (the row is open for that run),
`SameMarks` (steps go forward and in order), `HistoryIsTrue` (a status only if its
steps say so) and `OnceInd` (no reached occurrence is opened again); `BootOrder` gives
that nobody runs when a boot closes rows. It needs the invariants before and after the
step, which PTL supplies.

### The executor's other parts

- `DisabledBitesHolds` (`ZoneGate`), by `GateInd`: a zone in the snapshot has been off no
  longer than the snapshot is old plus a fetch; one in what a fetch has read, no longer
  than the fetch has taken.
- `PredictionComesTrueHolds` (`WeatherGate`), by `SkyInd` and a lemma that `weather.py`'s
  hours around now are `forecast.py`'s around the occurrence: the last decision and the
  last prediction are what their settings and snapshots say.
- `CountdownIsTrueHolds` (`Controller`), by `CountInd`: while the run tracked is the
  service's own and no change was missed, its age and the controller's agree minute by
  minute, and the controller is silent about it only during the lag.
- `ImplementsApiHolds` (`StubExecutor`, `MockApi`): each step of the mock is a step of
  `ExecutorApi` or a stutter, and each of the stub one of the executor without a cache. The stub looks its countdowns up in end times and tells
  which step of a program waters from the time since its start; `StubInd` says that the
  times still to come are those of zones that water, and that a program and a zone
  started by hand never do so at once. The step that waters is the first whose end, a sum over the
  steps before it, is still ahead: that there is one while the program lasts, that it is
  unique and that waiting passes from one to the next follow from the ends being
  increasing. The mock counts one zone down, and holds a
  cache exactly while it is unreachable (`MockInd`).

### The pages

- `NeverOutOfOrderHolds` (`Search`), by `SearchInd`: the only request whose answer would be
  shown is the one the next keystroke aborts, and none is while a timer is pending.
- `UntouchedStaysExactHolds`, `AdvertisedAcceptedHolds` (`WeatherForm`), by `FormInd`: an
  untouched field spells what was read in the current unit, and what was read is what is
  stored; the second is arithmetic over every text, and 3.94 inches is the one text that
  needs the clamp.
- `SwitchKeptHolds` (`ProgramEditor`), by `SwitchInd`: while a program is open the switch
  read is the switch stored, unless somebody switched it.
- `ValidIsAcceptedHolds` (`ProgramEditor`), by `EditorInd`: what was sent is a form that
  passed the editor's checks, its times sorted. Sorting keeps the times, and the times
  distinct, whatever was typed in whatever order; what the editor cuts out as foreign
  (steps of zones it does not know) leaves steps the route knows.
- `NeverShownShortHolds`, `StartedAsChosenHolds`, `VerifiedAtReturnHolds` (`Dashboard`), by
  `PageInd`: every answer on its way or on the page is older than the yard's last change
  or agrees with it and counts down no faster; a verifying command's request was made
  after its effect. The first and the third hold of `LegacyApp` too, by `LegacyInd`, which
  is the same of a page that lets commands overlap nothing but polls.
- `OneDraftHolds`, `DrawnForZoneHolds`, `ShownIsStoredHolds` (`MapEditor`), by `MapInd`: drafts
  belong to the selected zone, updates and rows to the zone they name; before updates
  overlap there is one at most, and the page is behind by exactly what it has written.
- `ListAgreesHolds` (`ZonesManager`), by `ListInd`: the same, cell by cell.
- `DeletedStaysGoneHolds` (`Schedules`) and `ShownIsAcceptedHolds` (`QuickRun`). The latter
  needs at most twenty zones: the dialog would offer and tick more, and the route
  refuses them.
- `EmptyMeansNoneHolds`, `OlderSkipsNothingHolds` (`History`), by `HistoryInd`: what a load
  has counted and read were the table's at the moment it read them, runs are only added,
  and while no two answers have crossed the page shows the last one asked for. A page is the
  runs whose rank from the newest lies in it; a run recorded meanwhile only raises ranks,
  so what moves off a page moves to the next, which is asked for after.
- `PreviewAgreesHolds` (`Preview`): the invariant, `PreviewInd`, is only that program and
  zone stay what they are; the rest is about the calendar. Midnights follow each other
  (`MidnightsFollow`), so an instant has one day (`DayIs`, `DayExists`); a start time that
  exists lies on its day, in the order of the clock (`TimesFollow`); two midnights, one
  possibly shifted, are rounded to the number of days between them (`RoundedRight`), so
  both sides have the same days of an interval (`RulesAgree`). Then the first time to come
  of the first day that has one is the least of all occurrences.

Sums, ranks and least witnesses. The library's induction rules cannot be applied here
(an argument of theirs is a predicate, which no prover here can supply), so what needs induction over numbers is argued from a
counterexample of least size: `Least` (every set of numbers that is not empty has a least
one) comes from the library's theorem that `<` is well-founded on `Nat`, which takes a set
and not a predicate. Ranks are cardinalities, for which the library has the facts.

### Only model-checked

- *Liveness* (`EveryOccurrenceRecorded`, `EveryRequestRecorded`, `EveryRunEnds`,
  `EditsTakeEffect`, `ShownSettles`): fairness and ENABLED are beyond the prover.
- `OneRunAtATime`, `RequestsInOrder` and `NoOrphans` are proved under their hypotheses and
  false without them.

## Plan

Done: the model of every part in the tables above with its runs; every safety property
the runs check, and both refinements, as theorems. Left, should the prover learn it:
liveness.

## Not modelled

- *Authentication and user management* (`auth.ts`, `users-manager.tsx`): a library's
  configuration, its client's calls, and role checks at the head of each route.
- *Rendering*: badges, charts, hourly forecast, navigation, the dashboard's map view
  (which repeats the rows' actions), the rain delay chip of the new app (one number,
  read and written through one call).
- *Deployment manifests, response models, environment settings*: declarations. Restarts
  appear as `Crash` and `ShutdownBegins`.
- *Zone names* (`zone_names.py`): a synchronous JSON file.
- *The store's pool*: an abandoned call that reaches the server after its successor. The
  hazard is listed; a model would need the second connection of every call.
- *`loop_stalled`*: a watermark that is only reported.
- *History's "water anyway"*: the quick-run route from another page. Its *filter by
  status* and runs that *leave a filter* while pages are read (a status that changes, a
  deleted program, whose runs keep their rows and lose their program): either moves the
  rows behind it forward, so that paging passes over a run or ends on an empty page;
  `OlderSkipsNothing` and `EmptyMeansNone` are about runs that stay where they are.
- *The weather form's finer texts*: the model's rain is in hundredths, where the metric
  rounding of what is shown is the identity; a metric text of more decimals, which is sent
  as typed and shown rounded afterwards, and an empty text, which a flip of the units
  leaves alone and the form refuses, are left out.
- *What the stub and the mock say beyond water, reachability and rain delay*: names, the
  rain sensor, weather and forecast.
