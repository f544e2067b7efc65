------------------------------ MODULE Scheduler ------------------------------
(***************************************************************************)
(* The scheduler engine of the executor (apps/api/app/scheduler.py) with   *)
(* the store it persists to (scheduler_db.py) and the two endpoints that   *)
(* cancel runs (main.py).                                                  *)
(*                                                                         *)
(* Three kinds of coroutine share one asyncio event loop: the scheduler    *)
(* loop, one task per program run, and the HTTP calls that stop or start   *)
(* zones by hand.  A coroutine gives the processor up only where it        *)
(* awaits, so every action below is the code between two awaits; where     *)
(* that code is a Python loop (admitting requests, evaluating occurrences, *)
(* popping the queue) its iterations are separate actions and Yielded      *)
(* keeps everybody else out until the loop reaches its next await.  An     *)
(* awaited store call is one action that applies its effect and resumes    *)
(* the caller; a failed call may have had its effect (asyncpg gives up     *)
(* after a timeout, the server may have committed), and so may the call of *)
(* a coroutine that is cancelled.                                          *)
(*                                                                         *)
(* Time is a bounded counter of abstract instants; a program's occurrences *)
(* are the set of instants its day rule and start times yield.             *)
(***************************************************************************)
EXTENDS Integers, FiniteSets, SequencesExt

CONSTANTS
  Programs,         \* ids of the rows of the programs table
  Zones,            \* ids of the zones
  NoProgram,        \* program_id NULL: a Quick Run
  NoZone,           \* the controller waters nothing
  InitialPrograms,  \* the programs table when the model starts
  ProgramInputs,    \* what an admin may save: enabled, times, respect, steps
  QuickPayloads,    \* steps of a Quick Run request; <<>> is a malformed payload
  StopCalls,        \* POST /api/zones/stop calls, each made at most once
  ManualCalls,      \* POST /api/zones/{id}/start calls
  ShutdownCalls,    \* graceful shutdowns (SIGTERM: FastAPI lifespan)
  Slots,            \* identities for the run tasks alive at once
  QueueCap,         \* QUEUE_CAP
  Poll,             \* POLL_SECONDS, in instants
  Grace,            \* MISSED_GRACE_SECONDS, in instants
  Lookback,         \* EVAL_LOOKBACK, in instants
  StepMinutes,      \* how long a program step waters, in instants
  ManualMinutes,    \* how long a manual start waters, in instants
  PromptSetup,      \* TRUE: a run is set up before the loop ticks again
  MaxTime,          \* bound: the clock stops here
  MaxRequests,      \* bound: run requests the web inserts
  MaxEdits,         \* bound: program and zone edits the web makes
  MaxFaults,        \* bound: store and controller calls that fail
  MaxCrashes        \* bound: kills of the executor

Calls == StopCalls \cup ManualCalls \cup ShutdownCalls

ASSUME CapAssumption == QueueCap \in Nat \ {0}
ASSUME TimeAssumption == /\ MaxTime \in Nat /\ Poll \in Nat /\ Grace \in Nat /\ Lookback \in Nat
                         /\ StepMinutes \in Nat \ {0} /\ ManualMinutes \in Nat \ {0}
ASSUME BoundAssumption == MaxRequests \in Nat /\ MaxEdits \in Nat /\ MaxFaults \in Nat /\ MaxCrashes \in Nat
ASSUME IdAssumption == /\ NoProgram \notin Programs /\ NoZone \notin Zones /\ Slots \subseteq Nat
                       /\ StopCalls \cap ManualCalls = {}

None == -1          \* Python's None, where a time, row or slot is expected

VARIABLES
  \* PostgreSQL and the controller
  programs,         \* programs and program_steps
  enabled_zones,    \* zones with enabled = true
  run_requests,     \* unclaimed run_requests; req grows with their age order
  program_runs,     \* program_runs with their program_run_steps; the id is the index
  hw,               \* the module: the zone it waters, for which run row, until when
  \* the executor's memory
  cache,            \* _programs
  fired,            \* _fired
  queue,            \* _queue
  active,           \* _active
  run_task,         \* _run_task
  manual_until,     \* _manual_until
  ready,            \* _ready
  orphans_finalized,\* _orphans_finalized
  refresh_needed,   \* _refresh_needed
  last_refresh,     \* _last_refresh
  poke,             \* _poke
  loop,             \* the coroutine of _loop
  tasks,            \* the coroutines of _execute
  calls,            \* the endpoint coroutines
  \* the environment
  now,              \* the clock
  notify,           \* a NOTIFY sprinkler_events is on its way
  boot,             \* which life of the executor process this is
  requested,        \* run requests inserted so far
  edits,            \* edits made so far
  faults            \* calls failed so far

db == <<programs, enabled_zones, run_requests, program_runs>>
config == <<cache, ready, orphans_finalized, refresh_needed, last_refresh>>
env == <<now, notify, boot, requested, edits, faults>>
vars == <<db, hw, cache, fired, queue, active, run_task, manual_until, ready,
          orphans_finalized, refresh_needed, last_refresh, poke, loop, tasks, calls, env>>

-----------------------------------------------------------------------------
(* Data: program versions, queue items, history rows, coroutines.          *)

Scheduled(item) == item.at # None        \* initiator is 'schedule', not a user
Key(item) == <<item.program, item.at>>
\* Mutant: nothing is ever marked as fired.
KeysUnmarked(item) == {}
Keys(item) == IF Scheduled(item) THEN {Key(item)} ELSE {}

Item(p, at, req, steps) == [program |-> p, at |-> at, req |-> req, steps |-> steps]

\* watered is a history variable: water was commanded under this row.
NewRow(item, status, steps) ==
  [program |-> item.program, at |-> item.at, req |-> item.req, status |-> status,
   steps |-> steps, boot |-> boot, watered |-> FALSE]

Times == Nat \cup {None}
Versions == [state : {"unborn", "live", "deleted"}, enabled : BOOLEAN, times : SUBSET Nat,
             respect : BOOLEAN, steps : Seq(Zones), updated_at : Times]
Inputs == [enabled : BOOLEAN, times : SUBSET Nat, respect : BOOLEAN, steps : Seq(Zones)]

ASSUME DataAssumption == /\ InitialPrograms \in [Programs -> Versions]
                         /\ ProgramInputs \subseteq Inputs /\ QuickPayloads \subseteq Seq(Zones)

NoItem == Item(NoProgram, None, 0, <<>>)
NoRun == [row |-> None, program |-> NoProgram, at |-> None, step |-> None]
IdleTask == [pc |-> "idle", item |-> NoItem, gate |-> FALSE, steps |-> <<>>, row |-> None,
             outcomes |-> <<>>, zones |-> {}, attempt |-> 1, wake |-> None, status |-> "none",
             cancel |-> FALSE]
IdleLoop == [pc |-> "wait", now |-> 0, rows |-> InitialPrograms, reqs |-> {}, todo |-> {},
             program |-> NoProgram, work |-> {}]
ReadyCall == [pc |-> "ready", task |-> None, items |-> <<>>, seen |-> {}, clean |-> FALSE]

\* refused is a history variable: a command that should have ended this water failed.
Off == [zone |-> NoZone, row |-> None, until |-> None, refused |-> FALSE]
Water(zone, row, minutes) == [zone |-> zone, row |-> row, until |-> now + minutes, refused |-> FALSE]

Init ==
  /\ programs = InitialPrograms /\ enabled_zones = Zones
  /\ run_requests = {} /\ program_runs = <<>> /\ hw = Off
  /\ cache = [p \in Programs |-> [InitialPrograms[p] EXCEPT !.state = "unborn"]]
  /\ fired = {} /\ queue = <<>> /\ active = NoRun /\ run_task = None /\ manual_until = None
  /\ ready = FALSE /\ orphans_finalized = FALSE /\ refresh_needed = TRUE /\ last_refresh = None
  /\ poke = FALSE
  /\ loop = IdleLoop /\ tasks = [t \in Slots |-> IdleTask] /\ calls = [c \in Calls |-> ReadyCall]
  /\ now = 0 /\ notify = FALSE /\ boot = 1 /\ requested = 0 /\ edits = 0 /\ faults = 0

\* FALSE while the loop coroutine is between two awaits and nobody else runs.
Yielded == loop.pc \notin {"admit", "evaluate", "pump"}

\* A created task, a cancelled task and a call whose awaited task has ended are
\* on asyncio's ready queue: they run before any awaited I/O or timer completes.
\* Only the loop, which a poke puts on that queue, can slip in before them.
Resumes(c) == calls[c].pc = "cancelling" /\ tasks[calls[c].task].pc = "idle"
Settled == Yielded /\ \A c \in Calls : ~Resumes(c)
Quiet == Settled /\ \A t \in Slots : tasks[t].pc # "new" /\ ~tasks[t].cancel

\* A wait until d is over.  The clock stops at MaxTime, so no wait outlasts it.
Elapsed(d) == now >= d \/ now = MaxTime

Fault == faults < MaxFaults /\ faults' = faults + 1

-----------------------------------------------------------------------------
(* The web app and the passing of time.                                    *)

ClockTick ==
  /\ Quiet /\ now < MaxTime /\ now' = now + 1
  /\ \/ hw' = hw /\ (hw.zone # NoZone => now + 1 <= hw.until)
     \/ hw' = Off /\ now + 1 >= hw.until        \* the module's own timer, an instant late at most
  /\ UNCHANGED <<db, config, fired, queue, active, run_task, manual_until, poke, loop, tasks, calls,
                 notify, boot, requested, edits, faults>>

WebUnchanged == UNCHANGED <<hw, config, fired, queue, active, run_task, manual_until, poke, loop,
                            tasks, calls, now, boot, faults>>

\* POST /api/programs, PUT, PATCH and DELETE /api/programs/{id}.
Edit(p, version) ==
  /\ Quiet /\ edits < MaxEdits /\ edits' = edits + 1 /\ notify' = TRUE
  /\ programs' = [programs EXCEPT ![p] = version]
  /\ UNCHANGED <<enabled_zones, requested>> /\ WebUnchanged

SaveProgram(p) ==
  /\ programs[p].state # "deleted"
  /\ \E input \in ProgramInputs :
       Edit(p, [state |-> "live", updated_at |-> now, enabled |-> input.enabled,
                times |-> input.times, respect |-> input.respect, steps |-> input.steps])
  /\ UNCHANGED <<run_requests, program_runs>>

ToggleProgram(p) ==
  /\ programs[p].state = "live"
  /\ Edit(p, [programs[p] EXCEPT !.enabled = ~@, !.updated_at = now])
  /\ UNCHANGED <<run_requests, program_runs>>

\* Foreign keys: run_requests cascade, program_runs keep the row without the id.
DeleteProgram(p) ==
  /\ programs[p].state = "live"
  /\ Edit(p, [programs[p] EXCEPT !.state = "deleted"])
  /\ run_requests' = {r \in run_requests : r.program # p}
  /\ program_runs' = [r \in DOMAIN program_runs |->
       IF program_runs[r].program = p THEN [program_runs[r] EXCEPT !.program = NoProgram]
       ELSE program_runs[r]]

ToggleZone(z) ==
  /\ Quiet /\ edits < MaxEdits /\ edits' = edits + 1
  /\ enabled_zones' = IF z \in enabled_zones THEN enabled_zones \ {z} ELSE enabled_zones \cup {z}
  /\ UNCHANGED <<programs, run_requests, program_runs, notify, requested>> /\ WebUnchanged

\* POST /api/programs/{id}/run and POST /api/quick-run.
Request(p, steps) ==
  /\ Quiet /\ requested < MaxRequests /\ requested' = requested + 1 /\ notify' = TRUE
  /\ run_requests' = run_requests \cup {Item(p, None, requested + 1, steps)}
  /\ UNCHANGED <<programs, enabled_zones, program_runs, edits>> /\ WebUnchanged

RunNow(p) == programs[p].state = "live" /\ programs[p].enabled /\ Request(p, <<>>)

QuickRun == \E steps \in QuickPayloads : Request(NoProgram, steps)

\* _on_notify.  A NOTIFY sent while no LISTEN connection is up is lost.
Notify ==
  /\ Quiet /\ notify /\ notify' = FALSE
  /\ \/ refresh_needed' = TRUE /\ poke' = TRUE
     \/ UNCHANGED <<refresh_needed, poke>>
  /\ UNCHANGED <<db, hw, cache, ready, orphans_finalized, last_refresh, fired, queue, active, run_task,
                 manual_until, loop, tasks, calls, now, boot, requested, edits, faults>>

-----------------------------------------------------------------------------
(* The store's INSERTs into program_runs (scheduler_db.py).                *)

\* The foreign key on program_id refuses a row for a deleted program.
Insertable(item) == item.program # NoProgram => programs[item.program].state = "live"

Inserts(item, status, steps) ==
  /\ Insertable(item) /\ UNCHANGED faults
  /\ program_runs' = Append(program_runs, NewRow(item, status, steps))

\* The call raised; on a timeout the server may have committed the row.
InsertFails(item, status, steps) ==
  \/ ~Insertable(item) /\ UNCHANGED <<program_runs, faults>>
  \/ /\ Fault
     /\ program_runs' \in {program_runs} \cup
          {Append(program_runs, NewRow(i, status, steps)) : i \in {i \in {item} : Insertable(i)}}

-----------------------------------------------------------------------------
(* The loop: _loop, tick, _tick, _refresh.                                 *)

LoopUnchanged ==
  UNCHANGED <<enabled_zones, programs, hw, poke, tasks, calls, now, notify, boot, requested, edits>>

Awaits(pcs) == Quiet /\ loop.pc \in pcs

\* A cached program the scheduler would run: present and not empty.
HasSteps(p) == cache[p].state = "live" /\ cache[p].steps # <<>>

\* occurrences_between: start < t <= end.
Occurrences(p, start, end) == {t \in cache[p].times : start < t /\ t <= end}

Due(p, at) == cache[p].enabled /\ HasSteps(p) /\ Occurrences(p, at - Lookback, at) # {}

\* _tick after the refresh: evaluate, unless the watermark was never loaded.
Evaluating(l, loaded) ==
  IF loaded THEN [l EXCEPT !.pc = "evaluate", !.todo = {p \in Programs : Due(p, l.now)}]
  ELSE [l EXCEPT !.pc = "wait"]

\* Mutant: no fallback poll.
RefreshingOnNotify(l) ==
  IF refresh_needed \/ last_refresh = None THEN [l EXCEPT !.pc = "fetch_programs"] ELSE Evaluating(l, ready)

\* _tick after the orphans: refresh when told to, or every Poll (Elapsed, for the tick's instant).
Refreshing(l) ==
  IF refresh_needed \/ last_refresh = None \/ l.now - last_refresh >= Poll \/ l.now = MaxTime
  THEN [l EXCEPT !.pc = "fetch_programs"] ELSE Evaluating(l, ready)

SetupPcs == {"new", "rain_delay", "record_skip", "weather", "fetch_zones", "insert_running", "cancel_record"}

\* The loop wakes on its poke or after TICK_SECONDS, which is less than an instant.
TickBegins ==
  /\ (loop.pc = "wait" /\ poke) \/ Awaits({"wait"})
  /\ poke' = FALSE
  /\ PromptSetup => \A t \in Slots : tasks[t].pc \notin SetupPcs
  /\ LET l == [loop EXCEPT !.now = now]
     IN  loop' = IF orphans_finalized THEN Refreshing(l) ELSE [l EXCEPT !.pc = "finalize"]
  /\ UNCHANGED <<enabled_zones, programs, hw, tasks, calls, now, notify, boot, requested, edits>>
  /\ UNCHANGED <<run_requests, program_runs, config, fired, queue, active, run_task, manual_until, faults>>

\* Mutants: the steps are closed but not the row; every row is taken for an orphan.
FinalizedStepsOnly(row) ==
  [row EXCEPT !.steps = [i \in DOMAIN row.steps |-> IF row.steps[i] = "started" THEN "cancelled" ELSE row.steps[i]]]
FinalizedAnyRow(row) == [row EXCEPT !.status = "cancelled"]

Finalized(row) ==
  IF row.status # "running" THEN row
  ELSE [row EXCEPT !.status = "cancelled",
          !.steps = [i \in DOMAIN row.steps |-> IF row.steps[i] = "started" THEN "cancelled" ELSE row.steps[i]]]

FinalizeOrphans ==
  /\ Awaits({"finalize"})
  /\ program_runs' = [r \in DOMAIN program_runs |-> Finalized(program_runs[r])]
  /\ orphans_finalized' = TRUE /\ loop' = Refreshing(loop)
  /\ LoopUnchanged
  /\ UNCHANGED <<run_requests, cache, ready, refresh_needed, last_refresh, fired, queue, active,
                 run_task, manual_until, faults>>

\* The tick returns: everything waits until the orphans are finalized.
FinalizeFails ==
  /\ Awaits({"finalize"}) /\ Fault
  /\ program_runs' \in {program_runs, [r \in DOMAIN program_runs |-> Finalized(program_runs[r])]}
  /\ loop' = [loop EXCEPT !.pc = "wait"]
  /\ LoopUnchanged /\ UNCHANGED <<run_requests, config, fired, queue, active, run_task, manual_until>>

\* fetch_programs: the programs, then their steps, in two statements.
FetchPrograms ==
  /\ Awaits({"fetch_programs"})
  /\ loop' = [loop EXCEPT !.pc = "fetch_steps", !.rows = programs]
  /\ LoopUnchanged
  /\ UNCHANGED <<run_requests, program_runs, config, fired, queue, active, run_task, manual_until, faults>>

\* An edit in between tears the read: old settings, new steps or none.
Fetched(p) == [loop.rows[p] EXCEPT !.steps = IF programs[p].state = "live" THEN programs[p].steps ELSE <<>>]

FetchSteps ==
  /\ Awaits({"fetch_steps"})
  /\ cache' = [p \in Programs |-> Fetched(p)]
  /\ loop' = [loop EXCEPT !.pc = "run_keys", !.rows = InitialPrograms]
  /\ LoopUnchanged
  /\ UNCHANGED <<run_requests, program_runs, ready, orphans_finalized, refresh_needed, last_refresh,
                 fired, queue, active, run_task, manual_until, faults>>

\* Mutant: rows of occurrences that were missed do not count.
RecentRunKeysRan(since) ==
  {<<row.program, row.at>> : row \in {program_runs[r] : r \in
     {r \in DOMAIN program_runs : program_runs[r].at >= since /\ program_runs[r].status # "missed"}}}

\* recent_run_keys: any row of any status marks its occurrence as fired.
RecentRunKeys(since) ==
  {<<row.program, row.at>> : row \in {program_runs[r] : r \in
     {r \in DOMAIN program_runs : /\ program_runs[r].program # NoProgram
                                  /\ program_runs[r].at # None /\ program_runs[r].at >= since}}}

ReadRunKeys ==
  /\ Awaits({"run_keys"})
  /\ LET since == loop.now - Lookback
     IN  fired' = {k \in fired \cup RecentRunKeys(since) : k[2] >= since}
  /\ loop' = [loop EXCEPT !.pc = "claim"]
  /\ LoopUnchanged
  /\ UNCHANGED <<run_requests, program_runs, config, queue, active, run_task, manual_until, faults>>

ClaimRequests ==
  /\ Awaits({"claim"})
  /\ run_requests' = {} /\ loop' = [loop EXCEPT !.pc = "admit", !.reqs = run_requests]
  /\ LoopUnchanged
  /\ UNCHANGED <<program_runs, config, fired, queue, active, run_task, manual_until, faults>>

\* _refresh raises: cached config is used; a claim that timed out may have committed.
RefreshFails ==
  /\ Awaits({"fetch_programs", "fetch_steps", "run_keys", "claim"}) /\ Fault
  /\ run_requests' \in {run_requests} \cup (IF loop.pc = "claim" THEN {{}} ELSE {})
  /\ loop' = Evaluating([loop EXCEPT !.rows = InitialPrograms], ready)
  /\ LoopUnchanged /\ UNCHANGED <<program_runs, config, fired, queue, active, run_task, manual_until>>

\* The weather settings and forecast were awaited; trouble with them is swallowed.
RefreshDone ==
  /\ Awaits({"weather_settings"})
  /\ last_refresh' = loop.now /\ refresh_needed' = FALSE /\ ready' = TRUE
  /\ loop' = Evaluating(loop, TRUE)
  /\ LoopUnchanged
  /\ UNCHANGED <<run_requests, program_runs, cache, orphans_finalized, fired, queue, active, run_task,
                 manual_until, faults>>

-----------------------------------------------------------------------------
(* _admit_run_now and _admit_quick_run, one request of the claimed list at *)
(* a time.                                                                 *)

Oldest(req) == req \in loop.reqs /\ \A other \in loop.reqs : req.req <= other.req
Handled(req) == [loop EXCEPT !.pc = "admit", !.reqs = @ \ {req}]

\* An unknown or emptied program, or a payload parse_quick_run_steps refuses.
Admissible(req) == IF req.program = NoProgram THEN req.steps # <<>> ELSE HasSteps(req.program)

AdmitUnchanged == LoopUnchanged /\ UNCHANGED <<run_requests, config, fired, active, run_task, manual_until>>

IgnoreRequest(req) ==
  /\ loop.pc = "admit" /\ Oldest(req) /\ ~Admissible(req)
  /\ loop' = Handled(req)
  /\ AdmitUnchanged /\ UNCHANGED <<program_runs, queue, faults>>

\* Mutant: the overflowing request is dropped without a row.
OverflowRequestDropped(req) ==
  /\ loop.pc = "admit" /\ Oldest(req) /\ Admissible(req) /\ Len(queue) >= QueueCap
  /\ loop' = Handled(req)
  /\ AdmitUnchanged /\ UNCHANGED <<program_runs, queue, faults>>

OverflowRequest(req) ==
  /\ loop.pc = "admit" /\ Oldest(req) /\ Admissible(req) /\ Len(queue) >= QueueCap
  /\ loop' = [loop EXCEPT !.pc = "insert_request_missed"]
  /\ AdmitUnchanged /\ UNCHANGED <<program_runs, queue, faults>>

\* Mutant: a request jumps every queued item.
FirstPosition(q, i) == i = 1

\* The first scheduled item's position: run-now items jump ahead of those.
FirstScheduled(q, i) ==
  /\ i \in 1..Len(q) + 1 /\ \A j \in 1..(i - 1) : ~Scheduled(q[j])
  /\ i <= Len(q) => Scheduled(q[i])

AdmitRequest(req) ==
  /\ loop.pc = "admit" /\ Oldest(req) /\ Admissible(req) /\ Len(queue) < QueueCap
  /\ \E i \in 1..(Len(queue) + 1) : FirstScheduled(queue, i) /\ queue' = InsertAt(queue, i, req)
  /\ loop' = Handled(req)
  /\ AdmitUnchanged /\ UNCHANGED <<program_runs, faults>>

InsertRequestMissed(req) ==
  /\ Awaits({"insert_request_missed"}) /\ Oldest(req)
  /\ Inserts(req, "missed", <<>>) \/ InsertFails(req, "missed", <<>>)
  /\ loop' = Handled(req)
  /\ AdmitUnchanged /\ UNCHANGED queue

AdmitStep ==
  \E req \in loop.reqs :
    \/ IgnoreRequest(req) \/ OverflowRequest(req) \/ AdmitRequest(req) \/ InsertRequestMissed(req)

RequestsAdmitted ==
  /\ loop.pc = "admit" /\ loop.reqs = {}
  /\ loop' = [loop EXCEPT !.pc = "weather_settings"]
  /\ AdmitUnchanged /\ UNCHANGED <<program_runs, queue, faults>>

-----------------------------------------------------------------------------
(* _evaluate and _admit: one occurrence at a time, oldest first; the       *)
(* programs come in whatever order the SELECT returned them.               *)

EvaluateUnchanged ==
  LoopUnchanged /\ UNCHANGED <<run_requests, config, active, run_task, manual_until>>

EvaluateProgram ==
  /\ loop.pc = "evaluate" /\ loop.work = {}
  /\ \E p \in loop.todo :
       loop' = [loop EXCEPT !.todo = @ \ {p}, !.program = p,
                            !.work = Occurrences(p, loop.now - Lookback, loop.now)]
  /\ EvaluateUnchanged /\ UNCHANGED <<program_runs, fired, queue, faults>>

IsNext(occ) == occ \in loop.work /\ \A o \in loop.work : occ <= o
Examined(occ) == [loop EXCEPT !.pc = "evaluate", !.work = @ \ {occ}]

\* _pending: queued, or the active run (which exists only once its row does).
Pending(key) ==
  \/ \E i \in DOMAIN queue : Key(queue[i]) = key
  \/ active # NoRun /\ <<active.program, active.at>> = key

\* Mutants: the fired-set is not consulted; what is too old is passed over.
SkippedPendingOnly(p, occ) == Pending(<<p, occ>>) \/ occ <= cache[p].updated_at
SkippedTooOld(p, occ) ==
  <<p, occ>> \in fired \/ Pending(<<p, occ>>) \/ occ <= cache[p].updated_at \/ loop.now - occ > Grace

Skipped(p, occ) == <<p, occ>> \in fired \/ Pending(<<p, occ>>) \/ occ <= cache[p].updated_at

QueuedOccurrence(p) == \E i \in DOMAIN queue : queue[i].program = p /\ Scheduled(queue[i])

\* Too old, collapsed into a queued occurrence, or the queue is full.
Misses(p, occ) == loop.now - occ > Grace \/ QueuedOccurrence(p) \/ Len(queue) >= QueueCap

SkipOccurrence ==
  /\ loop.pc = "evaluate"
  /\ \E occ \in loop.work : IsNext(occ) /\ Skipped(loop.program, occ) /\ loop' = Examined(occ)
  /\ EvaluateUnchanged /\ UNCHANGED <<program_runs, fired, queue, faults>>

MissOccurrence ==
  /\ loop.pc = "evaluate"
  /\ \E occ \in loop.work : IsNext(occ) /\ ~Skipped(loop.program, occ) /\ Misses(loop.program, occ)
  /\ loop' = [loop EXCEPT !.pc = "insert_missed"]
  /\ EvaluateUnchanged /\ UNCHANGED <<program_runs, fired, queue, faults>>

AdmitOccurrence ==
  /\ loop.pc = "evaluate"
  /\ \E occ \in loop.work :
       /\ IsNext(occ) /\ ~Skipped(loop.program, occ) /\ ~Misses(loop.program, occ)
       /\ queue' = Append(queue, Item(loop.program, occ, 0, <<>>))
       /\ loop' = Examined(occ)
  /\ EvaluateUnchanged /\ UNCHANGED <<program_runs, fired, faults>>

\* A failed insert is logged; the occurrence is evaluated again next tick.
InsertMissed ==
  /\ Awaits({"insert_missed"})
  /\ \E occ \in loop.work :
       LET item == Item(loop.program, occ, 0, <<>>)
       IN  /\ IsNext(occ) /\ loop' = Examined(occ)
           /\ \/ Inserts(item, "missed", <<>>) /\ fired' = fired \cup {Key(item)}
              \/ InsertFails(item, "missed", <<>>) /\ UNCHANGED fired
  /\ EvaluateUnchanged /\ UNCHANGED queue

EvaluateDone ==
  /\ loop.pc = "evaluate" /\ loop.todo = {} /\ loop.work = {}
  /\ loop' = [loop EXCEPT !.pc = "pump", !.program = NoProgram]
  /\ EvaluateUnchanged /\ UNCHANGED <<program_runs, fired, queue, faults>>

-----------------------------------------------------------------------------
(* _pump.                                                                  *)

\* Mutant: a run counts as alive only while a step waters.
RunAliveWatering == run_task # None /\ tasks[run_task].pc = "sleep"

RunAlive == run_task # None /\ tasks[run_task].pc # "idle"

\* A manually started zone is running.
Held == manual_until # None /\ ~(loop.now >= manual_until \/ now = MaxTime)

PumpUnchanged ==
  UNCHANGED <<db, hw, config, fired, active, poke, calls, env>>

TickEnds == [loop EXCEPT !.pc = "wait", !.now = 0]

PumpIdle ==
  /\ loop.pc = "pump" /\ (RunAlive \/ Held \/ queue = <<>>)
  /\ run_task' = IF RunAlive THEN run_task ELSE None
  /\ manual_until' = IF RunAlive \/ Held THEN manual_until ELSE None
  /\ loop' = TickEnds
  /\ PumpUnchanged /\ UNCHANGED <<queue, tasks>>

\* Deleted, emptied or disabled while queued.
Runnable(item) ==
  item.program # NoProgram => HasSteps(item.program) /\ (Scheduled(item) => cache[item.program].enabled)

PumpDrops ==
  /\ loop.pc = "pump" /\ ~RunAlive /\ ~Held /\ queue # <<>> /\ ~Runnable(Head(queue))
  /\ queue' = Tail(queue) /\ run_task' = None /\ manual_until' = None
  /\ PumpUnchanged /\ UNCHANGED <<loop, tasks>>

FreeSlot(t) == tasks[t].pc = "idle" /\ \A c \in Calls : calls[c].pc = "cancelling" => calls[c].task # t

RunTask(item) ==
  [IdleTask EXCEPT !.pc = "new", !.item = item,
     !.gate = Scheduled(item) /\ cache[item.program].respect,
     !.steps = IF item.program = NoProgram THEN item.steps ELSE cache[item.program].steps]

PumpStarts ==
  /\ loop.pc = "pump" /\ ~RunAlive /\ ~Held /\ queue # <<>> /\ Runnable(Head(queue))
  /\ \E t \in Slots :
       /\ FreeSlot(t) /\ \A s \in Slots : FreeSlot(s) => t <= s
       /\ tasks' = [tasks EXCEPT ![t] = RunTask(Head(queue))] /\ run_task' = t
  /\ queue' = Tail(queue) /\ manual_until' = None /\ loop' = TickEnds
  /\ PumpUnchanged

-----------------------------------------------------------------------------
(* _execute: the coroutine of one run.  A task is at the await its pc      *)
(* names.                                                                  *)

At(t, pcs) == Quiet /\ tasks[t].pc \in pcs

TaskUnchanged ==
  UNCHANGED <<programs, enabled_zones, run_requests, config, queue, run_task, manual_until, loop,
              calls, now, notify, boot, requested, edits>>

Becomes(t, k) == tasks' = [tasks EXCEPT ![t] = k]
Goes(t, pc) == Becomes(t, [tasks[t] EXCEPT !.pc = pc])
Ends(t, pc, status) == Becomes(t, [tasks[t] EXCEPT !.pc = pc, !.status = status, !.cancel = FALSE])

\* finally: _active is cleared, whoever's it is, and the loop is poked.
Exits(t) == Becomes(t, IdleTask) /\ active' = NoRun /\ poke' = TRUE

\* The step in progress; the ones before it have their outcomes.
Position(k) == Len(k.outcomes) + 1
\* Mutant: the step is no longer in flight once its minutes are over.
InFlightUntilSlept(k) == k.pc \in {"mark_started", "sleep"}
InFlight(k) == k.pc \in {"mark_started", "sleep", "mark_completed"}
StartedAny(k) == InFlight(k) \/ \E i \in DOMAIN k.outcomes : k.outcomes[i] = "completed"

\* The UPDATEs of program_run_steps and program_runs.
StepMark == [mark_skipped |-> "skipped_disabled", mark_failed |-> "failed", mark_started |-> "started",
             mark_completed |-> "completed", cancel_mark |-> "cancelled"]
FinishPcs == {"finish", "cancel_finish", "crash_finish"}

Updated(k) ==
  IF k.pc \in DOMAIN StepMark
  THEN [program_runs EXCEPT ![k.row].steps[Position(k)] = StepMark[k.pc]]
  ELSE [program_runs EXCEPT ![k.row].status = k.status]

\* The row the task is inserting, at insert_running, record_skip and cancel_record.
RowStatus(k) == IF k.pc = "insert_running" THEN "running" ELSE k.status
RowSteps(k) == IF k.pc = "insert_running" THEN [i \in DOMAIN k.steps |-> "pending"] ELSE <<>>

\* The store call the task awaits is abandoned: it took effect or it did not.
Abandoned(k) ==
  {program_runs}
  \cup (IF k.pc \in {"insert_running", "record_skip", "cancel_record"} /\ Insertable(k.item)
        THEN {Append(program_runs, NewRow(k.item, RowStatus(k), RowSteps(k)))} ELSE {})
  \cup (IF k.pc \in DOMAIN StepMark \cup FinishPcs THEN {Updated(k)} ELSE {})

\* Mutants: a run of skipped steps takes their status; only a total failure shows.
SummarizeSkipped(outcomes) ==
  IF \A i \in DOMAIN outcomes : outcomes[i] = "skipped_disabled" THEN "skipped_disabled" ELSE "completed"
SummarizeTotal(outcomes) ==
  IF \A i \in DOMAIN outcomes : outcomes[i] = "failed" THEN "failed" ELSE "completed"

Summarize(outcomes) ==
  LET failed == {i \in DOMAIN outcomes : outcomes[i] = "failed"}
  IN  IF failed = {} THEN "completed" ELSE IF failed = DOMAIN outcomes THEN "failed" ELSE "partial"

\* Mutant: no stop after the last step.
AfterStepUnstopped(k, outcome) ==
  LET n == [k EXCEPT !.outcomes = Append(@, outcome), !.attempt = 1, !.wake = None, !.pc = "mark"]
  IN  IF Len(n.outcomes) < Len(n.steps) THEN [n EXCEPT !.pc = "fetch_step_zones"]
      ELSE [n EXCEPT !.pc = "finish", !.status = Summarize(n.outcomes)]

\* After the step's outcome is on record: the next step, or the end of the run.
AfterStep(k, outcome) ==
  LET n == [k EXCEPT !.outcomes = Append(@, outcome), !.attempt = 1, !.wake = None, !.pc = "mark"]
  IN  IF Len(n.outcomes) < Len(n.steps) THEN [n EXCEPT !.pc = "fetch_step_zones"]
      ELSE IF StartedAny(n) THEN [n EXCEPT !.pc = "stop"]
      ELSE [n EXCEPT !.pc = "finish", !.status = Summarize(n.outcomes)]

RunBegins(t) ==
  /\ Settled /\ tasks[t].pc = "new" /\ ~tasks[t].cancel
  /\ Goes(t, IF tasks[t].gate THEN "rain_delay" ELSE "fetch_zones")
  /\ TaskUnchanged /\ UNCHANGED <<program_runs, hw, fired, active, poke, faults>>

\* An unreadable rain delay waters; then the weather gate has its say.
RainDelayRead(t) ==
  /\ At(t, {"rain_delay"}) /\ (Goes(t, "weather") \/ Ends(t, "record_skip", "skipped_rain_delay"))
  /\ TaskUnchanged /\ UNCHANGED <<program_runs, hw, fired, active, poke, faults>>

WeatherDecided(t) ==
  /\ At(t, {"weather"}) /\ (Goes(t, "fetch_zones") \/ Ends(t, "record_skip", "skipped_weather"))
  /\ TaskUnchanged /\ UNCHANGED <<program_runs, hw, fired, active, poke, faults>>

\* _record_terminal of a skip, or of a run cancelled before it had a row.
TerminalRecorded(t) ==
  /\ At(t, {"record_skip", "cancel_record"})
  /\ Inserts(tasks[t].item, tasks[t].status, <<>>)
  /\ fired' = fired \cup Keys(tasks[t].item) /\ Exits(t)
  /\ TaskUnchanged /\ UNCHANGED hw

\* Mutant: the run waters without recording itself first.
ZonesFetchedUnrecorded(t) ==
  /\ At(t, {"fetch_zones"})
  /\ Becomes(t, [tasks[t] EXCEPT !.pc = "fetch_step_zones", !.zones = enabled_zones])
  /\ TaskUnchanged /\ UNCHANGED <<program_runs, hw, fired, active, poke, faults>>

ZonesFetched(t) ==
  /\ At(t, {"fetch_zones"})
  /\ Becomes(t, [tasks[t] EXCEPT !.pc = "insert_running", !.zones = enabled_zones])
  /\ TaskUnchanged /\ UNCHANGED <<program_runs, hw, fired, active, poke, faults>>

RunInserted(t) ==
  LET item == tasks[t].item
      row == Len(program_runs) + 1
  IN  /\ At(t, {"insert_running"})
      /\ Inserts(item, "running", RowSteps(tasks[t]))
      /\ fired' = fired \cup Keys(item)
      /\ active' = [row |-> row, program |-> item.program, at |-> item.at, step |-> None]
      /\ Becomes(t, [tasks[t] EXCEPT !.pc = "fetch_step_zones", !.row = row])
      /\ TaskUnchanged /\ UNCHANGED <<hw, poke>>

\* No row: no watering.  A scheduled occurrence is evaluated again.
SetupFails(t) ==
  /\ \/ At(t, {"fetch_zones"}) /\ Fault /\ UNCHANGED program_runs
     \/ /\ At(t, {"record_skip", "insert_running"})
        /\ InsertFails(tasks[t].item, RowStatus(tasks[t]), RowSteps(tasks[t]))
  /\ Exits(t) /\ TaskUnchanged /\ UNCHANGED <<hw, fired>>

\* Freshest enablement, or the previous snapshot when the read fails.
StepZonesFetched(t) ==
  LET k == tasks[t]
  IN  /\ At(t, {"fetch_step_zones"})
      /\ \E zones \in {enabled_zones, k.zones} :
           /\ \/ zones = enabled_zones /\ UNCHANGED faults
              \/ zones = k.zones /\ Fault
           /\ Becomes(t, [k EXCEPT !.zones = zones,
                            !.pc = IF k.steps[Position(k)] \in zones THEN "start" ELSE "mark_skipped"])
      /\ TaskUnchanged /\ UNCHANGED <<program_runs, hw, fired, active, poke>>

ZoneStarts(t) ==
  LET k == tasks[t]
  IN  /\ At(t, {"start"}) /\ Goes(t, "start_reply")
      /\ hw' = Water(k.steps[Position(k)], k.row, StepMinutes)
      /\ program_runs' = [program_runs EXCEPT ![k.row].watered = TRUE]
      /\ TaskUnchanged /\ UNCHANGED <<fired, active, poke, faults>>

\* start_zone raised, before the module took the command or after; one retry.
StartFails(t) ==
  /\ At(t, {"start", "start_reply"}) /\ Fault
  /\ Becomes(t, [tasks[t] EXCEPT !.attempt = 2, !.pc = IF tasks[t].attempt = 1 THEN "start" ELSE "mark_failed"])
  /\ TaskUnchanged /\ UNCHANGED <<program_runs, hw, fired, active, poke>>

StartReplies(t) ==
  /\ At(t, {"start_reply"}) /\ active # NoRun
  /\ active' = [active EXCEPT !.step = Position(tasks[t])] /\ Goes(t, "mark_started")
  /\ TaskUnchanged /\ UNCHANGED <<program_runs, hw, fired, poke, faults>>

\* Another run's finally took _active away: the assignment to it raises.
StartRepliesUntracked(t) ==
  /\ At(t, {"start_reply"}) /\ active = NoRun /\ Goes(t, "crash_stop")
  /\ TaskUnchanged /\ UNCHANGED <<program_runs, hw, fired, active, poke, faults>>

StepStarted(t) ==
  /\ At(t, {"mark_started"}) /\ program_runs' = Updated(tasks[t])
  /\ Becomes(t, [tasks[t] EXCEPT !.pc = "sleep", !.wake = now + StepMinutes])
  /\ TaskUnchanged /\ UNCHANGED <<hw, fired, active, poke, faults>>

StepSlept(t) ==
  /\ At(t, {"sleep"}) /\ Elapsed(tasks[t].wake) /\ Goes(t, "mark_completed")
  /\ TaskUnchanged /\ UNCHANGED <<program_runs, hw, fired, active, poke, faults>>

StepEnds(t) ==
  /\ At(t, {"mark_skipped", "mark_failed", "mark_completed"}) /\ program_runs' = Updated(tasks[t])
  /\ Becomes(t, AfterStep(tasks[t], StepMark[tasks[t].pc]))
  /\ TaskUnchanged /\ UNCHANGED <<hw, fired, active, poke, faults>>

Refused == IF hw.row = None THEN hw ELSE [hw EXCEPT !.refused = TRUE]

\* service.stop_all after the last step or in the crash handler; failure is ignored.
RunStops(t) ==
  /\ \/ hw' = Off /\ UNCHANGED faults
     \/ Fault /\ hw' \in {Refused, Off}
  /\ \/ At(t, {"stop"}) /\ Ends(t, "finish", Summarize(tasks[t].outcomes))
     \/ At(t, {"crash_stop"}) /\ Ends(t, "crash_finish", "failed")
  /\ TaskUnchanged /\ UNCHANGED <<program_runs, fired, active, poke>>

RunFinished(t) ==
  /\ At(t, FinishPcs) /\ program_runs' = Updated(tasks[t]) /\ Exits(t)
  /\ TaskUnchanged /\ UNCHANGED <<hw, fired, faults>>

\* except Exception: the run is recorded as failed.
RunCrashes(t) ==
  /\ At(t, {"mark_skipped", "mark_failed", "mark_started", "mark_completed", "finish"}) /\ Fault
  /\ program_runs' \in Abandoned(tasks[t])
  /\ IF StartedAny(tasks[t]) THEN Goes(t, "crash_stop") ELSE Ends(t, "crash_finish", "failed")
  /\ TaskUnchanged /\ UNCHANGED <<hw, fired, active, poke>>

InFlightCancelled(t) ==
  /\ At(t, {"cancel_mark"}) /\ program_runs' = Updated(tasks[t])
  /\ Ends(t, "cancel_finish", "cancelled")
  /\ TaskUnchanged /\ UNCHANGED <<hw, fired, active, poke, faults>>

\* Persisting the end of a cancelled or crashed run failed.
HandlerFails(t) ==
  /\ \/ /\ At(t, {"cancel_mark", "cancel_finish"}) /\ Fault
        /\ program_runs' \in Abandoned(tasks[t]) /\ fired' = fired \cup Keys(tasks[t].item)
     \/ /\ At(t, {"cancel_record"}) /\ InsertFails(tasks[t].item, "cancelled", <<>>)
        /\ fired' = fired \cup Keys(tasks[t].item)
     \/ At(t, {"crash_finish"}) /\ Fault /\ program_runs' \in Abandoned(tasks[t]) /\ UNCHANGED fired
  /\ Exits(t) /\ TaskUnchanged /\ UNCHANGED hw

\* CancelledError, delivered at the task's await.
Cancelling(t, pcs) == Yielded /\ tasks[t].cancel /\ tasks[t].pc \in pcs

HandlerPcs == {"cancel_mark", "cancel_finish", "cancel_record", "crash_stop", "crash_finish"}
RunPcs == {"fetch_step_zones", "mark_skipped", "start", "start_reply", "mark_failed", "mark_started",
           "sleep", "mark_completed", "stop", "finish"}

\* Before its first step a task just disappears: not even finally runs.
CancelUnstarted(t) ==
  /\ Cancelling(t, {"new"}) /\ Becomes(t, IdleTask)
  /\ TaskUnchanged /\ UNCHANGED <<program_runs, hw, fired, active, poke, faults>>

CancelSetup(t) ==
  /\ Cancelling(t, SetupPcs \ {"new", "cancel_record"})
  /\ program_runs' \in Abandoned(tasks[t])
  /\ IF Scheduled(tasks[t].item) THEN Ends(t, "cancel_record", "cancelled") /\ UNCHANGED <<active, poke>>
     ELSE Exits(t)
  /\ TaskUnchanged /\ UNCHANGED <<hw, fired, faults>>

CancelRun(t) ==
  /\ Cancelling(t, RunPcs)
  /\ program_runs' \in Abandoned(tasks[t])
  /\ hw' \in {hw} \cup (IF tasks[t].pc = "stop" THEN {Off} ELSE {})
  /\ Ends(t, IF InFlight(tasks[t]) THEN "cancel_mark" ELSE "cancel_finish", "cancelled")
  /\ TaskUnchanged /\ UNCHANGED <<fired, active, poke, faults>>

\* A second cancellation leaves the handler: what it was saving may be lost.
CancelHandler(t) ==
  /\ Cancelling(t, HandlerPcs)
  /\ program_runs' \in Abandoned(tasks[t])
  /\ hw' \in {hw} \cup (IF tasks[t].pc = "crash_stop" THEN {Off} ELSE {})
  /\ Exits(t) /\ TaskUnchanged /\ UNCHANGED <<fired, faults>>

RunTaskStep(t) ==
  \/ RunBegins(t) \/ RainDelayRead(t) \/ WeatherDecided(t) \/ TerminalRecorded(t) \/ ZonesFetched(t)
  \/ RunInserted(t) \/ SetupFails(t) \/ StepZonesFetched(t) \/ ZoneStarts(t) \/ StartFails(t)
  \/ StartReplies(t) \/ StartRepliesUntracked(t) \/ StepStarted(t) \/ StepSlept(t) \/ StepEnds(t)
  \/ RunStops(t) \/ RunFinished(t) \/ RunCrashes(t) \/ InFlightCancelled(t) \/ HandlerFails(t)
  \/ CancelUnstarted(t) \/ CancelSetup(t) \/ CancelRun(t) \/ CancelHandler(t)

-----------------------------------------------------------------------------
(* cancel_active, on_stop_all, on_manual_start and stop, with the          *)
(* endpoints that call them.                                               *)

CallUnchanged ==
  UNCHANGED <<programs, enabled_zones, run_requests, config, active, poke, loop, now, notify, boot,
              requested, edits>>

InCall(c) == calls[c].pc \in {"stopping", "cancelling", "clearing", "command"}

\* seen and clean are history variables: what was queued or running when the
\* call arrived, and whether it came alone, to a run that was on record.
Arrived(c) ==
  IF calls[c].pc # "ready" THEN calls[c]
  ELSE [calls[c] EXCEPT
          !.seen = {queue[i] : i \in DOMAIN queue} \cup {tasks[t].item : t \in {t \in Slots : tasks[t].pc # "idle"}},
          !.clean = /\ \A d \in Calls \ {c} : ~InCall(d)
                    /\ \A t \in Slots : tasks[t].pc # "idle" => t = run_task /\ tasks[t].pc \notin SetupPcs]

CallBecomes(c, r) == calls' = [calls EXCEPT ![c] = r]

Arrives(c) ==
  /\ Yielded
  /\ \/ c \notin ShutdownCalls /\ calls[c].pc = "ready" /\ loop.pc # "stopped"
     \/ c \in ShutdownCalls /\ calls[c].pc = "stopping"

\* cancel_active with a live task: cancel it and await its end.
CancelActive(c) ==
  /\ Arrives(c) /\ RunAlive
  /\ tasks' = [tasks EXCEPT ![run_task].cancel = TRUE]
  /\ CallBecomes(c, [Arrived(c) EXCEPT !.pc = "cancelling", !.task = run_task])
  /\ CallUnchanged /\ UNCHANGED <<program_runs, hw, fired, queue, run_task, manual_until, faults>>

\* cancel_active returns; either way _run_task is now None.
LetsGo(c) ==
  /\ (Arrives(c) /\ ~RunAlive) \/ (Yielded /\ Resumes(c))
  /\ run_task' = None

\* _clear_queue with these items left, then the hold is lifted.
ClearRest(c, items) ==
  IF items = <<>>
  THEN /\ CallBecomes(c, [Arrived(c) EXCEPT !.pc = "command", !.task = None, !.items = <<>>])
       /\ manual_until' = None /\ UNCHANGED fired
  ELSE /\ CallBecomes(c, [Arrived(c) EXCEPT !.pc = "clearing", !.task = None, !.items = items])
       /\ fired' = fired \cup Keys(Head(items)) /\ UNCHANGED manual_until

StopClears(c) ==
  /\ c \in StopCalls /\ LetsGo(c)
  /\ queue' = <<>> /\ ClearRest(c, queue)
  /\ CallUnchanged /\ UNCHANGED <<program_runs, hw, tasks, faults>>

ItemCleared(c) ==
  /\ Quiet /\ calls[c].pc = "clearing"
  /\ LET item == Head(calls[c].items)
     IN  Inserts(item, "cancelled", <<>>) \/ InsertFails(item, "cancelled", <<>>)
  /\ ClearRest(c, Tail(calls[c].items))
  /\ CallUnchanged /\ UNCHANGED <<hw, queue, run_task, tasks>>

ManualHolds(c) ==
  /\ c \in ManualCalls /\ LetsGo(c)
  /\ manual_until' = now + ManualMinutes
  /\ CallBecomes(c, [Arrived(c) EXCEPT !.pc = "command", !.task = None])
  /\ CallUnchanged /\ UNCHANGED <<program_runs, hw, fired, queue, tasks, faults>>

\* The endpoint's own hardware command, after the scheduler let go.
Commanded(c) == IF c \in StopCalls THEN {Off} ELSE {Water(z, None, ManualMinutes) : z \in enabled_zones}

Command(c) ==
  /\ Quiet /\ calls[c].pc = "command"
  /\ \/ hw' \in Commanded(c) /\ CallBecomes(c, [calls[c] EXCEPT !.pc = "done"]) /\ UNCHANGED faults
     \/ Fault /\ hw' \in {Refused} \cup Commanded(c) /\ CallBecomes(c, [calls[c] EXCEPT !.pc = "failed"])
  /\ CallUnchanged /\ UNCHANGED <<program_runs, fired, queue, run_task, manual_until, tasks>>

-----------------------------------------------------------------------------
(* The process ends, by a kill or by Scheduler.stop, and starts again:     *)
(* its memory is lost, the database and the controller carry on.           *)

Restart ==
  /\ cache' = [p \in Programs |-> [InitialPrograms[p] EXCEPT !.state = "unborn"]]
  /\ fired' = {} /\ queue' = <<>> /\ active' = NoRun /\ run_task' = None /\ manual_until' = None
  /\ ready' = FALSE /\ orphans_finalized' = FALSE /\ refresh_needed' = TRUE /\ last_refresh' = None
  /\ poke' = FALSE /\ loop' = IdleLoop /\ tasks' = [t \in Slots |-> IdleTask] /\ boot' = boot + 1 /\ notify' = FALSE
  /\ UNCHANGED <<db, hw, now, requested, edits, faults>>

Crash ==
  /\ Quiet /\ boot <= MaxCrashes /\ Restart
  /\ calls' = [c \in Calls |-> IF InCall(c) THEN [calls[c] EXCEPT !.pc = "failed"] ELSE calls[c]]

\* The server has drained its requests; stop() cancels the loop, then the run.
ShutdownBegins(c) ==
  /\ Quiet /\ c \in ShutdownCalls /\ calls[c].pc = "ready" /\ \A d \in Calls : ~InCall(d)
  /\ CallBecomes(c, [Arrived(c) EXCEPT !.pc = "stopping"])
  /\ loop' = [IdleLoop EXCEPT !.pc = "stopped"]
  /\ UNCHANGED <<db, hw, config, fired, queue, active, run_task, manual_until, poke, tasks, env>>

ShutdownEnds(c) ==
  /\ c \in ShutdownCalls /\ LetsGo(c) /\ Restart
  /\ CallBecomes(c, [calls[c] EXCEPT !.pc = "done", !.task = None])

-----------------------------------------------------------------------------
LoopStep ==
  \/ TickBegins \/ FinalizeOrphans \/ FinalizeFails \/ FetchPrograms \/ FetchSteps \/ ReadRunKeys
  \/ ClaimRequests \/ RefreshFails \/ RefreshDone \/ AdmitStep \/ RequestsAdmitted \/ EvaluateProgram \/ SkipOccurrence \/ MissOccurrence
  \/ AdmitOccurrence \/ InsertMissed \/ EvaluateDone \/ PumpIdle \/ PumpDrops \/ PumpStarts

CallStep(c) ==
  \/ CancelActive(c) \/ StopClears(c) \/ ItemCleared(c) \/ ManualHolds(c) \/ Command(c)
  \/ ShutdownBegins(c) \/ ShutdownEnds(c)

WebStep ==
  \/ \E p \in Programs : SaveProgram(p) \/ ToggleProgram(p) \/ DeleteProgram(p) \/ RunNow(p)
  \/ \E z \in Zones : ToggleZone(z)
  \/ QuickRun

Next ==
  \/ ClockTick \/ WebStep \/ Notify \/ LoopStep \/ Crash
  \/ \E t \in Slots : RunTaskStep(t)
  \/ \E c \in Calls : CallStep(c)

Spec == Init /\ [][Next]_vars
=============================================================================
