------------------------- MODULE SchedulerInvariants -------------------------
(***************************************************************************)
(* The inductive invariants of the scheduler: what is true after every     *)
(* step, and strong enough that every step keeps it, so that the promises  *)
(* of SchedulerProps follow.  They define no state and no action.          *)
(***************************************************************************)
EXTENDS SchedulerProps

-----------------------------------------------------------------------------
(* Runs and their rows.                                                    *)

\* A task at one of these awaits has a row; at any other it has none.
OwnerPcs == (RunPcs \cup HandlerPcs) \ {"cancel_record"}

\* What the step in progress may be marked with while its run is at an await:
\* an abandoned UPDATE leaves the old mark or the new one.
MarkAt(pc) ==
  CASE pc \in {"sleep", "mark_completed"} -> {"started"}
    [] pc = "cancel_mark" -> {"pending", "started", "completed"}
    [] pc = "cancel_finish" -> {"pending", "skipped_disabled", "failed", "cancelled"}
    [] pc \in {"crash_stop", "crash_finish"} -> {"pending", "started", "completed", "skipped_disabled", "failed"}
    [] OTHER -> {"pending"}

\* The row is of the task's own item, its steps are marked with the task's
\* outcomes up to the step in progress, and none after it has been reached.
SameRun(k, row) ==
  /\ row.program \in {k.item.program, NoProgram} /\ row.at = k.item.at /\ row.req = k.item.req
  /\ Len(row.steps) = Len(k.steps) /\ Len(k.outcomes) <= Len(k.steps)
SameMarks(k, row) ==
  /\ \A i \in 1 .. Len(k.outcomes) : row.steps[i] = k.outcomes[i]
  /\ \A i \in Position(k) + 1 .. Len(k.steps) : row.steps[i] = "pending"
  /\ Position(k) <= Len(k.steps) => row.steps[Position(k)] \in MarkAt(k.pc)
\* The steps are over exactly at the end of the run, and the status the task is
\* about to save is the one its outcomes or its handler call for.
SameStage(k, row) ==
  /\ k.pc \in {"stop", "finish"} => Len(k.outcomes) = Len(k.steps)
  /\ k.pc \in (RunPcs \ {"stop", "finish"}) \cup {"cancel_mark"} => Position(k) <= Len(k.steps)
  /\ k.pc \in RunPcs \cup {"cancel_mark"} => row.status = "running"
  /\ k.pc = "finish" => k.status = Summarize(k.outcomes)
  /\ k.pc = "cancel_finish" => k.status = "cancelled"
  /\ k.pc = "crash_finish" => k.status = "failed"
Fits(k, row) == SameRun(k, row) /\ SameMarks(k, row) /\ SameStage(k, row)

\* A task without a row has watered nothing; if it records its end it is skipped
\* or cancelled.
Rowless(k) ==
  /\ k.row = None /\ k.outcomes = <<>>
  /\ k.pc = "record_skip" => k.status \in Skips
  /\ k.pc = "cancel_record" => k.status = "cancelled"
Linked(k) ==
  IF k.pc \in OwnerPcs THEN k.row \in DOMAIN program_runs /\ Fits(k, program_runs[k.row]) ELSE Rowless(k)
OwnRows ==
  /\ \A t \in Slots : Linked(tasks[t])
  /\ \A s, t \in Slots : s # t /\ tasks[t].row # None => tasks[s].row # tasks[t].row

\* Every run has a step: an empty program is not run and an empty Quick Run not admitted.
HasWork ==
  /\ \A i \in DOMAIN queue : queue[i].program = NoProgram => queue[i].steps # <<>>
  /\ \A t \in Slots : tasks[t].pc # "idle" => tasks[t].steps # <<>>
  /\ loop.work # {} => loop.program # NoProgram

\* No run starts before the orphans are finalized.
BootOrder ==
  /\ loop.pc \notin {"wait", "finalize", "stopped"} => orphans_finalized
  /\ loop.pc = "finalize" => ~orphans_finalized
  /\ ~orphans_finalized => \A t \in Slots : tasks[t].pc = "idle"

HistoryInd == OwnRows /\ HasWork /\ BootOrder /\ HistoryIsTrue
-----------------------------------------------------------------------------
(* Occurrences and the executor's memory of them.                          *)

\* A row of a program's occurrence; one whose run reached a step.
Keyed(row) == row.program # NoProgram /\ row.at # None
KeyOf(row) == <<row.program, row.at>>
Touched(row) == Keyed(row) /\ (row.watered \/ \E i \in DOMAIN row.steps : row.steps[i] # "pending")

\* The instant of the tick in progress, or the earliest the next one can have.
Horizon == IF loop.pc \in {"wait", "stopped"} THEN now ELSE loop.now

\* _evaluate will not queue this occurrence again: it is marked, or too old.
Known(key) == key \in fired \/ key[2] <= Horizon - Lookback

\* The fired-set covers the history: this life has read the watermark.
Loaded == ready \/ loop.pc \in {"claim", "admit", "insert_request_missed", "weather_settings"}

\* The tick's instant and the occurrences it looks at.
WindowInd ==
  /\ loop.pc \notin {"wait", "stopped"} => loop.now <= now
  /\ loop.pc \in {"evaluate", "insert_missed"} => \A occ \in loop.work : occ > loop.now - Lookback
  /\ loop.pc \notin {"evaluate", "insert_missed"} => loop.work = {}
  /\ loop.pc \in {"evaluate", "insert_missed", "pump"} => ready

\* Every row of this occurrence was written in this life of the process.
Fresh(key) ==
  \A r \in DOMAIN program_runs :
    Keyed(program_runs[r]) /\ KeyOf(program_runs[r]) = key => program_runs[r].boot = boot

\* What an earlier life recorded is known, so nothing this life may still
\* record, wherever it is on its way, has such a row.
PastKnown ==
  Loaded => \A r \in DOMAIN program_runs :
              Keyed(program_runs[r]) /\ program_runs[r].boot # boot => Known(KeyOf(program_runs[r]))
OnTheWayFresh ==
  /\ \A i \in DOMAIN queue : Fresh(Key(queue[i]))
  /\ \A t \in Slots : tasks[t].pc # "idle" => Fresh(Key(tasks[t].item))
  /\ \A c \in Calls : calls[c].pc = "clearing" => \A i \in DOMAIN calls[c].items : Fresh(Key(calls[c].items[i]))
  /\ loop.pc = "insert_missed" => \A occ \in loop.work : IsNext(occ) => Fresh(<<loop.program, occ>>)
\* A shutdown has the calls to itself: none outlives the process.
ShutdownAlone == \A c \in ShutdownCalls : InCall(c) => loop.pc = "stopped" /\ \A d \in Calls \ {c} : ~InCall(d)
RestartInd == WindowInd /\ PastKnown /\ OnTheWayFresh /\ ShutdownAlone /\ RestartNeverRefires

\* When a run is set up before the loop ticks again: an occurrence that is
\* queued, or whose run is alive, has no other run, and none whose steps were
\* reached; once they are, or its row is there, it is known.
Busy(t) == tasks[t].pc # "idle" /\ Scheduled(tasks[t].item)
SetUpPromptly == (\E t \in Slots : tasks[t].pc \in SetupPcs) => loop.pc \in {"wait", "stopped"}
TouchedKnown ==
  /\ Loaded => \A r \in DOMAIN program_runs : Touched(program_runs[r]) => Known(KeyOf(program_runs[r]))
  /\ \A t \in Slots : Busy(t) /\ tasks[t].pc \in OwnerPcs => Known(Key(tasks[t].item))
QueuedOnce ==
  \A i \in DOMAIN queue : Scheduled(queue[i]) =>
    /\ \A r \in DOMAIN program_runs : Touched(program_runs[r]) => KeyOf(program_runs[r]) # Key(queue[i])
    /\ \A t \in Slots : Busy(t) => Key(tasks[t].item) # Key(queue[i])
RunsOnce ==
  \A t \in Slots : Busy(t) =>
    /\ \A s \in Slots \ {t} : Busy(s) => Key(tasks[s].item) # Key(tasks[t].item)
    /\ \A r \in DOMAIN program_runs \ {tasks[t].row} :
         Touched(program_runs[r]) => KeyOf(program_runs[r]) # Key(tasks[t].item)
TouchedOnce ==
  \A r, s \in DOMAIN program_runs :
    Touched(program_runs[r]) /\ Touched(program_runs[s]) /\ r # s => KeyOf(program_runs[r]) # KeyOf(program_runs[s])
OnceInd == SetUpPromptly /\ TouchedKnown /\ QueuedOnce /\ RunsOnce /\ TouchedOnce

-----------------------------------------------------------------------------
(* One run at a time, and requests in their order, while no call but a     *)
(* shutdown cancels a run.                                                 *)

\* The executor knows the run that is alive.
OneAlive == \A t \in Slots : tasks[t].pc # "idle" => t = run_task

\* A run somebody asked for; a row of one, unless it was missed.
Asked(t) == tasks[t].pc # "idle" /\ tasks[t].item.req # 0
RanAsked(row) == row.req # 0 /\ row.status # "missed"

\* The requests still to be run: in the table, claimed or queued.
Waiting == run_requests \cup loop.reqs \cup {queue[i] : i \in {i \in DOMAIN queue : ~Scheduled(queue[i])}}

\* What has run, or runs, was asked for before whatever waits; what runs, after
\* whatever has run.
WaitingLater ==
  \A w \in Waiting :
    /\ \A r \in DOMAIN program_runs : RanAsked(program_runs[r]) => program_runs[r].req < w.req
    /\ \A t \in Slots : Asked(t) => tasks[t].item.req < w.req
RunLast ==
  \A t \in Slots : Asked(t) =>
    \A r \in DOMAIN program_runs \ {tasks[t].row} :
      RanAsked(program_runs[r]) => program_runs[r].req < tasks[t].item.req

\* Only requests are numbered, up to the last that was made.
Numbered ==
  /\ \A i \in DOMAIN queue : Scheduled(queue[i]) => queue[i].req = 0
  /\ \A t \in Slots : Asked(t) => ~Scheduled(tasks[t].item) /\ tasks[t].item.req <= requested
  /\ \A r \in DOMAIN program_runs : program_runs[r].req <= requested

\* A request gets one row, and a missed one is not written to again.
RecordedOnce ==
  \A t \in Slots :
    /\ tasks[t].pc = "cancel_record" => Scheduled(tasks[t].item)
    /\ tasks[t].row # None => program_runs[tasks[t].row].status # "missed"

\* No call has a queue to clear or a zone to command.
NothingCleared == \A c \in Calls : calls[c].pc \notin {"clearing", "command"}
OrderInd == OneAlive /\ WaitingLater /\ RunLast /\ Numbered /\ RecordedOnce /\ NothingCleared /\ RequestsInOrder

-----------------------------------------------------------------------------
(* What a run leaves behind.                                               *)

\* The runs the history shows in progress.
RunningRows == {r \in DOMAIN program_runs : program_runs[r].status = "running"}

\* When only shutdowns cancel: until one does, no run is cancelled, and past
\* the boot's finalization every running row has its run.
OrphanInd ==
  /\ loop.pc # "stopped" => \A t \in Slots : ~tasks[t].cancel
  /\ orphans_finalized /\ loop.pc # "stopped" => RunningRows \subseteq {tasks[t].row : t \in Slots}

\* A cancelled run has its canceller waiting for it.
CancelPcs == {"cancel_mark", "cancel_finish"}
CancellerWaits ==
  \A t \in Slots :
    /\ tasks[t].pc = "idle" => ~tasks[t].cancel
    /\ tasks[t].cancel \/ tasks[t].pc \in CancelPcs =>
         \E c \in Calls : calls[c].pc = "cancelling" /\ calls[c].task = t

\* Water is commanded under a row, and no row is of a life to come.
WateredRow ==
  /\ \A r \in DOMAIN program_runs : program_runs[r].boot <= boot
  /\ hw.row # None => hw.row \in DOMAIN program_runs

\* A run about to close its row, not being cancelled, has dealt with its water:
\* it is past its stop, or owes none.
ClosingPcs == {"finish", "crash_finish"}
DealtWith(k) ==
  hw.row # None /\ k.row = hw.row /\ k.pc \in ClosingPcs => hw.refused \/ ~Answered(program_runs[k.row])

WaterInd == CancellerWaits /\ WateredRow /\ (\A t \in Slots : DealtWith(tasks[t])) /\ NoWaterAfterRun

-----------------------------------------------------------------------------
(* A stop-all that comes alone and finds one thing to stop.                *)

\* A request that runs was made before every request that waits.
RanBefore ==
  \A t \in Slots : tasks[t].pc # "idle" /\ ~Scheduled(tasks[t].item) =>
    tasks[t].item.req <= requested /\ \A w \in Waiting : tasks[t].item.req < w.req

\* Nobody runs this again: it does not wait, and no tick will queue it.
Spent(item) ==
  /\ \A i \in DOMAIN queue : queue[i] # item
  /\ IF Scheduled(item) THEN Known(Key(item)) ELSE item.req <= requested /\ item \notin Waiting

\* A run that only its handler is left of, or that is about to enter it.
Leaving(k) == k.pc \in HandlerPcs \ {"cancel_record"} \/ (k.cancel /\ k.pc \in RunPcs)

Lone(c) ==
  /\ calls[c].pc \in {"cancelling", "clearing", "command", "done"}
  /\ calls[c].clean /\ Cardinality(calls[c].seen) <= 1

\* What such a call has found is spent, and its run, if it had one, is the one
\* the call waits for.
FoundLeaves ==
  \A c \in StopCalls : Lone(c) =>
    \A item \in calls[c].seen :
      /\ Spent(item)
      /\ \A t \in Slots : tasks[t].pc # "idle" /\ tasks[t].item = item =>
           calls[c].pc = "cancelling" /\ t = calls[c].task /\ Leaving(tasks[t])

\* While the process is not restarted, and a run is set up before the loop ticks again.
StopInd == boot = 1 /\ RanBefore /\ FoundLeaves

==============================================================================
