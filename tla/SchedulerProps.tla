---------------------------- MODULE SchedulerProps ----------------------------
(***************************************************************************)
(* What the scheduler promises: its type invariant, its safety and action  *)
(* properties and, under the fairness of an event loop whose calls return, *)
(* its liveness.                                                           *)
(***************************************************************************)
EXTENDS Scheduler

Outcomes == {"completed", "failed", "skipped_disabled"}
Marks == Outcomes \cup {"pending", "started", "cancelled"}
Skips == {"skipped_rain_delay", "skipped_weather"}
Statuses == Skips \cup {"running", "completed", "partial", "failed", "cancelled", "missed"}

Items == [program : Programs \cup {NoProgram}, at : Times, req : Nat, steps : Seq(Zones)]
Rows == [program : Programs \cup {NoProgram}, at : Times, req : Nat, status : Statuses,
         steps : Seq(Marks), boot : Nat, watered : BOOLEAN]
LoopPcs == {"wait", "finalize", "fetch_programs", "fetch_steps", "run_keys", "claim", "admit", "insert_request_missed",
            "weather_settings", "evaluate", "insert_missed", "pump", "stopped"}
Loops == [pc : LoopPcs, now : Nat, rows : [Programs -> Versions], reqs : SUBSET Items,
          todo : SUBSET Programs, program : Programs \cup {NoProgram}, work : SUBSET Nat]
TaskPcs == {"idle"} \cup SetupPcs \cup RunPcs \cup HandlerPcs
Tasks == [pc : TaskPcs, item : Items, gate : BOOLEAN, steps : Seq(Zones), row : Nat \cup {None},
          outcomes : Seq(Outcomes), zones : SUBSET Zones, attempt : 1..2, wake : Times,
          status : Statuses \cup {"none"}, cancel : BOOLEAN]
CallRecords == [pc : {"ready", "stopping", "cancelling", "clearing", "command", "done", "failed"},
                task : Slots \cup {None}, items : Seq(Items), seen : SUBSET Items, clean : BOOLEAN]
ActiveRuns == [row : Nat \cup {None}, program : Programs \cup {NoProgram}, at : Times, step : Nat \cup {None}]
Waterings == [zone : Zones \cup {NoZone}, row : Nat \cup {None}, until : Times,
              refused : BOOLEAN]

\* The values every part of the database, the executor and the controller may hold.
ConfigOK ==
  /\ programs \in [Programs -> Versions] /\ cache \in [Programs -> Versions]
  /\ ready \in BOOLEAN /\ orphans_finalized \in BOOLEAN /\ refresh_needed \in BOOLEAN
  /\ last_refresh \in Times
QueueOK == run_requests \subseteq Items /\ loop \in Loops /\ queue \in Seq(Items)
EnvOK ==
  /\ now \in Nat /\ notify \in BOOLEAN /\ boot \in Nat
  /\ requested \in Nat /\ edits \in Nat /\ faults \in Nat
RunsOK ==
  /\ program_runs \in Seq(Rows) /\ tasks \in [Slots -> Tasks] /\ active \in ActiveRuns
  /\ fired \subseteq (Programs \cup {NoProgram}) \X Times
  /\ hw \in Waterings /\ enabled_zones \subseteq Zones
CallsOK ==
  /\ calls \in [Calls -> CallRecords] /\ run_task \in Slots \cup {None}
  /\ manual_until \in Times /\ poke \in BOOLEAN
TypeOK == ConfigOK /\ QueueOK /\ EnvOK /\ RunsOK /\ CallsOK

\* What makes TypeOK inductive: a status is about to be saved only once it is
\* known, a zone started only if it exists, an item cleared only if one is left.
TaskShape(k) ==
  /\ k.pc \in FinishPcs \cup {"record_skip", "cancel_record"} => k.status \in Statuses
  /\ k.pc \in {"start", "start_reply"} => k.steps[Position(k)] \in Zones
CallShape(r) == r.pc = "clearing" => r.items # <<>>
TypeInd == TypeOK /\ (\A t \in Slots : TaskShape(tasks[t])) /\ (\A c \in Calls : CallShape(calls[c]))

-----------------------------------------------------------------------------
(* The queue.                                                              *)

\* Overflow is recorded as missed, so the queue never exceeds its cap.
WithinCap == Len(queue) <= QueueCap

\* Run-now requests jump the queue.
ManualFirst == \A i, j \in DOMAIN queue : i < j /\ ~Scheduled(queue[j]) => ~Scheduled(queue[i])

\* Duplicate occurrences of a queued program collapse.
OneOccurrenceQueued ==
  \A i, j \in DOMAIN queue :
    Scheduled(queue[i]) /\ Scheduled(queue[j]) /\ queue[i].program = queue[j].program => i = j

\* Run-now requests stay FIFO among themselves.
ManualFifo == \A i, j \in DOMAIN queue : i < j /\ ~Scheduled(queue[j]) => queue[i].req < queue[j].req

\* The queue's shape across admissions, pumps, stop-alls and restarts.
QueueInv == WithinCap /\ ManualFirst /\ OneOccurrenceQueued /\ ManualFifo

\* What makes QueueInv inductive: requests are younger than the queued ones the
\* nearer they are to the table, and none is older than the counter.
RequestsOrdered ==
  /\ \A r \in loop.reqs \cup run_requests : r.at = None /\ r.req <= requested
  /\ \A r, q \in loop.reqs : r.req = q.req => r = q
  /\ \A r, q \in run_requests : r.req = q.req => r = q
  /\ \A r \in loop.reqs, q \in run_requests : r.req < q.req
  /\ \A i \in DOMAIN queue : ~Scheduled(queue[i]) =>
       /\ queue[i].req <= requested
       /\ \A r \in loop.reqs \cup run_requests : queue[i].req < r.req
QueueTypes == ConfigOK /\ QueueOK /\ now \in Nat /\ requested \in Nat
QueueInd == QueueTypes /\ QueueInv /\ RequestsOrdered

-----------------------------------------------------------------------------
(* Water and history.                                                      *)

\* "Never water without history": a run that commands water, or whose program
\* step is in progress, owns a running row of its own item, and no two runs share one.
WaterPcs == {"start", "start_reply", "mark_started", "sleep", "mark_completed", "stop"}
NeverWaterWithoutHistory ==
  \A t \in Slots : tasks[t].pc \in WaterPcs =>
    /\ tasks[t].row \in DOMAIN program_runs
    /\ program_runs[tasks[t].row].status = "running"
    /\ program_runs[tasks[t].row].req = tasks[t].item.req
    /\ program_runs[tasks[t].row].at = tasks[t].item.at
    /\ \A s \in Slots \ {t} : tasks[s].row # tasks[t].row

\* History tells what happened: a completed run has no failed or unfinished
\* step, a partial one both a failed and a good one, a cancelled one no step
\* still in progress, and steps go in order.
TrueRow(row) ==
  /\ row.status = "completed" => \A i \in DOMAIN row.steps : row.steps[i] \in {"completed", "skipped_disabled"}
  /\ row.status = "partial" => /\ \A i \in DOMAIN row.steps : row.steps[i] \in Outcomes
                               /\ \E i \in DOMAIN row.steps : row.steps[i] = "failed"
                               /\ \E i \in DOMAIN row.steps : row.steps[i] # "failed"
  /\ row.status = "cancelled" => \A i \in DOMAIN row.steps : row.steps[i] # "started"
  /\ \A i, j \in DOMAIN row.steps : i < j /\ row.steps[j] # "pending" => row.steps[i] \in Outcomes
HistoryIsTrue == \A r \in DOMAIN program_runs : TrueRow(program_runs[r])

\* Whatever the executor is doing, its history is the ledger of RunLedger: no
\* crash, fault, cancellation or edit makes a row go back, an occurrence run
\* again, or a run change a row that is not its own.
Ledger == INSTANCE RunLedger WITH
  Unscheduled <- None,
  rows <- [r \in DOMAIN program_runs |->
             [program |-> program_runs[r].program, at |-> program_runs[r].at,
              status |-> program_runs[r].status, steps |-> program_runs[r].steps]],
  open <- {tasks[t].row : t \in Slots} \ {None}
ImplementsLedger == Ledger!Spec

\* Two rows of one occurrence that both commanded water.
BothWatered(r, s) ==
  /\ r # s /\ program_runs[r].watered /\ program_runs[s].watered
  /\ program_runs[r].at # None /\ program_runs[r].at = program_runs[s].at
  /\ program_runs[r].program = program_runs[s].program /\ program_runs[r].program # NoProgram

\* Dedupe per (program_id, occurrence): an occurrence waters once.
FiresOnce == \A r, s \in DOMAIN program_runs : ~BothWatered(r, s)

\* M2.E9: no restart waters an occurrence that an earlier life recorded.
RestartNeverRefires ==
  \A r, s \in DOMAIN program_runs :
    /\ program_runs[r].at # None /\ program_runs[r].at = program_runs[s].at
    /\ program_runs[r].program = program_runs[s].program /\ program_runs[r].program # NoProgram
    => program_runs[r].boot = program_runs[s].boot

\* "Running row finalized as cancelled on startup": past the boot's
\* finalization, every running row belongs to a live run.
NoOrphans ==
  orphans_finalized /\ loop.pc # "stopped" =>
    \A r \in DOMAIN program_runs : program_runs[r].status = "running" => \E t \in Slots : tasks[t].row = r

\* Water is somebody's: a run that is over, whatever mix of steps it had and
\* however it ended, leaves none, unless it was killed with its process, whoever
\* cancels it has yet to send its own command, the command to end the water
\* failed, or no start of the run was ever answered, so that it owes no stop.
Answered(row) == \E i \in DOMAIN row.steps : row.steps[i] \in {"started", "completed"}
NoWaterAfterRun ==
  hw.row # None /\ (\A t \in Slots : tasks[t].row # hw.row) =>
    \/ hw.refused \/ boot > program_runs[hw.row].boot
    \/ \E c \in Calls : InCall(c)
    \/ ~Answered(program_runs[hw.row])

-----------------------------------------------------------------------------
(* One run at a time, cancellation.                                        *)

OneRunAtATime == Cardinality({t \in Slots : tasks[t].pc # "idle"}) <= 1

\* "Stop-all cancels the active run and clears the queue": nothing that a
\* stop-all found queued or running waters once it has answered, when it came
\* alone and the run it found was on record.
Stopped(c) == \A t \in Slots : tasks[t].pc \in WaterPcs => tasks[t].item \notin calls[c].seen
StopAllStops == \A c \in StopCalls : calls[c].pc = "done" /\ calls[c].clean => Stopped(c)

\* It does when there was only one thing to stop, running or queued.
LoneStopStops ==
  \A c \in StopCalls :
    calls[c].pc = "done" /\ calls[c].clean /\ Cardinality(calls[c].seen) <= 1 => Stopped(c)

\* Run-now requests run in the order they were made.
RequestsInOrder ==
  \A r, s \in DOMAIN program_runs :
    r < s /\ program_runs[r].req # 0 /\ program_runs[s].req # 0 /\ program_runs[r].status # "missed"
          /\ program_runs[s].status # "missed"
    => program_runs[r].req < program_runs[s].req

-----------------------------------------------------------------------------
(* Liveness.                                                               *)

\* asyncio's ready queue is first-in first-out and no coroutine keeps the
\* processor past its next await: whoever can run again and again does run.
Fairness ==
  /\ SF_vars(ClockTick) /\ SF_vars(Notify) /\ SF_vars(LoopStep)
  /\ \A t \in Slots : SF_vars(RunTaskStep(t))
  /\ \A c \in Calls : SF_vars(CallStep(c))
FairSpec == Spec /\ Fairness

Recorded(p, occ) == \E r \in DOMAIN program_runs : program_runs[r].program = p /\ program_runs[r].at = occ

\* Every due occurrence gets a row: run, missed, skipped or cancelled.
EveryOccurrenceRecorded ==
  \A p \in Programs : \A occ \in InitialPrograms[p].times :
    (now >= occ /\ InitialPrograms[p].state = "live" /\ InitialPrograms[p].enabled) ~> Recorded(p, occ)

\* Edits are picked up, whether the NOTIFY arrives or not and wherever they fall
\* in a refresh: an occurrence of a program as last saved, later than that save,
\* gets a row, unless the program is saved again.
DueSinceSave(p, occ) ==
  /\ programs[p].state = "live" /\ programs[p].enabled /\ programs[p].steps # <<>>
  /\ occ \in programs[p].times /\ programs[p].updated_at < occ /\ occ <= now
EditsTakeEffect ==
  \A p \in Programs : \A occ \in 0..MaxTime :
    DueSinceSave(p, occ) ~> (Recorded(p, occ) \/ ~DueSinceSave(p, occ))

\* Every run request gets a row, though the NOTIFY is lost and the queue is full:
\* one in the table gets it in the life that finds it there, unless that life ends
\* first, and then in the next one, unless it died holding the request in memory.
EveryRequestRecorded ==
  \A q \in 1..MaxRequests, b \in 1..MaxCrashes + 1 :
    (boot = b /\ \E r \in run_requests : r.req = q)
      ~> (boot > b \/ \E r \in DOMAIN program_runs : program_runs[r].req = q)

\* Every scheduled occurrence the scheduler queued gets a row.
EveryQueuedRecorded ==
  \A p \in Programs : \A occ \in InitialPrograms[p].times :
    (\E i \in DOMAIN queue : Key(queue[i]) = <<p, occ>>) ~> Recorded(p, occ)

\* No row stays "running": the run ends, or the next boot finalizes it.
MaxRows == MaxRequests + Cardinality(UNION {{p} \X InitialPrograms[p].times : p \in Programs})
Running(r) == r \in DOMAIN program_runs /\ program_runs[r].status = "running"
EveryRunEnds == \A r \in 1..MaxRows : Running(r) ~> ~Running(r)
==============================================================================
