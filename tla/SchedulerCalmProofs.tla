------------------------- MODULE SchedulerCalmProofs -------------------------
(***************************************************************************)
(* What the engine does when nobody interferes.  While no stop-all and no  *)
(* manual start comes, one run at a time, and requests in the order they   *)
(* were made: what runs was asked for after whatever has run and before    *)
(* whatever waits.  When nothing fails either, a run leaves no row in      *)
(* progress.  A stop-all that comes alone, to one thing to stop, stops it. *)
(* And, whoever interferes and whatever fails: a run that is over leaves   *)
(* no water, unless the executor refused to stop it.                       *)
(***************************************************************************)
EXTENDS SchedulerLedgerProofs, FiniteSetTheorems

-----------------------------------------------------------------------------
(* What a step of a run does to it.                                        *)

\* Where a step leaves a run: an unscheduled one that was to be inserted has its
\* row or is gone, and only a scheduled one records its own cancellation.
LEMMA RunLeaves ==
  ASSUME TypeInd, NEW t \in Slots, RunTaskStep(t)
  PROVE  /\ tasks'[t].pc = "cancel_record" => Scheduled(tasks[t].item)
         /\ tasks[t].pc \in {"insert_running", "record_skip"} =>
              tasks'[t].pc = "idle" \/ RunInserted(t) \/ Scheduled(tasks[t].item)
PROOF
<1> DEFINE k == tasks[t]
           first == {"insert_running", "record_skip"}
<1>1. k \in Tasks /\ tasks \in [Slots -> Tasks]
  BY DEF TypeInd, TypeOK, RunsOK
<1>2. IdleTask.pc = "idle"
  BY DEF IdleTask
<1>3. \A n : Becomes(t, n) => tasks'[t] = n
  BY <1>1 DEF Becomes
<1>4. \A pc : Goes(t, pc) => tasks'[t].pc = pc
  BY <1>1, <1>3 DEF Goes, Tasks
<1>5. \A pc, status : Ends(t, pc, status) => tasks'[t].pc = pc
  BY <1>1, <1>3 DEF Ends, Tasks
<1> HIDE DEF k
<1>6. CASE \/ TerminalRecorded(t) \/ SetupFails(t) \/ RunFinished(t) \/ HandlerFails(t)
           \/ CancelUnstarted(t) \/ CancelHandler(t)
  BY <1>2, <1>3, <1>6 DEF TerminalRecorded, SetupFails, RunFinished, HandlerFails, CancelUnstarted, CancelHandler, Exits
<1>7. CASE RunBegins(t) \/ RainDelayRead(t) \/ WeatherDecided(t)
  BY <1>4, <1>5, <1>7 DEF RunBegins, RainDelayRead, WeatherDecided, At
<1>8. CASE ZonesFetched(t)
  <2>1. tasks'[t] = [k EXCEPT !.pc = "insert_running", !.zones = enabled_zones]
    BY <1>3, <1>8 DEF ZonesFetched, k
  <2>2. [k EXCEPT !.pc = "insert_running", !.zones = enabled_zones].pc = "insert_running"
    BY <1>1 DEF Tasks
  <2> QED BY <1>8, <2>1, <2>2 DEF ZonesFetched, At
<1>9. CASE RunInserted(t)
  <2>1. tasks'[t] = [k EXCEPT !.pc = "fetch_step_zones", !.row = Len(program_runs) + 1]
    BY <1>3, <1>9 DEF RunInserted, k
  <2>2. [k EXCEPT !.pc = "fetch_step_zones", !.row = Len(program_runs) + 1].pc = "fetch_step_zones"
    BY <1>1 DEF Tasks
  <2> QED BY <1>9, <2>1, <2>2
<1>10. CASE StepZonesFetched(t)
  <2>1. PICK zones : tasks'[t] = [k EXCEPT !.zones = zones,
                                    !.pc = IF k.steps[Position(k)] \in zones THEN "start" ELSE "mark_skipped"]
    BY <1>3, <1>10 DEF StepZonesFetched, k
  <2> DEFINE pc == IF k.steps[Position(k)] \in zones THEN "start" ELSE "mark_skipped"
  <2>2. [k EXCEPT !.zones = zones, !.pc = pc].pc = pc /\ pc \in {"start", "mark_skipped"}
    BY <1>1 DEF Tasks
  <2>3. tasks'[t].pc = pc
    BY <2>1, <2>2
  <2> HIDE DEF pc
  <2> QED BY <1>10, <2>2, <2>3 DEF StepZonesFetched, At
<1>11. CASE StartFails(t) \/ StepStarted(t)
  <2>1. \/ \E pc \in {"start", "mark_failed"} : tasks'[t] = [k EXCEPT !.attempt = 2, !.pc = pc]
        \/ tasks'[t] = [k EXCEPT !.pc = "sleep", !.wake = now + StepMinutes]
    BY <1>3, <1>11 DEF StartFails, StepStarted, k
  <2>2. /\ \A pc \in {"start", "mark_failed"} : [k EXCEPT !.attempt = 2, !.pc = pc].pc = pc
        /\ [k EXCEPT !.pc = "sleep", !.wake = now + StepMinutes].pc = "sleep"
    BY <1>1 DEF Tasks
  <2> QED BY <1>11, <2>1, <2>2 DEF StartFails, StepStarted, At
<1>12. CASE StepEnds(t)
  <2>1. k.pc \in {"mark_skipped", "mark_failed", "mark_completed"} /\ StepMark[k.pc] \in Outcomes
    BY <1>12 DEF StepEnds, At, StepMark, Outcomes, k
  <2>2. tasks'[t] = AfterStep(k, StepMark[k.pc])
    BY <1>3, <1>12 DEF StepEnds, k
  <2>3. tasks'[t].pc \in {"fetch_step_zones", "stop", "finish"}
    BY <1>1, <2>1, <2>2, AfterStepFields
  <2> QED BY <2>1, <2>3 DEF k
<1>13. CASE \/ ZoneStarts(t) \/ StartReplies(t) \/ StartRepliesUntracked(t) \/ StepSlept(t) \/ RunStops(t)
            \/ RunCrashes(t) \/ InFlightCancelled(t) \/ CancelRun(t)
  <2>1. k.pc \notin first
    BY <1>13 DEF ZoneStarts, StartReplies, StartRepliesUntracked, StepSlept, RunStops, RunCrashes, InFlightCancelled,
         CancelRun, At, Cancelling, RunPcs, k
  <2>2. \E pc \in OwnerPcs : Goes(t, pc) \/ \E status : Ends(t, pc, status)
    BY <1>13 DEF ZoneStarts, StartReplies, StartRepliesUntracked, StepSlept, RunStops, RunCrashes, InFlightCancelled,
         CancelRun, OwnerPcs, RunPcs, HandlerPcs
  <2>3. tasks'[t].pc \in OwnerPcs
    BY <1>4, <1>5, <2>2
  <2> QED BY <2>1, <2>3 DEF OwnerPcs, k
<1>14. CASE CancelSetup(t)
  <2>1. \/ Scheduled(k.item)
        \/ Exits(t)
    BY <1>14 DEF CancelSetup, k
  <2> QED BY <1>2, <1>3, <2>1 DEF Exits, k
<1> QED BY <1>6, <1>7, <1>8, <1>9, <1>10, <1>11, <1>12, <1>13, <1>14 DEF RunTaskStep

-----------------------------------------------------------------------------
(* Steps that bring no asked-for run into the history.                     *)

\* No row joins those that were asked for and ran, and none leaves the missed.
NoneRan ==
  /\ \A r \in DOMAIN program_runs' :
       /\ program_runs'[r].req <= requested
       /\ RanAsked(program_runs'[r]) =>
            r \in DOMAIN program_runs /\ RanAsked(program_runs[r]) /\ program_runs'[r].req = program_runs[r].req
  /\ \A r \in DOMAIN program_runs : program_runs'[r].status = "missed" => program_runs[r].status = "missed"

\* Runs go on with their item and their row, or are gone, and only a scheduled
\* one records its own cancellation.
RunsGoOn ==
  \A t \in Slots : tasks'[t].pc # "idle" =>
    /\ tasks[t].pc # "idle" /\ tasks'[t].item = tasks[t].item /\ tasks'[t].row = tasks[t].row
    /\ tasks'[t].pc = "cancel_record" => Scheduled(tasks[t].item)

\* Whoever waits was waiting, or has just asked.
WaitsOn ==
  /\ \A w \in Waiting' : w \in Waiting \/ (w.req \in Nat /\ w.req > requested)
  /\ \A i \in DOMAIN queue' : Scheduled(queue'[i]) => queue'[i].req = 0
  /\ requested' \in Nat /\ requested <= requested'

\* The numbers of rows, runs and requests.
LEMMA OrderTypes ==
  ASSUME TypeInd, QueueInd
  PROVE  /\ requested \in Nat
         /\ \A r \in DOMAIN program_runs : program_runs[r].req \in Nat
         /\ \A t \in Slots : tasks[t].item.req \in Nat
         /\ \A w \in Waiting : w \in Items /\ w.req \in Nat /\ ~Scheduled(w)
PROOF
<1>1. requested \in Nat /\ program_runs \in Seq(Rows) /\ tasks \in [Slots -> Tasks] /\ queue \in Seq(Items)
  BY DEF TypeInd, TypeOK, EnvOK, RunsOK, QueueOK
<1>2. \A r \in DOMAIN program_runs : program_runs[r] \in Rows
  BY <1>1, LenProperties, ElementOfSeq
<1>3. \A i \in DOMAIN queue : queue[i] \in Items
  BY <1>1, LenProperties, ElementOfSeq
<1>4. run_requests \cup loop.reqs \subseteq Items
  BY DEF TypeInd, TypeOK, QueueOK, Loops
<1>5. \A w \in Waiting : w \in Items /\ ~Scheduled(w)
  BY <1>3, <1>4 DEF Waiting, QueueInd, RequestsOrdered, Scheduled
<1> QED BY <1>1, <1>2, <1>5 DEF Rows, Tasks, Items

\* Such a step keeps the order.
LEMMA OrderKept ==
  ASSUME TypeInd, TypeInd', QueueInd, HistoryInd, HistoryInd', OrderInd, NoneRan, RunsGoOn, WaitsOn, OneAlive', NothingCleared'
  PROVE  OrderInd'
PROOF
<1>1. /\ requested \in Nat /\ requested' \in Nat /\ requested <= requested'
      /\ \A r \in DOMAIN program_runs : program_runs[r].req \in Nat
      /\ \A t \in Slots : tasks[t].item.req \in Nat
      /\ \A w \in Waiting : w.req \in Nat
  BY OrderTypes DEF WaitsOn
<1>2. \A t \in Slots : Asked(t)' => Asked(t) /\ tasks'[t].item = tasks[t].item /\ tasks'[t].row = tasks[t].row
  BY DEF RunsGoOn, Asked
<1>3. \A r \in DOMAIN program_runs' : RanAsked(program_runs'[r]) =>
        r \in DOMAIN program_runs /\ RanAsked(program_runs[r]) /\ program_runs'[r].req = program_runs[r].req
  BY DEF NoneRan
<1>4. WaitingLater'
  <2> SUFFICES ASSUME NEW w \in Waiting'
               PROVE  /\ \A r \in DOMAIN program_runs' : RanAsked(program_runs'[r]) => program_runs'[r].req < w.req
                      /\ \A t \in Slots : Asked(t)' => tasks'[t].item.req < w.req
    BY DEF WaitingLater, RanAsked
  <2>1. CASE w \in Waiting
    BY <1>2, <1>3, <2>1 DEF OrderInd, WaitingLater
  <2>2. CASE w.req \in Nat /\ w.req > requested
    <3>1. \A n \in Nat : n <= requested => n < w.req
      BY <1>1, <2>2
    <3>2. \A r \in DOMAIN program_runs : program_runs[r].req <= requested
      BY DEF OrderInd, Numbered
    <3>3. \A t \in Slots : Asked(t) => tasks[t].item.req <= requested
      BY DEF OrderInd, Numbered
    <3> QED BY <1>1, <1>2, <1>3, <3>1, <3>2, <3>3
  <2> QED BY <2>1, <2>2 DEF WaitsOn
<1>5. RunLast'
  <2> SUFFICES ASSUME NEW t \in Slots, Asked(t)', NEW r \in DOMAIN program_runs' \ {tasks'[t].row},
                      RanAsked(program_runs'[r])
               PROVE  program_runs'[r].req < tasks'[t].item.req
    BY DEF RunLast, RanAsked
  <2> QED BY <1>2, <1>3 DEF OrderInd, RunLast
<1>6. Numbered'
  <2>1. ASSUME NEW t \in Slots, Asked(t)' PROVE ~Scheduled(tasks'[t].item) /\ tasks'[t].item.req <= requested'
    <3>1. Asked(t) /\ tasks'[t].item = tasks[t].item
      BY <1>2, <2>1
    <3>2. ~Scheduled(tasks[t].item) /\ tasks[t].item.req <= requested
      BY <3>1 DEF OrderInd, Numbered
    <3> QED BY <1>1, <3>1, <3>2
  <2>2. ASSUME NEW r \in DOMAIN program_runs' PROVE program_runs'[r].req <= requested'
    <3>1. program_runs' \in Seq(Rows)
      BY DEF TypeInd, TypeOK, RunsOK
    <3>2. program_runs'[r] \in Rows
      BY <2>2, <3>1, LenProperties, ElementOfSeq
    <3>3. program_runs'[r].req \in Nat /\ program_runs'[r].req <= requested
      BY <2>2, <3>2 DEF NoneRan, Rows
    <3> QED BY <1>1, <3>3
  <2> QED BY <2>1, <2>2 DEF Numbered, WaitsOn, Scheduled
<1>7. RecordedOnce'
  <2>1. ASSUME NEW t \in Slots, tasks'[t].pc = "cancel_record" PROVE Scheduled(tasks'[t].item)
    BY <2>1 DEF RunsGoOn
  <2>2. ASSUME NEW t \in Slots, tasks'[t].row # None PROVE program_runs'[tasks'[t].row].status # "missed"
    <3>1. tasks'[t].pc # "idle"
      <4>1. Linked(tasks[t])'
        BY DEF HistoryInd, OwnRows
      <4>2. "idle" \notin OwnerPcs
        BY DEF OwnerPcs, RunPcs, HandlerPcs
      <4> QED BY <2>2, <4>1, <4>2 DEF Linked, Rowless
    <3>2. tasks'[t].row = tasks[t].row /\ tasks[t].row \in DOMAIN program_runs
      <4>1. tasks'[t].row = tasks[t].row /\ Linked(tasks[t])
        BY <3>1 DEF RunsGoOn, HistoryInd, OwnRows
      <4> QED BY <2>2, <4>1 DEF Linked, Rowless
    <3> QED BY <2>2, <3>2 DEF OrderInd, RecordedOnce, NoneRan
  <2> QED BY <2>1, <2>2 DEF RecordedOnce, Scheduled
<1>8. RequestsInOrder'
  <2>1. \A r, s \in DOMAIN program_runs :
          r < s /\ RanAsked(program_runs[r]) /\ RanAsked(program_runs[s]) => program_runs[r].req < program_runs[s].req
    BY DEF OrderInd, RequestsInOrder, RanAsked
  <2>2. \A r, s \in DOMAIN program_runs' :
          r < s /\ RanAsked(program_runs'[r]) /\ RanAsked(program_runs'[s]) => program_runs'[r].req < program_runs'[s].req
    BY <1>3, <2>1
  <2> QED BY <2>2 DEF RequestsInOrder, RanAsked
<1> QED BY <1>4, <1>5, <1>6, <1>7, <1>8 DEF OrderInd

\* A history that stays.
LEMMA SameNoneRan == ASSUME OrderInd, UNCHANGED program_runs PROVE NoneRan
  BY DEF NoneRan, OrderInd, Numbered

\* A row appended that is missed, or that nobody asked for.
LEMMA AppendedNoneRan ==
  ASSUME TypeInd, OrderInd, NEW item \in Items, NEW status \in Statuses, NEW steps \in Seq(Marks),
         program_runs' = Append(program_runs, NewRow(item, status, steps)),
         item.req <= requested, status = "missed" \/ item.req = 0
  PROVE  NoneRan
PROOF
<1> DEFINE row == NewRow(item, status, steps)
<1>1. /\ DOMAIN program_runs = 1 .. Len(program_runs) /\ Len(program_runs) \in Nat
      /\ DOMAIN program_runs' = 1 .. Len(program_runs) + 1
      /\ \A r \in DOMAIN program_runs : program_runs'[r] = program_runs[r]
      /\ program_runs'[Len(program_runs) + 1] = row
  BY AppendedRow
<1>2. row.req = item.req /\ row.status = status
  BY DEF NewRow
<1>3. ~RanAsked(row) /\ row.req <= requested
  BY <1>2 DEF RanAsked
<1>4. \A r \in DOMAIN program_runs' : r \in DOMAIN program_runs \/ r = Len(program_runs) + 1
  BY <1>1
<1>5. \A r \in DOMAIN program_runs : program_runs[r].req <= requested
  BY DEF OrderInd, Numbered
<1> HIDE DEF row
<1> QED BY <1>1, <1>3, <1>4, <1>5 DEF NoneRan

\* An INSERT of such a row, whether it fails or not.
LEMMA InsertNoneRan ==
  ASSUME TypeInd, OrderInd, NEW item \in Items, NEW status \in Statuses,
         Inserts(item, status, <<>>) \/ InsertFails(item, status, <<>>),
         item.req <= requested, status = "missed" \/ item.req = 0
  PROVE  NoneRan
PROOF
<1>1. <<>> \in Seq(Marks)
  OBVIOUS
<1>2. UNCHANGED program_runs \/ program_runs' = Append(program_runs, NewRow(item, status, <<>>))
  BY DEF Inserts, InsertFails
<1> QED BY <1>1, <1>2, SameNoneRan, AppendedNoneRan

\* Orphans finalized, and a program deleted.
LEMMA RewriteNoneRan ==
  ASSUME TypeInd, OrderInd, FinalizeOrphans \/ FinalizeFails \/ WebStep \/ ClockTick \/ Notify PROVE NoneRan
PROOF
<1>1. \A r \in DOMAIN program_runs : program_runs[r] \in Rows
  BY LenProperties, ElementOfSeq DEF TypeInd, TypeOK, RunsOK
<1>2. \/ UNCHANGED program_runs
      \/ program_runs' = [r \in DOMAIN program_runs |-> Finalized(program_runs[r])]
      \/ \E p \in Programs : program_runs' =
           [r \in DOMAIN program_runs |->
              IF program_runs[r].program = p THEN [program_runs[r] EXCEPT !.program = NoProgram] ELSE program_runs[r]]
  BY DEF FinalizeOrphans, FinalizeFails, WebStep, ClockTick, Notify, SaveProgram, ToggleProgram, DeleteProgram,
         ToggleZone, RunNow, QuickRun, Request, db
<1>3. ASSUME NEW r \in DOMAIN program_runs
      PROVE  /\ Finalized(program_runs[r]).req = program_runs[r].req
             /\ Finalized(program_runs[r]).status = "missed" <=> program_runs[r].status = "missed"
  BY <1>1 DEF Finalized, Rows
<1>4. ASSUME NEW r \in DOMAIN program_runs
      PROVE  /\ [program_runs[r] EXCEPT !.program = NoProgram].req = program_runs[r].req
             /\ [program_runs[r] EXCEPT !.program = NoProgram].status = program_runs[r].status
  BY <1>1 DEF Rows
<1>5. CASE UNCHANGED program_runs
  BY <1>5, SameNoneRan
<1>6. CASE ~UNCHANGED program_runs
  <2>1. DOMAIN program_runs' = DOMAIN program_runs
    BY <1>2
  <2>2. \A r \in DOMAIN program_runs :
          /\ program_runs'[r].req = program_runs[r].req
          /\ program_runs'[r].status = "missed" <=> program_runs[r].status = "missed"
    BY <1>2, <1>3, <1>4, <1>6
  <2> QED BY <2>1, <2>2 DEF NoneRan, RanAsked, OrderInd, Numbered
<1> QED BY <1>5, <1>6

\* Nobody joins those who wait.
LEMMA StillWaits ==
  ASSUME TypeInd, OrderInd, QueueShrinks, requested' = requested,
         loop'.reqs \cup run_requests' \subseteq loop.reqs \cup run_requests
  PROVE  WaitsOn
PROOF
<1>1. requested \in Nat
  BY DEF TypeInd, TypeOK, EnvOK
<1>2. \A w \in Waiting' : w \in Waiting
  BY DEF Waiting, QueueShrinks, Scheduled
<1>3. \A i \in DOMAIN queue' : Scheduled(queue'[i]) => queue'[i].req = 0
  BY DEF QueueShrinks, OrderInd, Numbered
<1> QED BY <1>1, <1>2, <1>3 DEF WaitsOn

\* The loop's steps that are no pump leave the runs and the calls alone.
LEMMA LoopOrder ==
  ASSUME TypeInd, TypeInd', QueueInd, HistoryInd, HistoryInd', OrderInd, NoneRan, WaitsOn,
         UNCHANGED <<tasks, run_task, calls>>
  PROVE  OrderInd'
PROOF
<1>1. RunsGoOn
  BY DEF RunsGoOn, OrderInd, RecordedOnce
<1>2. OneAlive' /\ NothingCleared'
  BY DEF OrderInd, OneAlive, NothingCleared
<1> QED BY <1>1, <1>2, OrderKept

\* Whoever is claimed was in the table.
LEMMA TickRequests ==
  ASSUME TypeInd,
         \/ TickBegins \/ FinalizeOrphans \/ FinalizeFails \/ FetchPrograms \/ FetchSteps \/ ReadRunKeys
         \/ ClaimRequests \/ RefreshFails \/ RefreshDone
  PROVE  loop'.reqs \cup run_requests' \subseteq loop.reqs \cup run_requests
PROOF
<1>1. loop \in Loops
  BY DEF TypeInd, TypeOK, QueueOK
<1>2. \A l, b : l \in Loops => Evaluating(l, b).reqs = l.reqs
  BY DEF Evaluating, Loops
<1>3. \A l \in Loops : Refreshing(l).reqs = l.reqs
  BY <1>2 DEF Refreshing, Loops
<1>4. /\ \A pc : [loop EXCEPT !.pc = pc].reqs = loop.reqs
      /\ \A n \in Nat : [loop EXCEPT !.now = n] \in Loops /\ [loop EXCEPT !.now = n].reqs = loop.reqs
      /\ [loop EXCEPT !.rows = InitialPrograms] \in Loops
      /\ [loop EXCEPT !.rows = InitialPrograms].reqs = loop.reqs
  BY <1>1, DataAssumption DEF Loops
<1>5. \A n \in Nat : [[loop EXCEPT !.now = n] EXCEPT !.pc = "finalize"].reqs = loop.reqs
  BY <1>4 DEF Loops
<1>6. now \in Nat
  BY DEF TypeInd, TypeOK, EnvOK
<1>7. CASE ClaimRequests
  <2>1. [loop EXCEPT !.pc = "admit", !.reqs = run_requests].reqs = run_requests
    BY <1>1 DEF Loops
  <2> QED BY <1>7, <2>1 DEF ClaimRequests
<1>8. CASE TickBegins
  BY <1>3, <1>4, <1>5, <1>6, <1>8 DEF TickBegins
<1>9. CASE FinalizeOrphans \/ FinalizeFails \/ ReadRunKeys
  BY <1>1, <1>3, <1>4, <1>9 DEF FinalizeOrphans, FinalizeFails, ReadRunKeys
<1>10. CASE FetchPrograms \/ FetchSteps
  <2>1. /\ [loop EXCEPT !.pc = "fetch_steps", !.rows = programs].reqs = loop.reqs
        /\ [loop EXCEPT !.pc = "run_keys", !.rows = InitialPrograms].reqs = loop.reqs
    BY <1>1 DEF Loops
  <2> QED BY <1>10, <2>1 DEF FetchPrograms, FetchSteps
<1>11. CASE RefreshFails
  <2>1. loop'.reqs = loop.reqs
    BY <1>2, <1>4, <1>11 DEF RefreshFails
  <2>2. run_requests' \subseteq run_requests
    BY <1>11 DEF RefreshFails
  <2> QED BY <2>1, <2>2
<1>12. CASE RefreshDone
  BY <1>1, <1>2, <1>12 DEF RefreshDone
<1> QED BY <1>7, <1>8, <1>9, <1>10, <1>11, <1>12

\* An admitted request is no longer claimed.
LEMMA AdmitRequests == ASSUME TypeInd, AdmitStep \/ RequestsAdmitted PROVE loop'.reqs \subseteq loop.reqs
PROOF
<1>1. loop \in Loops
  BY DEF TypeInd, TypeOK, QueueOK
<1>2. /\ \A req \in loop.reqs : Handled(req).reqs \subseteq loop.reqs
      /\ \A pc : [loop EXCEPT !.pc = pc].reqs = loop.reqs
  BY <1>1 DEF Handled, Loops
<1> QED BY <1>2 DEF AdmitStep, RequestsAdmitted, IgnoreRequest, OverflowRequest, AdmitRequest, InsertRequestMissed

\* The evaluation leaves the claimed requests alone.
LEMMA EvaluateRequests ==
  ASSUME TypeInd, EvaluateProgram \/ SkipOccurrence \/ MissOccurrence \/ AdmitOccurrence \/ InsertMissed \/ EvaluateDone
  PROVE  loop'.reqs = loop.reqs
PROOF
<1>1. /\ \A occ : Examined(occ).reqs = loop.reqs
      /\ [loop EXCEPT !.pc = "insert_missed"].reqs = loop.reqs
      /\ [loop EXCEPT !.pc = "pump", !.program = NoProgram].reqs = loop.reqs
      /\ \A p, work : [loop EXCEPT !.todo = @ \ {p}, !.program = p, !.work = work].reqs = loop.reqs
  BY WindowTypes DEF Examined, Loops
<1>2. CASE EvaluateProgram
  <2>1. PICK p \in loop.todo :
          loop' = [loop EXCEPT !.todo = @ \ {p}, !.program = p,
                               !.work = Occurrences(p, loop.now - Lookback, loop.now)]
    BY <1>2 DEF EvaluateProgram
  <2>2. PICK work : work = Occurrences(p, loop.now - Lookback, loop.now)
    OBVIOUS
  <2> QED BY <1>1, <2>1, <2>2
<1> QED BY <1>1, <1>2 DEF SkipOccurrence, MissOccurrence, AdmitOccurrence, InsertMissed, EvaluateDone

\* The tick, its orphans and its refresh; claimed requests still wait.
LEMMA TickOrder ==
  ASSUME TypeInd, TypeInd', QueueInd, HistoryInd, HistoryInd', OrderInd,
         \/ TickBegins \/ FinalizeOrphans \/ FinalizeFails \/ FetchPrograms \/ FetchSteps \/ ReadRunKeys
         \/ ClaimRequests \/ RefreshFails \/ RefreshDone
  PROVE  OrderInd'
PROOF
<1>1. UNCHANGED <<tasks, run_task, calls, queue, requested>>
  BY DEF TickBegins, FinalizeOrphans, FinalizeFails, FetchPrograms, FetchSteps, ReadRunKeys, ClaimRequests,
         RefreshFails, RefreshDone, LoopUnchanged
<1>2. NoneRan
  <2>1. CASE FinalizeOrphans \/ FinalizeFails
    BY <2>1, RewriteNoneRan
  <2>2. CASE ~(FinalizeOrphans \/ FinalizeFails)
    <3>1. UNCHANGED program_runs
      BY <2>2 DEF TickBegins, FetchPrograms, FetchSteps, ReadRunKeys, ClaimRequests, RefreshFails, RefreshDone
    <3> QED BY <3>1, SameNoneRan
  <2> QED BY <2>1, <2>2
<1>3. loop'.reqs \cup run_requests' \subseteq loop.reqs \cup run_requests
  BY TickRequests
<1>4. WaitsOn
  BY <1>1, <1>3, StillWaits DEF QueueShrinks
<1> QED BY <1>1, <1>2, <1>4, LoopOrder

\* A request is queued, ignored or missed: it waits on, or it never runs.
LEMMA AdmitOrder ==
  ASSUME TypeInd, TypeInd', QueueInd, HistoryInd, HistoryInd', OrderInd, AdmitStep \/ RequestsAdmitted
  PROVE  OrderInd'
PROOF
<1>1. UNCHANGED <<tasks, run_task, calls, requested, run_requests>>
  BY DEF AdmitStep, RequestsAdmitted, IgnoreRequest, OverflowRequest, AdmitRequest, InsertRequestMissed,
         AdmitUnchanged, LoopUnchanged
<1>2. loop \in Loops /\ loop.reqs \subseteq Items /\ requested \in Nat
  BY DEF TypeInd, TypeOK, QueueOK, EnvOK, Loops
<1>3. \A req \in loop.reqs : req \in Items /\ req.at = None /\ req.req <= requested
  BY <1>2 DEF QueueInd, RequestsOrdered
<1>4. loop'.reqs \subseteq loop.reqs
  BY AdmitRequests
<1>5. CASE RequestsAdmitted \/ \E req \in loop.reqs : IgnoreRequest(req) \/ OverflowRequest(req)
  <2>1. UNCHANGED <<program_runs, queue>>
    BY <1>5 DEF RequestsAdmitted, IgnoreRequest, OverflowRequest
  <2>2. NoneRan /\ WaitsOn
    BY <1>1, <1>4, <2>1, SameNoneRan, StillWaits DEF QueueShrinks
  <2> QED BY <1>1, <2>2, LoopOrder
<1>6. ASSUME NEW req \in loop.reqs, InsertRequestMissed(req) PROVE OrderInd'
  <2>1. UNCHANGED queue /\ (Inserts(req, "missed", <<>>) \/ InsertFails(req, "missed", <<>>))
    BY <1>6 DEF InsertRequestMissed
  <2>2. "missed" \in Statuses
    BY DEF Statuses
  <2>3. NoneRan
    BY <1>3, <2>1, <2>2, InsertNoneRan
  <2>4. WaitsOn
    BY <1>1, <1>4, <2>1, StillWaits DEF QueueShrinks
  <2> QED BY <1>1, <2>3, <2>4, LoopOrder
<1>7. ASSUME NEW req \in loop.reqs, AdmitRequest(req) PROVE OrderInd'
  <2>1. queue \in Seq(Items) /\ req \in Items
    BY <1>3 DEF TypeInd, TypeOK, QueueOK
  <2>2. PICK i \in 1 .. Len(queue) + 1 : queue' = InsertAt(queue, i, req)
    BY <1>7 DEF AdmitRequest
  <2>3. \A j \in DOMAIN queue' : queue'[j] = req \/ \E m \in DOMAIN queue : queue'[j] = queue[m]
    BY <2>1, <2>2, Inserted
  <2>4. UNCHANGED program_runs
    BY <1>7 DEF AdmitRequest
  <2>5. NoneRan
    BY <2>4, SameNoneRan
  <2>6. \A w \in Waiting' : w \in Waiting
    BY <1>1, <1>4, <2>3 DEF Waiting, Scheduled
  <2>7. \A j \in DOMAIN queue' : Scheduled(queue'[j]) => queue'[j].req = 0
    BY <1>3, <2>3 DEF OrderInd, Numbered, Scheduled
  <2>8. WaitsOn
    BY <1>1, <1>2, <2>6, <2>7 DEF WaitsOn
  <2> QED BY <1>1, <2>5, <2>8, LoopOrder
<1> QED BY <1>5, <1>6, <1>7 DEF AdmitStep

\* An occurrence has no number: queued, skipped or missed, it is no request.
LEMMA EvaluateOrder ==
  ASSUME TypeInd, TypeInd', QueueInd, HistoryInd, HistoryInd', OrderInd,
         EvaluateProgram \/ SkipOccurrence \/ MissOccurrence \/ AdmitOccurrence \/ InsertMissed \/ EvaluateDone
  PROVE  OrderInd'
PROOF
<1>1. UNCHANGED <<tasks, run_task, calls, requested, run_requests>>
  BY DEF EvaluateProgram, SkipOccurrence, MissOccurrence, AdmitOccurrence, InsertMissed, EvaluateDone,
         EvaluateUnchanged, LoopUnchanged
<1>2. /\ loop \in Loops /\ loop.work \subseteq Nat /\ loop.program \in Programs \cup {NoProgram}
      /\ requested \in Nat /\ queue \in Seq(Items)
  BY WindowTypes DEF TypeInd, TypeOK, EnvOK, QueueOK
<1>3. loop'.reqs = loop.reqs
  BY EvaluateRequests
<1>4. CASE EvaluateProgram \/ SkipOccurrence \/ MissOccurrence \/ EvaluateDone
  <2>1. UNCHANGED <<program_runs, queue>>
    BY <1>4 DEF EvaluateProgram, SkipOccurrence, MissOccurrence, EvaluateDone
  <2>2. NoneRan /\ WaitsOn
    BY <1>1, <1>3, <2>1, SameNoneRan, StillWaits DEF QueueShrinks
  <2> QED BY <1>1, <2>2, LoopOrder
<1>5. CASE InsertMissed
  <2>1. PICK occ \in loop.work :
          \/ Inserts(Item(loop.program, occ, 0, <<>>), "missed", <<>>)
          \/ InsertFails(Item(loop.program, occ, 0, <<>>), "missed", <<>>)
    BY <1>5 DEF InsertMissed
  <2>2. PICK item : item = Item(loop.program, occ, 0, <<>>)
    OBVIOUS
  <2>3. <<>> \in Seq(Zones) /\ occ \in Nat /\ 0 \in Nat /\ 0 <= requested
    BY <1>2
  <2>4. item \in Items /\ "missed" \in Statuses /\ item.req <= requested
    BY <1>2, <2>2, <2>3 DEF Item, Items, Times, Statuses
  <2>5. NoneRan
    BY <2>1, <2>2, <2>4, InsertNoneRan
  <2>6. WaitsOn
    BY <1>1, <1>3, <1>5, StillWaits DEF InsertMissed, QueueShrinks
  <2> QED BY <1>1, <2>5, <2>6, LoopOrder
<1>6. CASE AdmitOccurrence
  <2>1. PICK occ \in loop.work : queue' = Append(queue, Item(loop.program, occ, 0, <<>>))
    BY <1>6 DEF AdmitOccurrence
  <2>2. PICK item : item = Item(loop.program, occ, 0, <<>>)
    OBVIOUS
  <2>3. <<>> \in Seq(Zones) /\ occ \in Nat /\ 0 \in Nat
    BY <1>2
  <2>4. item \in Items /\ Scheduled(item) /\ item.req = 0
    BY <1>2, <2>2, <2>3 DEF Item, Items, Times, Scheduled, None
  <2>5. /\ DOMAIN queue = 1 .. Len(queue) /\ Len(queue) \in Nat /\ DOMAIN queue' = 1 .. Len(queue) + 1
        /\ queue'[Len(queue) + 1] = item /\ \A i \in 1 .. Len(queue) : queue'[i] = queue[i]
    BY <1>2, <2>1, <2>2, <2>4, AppendProperties, LenProperties
  <2>6. \A i \in DOMAIN queue' : i \in DOMAIN queue \/ i = Len(queue) + 1
    BY <2>5
  <2>7. \A w \in Waiting' : w \in Waiting
    <3>1. \A i \in DOMAIN queue' : ~Scheduled(queue'[i]) => i \in DOMAIN queue /\ queue'[i] = queue[i]
      BY <2>4, <2>5, <2>6
    <3> QED BY <1>1, <1>3, <3>1 DEF Waiting, Scheduled
  <2>8. \A i \in DOMAIN queue' : Scheduled(queue'[i]) => queue'[i].req = 0
    BY <2>4, <2>5, <2>6 DEF OrderInd, Numbered
  <2>9. WaitsOn
    BY <1>1, <1>2, <2>7, <2>8 DEF WaitsOn
  <2>10. UNCHANGED program_runs
    BY <1>6 DEF AdmitOccurrence
  <2> QED BY <1>1, <2>9, <2>10, SameNoneRan, LoopOrder
<1> QED BY <1>4, <1>5, <1>6

\* The web app, the clock and the notifications: a new request is the last.
LEMMA WebOrder ==
  ASSUME TypeInd, TypeInd', QueueInd, HistoryInd, HistoryInd', OrderInd, WebStep \/ ClockTick \/ Notify
  PROVE  OrderInd'
PROOF
<1>1. UNCHANGED <<tasks, run_task, calls, queue, loop>>
  BY DEF WebStep, ClockTick, Notify, SaveProgram, ToggleProgram, DeleteProgram, ToggleZone, RunNow, QuickRun,
         Request, Edit, WebUnchanged
<1>2. NoneRan
  BY RewriteNoneRan
<1>3. requested \in Nat /\ queue \in Seq(Items)
  BY DEF TypeInd, TypeOK, EnvOK, QueueOK
<1>4. CASE run_requests' \subseteq run_requests /\ requested' = requested
  <2>1. WaitsOn
    BY <1>1, <1>4, StillWaits DEF QueueShrinks
  <2> QED BY <1>1, <1>2, <2>1, LoopOrder
<1>5. ASSUME NEW p \in Programs \cup {NoProgram}, NEW steps, Request(p, steps) PROVE OrderInd'
  <2>1. /\ requested' = requested + 1
        /\ run_requests' = run_requests \cup {Item(p, None, requested + 1, steps)}
    BY <1>5 DEF Request
  <2>2. Item(p, None, requested + 1, steps).req = requested + 1
    BY DEF Item
  <2>3. requested + 1 \in Nat /\ requested + 1 > requested
    BY <1>3
  <2>4. \A w \in Waiting' : w \in Waiting \/ (w.req \in Nat /\ w.req > requested)
    BY <1>1, <2>1, <2>2, <2>3 DEF Waiting, Scheduled
  <2>5. \A i \in DOMAIN queue' : Scheduled(queue'[i]) => queue'[i].req = 0
    BY <1>1 DEF OrderInd, Numbered
  <2>6. WaitsOn
    BY <1>3, <2>1, <2>3, <2>4, <2>5 DEF WaitsOn
  <2> QED BY <1>1, <1>2, <2>6, LoopOrder
<1>6. CASE \E p \in Programs : RunNow(p)
  BY <1>5, <1>6 DEF RunNow
<1>7. CASE QuickRun
  BY <1>5, <1>7 DEF QuickRun
<1>8. CASE \/ \E p \in Programs : SaveProgram(p) \/ ToggleProgram(p) \/ DeleteProgram(p)
           \/ \E z \in Zones : ToggleZone(z)
           \/ ClockTick \/ Notify
  <2>1. run_requests' \subseteq run_requests /\ requested' = requested
    BY <1>8 DEF SaveProgram, ToggleProgram, DeleteProgram, ToggleZone, Edit, ClockTick, Notify, db
  <2> QED BY <1>4, <2>1
<1> QED BY <1>6, <1>7, <1>8 DEF WebStep

-----------------------------------------------------------------------------
(* Steps that start, cancel or carry on a run.                             *)

\* The head leaves the queue, and the rest moves up.
LEMMA QueueMovesUp ==
  ASSUME TypeInd, queue # <<>>, queue' = Tail(queue)
  PROVE  /\ Head(queue) = queue[1] /\ 1 \in DOMAIN queue
         /\ \A i \in DOMAIN queue' : i + 1 \in DOMAIN queue /\ i + 1 > 1 /\ queue'[i] = queue[i + 1]
PROOF
<1>1. queue \in Seq(Items) /\ DOMAIN queue = 1 .. Len(queue) /\ Len(queue) \in Nat
  BY LenProperties DEF TypeInd, TypeOK, QueueOK
<1>2. /\ Len(queue') = Len(queue) - 1 /\ queue' \in Seq(Items) /\ Head(queue) = queue[1]
      /\ \A i \in 1 .. (Len(queue) - 1) : queue'[i] = queue[i + 1]
  BY <1>1, HeadTailProperties
<1>3. DOMAIN queue' = 1 .. (Len(queue) - 1) /\ Len(queue) # 0
  BY <1>1, <1>2, LenProperties, EmptySeq
<1> QED BY <1>1, <1>2, <1>3

\* The pump starts a run when none is alive: the one that waited longest.
LEMMA PumpOrder ==
  ASSUME TypeInd, TypeInd', QueueInd, HistoryInd, HistoryInd', OrderInd, PumpIdle \/ PumpDrops \/ PumpStarts
  PROVE  OrderInd'
PROOF
<1>1. /\ UNCHANGED <<program_runs, run_requests, calls, requested>>
      /\ loop \in Loops /\ queue \in Seq(Items) /\ tasks \in [Slots -> Tasks] /\ requested \in Nat
      /\ DOMAIN queue = 1 .. Len(queue) /\ Len(queue) \in Nat
  BY LenProperties
     DEF PumpIdle, PumpDrops, PumpStarts, PumpUnchanged, db, env, TypeInd, TypeOK, QueueOK, RunsOK, EnvOK
<1>2. queue # <<>> /\ queue' = Tail(queue) =>
        /\ Head(queue) = queue[1] /\ 1 \in DOMAIN queue
        /\ \A i \in DOMAIN queue' : i + 1 \in DOMAIN queue /\ i + 1 > 1 /\ queue'[i] = queue[i + 1]
  BY QueueMovesUp
<1>3. QueueShrinks
  <2>1. queue' = queue \/ (queue # <<>> /\ queue' = Tail(queue))
    BY DEF PumpIdle, PumpDrops, PumpStarts
  <2> QED BY <1>2, <2>1 DEF QueueShrinks
<1>4. loop'.reqs = loop.reqs
  <2>1. TickEnds.reqs = loop.reqs
    BY <1>1 DEF TickEnds, Loops
  <2> QED BY <2>1 DEF PumpIdle, PumpDrops, PumpStarts
<1>5. NoneRan /\ WaitsOn
  BY <1>1, <1>3, <1>4, SameNoneRan, StillWaits
<1>6. NothingCleared'
  BY <1>1 DEF OrderInd, NothingCleared
<1>7. \A s \in Slots : ~RunAlive => tasks[s].pc = "idle"
  <2>1. None \notin Slots
    BY IdAssumption DEF None
  <2> QED BY <2>1 DEF OrderInd, OneAlive, RunAlive
<1>8. CASE PumpIdle \/ PumpDrops
  <2>1. UNCHANGED tasks /\ (run_task' = run_task \/ ~RunAlive)
    BY <1>8 DEF PumpIdle, PumpDrops
  <2>2. RunsGoOn
    BY <2>1 DEF RunsGoOn, OrderInd, RecordedOnce
  <2>3. OneAlive'
    BY <1>7, <2>1 DEF OrderInd, OneAlive
  <2> QED BY <1>5, <1>6, <2>2, <2>3, OrderKept
<1>9. CASE PumpStarts
  <2> DEFINE item == Head(queue)
             k == RunTask(item)
  <2>1. PICK t \in Slots : tasks' = [tasks EXCEPT ![t] = k] /\ run_task' = t
    BY <1>9 DEF PumpStarts
  <2>2. k.pc = "new" /\ k.item = item /\ k.row = None
    BY DEF RunTask, IdleTask
  <2>3. queue # <<>> /\ queue' = Tail(queue) /\ ~RunAlive
    BY <1>9 DEF PumpStarts
  <2>4. item = queue[1] /\ 1 \in DOMAIN queue /\ item \in Items
    <3>1. item = queue[1] /\ 1 \in DOMAIN queue
      BY <1>2, <2>3
    <3> QED BY <1>1, <3>1, ElementOfSeq
  <2> HIDE DEF k, item
  <2>5. tasks'[t] = k /\ \A s \in Slots \ {t} : tasks'[s].pc = "idle"
    BY <1>1, <1>7, <2>1, <2>3
  <2>6. \A s \in Slots : Asked(s)' => s = t /\ item.req # 0
    BY <2>2, <2>5 DEF Asked
  <2>7. item.req # 0 => ~Scheduled(item)
    BY <2>4 DEF OrderInd, Numbered
  <2>8. ~Scheduled(item) => item \in Waiting /\ item.req <= requested
    BY <2>4 DEF Waiting, QueueInd, RequestsOrdered
  <2>9. OneAlive'
    BY <2>1, <2>5 DEF OneAlive
  <2>10. \A w \in Waiting' : w \in Waiting
    BY <1>1, <1>3, <1>4 DEF Waiting, QueueShrinks, Scheduled
  <2>11. ASSUME NEW w \in Waiting', ~Scheduled(item) PROVE item.req < w.req
    <3>1. CASE w \in run_requests \cup loop.reqs
      BY <2>4, <2>11, <3>1 DEF QueueInd, RequestsOrdered
    <3>2. CASE w \notin run_requests \cup loop.reqs
      <4>1. PICK i \in DOMAIN queue' : w = queue'[i] /\ ~Scheduled(queue'[i])
        BY <1>1, <1>4, <3>2 DEF Waiting, Scheduled
      <4>2. i + 1 \in DOMAIN queue /\ 1 < i + 1 /\ w = queue[i + 1] /\ ~Scheduled(queue[i + 1])
        <5>1. i + 1 \in DOMAIN queue /\ i + 1 > 1 /\ queue'[i] = queue[i + 1]
          BY <1>2, <2>3
        <5> QED BY <1>1, <4>1, <5>1
      <4> QED BY <2>4, <4>2 DEF QueueInd, QueueInv, ManualFifo
    <3> QED BY <3>1, <3>2
  <2>12. WaitingLater'
    <3>1. ASSUME NEW w \in Waiting', NEW r \in DOMAIN program_runs', RanAsked(program_runs'[r])
          PROVE  program_runs'[r].req < w.req
      BY <1>1, <2>10, <3>1 DEF OrderInd, WaitingLater
    <3>2. ASSUME NEW w \in Waiting', NEW s \in Slots, Asked(s)' PROVE tasks'[s].item.req < w.req
      BY <2>2, <2>5, <2>6, <2>7, <2>11, <3>2
    <3> QED BY <3>1, <3>2 DEF WaitingLater, RanAsked
  <2>13. RunLast'
    <3>1. ASSUME NEW s \in Slots, Asked(s)', NEW r \in DOMAIN program_runs', RanAsked(program_runs'[r])
          PROVE  program_runs'[r].req < tasks'[s].item.req
      <4>1. s = t /\ item \in Waiting /\ tasks'[s].item = item
        BY <2>2, <2>5, <2>6, <2>7, <2>8, <3>1
      <4> QED BY <1>1, <3>1, <4>1 DEF OrderInd, WaitingLater
    <3> QED BY <3>1 DEF RunLast, RanAsked
  <2>14. Numbered'
    <3>1. \A i \in DOMAIN queue' : Scheduled(queue'[i]) => queue'[i].req = 0
      BY <1>5 DEF WaitsOn
    <3>2. \A s \in Slots : Asked(s)' => ~Scheduled(tasks'[s].item) /\ tasks'[s].item.req <= requested'
      BY <1>1, <2>2, <2>5, <2>6, <2>7, <2>8
    <3> QED BY <1>1, <3>1, <3>2 DEF Numbered, OrderInd, Scheduled
  <2>15. RecordedOnce'
    <3>1. \A s \in Slots : tasks'[s].pc \in {"idle", "new"}
      BY <2>2, <2>5
    <3>2. \A s \in Slots : tasks'[s].row = None
      <4>1. \A s \in Slots : Linked(tasks[s])'
        BY DEF HistoryInd, OwnRows
      <4>2. \A s \in Slots : tasks'[s].pc \notin OwnerPcs
        BY <3>1 DEF OwnerPcs, RunPcs, HandlerPcs
      <4> QED BY <4>1, <4>2 DEF Linked, Rowless
    <3> QED BY <3>1, <3>2 DEF RecordedOnce
  <2>16. RequestsInOrder'
    BY <1>1 DEF OrderInd, RequestsInOrder
  <2> QED BY <1>6, <2>9, <2>12, <2>13, <2>14, <2>15, <2>16 DEF OrderInd
<1> QED BY <1>8, <1>9

\* A process that starts again runs nothing and has claimed nothing.
LEMMA RestartOrder ==
  ASSUME TypeInd, TypeInd', QueueInd, HistoryInd, HistoryInd', OrderInd, Restart, NothingCleared'
  PROVE  OrderInd'
PROOF
<1>1. /\ UNCHANGED <<program_runs, run_requests, requested>> /\ queue' = <<>> /\ loop'.reqs = {}
      /\ \A t \in Slots : tasks'[t].pc = "idle"
  BY DEF Restart, IdleTask, IdleLoop, db
<1>2. RunsGoOn /\ OneAlive'
  BY <1>1 DEF RunsGoOn, OneAlive
<1>3. NoneRan /\ WaitsOn
  BY <1>1, SameNoneRan, StillWaits DEF QueueShrinks
<1> QED BY <1>2, <1>3, OrderKept

\* A shutdown cancels the run, and no other call does anything.
LEMMA CallOrder ==
  ASSUME StopCalls \cup ManualCalls = {}, TypeInd, TypeInd', QueueInd, HistoryInd, HistoryInd', OrderInd,
         NEW c \in Calls, CallStep(c)
  PROVE  OrderInd'
PROOF
<1>1. tasks \in [Slots -> Tasks] /\ calls \in [Calls -> CallRecords]
  BY DEF TypeInd, TypeOK, RunsOK, CallsOK
<1>2. \A r : calls' = [calls EXCEPT ![c] = r] /\ r.pc \notin {"clearing", "command"} => NothingCleared'
  BY <1>1 DEF NothingCleared, OrderInd
<1>3. \A pc, task : /\ [Arrived(c) EXCEPT !.pc = pc].pc = pc
                    /\ [Arrived(c) EXCEPT !.pc = pc, !.task = task].pc = pc
                    /\ [calls[c] EXCEPT !.pc = pc, !.task = task].pc = pc
  BY <1>1 DEF Arrived, CallRecords
<1>4. CASE CancelActive(c)
  <2>1. /\ UNCHANGED <<program_runs, queue, loop, run_requests, requested, run_task>>
        /\ tasks' = [tasks EXCEPT ![run_task].cancel = TRUE]
        /\ calls' = [calls EXCEPT ![c] = [Arrived(c) EXCEPT !.pc = "cancelling", !.task = run_task]]
    BY <1>4 DEF CancelActive, CallUnchanged, CallBecomes
  <2>2. \A t \in Slots : tasks'[t].pc = tasks[t].pc /\ tasks'[t].item = tasks[t].item /\ tasks'[t].row = tasks[t].row
    BY <1>1, <2>1 DEF Tasks
  <2>3. RunsGoOn /\ OneAlive'
    BY <2>1, <2>2 DEF RunsGoOn, OneAlive, OrderInd, RecordedOnce
  <2>4. NoneRan /\ WaitsOn
    BY <2>1, SameNoneRan, StillWaits DEF QueueShrinks
  <2>5. NothingCleared'
    <3>1. PICK r : r = [Arrived(c) EXCEPT !.pc = "cancelling", !.task = run_task]
      OBVIOUS
    <3>2. r.pc = "cancelling" /\ calls' = [calls EXCEPT ![c] = r]
      BY <1>3, <2>1, <3>1
    <3> QED BY <1>2, <3>2
  <2> QED BY <2>3, <2>4, <2>5, OrderKept
<1>5. CASE ShutdownBegins(c)
  <2>1. /\ UNCHANGED <<program_runs, queue, run_requests, requested, run_task, tasks>>
        /\ loop' = [IdleLoop EXCEPT !.pc = "stopped"]
        /\ calls' = [calls EXCEPT ![c] = [Arrived(c) EXCEPT !.pc = "stopping"]]
    BY <1>5 DEF ShutdownBegins, CallBecomes, db, env
  <2>2. RunsGoOn /\ OneAlive'
    BY <2>1 DEF RunsGoOn, OneAlive, OrderInd, RecordedOnce
  <2>3. loop'.reqs = {}
    BY <2>1, BootTypes
  <2>4. NoneRan /\ WaitsOn
    BY <2>1, <2>3, SameNoneRan, StillWaits DEF QueueShrinks
  <2>5. NothingCleared'
    <3>1. PICK r : r = [Arrived(c) EXCEPT !.pc = "stopping"]
      OBVIOUS
    <3>2. r.pc = "stopping" /\ calls' = [calls EXCEPT ![c] = r]
      BY <1>3, <2>1, <3>1
    <3> QED BY <1>2, <3>2
  <2> QED BY <2>2, <2>4, <2>5, OrderKept
<1>6. CASE ShutdownEnds(c)
  <2>1. Restart /\ calls' = [calls EXCEPT ![c] = [calls[c] EXCEPT !.pc = "done", !.task = None]]
    BY <1>6 DEF ShutdownEnds, CallBecomes
  <2>2. NothingCleared'
    <3>1. PICK r : r = [calls[c] EXCEPT !.pc = "done", !.task = None]
      OBVIOUS
    <3>2. r.pc = "done" /\ calls' = [calls EXCEPT ![c] = r]
      BY <1>3, <2>1, <3>1
    <3> QED BY <1>2, <3>2
  <2> QED BY <2>1, <2>2, RestartOrder
<1>7. ~StopClears(c) /\ ~ManualHolds(c) /\ ~ItemCleared(c) /\ ~Command(c)
  BY DEF StopClears, ManualHolds, ItemCleared, Command, OrderInd, NothingCleared
<1> QED BY <1>4, <1>5, <1>6, <1>7 DEF CallStep

\* What a run writes: a row of its own when it was asked for, or nothing that
\* has run.
LEMMA RunWritesOrder ==
  ASSUME TypeInd, QueueInd, HistoryInd, OrderInd, NEW t \in Slots, RunTaskStep(t)
  PROVE  \/ NoneRan
         \/ /\ tasks[t].pc \in {"insert_running", "record_skip"} /\ Asked(t)
            /\ RowStatus(tasks[t]) \in Statuses \ {"missed"} /\ RowSteps(tasks[t]) \in Seq(Marks)
            /\ program_runs' = Append(program_runs, NewRow(tasks[t].item, RowStatus(tasks[t]), RowSteps(tasks[t])))
PROOF
<1> DEFINE k == tasks[t]
<1>1. k \in Tasks /\ k.item \in Items /\ k.item.req \in Nat /\ requested \in Nat /\ k.pc # "idle"
  BY OrderTypes, RunStepIsBusy DEF TypeInd, TypeOK, RunsOK, Tasks
<1>2. Linked(k) /\ TaskShape(k)
  BY DEF HistoryInd, OwnRows, TypeInd
<1>3. \A r \in DOMAIN program_runs : program_runs[r] \in Rows /\ program_runs[r].req <= requested
  BY LenProperties, ElementOfSeq DEF TypeInd, TypeOK, RunsOK, OrderInd, Numbered
<1>4. RunWrites(t)
  BY RunStepWrites
<1>5. CASE UNCHANGED program_runs
  BY <1>5, SameNoneRan
<1>6. CASE \/ k.pc \in DOMAIN StepMark \cup FinishPcs /\ program_runs' = Updated(k)
           \/ k.pc = "start" /\ program_runs' = [program_runs EXCEPT ![k.row].watered = TRUE]
  <2>1. k.pc \in OwnerPcs
    BY <1>6 DEF StepMark, FinishPcs, OwnerPcs, RunPcs, HandlerPcs
  <2>2. k.row \in DOMAIN program_runs /\ SameStage(k, program_runs[k.row]) /\ None \notin DOMAIN program_runs
    BY <1>2, <2>1, LenProperties DEF Linked, Fits, None, TypeInd, TypeOK, RunsOK
  <2>3. program_runs[k.row].status # "missed"
    BY <2>2 DEF OrderInd, RecordedOnce
  <2>4. k.pc \in FinishPcs => k.status # "missed"
    BY <2>2 DEF FinishPcs, SameStage, Summarize
  <2>5. DOMAIN program_runs' = DOMAIN program_runs
    BY <1>6 DEF Updated
  <2>6. ASSUME NEW r \in DOMAIN program_runs
        PROVE  /\ program_runs'[r].req = program_runs[r].req
               /\ program_runs'[r].status = "missed" <=> program_runs[r].status = "missed"
    <3>1. program_runs[r] \in Rows
      BY <1>3
    <3>2. \/ program_runs' = [program_runs EXCEPT ![k.row].steps[Position(k)] = StepMark[k.pc]]
          \/ k.status # "missed" /\ program_runs' = [program_runs EXCEPT ![k.row].status = k.status]
          \/ program_runs' = [program_runs EXCEPT ![k.row].watered = TRUE]
      BY <1>6, <2>4 DEF Updated
    <3>3. CASE r # k.row
      BY <3>2, <3>3
    <3>4. CASE r = k.row
      BY <2>2, <2>3, <3>1, <3>2, <3>4 DEF Rows
    <3> QED BY <3>3, <3>4
  <2> QED BY <1>3, <2>5, <2>6 DEF NoneRan, RanAsked
<1>7. CASE /\ k.pc \in {"insert_running", "record_skip", "cancel_record"}
           /\ program_runs' = Append(program_runs, NewRow(k.item, RowStatus(k), RowSteps(k)))
  <2>1. RowStatus(k) \in Statuses /\ RowSteps(k) \in Seq(Marks)
    BY <1>1, <1>2, <1>7, RowOfTask
  <2>2. k.pc \in {"insert_running", "record_skip"} => RowStatus(k) # "missed"
    BY <1>2 DEF Linked, Rowless, OwnerPcs, RunPcs, HandlerPcs, RowStatus, Skips
  <2>3. CASE ~Asked(t)
    <3>1. k.item.req = 0 /\ k.item.req <= requested
      BY <1>1, <2>3 DEF Asked
    <3> QED BY <1>1, <1>7, <2>1, <3>1, AppendedNoneRan
  <2>4. CASE Asked(t)
    <3>1. k.pc # "cancel_record"
      BY <2>4 DEF OrderInd, Numbered, RecordedOnce
    <3> QED BY <1>7, <2>1, <2>2, <2>4, <3>1
  <2> QED BY <2>3, <2>4
<1> QED BY <1>4, <1>5, <1>6, <1>7 DEF RunWrites

\* A run that was asked for joins the history after all that did.
LEMMA RunOrder ==
  ASSUME TypeInd, TypeInd', QueueInd, HistoryInd, HistoryInd', OrderInd, NEW t \in Slots, RunTaskStep(t)
  PROVE  OrderInd'
PROOF
<1> DEFINE k == tasks[t]
<1>1. /\ tasks \in [Slots -> Tasks] /\ k.pc # "idle" /\ k.item \in Items
      /\ UNCHANGED <<queue, loop, run_requests, requested, run_task, calls>>
  BY RunStepIsBusy DEF TypeInd, TypeOK, RunsOK, Tasks, TaskUnchanged
<1>2. PICK n : /\ tasks' = [tasks EXCEPT ![t] = n]
               /\ n.pc # "idle" => n.item = k.item /\ (n.row = k.row \/ RunInserted(t))
  BY RunGoesOnAs
<1>3. tasks'[t] = n /\ \A s \in Slots \ {t} : tasks'[s] = tasks[s]
  BY <1>1, <1>2
<1>4. /\ n.pc = "cancel_record" => Scheduled(k.item)
      /\ k.pc \in {"insert_running", "record_skip"} => n.pc = "idle" \/ RunInserted(t) \/ Scheduled(k.item)
  BY <1>3, RunLeaves
<1>5. OneAlive' /\ NothingCleared'
  BY <1>1, <1>3 DEF OrderInd, OneAlive, NothingCleared
<1>6. WaitsOn
  BY <1>1, StillWaits DEF QueueShrinks
<1>7. RunInserted(t) => /\ k.pc = "insert_running" /\ n.row = Len(program_runs) + 1 /\ n.pc = "fetch_step_zones"
                        /\ program_runs' = Append(program_runs, NewRow(k.item, "running", RowSteps(k)))
  <2>1. [k EXCEPT !.pc = "fetch_step_zones", !.row = Len(program_runs) + 1].row = Len(program_runs) + 1
    BY <1>1 DEF Tasks
  <2>2. [k EXCEPT !.pc = "fetch_step_zones", !.row = Len(program_runs) + 1].pc = "fetch_step_zones"
    BY <1>1 DEF Tasks
  <2> SUFFICES ASSUME RunInserted(t)
               PROVE  /\ k.pc = "insert_running" /\ n.row = Len(program_runs) + 1 /\ n.pc = "fetch_step_zones"
                      /\ program_runs' = Append(program_runs, NewRow(k.item, "running", RowSteps(k)))
    OBVIOUS
  <2>3. tasks'[t] = [k EXCEPT !.pc = "fetch_step_zones", !.row = Len(program_runs) + 1]
    BY <1>1 DEF RunInserted, Becomes
  <2> QED BY <1>3, <2>1, <2>2, <2>3 DEF RunInserted, Inserts, At
<1> HIDE DEF k
<1>8. CASE NoneRan /\ ~RunInserted(t)
  <2>1. RunsGoOn
    BY <1>1, <1>2, <1>3, <1>4, <1>8 DEF RunsGoOn, OrderInd, RecordedOnce, k
  <2> QED BY <1>5, <1>6, <1>8, <2>1, OrderKept
<1>9. CASE ~NoneRan \/ RunInserted(t)
  <2>1. PICK status \in Statuses \ {"missed"}, steps \in Seq(Marks) :
          program_runs' = Append(program_runs, NewRow(k.item, status, steps))
    <3>1. CASE RunInserted(t)
      <4>1. "running" \in Statuses \ {"missed"} /\ RowSteps(k) \in Seq(Marks)
        <5>1. k \in Tasks /\ TaskShape(k)
          BY <1>1 DEF k, TypeInd
        <5> QED BY <1>7, <3>1, <5>1, RowOfTask DEF Statuses
      <4> QED BY <1>7, <3>1, <4>1
    <3>2. CASE ~RunInserted(t)
      BY <1>9, <3>2, RunWritesOrder DEF k
    <3> QED BY <3>1, <3>2
  <2>2. k.pc \in {"insert_running", "record_skip"} /\ (n.pc = "idle" \/ (RunInserted(t) /\ n.item = k.item))
    <3>1. CASE RunInserted(t)
      BY <1>2, <1>7, <3>1
    <3>2. CASE ~RunInserted(t)
      <4>1. k.pc \in {"insert_running", "record_skip"} /\ Asked(t)
        BY <1>9, <3>2, RunWritesOrder DEF k
      <4>2. ~Scheduled(k.item)
        BY <4>1 DEF OrderInd, Numbered, k
      <4> QED BY <1>4, <3>2, <4>1, <4>2
    <3> QED BY <3>1, <3>2
  <2> DEFINE row == NewRow(k.item, status, steps)
             last == Len(program_runs) + 1
  <2>3. /\ DOMAIN program_runs = 1 .. Len(program_runs) /\ Len(program_runs) \in Nat
        /\ DOMAIN program_runs' = 1 .. last
        /\ \A r \in DOMAIN program_runs : program_runs'[r] = program_runs[r]
        /\ program_runs'[last] = row
    BY <1>1, <2>1, AppendedRow DEF k
  <2>4. row.req = k.item.req /\ row.status = status
    BY DEF NewRow
  <2> HIDE DEF row
  <2>5. \A r \in DOMAIN program_runs' : r \in DOMAIN program_runs \/ r = last
    BY <2>3
  <2>6. RanAsked(row) => Asked(t)
    BY <1>1, <2>4 DEF RanAsked, Asked, k
  <2>7. \A s \in Slots : s # t => tasks[s].pc = "idle"
    BY <1>1 DEF OrderInd, OneAlive, k
  <2>8. \A s \in Slots : Asked(s)' => /\ s = t /\ RunInserted(t) /\ Asked(t)
                                      /\ tasks'[s].item = k.item /\ tasks'[s].row = last
    BY <1>1, <1>3, <1>7, <2>2, <2>7 DEF Asked, k
  <2>9. k.row = None /\ None \notin DOMAIN program_runs
    <3>1. Linked(k) /\ k.pc \notin OwnerPcs
      BY <2>2 DEF HistoryInd, OwnRows, OwnerPcs, RunPcs, HandlerPcs, k
    <3> QED BY <2>3, <3>1 DEF Linked, Rowless, None
  <2>10. \A r \in DOMAIN program_runs : Asked(t) /\ RanAsked(program_runs[r]) => program_runs[r].req < k.item.req
    BY <2>9 DEF OrderInd, RunLast, k
  <2>11. \A w \in Waiting' : w \in Waiting
    BY <1>1 DEF Waiting, Scheduled
  <2>12. WaitingLater'
    <3>1. ASSUME NEW w \in Waiting', NEW r \in DOMAIN program_runs', RanAsked(program_runs'[r])
          PROVE  program_runs'[r].req < w.req
      BY <2>3, <2>4, <2>5, <2>6, <2>11, <3>1 DEF OrderInd, WaitingLater, k
    <3>2. ASSUME NEW w \in Waiting', NEW s \in Slots, Asked(s)' PROVE tasks'[s].item.req < w.req
      BY <2>8, <2>11, <3>2 DEF OrderInd, WaitingLater, k
    <3> QED BY <3>1, <3>2 DEF WaitingLater, RanAsked
  <2>13. RunLast'
    <3>1. ASSUME NEW s \in Slots, Asked(s)', NEW r \in DOMAIN program_runs' \ {tasks'[s].row},
                 RanAsked(program_runs'[r])
          PROVE  program_runs'[r].req < tasks'[s].item.req
      BY <2>3, <2>5, <2>8, <2>10, <3>1
    <3> QED BY <3>1 DEF RunLast, RanAsked
  <2>14. Numbered'
    <3>1. k.item.req <= requested
      <4>1. CASE Asked(t)
        BY <4>1 DEF OrderInd, Numbered, k
      <4>2. CASE ~Asked(t)
        <5>1. k.item.req = 0 /\ requested \in Nat
          BY <1>1, <4>2, OrderTypes DEF Asked, k
        <5> QED BY <5>1
      <4> QED BY <4>1, <4>2
    <3>2. \A r \in DOMAIN program_runs' : program_runs'[r].req <= requested'
      BY <1>1, <2>3, <2>4, <2>5, <3>1 DEF OrderInd, Numbered
    <3>3. \A s \in Slots : Asked(s)' => ~Scheduled(tasks'[s].item) /\ tasks'[s].item.req <= requested'
      BY <1>1, <2>8 DEF OrderInd, Numbered, k
    <3>4. \A i \in DOMAIN queue' : Scheduled(queue'[i]) => queue'[i].req = 0
      BY <1>6 DEF WaitsOn
    <3> QED BY <3>2, <3>3, <3>4 DEF Numbered, Scheduled
  <2>15. RecordedOnce'
    <3>1. \A s \in Slots : tasks'[s].pc = "idle" \/ (s = t /\ tasks'[s].pc = "fetch_step_zones" /\ tasks'[s].row = last)
      BY <1>3, <1>7, <2>2, <2>7
    <3>2. \A s \in Slots : tasks'[s].pc = "idle" => tasks'[s].row = None
      <4>1. "idle" \notin OwnerPcs
        BY DEF OwnerPcs, RunPcs, HandlerPcs
      <4>2. \A s \in Slots : Linked(tasks[s])'
        BY DEF HistoryInd, OwnRows
      <4> QED BY <4>1, <4>2 DEF Linked, Rowless
    <3> QED BY <2>3, <2>4, <3>1, <3>2 DEF RecordedOnce
  <2>16. RequestsInOrder'
    <3>1. \A r, s \in DOMAIN program_runs :
            r < s /\ RanAsked(program_runs[r]) /\ RanAsked(program_runs[s]) => program_runs[r].req < program_runs[s].req
      BY DEF OrderInd, RequestsInOrder, RanAsked
    <3>2. ASSUME NEW r \in DOMAIN program_runs', NEW s \in DOMAIN program_runs', r < s,
                 RanAsked(program_runs'[r]), RanAsked(program_runs'[s])
          PROVE  program_runs'[r].req < program_runs'[s].req
      <4>1. r \in DOMAIN program_runs
        BY <2>3, <3>2
      <4>2. CASE s \in DOMAIN program_runs
        BY <2>3, <3>1, <3>2, <4>1, <4>2
      <4>3. CASE s = last
        BY <2>3, <2>4, <2>6, <2>10, <3>2, <4>1, <4>3
      <4> QED BY <2>5, <4>2, <4>3
    <3> QED BY <3>2 DEF RequestsInOrder, RanAsked
  <2> QED BY <1>5, <2>12, <2>13, <2>14, <2>15, <2>16 DEF OrderInd
<1> QED BY <1>8, <1>9

-----------------------------------------------------------------------------
(* The theorems.                                                           *)

\* Nothing has run and nobody has asked when the scheduler starts.
LEMMA InitOrder == Init => OrderInd
PROOF
<1> SUFFICES ASSUME Init PROVE OrderInd
  OBVIOUS
<1>1. /\ program_runs = <<>> /\ queue = <<>> /\ run_requests = {} /\ loop.reqs = {} /\ requested = 0
      /\ \A t \in Slots : tasks[t].pc = "idle" /\ tasks[t].row = None
      /\ \A c \in Calls : calls[c].pc = "ready"
  BY DEF Init, IdleTask, IdleLoop, ReadyCall
<1> QED BY <1>1 DEF OrderInd, OneAlive, WaitingLater, RunLast, Numbered, RecordedOnce, NothingCleared, RequestsInOrder,
                    Waiting, Asked

\* A step that changes nothing.
LEMMA StutterOrder ==
  ASSUME TypeInd, TypeInd', QueueInd, HistoryInd, HistoryInd', OrderInd, UNCHANGED vars PROVE OrderInd'
PROOF
<1>1. UNCHANGED <<program_runs, queue, loop, run_requests, requested, tasks, run_task, calls>>
  BY DEF vars, db, env
<1>2. NoneRan /\ WaitsOn
  BY <1>1, SameNoneRan, StillWaits DEF QueueShrinks
<1> QED BY <1>1, <1>2, LoopOrder

\* OrderInd is inductive while no stop-all and no manual start interferes.
LEMMA NextOrder ==
  ASSUME StopCalls \cup ManualCalls = {}
  PROVE  TypeInd /\ TypeInd' /\ QueueInd /\ HistoryInd /\ HistoryInd' /\ OrderInd /\ [Next]_vars => OrderInd'
PROOF
<1> SUFFICES ASSUME TypeInd, TypeInd', QueueInd, HistoryInd, HistoryInd', OrderInd, [Next]_vars PROVE OrderInd'
  OBVIOUS
<1>1. CASE UNCHANGED vars
  BY <1>1, StutterOrder
<1>2. CASE WebStep \/ ClockTick \/ Notify
  BY <1>2, WebOrder
<1>3. CASE LoopStep
  BY <1>3, TickOrder, AdmitOrder, EvaluateOrder, PumpOrder DEF LoopStep
<1>4. ASSUME NEW t \in Slots, RunTaskStep(t) PROVE OrderInd'
  BY <1>4, RunOrder
<1>5. ASSUME NEW c \in Calls, CallStep(c) PROVE OrderInd'
  BY <1>5, CallOrder
<1>6. CASE Crash
  <2>1. calls' = [c \in Calls |-> IF InCall(c) THEN [calls[c] EXCEPT !.pc = "failed"] ELSE calls[c]]
    BY <1>6 DEF Crash
  <2>2. \A c \in Calls : calls'[c].pc \in {"failed", calls[c].pc}
    BY <2>1 DEF TypeInd, TypeOK, CallsOK, CallRecords
  <2>3. NothingCleared'
    BY <2>2 DEF OrderInd, NothingCleared
  <2> QED BY <1>6, <2>3, RestartOrder DEF Crash
<1> QED BY <1>1, <1>2, <1>3, <1>4, <1>5, <1>6 DEF Next

\* What the invariants together give at every step of every behaviour.
LEMMA OrderInvariant ==
  ASSUME StopCalls \cup ManualCalls = {}
  PROVE  Spec => [](TypeInd /\ QueueInd /\ HistoryInd /\ OrderInd)
  BY InitTypes, InitQueue, InitHistory, InitOrder, NextTypes, NextQueue, NextHistory, NextOrder, PTL DEF Spec

\* "One run at a time" (scheduler.py: _pump starts a run only when _run_task is done),
\* for any programs, requests, edits, faults, kills and graceful shutdowns, as
\* long as no stop-all and no manual start takes _run_task away while it is
\* being awaited: with one, _pump may start a run that cancel_active then forgets.
THEOREM RunsAlone == ASSUME StopCalls \cup ManualCalls = {} PROVE Spec => []OneRunAtATime
PROOF
<1>1. ASSUME OneAlive PROVE OneRunAtATime
  <2> DEFINE alive == {t \in Slots : tasks[t].pc # "idle"}
  <2>1. alive \subseteq {run_task}
    BY <1>1 DEF OneAlive
  <2>2. IsFiniteSet({run_task}) /\ Cardinality({run_task}) = 1
    BY FS_Singleton
  <2>3. IsFiniteSet(alive) /\ Cardinality(alive) <= Cardinality({run_task})
    BY <2>1, <2>2, FS_Subset
  <2> QED BY <2>2, <2>3 DEF OneRunAtATime
<1>2. OrderInd => OneRunAtATime
  BY <1>1 DEF OrderInd
<1> QED BY OrderInvariant, <1>2, PTL

\* "FIFO among themselves" (scheduler.py): run-now requests and Quick Runs enter the history in
\* the order they were made (claim_run_requests by created_at, _admit_run_now
\* behind the others that wait, _pump from the head), whatever fails and however
\* often the executor dies, while no stop-all and no manual start interferes.
THEOREM RequestsRunInOrder == ASSUME StopCalls \cup ManualCalls = {} PROVE Spec => []RequestsInOrder
PROOF
<1>1. OrderInd => RequestsInOrder
  BY DEF OrderInd
<1> QED BY OrderInvariant, <1>1, PTL

-----------------------------------------------------------------------------
(* The rows in progress.                                                   *)

\* No row begins or ceases to be in progress.
SameRunning == RunningRows' = RunningRows

\* A step that leaves the history alone.
LEMMA UnchangedRunning == ASSUME UNCHANGED program_runs PROVE SameRunning
  BY DEF SameRunning, RunningRows

\* An INSERT of a row that is over.
LEMMA InsertedRunning ==
  ASSUME TypeInd, NEW item \in Items, NEW status \in Statuses \ {"running"},
         Inserts(item, status, <<>>) \/ InsertFails(item, status, <<>>)
  PROVE  SameRunning
PROOF
<1>1. CASE UNCHANGED program_runs
  BY <1>1, UnchangedRunning
<1>2. CASE program_runs' = Append(program_runs, NewRow(item, status, <<>>))
  <2>1. <<>> \in Seq(Marks)
    OBVIOUS
  <2>2. /\ DOMAIN program_runs = 1 .. Len(program_runs) /\ Len(program_runs) \in Nat
        /\ DOMAIN program_runs' = 1 .. Len(program_runs) + 1
        /\ \A r \in DOMAIN program_runs : program_runs'[r] = program_runs[r]
        /\ program_runs'[Len(program_runs) + 1] = NewRow(item, status, <<>>)
    BY <1>2, <2>1, AppendedRow
  <2>3. NewRow(item, status, <<>>).status # "running"
    BY DEF NewRow
  <2>4. \A r \in DOMAIN program_runs' : r \in DOMAIN program_runs \/ r = Len(program_runs) + 1
    BY <2>2
  <2>5. DOMAIN program_runs \subseteq DOMAIN program_runs'
    BY <2>2
  <2> QED BY <2>2, <2>3, <2>4, <2>5 DEF SameRunning, RunningRows
<1> QED BY <1>1, <1>2 DEF Inserts, InsertFails

\* A program is deleted, or nothing of the history changes.
LEMMA WebRunning == ASSUME TypeInd, WebStep \/ ClockTick \/ Notify PROVE SameRunning
PROOF
<1>1. \/ UNCHANGED program_runs
      \/ \E p \in Programs : program_runs' =
           [r \in DOMAIN program_runs |->
              IF program_runs[r].program = p THEN [program_runs[r] EXCEPT !.program = NoProgram] ELSE program_runs[r]]
  BY DEF WebStep, ClockTick, Notify, SaveProgram, ToggleProgram, DeleteProgram, ToggleZone, RunNow, QuickRun, Request, db
<1>2. \A r \in DOMAIN program_runs : [program_runs[r] EXCEPT !.program = NoProgram].status = program_runs[r].status
  BY LenProperties, ElementOfSeq DEF TypeInd, TypeOK, RunsOK, Rows
<1>3. ASSUME NEW p \in Programs,
             program_runs' = [r \in DOMAIN program_runs |->
               IF program_runs[r].program = p THEN [program_runs[r] EXCEPT !.program = NoProgram] ELSE program_runs[r]]
      PROVE  SameRunning
  BY <1>2, <1>3 DEF SameRunning, RunningRows
<1> QED BY <1>1, <1>3, UnchangedRunning

\* The loop, but for the finalization of the orphans.
LEMMA LoopRunning == ASSUME TypeInd, QueueInd, LoopStep, ~FinalizeOrphans, ~FinalizeFails PROVE SameRunning
PROOF
<1>1. CASE UNCHANGED program_runs
  BY <1>1, UnchangedRunning
<1>2. "missed" \in Statuses \ {"running"}
  BY DEF Statuses
<1>3. ASSUME NEW item \in Items, Inserts(item, "missed", <<>>) \/ InsertFails(item, "missed", <<>>) PROVE SameRunning
  BY <1>2, <1>3, InsertedRunning
<1>4. loop \in Loops /\ loop.reqs \subseteq Items
  BY DEF TypeInd, TypeOK, QueueOK, Loops
<1>5. ASSUME NEW req \in loop.reqs, InsertRequestMissed(req) PROVE SameRunning
  BY <1>3, <1>4, <1>5 DEF InsertRequestMissed
<1>6. CASE InsertMissed
  <2>1. PICK occ \in loop.work : LET item == Item(loop.program, occ, 0, <<>>)
                                 IN  Inserts(item, "missed", <<>>) \/ InsertFails(item, "missed", <<>>)
    BY <1>6 DEF InsertMissed
  <2>2. Item(loop.program, occ, 0, <<>>) \in Items
    <3>1. <<>> \in Seq(Zones) /\ occ \in Nat
      BY <1>4 DEF Loops
    <3> QED BY <1>4, <3>1 DEF Loops, Item, Items, Times
  <2> QED BY <1>3, <2>1, <2>2
<1>7. \/ UNCHANGED program_runs
      \/ InsertMissed
      \/ \E req \in loop.reqs : InsertRequestMissed(req)
  BY DEF LoopStep, TickBegins, FetchPrograms, FetchSteps, ReadRunKeys, ClaimRequests, RefreshFails, RefreshDone,
         AdmitStep, IgnoreRequest, OverflowRequest, AdmitRequest, RequestsAdmitted, EvaluateProgram, SkipOccurrence,
         MissOccurrence, AdmitOccurrence, EvaluateDone, PumpIdle, PumpDrops, PumpStarts, PumpUnchanged, db
<1> QED BY <1>1, <1>5, <1>6, <1>7

\* Past the finalization none is in progress.
LEMMA FinalizedRunning ==
  ASSUME TypeInd, program_runs' = [r \in DOMAIN program_runs |-> Finalized(program_runs[r])]
  PROVE  RunningRows' = {}
PROOF
<1>1. \A r \in DOMAIN program_runs : program_runs[r] \in Rows
  BY LenProperties, ElementOfSeq DEF TypeInd, TypeOK, RunsOK
<1>2. \A r \in DOMAIN program_runs : Finalized(program_runs[r]).status # "running"
  BY <1>1 DEF Finalized, Rows
<1> QED BY <1>2 DEF RunningRows

-----------------------------------------------------------------------------
(* A run that nothing disturbs.                                            *)

\* A run that only goes elsewhere keeps its row.
LEMMA SameRowOn ==
  ASSUME tasks \in [Slots -> Tasks], NEW t \in Slots, NEW pc, NEW status, Goes(t, pc) \/ Ends(t, pc, status)
  PROVE  tasks'[t].row = tasks[t].row
  BY DEF Goes, Ends, Becomes, Tasks

\* A step of a run that is not cancelled, when no call fails, has one of these effects.
QuietStep(t) ==
  \/ RunInserted(t)
  \/ RunFinished(t)
  \/ ZoneStarts(t)
  \/ SameRunning /\ tasks'[t].row = tasks[t].row

\* The steps before a run has its row, and those that take it out of there.
LEMMA SetupQuiet ==
  ASSUME TypeInd, HistoryInd, NEW t \in Slots, faults >= MaxFaults,
         \/ RunBegins(t) \/ RainDelayRead(t) \/ WeatherDecided(t) \/ TerminalRecorded(t) \/ ZonesFetched(t)
         \/ SetupFails(t) \/ HandlerFails(t)
  PROVE  QuietStep(t)
PROOF
<1> DEFINE k == tasks[t]
<1>1. k \in Tasks /\ tasks \in [Slots -> Tasks] /\ ~Fault /\ TaskShape(k) /\ Linked(k)
  BY BoundAssumption DEF TypeInd, TypeOK, RunsOK, EnvOK, Fault, HistoryInd, OwnRows
<1>2. k.pc \in SetupPcs
  BY <1>1 DEF RunBegins, RainDelayRead, WeatherDecided, TerminalRecorded, ZonesFetched, SetupFails, HandlerFails, At,
     SetupPcs, InsertFails
<1>3. k.row = None
  BY <1>1, <1>2 DEF SetupPcs, RunPcs, OwnerPcs, HandlerPcs, Linked, Rowless
<1>4. CASE RunBegins(t) \/ RainDelayRead(t) \/ WeatherDecided(t) \/ ZonesFetched(t)
  <2>1. tasks'[t].row = k.row
    <3>1. \A pc, status : Goes(t, pc) \/ Ends(t, pc, status) => tasks'[t].row = k.row
      BY <1>1, SameRowOn
    <3>2. CASE ZonesFetched(t)
      BY <1>1, <3>2 DEF ZonesFetched, Becomes, Tasks
    <3> QED BY <1>4, <3>1, <3>2 DEF RunBegins, RainDelayRead, WeatherDecided
  <2>2. UNCHANGED program_runs
    BY <1>4 DEF RunBegins, RainDelayRead, WeatherDecided, ZonesFetched
  <2> QED BY <2>1, <2>2, UnchangedRunning DEF QuietStep
<1>5. CASE TerminalRecorded(t) \/ SetupFails(t) \/ HandlerFails(t)
  <2>1. tasks'[t].row = None
    BY <1>1, <1>5 DEF TerminalRecorded, SetupFails, HandlerFails, Exits, Becomes, IdleTask
  <2>2. SameRunning
    <3>1. CASE TerminalRecorded(t)
      <4>1. Inserts(k.item, k.status, <<>>) /\ k.item \in Items /\ k.pc \in {"record_skip", "cancel_record"}
        BY <1>1, <3>1 DEF TerminalRecorded, At, Tasks
      <4>2. k.status \in Statuses \ {"running"}
        BY <1>1, <4>1 DEF TaskShape, Linked, Rowless, OwnerPcs, RunPcs, HandlerPcs, Skips
      <4> QED BY <4>1, <4>2, InsertedRunning
    <3>2. CASE SetupFails(t) \/ HandlerFails(t)
      <4>1. UNCHANGED program_runs
        BY <1>1, <3>2 DEF SetupFails, HandlerFails, InsertFails
      <4> QED BY <4>1, UnchangedRunning
    <3> QED BY <1>5, <3>1, <3>2
  <2> QED BY <1>3, <2>1, <2>2 DEF QuietStep
<1> QED BY <1>4, <1>5

\* The steps of a run that leave its row as it is, or mark a step of it.
LEMMA StepQuiet ==
  ASSUME TypeInd, HistoryInd, NEW t \in Slots,
         \/ StepZonesFetched(t) \/ StartReplies(t) \/ StartRepliesUntracked(t) \/ StepStarted(t) \/ StepSlept(t)
         \/ StepEnds(t) \/ RunStops(t) \/ InFlightCancelled(t)
  PROVE  QuietStep(t)
PROOF
<1> DEFINE k == tasks[t]
<1>1. k \in Tasks /\ tasks \in [Slots -> Tasks] /\ program_runs \in Seq(Rows)
  BY DEF TypeInd, TypeOK, RunsOK
<1>2. SameRunning
  <2>1. CASE UNCHANGED program_runs
    BY <2>1, UnchangedRunning
  <2>2. CASE k.pc \in DOMAIN StepMark /\ program_runs' = Updated(k)
    <3>1. program_runs' = [program_runs EXCEPT ![k.row].steps[Position(k)] = StepMark[k.pc]]
      BY <2>2 DEF Updated
    <3>2. \A r \in DOMAIN program_runs : program_runs[r] \in Rows
      BY <1>1, LenProperties, ElementOfSeq
    <3>3. \A r \in DOMAIN program_runs : program_runs'[r].status = program_runs[r].status
      BY <3>1, <3>2 DEF Rows
    <3>4. DOMAIN program_runs' = DOMAIN program_runs
      BY <3>1
    <3> QED BY <3>3, <3>4 DEF SameRunning, RunningRows
  <2> QED BY <2>1, <2>2 DEF StepZonesFetched, StartReplies, StartRepliesUntracked, StepStarted, StepSlept, StepEnds,
             RunStops, InFlightCancelled, At, StepMark
<1>3. tasks'[t].row = k.row
  <2>1. \A pc, status : Goes(t, pc) \/ Ends(t, pc, status) => tasks'[t].row = k.row
    BY <1>1, SameRowOn
  <2>2. CASE StartReplies(t) \/ StartRepliesUntracked(t) \/ StepSlept(t) \/ RunStops(t) \/ InFlightCancelled(t)
    BY <2>1, <2>2 DEF StartReplies, StartRepliesUntracked, StepSlept, RunStops, InFlightCancelled
  <2>3. CASE StepStarted(t)
    BY <1>1, <2>3 DEF StepStarted, Becomes, Tasks
  <2>4. CASE StepZonesFetched(t)
    <3>1. PICK zones : tasks'[t] = [k EXCEPT !.zones = zones,
                                      !.pc = IF k.steps[Position(k)] \in zones THEN "start" ELSE "mark_skipped"]
      BY <1>1, <2>4 DEF StepZonesFetched, Becomes
    <3> QED BY <1>1, <3>1 DEF Tasks
  <2>5. CASE StepEnds(t)
    <3>1. StepMark[k.pc] \in Outcomes
      BY <2>5 DEF StepEnds, At, StepMark, Outcomes
    <3>2. tasks'[t] = AfterStep(k, StepMark[k.pc])
      BY <1>1, <2>5 DEF StepEnds, Becomes
    <3> QED BY <1>1, <3>1, <3>2, AfterStepFields
  <2> QED BY <2>2, <2>3, <2>4, <2>5
<1> QED BY <1>2, <1>3 DEF QuietStep

\* Every step of a run that is not cancelled.
LEMMA RunQuiet ==
  ASSUME TypeInd, HistoryInd, NEW t \in Slots, faults >= MaxFaults, ~tasks[t].cancel, RunTaskStep(t)
  PROVE  QuietStep(t)
PROOF
<1>1. ~Fault
  BY BoundAssumption DEF TypeInd, TypeOK, EnvOK, Fault
<1>2. ~StartFails(t) /\ ~RunCrashes(t)
  BY <1>1 DEF StartFails, RunCrashes
<1>3. ~CancelUnstarted(t) /\ ~CancelSetup(t) /\ ~CancelRun(t) /\ ~CancelHandler(t)
  BY DEF CancelUnstarted, CancelSetup, CancelRun, CancelHandler, Cancelling
<1> QED BY <1>2, <1>3, SetupQuiet, StepQuiet DEF RunTaskStep, QuietStep

\* A run that ends without being cancelled closes its row.
LEMMA FinishedRunning ==
  ASSUME TypeInd, HistoryInd, NEW t \in Slots, RunFinished(t)
  PROVE  RunningRows' = RunningRows \ {tasks[t].row} /\ tasks'[t].row = None
PROOF
<1> DEFINE k == tasks[t]
<1>1. /\ k.pc \in FinishPcs /\ program_runs' = Updated(k) /\ tasks' = [tasks EXCEPT ![t] = IdleTask]
      /\ k \in Tasks /\ tasks \in [Slots -> Tasks] /\ Linked(k)
  BY DEF RunFinished, At, Exits, Becomes, TypeInd, TypeOK, RunsOK, HistoryInd, OwnRows
<1>2. k.row \in DOMAIN program_runs /\ SameStage(k, program_runs[k.row])
  BY <1>1 DEF Linked, Fits, FinishPcs, OwnerPcs, RunPcs, HandlerPcs
<1>3. k.status # "running"
  BY <1>1, <1>2 DEF SameStage, FinishPcs, Summarize
<1>4. program_runs' = [program_runs EXCEPT ![k.row].status = k.status]
  BY <1>1 DEF Updated, FinishPcs, StepMark
<1>5. program_runs[k.row] \in Rows
  BY <1>2, LenProperties, ElementOfSeq DEF TypeInd, TypeOK, RunsOK
<1>6. program_runs'[k.row].status # "running"
  BY <1>2, <1>3, <1>4, <1>5 DEF Rows
<1>7. DOMAIN program_runs' = DOMAIN program_runs /\ \A r \in DOMAIN program_runs \ {k.row} : program_runs'[r] = program_runs[r]
  BY <1>4
<1>8. tasks'[t].row = None
  BY <1>1 DEF IdleTask
<1> QED BY <1>6, <1>7, <1>8 DEF RunningRows

\* One that begins has a new row in progress.
LEMMA BegunRunning ==
  ASSUME TypeInd, HistoryInd, NEW t \in Slots, RunInserted(t)
  PROVE  /\ RunningRows' = RunningRows \cup {tasks'[t].row} /\ tasks'[t].row \notin DOMAIN program_runs
         /\ tasks[t].row = None /\ None \notin RunningRows
PROOF
<1> DEFINE k == tasks[t]
           last == Len(program_runs) + 1
<1>1. /\ k.pc = "insert_running" /\ k \in Tasks /\ tasks \in [Slots -> Tasks] /\ k.item \in Items /\ Linked(k) /\ TaskShape(k)
      /\ program_runs' = Append(program_runs, NewRow(k.item, "running", RowSteps(k)))
      /\ tasks' = [tasks EXCEPT ![t] = [k EXCEPT !.pc = "fetch_step_zones", !.row = last]]
  BY DEF RunInserted, Inserts, At, Becomes, TypeInd, TypeOK, RunsOK, Tasks, HistoryInd, OwnRows
<1>2. RowSteps(k) \in Seq(Marks) /\ "running" \in Statuses
  BY <1>1, RowOfTask DEF Statuses
<1>3. /\ DOMAIN program_runs = 1 .. Len(program_runs) /\ Len(program_runs) \in Nat
      /\ DOMAIN program_runs' = 1 .. last
      /\ \A r \in DOMAIN program_runs : program_runs'[r] = program_runs[r]
      /\ program_runs'[last] = NewRow(k.item, "running", RowSteps(k))
  BY <1>1, <1>2, AppendedRow
<1>4. NewRow(k.item, "running", RowSteps(k)).status = "running"
  BY DEF NewRow
<1>5. tasks'[t].row = last
  BY <1>1 DEF Tasks
<1>6. k.row = None
  BY <1>1 DEF Linked, Rowless, OwnerPcs, RunPcs, HandlerPcs
<1>7. last \notin DOMAIN program_runs /\ None \notin DOMAIN program_runs /\ DOMAIN program_runs' = DOMAIN program_runs \cup {last}
  BY <1>3 DEF None
<1> QED BY <1>3, <1>4, <1>5, <1>6, <1>7 DEF RunningRows

\* A run that waters marks its row, which stays in progress.
LEMMA WateredRunning ==
  ASSUME TypeInd, HistoryInd, NEW t \in Slots, ZoneStarts(t)
  PROVE  SameRunning /\ tasks[t].row \in RunningRows /\ hw'.row = tasks[t].row /\ tasks'[t].pc = "start_reply"
PROOF
<1> DEFINE k == tasks[t]
<1>1. /\ k.pc = "start" /\ program_runs' = [program_runs EXCEPT ![k.row].watered = TRUE]
      /\ k \in Tasks /\ tasks \in [Slots -> Tasks] /\ Linked(k)
      /\ hw' = Water(k.steps[Position(k)], k.row, StepMinutes) /\ tasks' = [tasks EXCEPT ![t] = [k EXCEPT !.pc = "start_reply"]]
  BY DEF ZoneStarts, At, Goes, Becomes, TypeInd, TypeOK, RunsOK, HistoryInd, OwnRows
<1>2. k.row \in DOMAIN program_runs /\ program_runs[k.row].status = "running"
  BY <1>1 DEF Linked, Fits, SameStage, OwnerPcs, RunPcs, HandlerPcs
<1>3. \A r \in DOMAIN program_runs : program_runs[r] \in Rows
  BY LenProperties, ElementOfSeq DEF TypeInd, TypeOK, RunsOK
<1>4. DOMAIN program_runs' = DOMAIN program_runs
      /\ \A r \in DOMAIN program_runs : program_runs'[r].status = program_runs[r].status
  BY <1>1, <1>3 DEF Rows
<1>5. hw'.row = k.row
  BY <1>1 DEF Water
<1>6. tasks'[t].pc = "start_reply"
  BY <1>1 DEF Tasks
<1> QED BY <1>2, <1>4, <1>5, <1>6 DEF SameRunning, RunningRows

\* A run's step cancels no run.
LEMMA NoneCancelled ==
  ASSUME TypeInd, HistoryInd, NEW t \in Slots, RunTaskStep(t), \A s \in Slots : ~tasks[s].cancel
  PROVE  \A s \in Slots : ~tasks'[s].cancel
PROOF
<1> DEFINE k == tasks[t]
<1>1. k \in Tasks /\ tasks \in [Slots -> Tasks] /\ IdleTask.cancel = FALSE
  BY DEF TypeInd, TypeOK, RunsOK, IdleTask
<1>2. PICK n : tasks' = [tasks EXCEPT ![t] = n]
  BY RunGoesOnAs
<1>3. tasks'[t] = n /\ \A s \in Slots \ {t} : tasks'[s] = tasks[s]
  BY <1>1, <1>2
<1> SUFFICES ~tasks'[t].cancel
  BY <1>3
<1>4. \A pc, status : Goes(t, pc) \/ Ends(t, pc, status) => ~tasks'[t].cancel
  <2>1. tasks[t] \in Tasks /\ t \in DOMAIN tasks
    BY <1>1
  <2>2. ASSUME NEW pc, Goes(t, pc) PROVE ~tasks'[t].cancel
    BY <1>1, <2>1, <2>2 DEF Goes, Becomes, Tasks
  <2>3. ASSUME NEW pc, NEW status, Ends(t, pc, status) PROVE ~tasks'[t].cancel
    BY <1>1, <2>1, <2>3 DEF Ends, Becomes, Tasks
  <2> QED BY <2>2, <2>3
<1>5. Becomes(t, IdleTask) => ~tasks'[t].cancel
  BY <1>1 DEF Becomes
<1>6. CASE \/ RunBegins(t) \/ RainDelayRead(t) \/ WeatherDecided(t) \/ ZoneStarts(t) \/ StartReplies(t)
           \/ StartRepliesUntracked(t) \/ StepSlept(t) \/ RunStops(t) \/ RunCrashes(t) \/ InFlightCancelled(t)
           \/ CancelRun(t)
  BY <1>4, <1>6 DEF RunBegins, RainDelayRead, WeatherDecided, ZoneStarts, StartReplies, StartRepliesUntracked, StepSlept,
     RunStops, RunCrashes, InFlightCancelled, CancelRun
<1>7. CASE \/ TerminalRecorded(t) \/ SetupFails(t) \/ RunFinished(t) \/ HandlerFails(t) \/ CancelUnstarted(t)
           \/ CancelSetup(t) \/ CancelHandler(t)
  BY <1>4, <1>5, <1>7 DEF TerminalRecorded, SetupFails, RunFinished, HandlerFails, CancelUnstarted, CancelSetup,
     CancelHandler, Exits
<1>8. CASE ZonesFetched(t) \/ RunInserted(t) \/ StepZonesFetched(t) \/ StartFails(t) \/ StepStarted(t)
  <2>1. \A pc, x : /\ ~[k EXCEPT !.pc = pc, !.zones = x].cancel
                   /\ ~[k EXCEPT !.zones = x, !.pc = pc].cancel
                   /\ ~[k EXCEPT !.pc = pc, !.row = x].cancel
                   /\ ~[k EXCEPT !.attempt = x, !.pc = pc].cancel
                   /\ ~[k EXCEPT !.pc = pc, !.wake = x].cancel
    BY <1>1 DEF Tasks
  <2>2. CASE StepZonesFetched(t)
    <3>1. PICK x : tasks'[t] = [k EXCEPT !.zones = x,
                                  !.pc = IF k.steps[Position(k)] \in x THEN "start" ELSE "mark_skipped"]
      BY <1>1, <2>2 DEF StepZonesFetched, Becomes
    <3>2. PICK pc : pc = IF k.steps[Position(k)] \in x THEN "start" ELSE "mark_skipped"
      OBVIOUS
    <3>3. tasks'[t] = [k EXCEPT !.zones = x, !.pc = pc]
      BY <3>1, <3>2
    <3> QED BY <2>1, <3>3
  <2>3. CASE StartFails(t)
    <3>1. PICK pc : tasks'[t] = [k EXCEPT !.attempt = 2, !.pc = pc]
      BY <1>1, <2>3 DEF StartFails, Becomes
    <3> QED BY <2>1, <3>1
  <2>4. CASE ZonesFetched(t)
    <3>1. tasks'[t] = [k EXCEPT !.pc = "insert_running", !.zones = enabled_zones]
      BY <1>1, <2>4 DEF ZonesFetched, Becomes
    <3> QED BY <2>1, <3>1
  <2>5. CASE RunInserted(t)
    <3>1. tasks'[t] = [k EXCEPT !.pc = "fetch_step_zones", !.row = Len(program_runs) + 1]
      BY <1>1, <2>5 DEF RunInserted, Becomes
    <3> QED BY <2>1, <3>1
  <2>6. CASE StepStarted(t)
    <3>1. tasks'[t] = [k EXCEPT !.pc = "sleep", !.wake = now + StepMinutes]
      BY <1>1, <2>6 DEF StepStarted, Becomes
    <3> QED BY <2>1, <3>1
  <2> QED BY <1>8, <2>2, <2>3, <2>4, <2>5, <2>6
<1>9. CASE StepEnds(t)
  <2>1. k.pc \in {"mark_skipped", "mark_failed", "mark_completed"} /\ tasks'[t] = AfterStep(k, StepMark[k.pc])
    BY <1>1, <1>9 DEF StepEnds, At, Becomes
  <2>2. PICK m : m = [k EXCEPT !.outcomes = Append(@, StepMark[k.pc]), !.attempt = 1, !.wake = None, !.pc = "mark"]
    OBVIOUS
  <2>3. m.cancel = k.cancel /\ DOMAIN m = DOMAIN k /\ {"pc", "status", "cancel"} \subseteq DOMAIN m
    BY <1>1, <2>2 DEF Tasks
  <2>4. \/ tasks'[t] = [m EXCEPT !.pc = "fetch_step_zones"]
        \/ tasks'[t] = [m EXCEPT !.pc = "stop"]
        \/ tasks'[t] = [m EXCEPT !.pc = "finish", !.status = Summarize(m.outcomes)]
    BY <2>1, <2>2 DEF AfterStep
  <2>5. tasks'[t].cancel = m.cancel
    BY <2>3, <2>4
  <2> QED BY <2>3, <2>5
<1> QED BY <1>6, <1>7, <1>8, <1>9 DEF RunTaskStep

-----------------------------------------------------------------------------
(* Past the boot, every row in progress has its run.                       *)

\* The rows that runs own.
OwnedRows == {tasks[t].row : t \in Slots}

\* A step of a run leaves no row in progress behind.
LEMMA RunOrphans ==
  ASSUME TypeInd, HistoryInd, OrphanInd, NEW t \in Slots, faults >= MaxFaults, RunTaskStep(t)
  PROVE  OrphanInd'
PROOF
<1> DEFINE k == tasks[t]
<1>1. /\ k \in Tasks /\ tasks \in [Slots -> Tasks] /\ k.item \in Items /\ Linked(k) /\ TaskShape(k)
      /\ UNCHANGED <<loop, orphans_finalized>>
  BY RunStepIsBusy DEF TypeInd, TypeOK, RunsOK, Tasks, HistoryInd, OwnRows, TaskUnchanged, config
<1>2. CASE loop.pc = "stopped"
  BY <1>1, <1>2 DEF OrphanInd
<1>3. CASE loop.pc # "stopped"
  <2>1. \A s \in Slots : ~tasks[s].cancel
    BY <1>3 DEF OrphanInd
  <2>2. PICK n : tasks' = [tasks EXCEPT ![t] = n]
    BY RunGoesOnAs
  <2>3. \A s \in Slots : ~tasks'[s].cancel
    BY <2>1, NoneCancelled
  <2>4. QuietStep(t)
    BY <2>1, RunQuiet
  <2>5. \A s \in Slots \ {t} : tasks'[s] = tasks[s]
    BY <1>1, <2>2
  <2>6. ASSUME orphans_finalized PROVE RunningRows' \subseteq OwnedRows'
    <3>1. RunningRows \subseteq OwnedRows
      BY <1>3, <2>6 DEF OrphanInd, OwnedRows
    <3>2. CASE SameRunning /\ tasks'[t].row = k.row
      <4>1. \A s \in Slots : tasks'[s].row = tasks[s].row
        BY <2>5, <3>2
      <4> QED BY <3>1, <3>2, <4>1 DEF SameRunning, OwnedRows
    <3>3. CASE ZoneStarts(t)
      <4>1. SameRunning
        BY <3>3, WateredRunning
      <4>2. tasks'[t].row = k.row
        BY <1>1, <3>3, SameRowOn DEF ZoneStarts
      <4> QED BY <3>2, <4>1, <4>2
    <3>4. CASE RunFinished(t)
      <4>1. RunningRows' = RunningRows \ {k.row}
        BY <3>4, FinishedRunning
      <4> QED BY <2>5, <3>1, <4>1 DEF OwnedRows
    <3>5. CASE RunInserted(t)
      <4>1. RunningRows' = RunningRows \cup {tasks'[t].row} /\ k.row = None /\ None \notin RunningRows
        BY <3>5, BegunRunning
      <4> QED BY <2>5, <3>1, <4>1 DEF OwnedRows
    <3> QED BY <2>4, <3>2, <3>3, <3>4, <3>5 DEF QuietStep
  <2> QED BY <1>1, <2>3, <2>6 DEF OrphanInd, OwnedRows
<1> QED BY <1>2, <1>3

\* What the loop leaves alone; a run it starts has no row.
LEMMA LoopRuns ==
  ASSUME TypeInd, HistoryInd, LoopStep
  PROVE  /\ UNCHANGED <<hw, boot>> /\ loop.pc # "stopped"
         /\ FinalizeOrphans \/ FinalizeFails \/ UNCHANGED orphans_finalized
         /\ FinalizeFails => Fault
         /\ \A t \in Slots : tasks'[t].row = tasks[t].row /\ (tasks'[t] = tasks[t] \/ (tasks'[t].row = None /\ ~tasks'[t].cancel))
PROOF
<1>1. /\ UNCHANGED <<hw, boot>> /\ loop.pc # "stopped"
      /\ FinalizeOrphans \/ FinalizeFails \/ UNCHANGED orphans_finalized
      /\ FinalizeFails => Fault
      /\ PumpStarts \/ UNCHANGED tasks
  BY DEF LoopStep, TickBegins, FinalizeOrphans, FinalizeFails, FetchPrograms, FetchSteps, ReadRunKeys, ClaimRequests,
         RefreshFails, RefreshDone, AdmitStep, IgnoreRequest, OverflowRequest, AdmitRequest, InsertRequestMissed,
         RequestsAdmitted, EvaluateProgram, SkipOccurrence, MissOccurrence, AdmitOccurrence, InsertMissed, EvaluateDone,
         PumpIdle, PumpDrops, PumpStarts, LoopUnchanged, AdmitUnchanged, EvaluateUnchanged, PumpUnchanged, Awaits, config, env
<1>2. ASSUME PumpStarts, NEW t \in Slots
      PROVE  tasks'[t].row = tasks[t].row /\ (tasks'[t] = tasks[t] \/ (tasks'[t].row = None /\ ~tasks'[t].cancel))
  <2>1. PICK s \in Slots : tasks[s].pc = "idle" /\ tasks' = [tasks EXCEPT ![s] = RunTask(Head(queue))]
    BY <1>2 DEF PumpStarts, FreeSlot
  <2>2. tasks \in [Slots -> Tasks]
    BY DEF TypeInd, TypeOK, RunsOK
  <2>3. tasks[s].row = None /\ RunTask(Head(queue)).row = None /\ ~RunTask(Head(queue)).cancel
    BY <2>1 DEF HistoryInd, OwnRows, Linked, Rowless, RunTask, IdleTask, OwnerPcs, RunPcs, HandlerPcs
  <2> QED BY <2>1, <2>2, <2>3
<1> QED BY <1>1, <1>2

\* The loop closes what an earlier life left, and leaves no row in progress.
LEMMA LoopOrphans ==
  ASSUME TypeInd, QueueInd, HistoryInd, OrphanInd, faults >= MaxFaults, LoopStep PROVE OrphanInd'
PROOF
<1>1. /\ loop.pc # "stopped" /\ ~FinalizeFails
      /\ FinalizeOrphans \/ UNCHANGED orphans_finalized
      /\ \A t \in Slots : tasks'[t].row = tasks[t].row /\ (tasks'[t] = tasks[t] \/ ~tasks'[t].cancel)
  BY LoopRuns, BoundAssumption DEF Fault, TypeInd, TypeOK, EnvOK
<1>2. \A t \in Slots : ~tasks'[t].cancel
  BY <1>1 DEF OrphanInd
<1>3. OwnedRows' = OwnedRows
  BY <1>1 DEF OwnedRows
<1>4. orphans_finalized' => RunningRows' \subseteq OwnedRows'
  <2>1. CASE FinalizeOrphans
    <3>1. RunningRows' = {}
      BY <2>1, FinalizedRunning DEF FinalizeOrphans
    <3> QED BY <3>1
  <2>2. CASE ~FinalizeOrphans
    BY <1>1, <1>3, <2>2, LoopRunning DEF OrphanInd, OwnedRows, SameRunning
  <2> QED BY <2>1, <2>2
<1> QED BY <1>2, <1>4 DEF OrphanInd, OwnedRows

\* A restart has all orphans before it.
LEMMA RestartOrphans == ASSUME Restart PROVE OrphanInd'
  BY DEF Restart, OrphanInd, IdleTask

\* A shutdown cancels once the loop is stopped.
LEMMA CallOrphans ==
  ASSUME StopCalls \cup ManualCalls = {}, TypeInd, RestartInd, OrphanInd, NEW c \in Calls, CallStep(c)
  PROVE  OrphanInd'
PROOF
<1>1. c \in ShutdownCalls
  BY DEF Calls
<1>2. CASE CancelActive(c)
  <2>1. UNCHANGED loop /\ calls[c].pc = "stopping"
    BY <1>1, <1>2 DEF CancelActive, CallUnchanged, Arrives
  <2>2. loop.pc = "stopped"
    BY <1>1, <2>1 DEF RestartInd, ShutdownAlone, InCall
  <2> QED BY <2>1, <2>2 DEF OrphanInd
<1>3. CASE ItemCleared(c)
  <2>1. PICK item : item = Head(calls[c].items)
    OBVIOUS
  <2>2. /\ Inserts(item, "cancelled", <<>>) \/ InsertFails(item, "cancelled", <<>>)
        /\ calls[c].pc = "clearing" /\ UNCHANGED <<tasks, loop, orphans_finalized>>
    BY <1>3, <2>1 DEF ItemCleared, CallUnchanged, config
  <2>3. item \in Items
    <3>1. calls[c] \in CallRecords /\ calls[c].items # <<>>
      BY <2>2 DEF TypeInd, TypeOK, CallsOK, CallShape
    <3> QED BY <2>1, <3>1, HeadTailProperties DEF CallRecords
  <2>4. SameRunning
    BY <2>2, <2>3, InsertedRunning DEF Statuses
  <2> QED BY <2>2, <2>4 DEF OrphanInd, SameRunning
<1>4. CASE Command(c)
  BY <1>4 DEF Command, CallUnchanged, OrphanInd, RunningRows, config
<1>5. CASE ShutdownBegins(c)
  <2>1. loop'.pc = "stopped"
    BY <1>5 DEF ShutdownBegins, IdleLoop
  <2> QED BY <2>1 DEF OrphanInd
<1>6. CASE ShutdownEnds(c)
  BY <1>6, RestartOrphans DEF ShutdownEnds
<1> QED BY <1>2, <1>3, <1>4, <1>5, <1>6 DEF CallStep, StopClears, ManualHolds

\* OrphanInd is inductive when no call fails and only shutdowns cancel.
LEMMA NextOrphans ==
  ASSUME StopCalls \cup ManualCalls = {}, MaxFaults = 0
  PROVE  TypeInd /\ QueueInd /\ HistoryInd /\ RestartInd /\ OrphanInd /\ [Next]_vars => OrphanInd'
PROOF
<1> SUFFICES ASSUME TypeInd, QueueInd, HistoryInd, RestartInd, OrphanInd, [Next]_vars PROVE OrphanInd'
  OBVIOUS
<1>1. faults >= MaxFaults
  BY DEF TypeInd, TypeOK, EnvOK
<1>2. CASE UNCHANGED vars
  BY <1>2 DEF vars, db, OrphanInd, RunningRows
<1>3. CASE WebStep \/ ClockTick \/ Notify
  <2>1. UNCHANGED <<tasks, loop, orphans_finalized>>
    BY <1>3 DEF WebStep, ClockTick, Notify, SaveProgram, ToggleProgram, DeleteProgram, ToggleZone, RunNow, QuickRun, Request,
       Edit, WebUnchanged, config
  <2>2. SameRunning
    BY <1>3, WebRunning
  <2> QED BY <2>1, <2>2 DEF OrphanInd, SameRunning
<1>4. CASE LoopStep
  BY <1>1, <1>4, LoopOrphans
<1>5. CASE Crash
  BY <1>5, RestartOrphans DEF Crash
<1>6. ASSUME NEW t \in Slots, RunTaskStep(t) PROVE OrphanInd'
  BY <1>1, <1>6, RunOrphans
<1>7. ASSUME NEW c \in Calls, CallStep(c) PROVE OrphanInd'
  BY <1>7, CallOrphans
<1> QED BY <1>2, <1>3, <1>4, <1>5, <1>6, <1>7 DEF Next

\* "Running row finalized as cancelled on startup", for any programs, requests,
\* edits, kills and shutdowns: past the boot's finalization every row in
\* progress belongs to a run that is alive (finalize_orphaned_runs, _execute).
\* It needs that no store call fails and that nothing but a shutdown cancels:
\* a run whose closing UPDATE fails leaves its row to the next boot.
THEOREM NoneOrphaned == ASSUME StopCalls \cup ManualCalls = {}, MaxFaults = 0 PROVE Spec => []NoOrphans
PROOF
<1>1. Init => OrphanInd
  BY DEF Init, OrphanInd, IdleTask
<1>2. OrphanInd => NoOrphans
  BY DEF OrphanInd, NoOrphans, RunningRows
<1> QED BY <1>1, <1>2, RestartInvariant, NextOrphans, PTL DEF Spec

-----------------------------------------------------------------------------
(* A stop-all that comes alone and finds one thing to stop.                *)

\* A set of at most one.
LEMMA AtMostOne ==
  ASSUME NEW S, IsFiniteSet(S), Cardinality(S) <= 1, NEW a \in S, NEW b \in S PROVE a = b
PROOF
<1> SUFFICES ASSUME a # b PROVE FALSE
  OBVIOUS
<1>1. IsFiniteSet({a}) /\ Cardinality({a}) = 1
  BY FS_Singleton
<1>2. Cardinality({a} \cup {b}) = 2
  <2>1. b \notin {a}
    OBVIOUS
  <2>2. Cardinality({a} \cup {b}) = Cardinality({a}) + 1
    BY <1>1, <2>1, FS_AddElement
  <2> QED BY <1>1, <2>2
<1>3. {a} \cup {b} \subseteq S /\ Cardinality(S) \in Nat
  BY FS_CardinalityType
<1>4. Cardinality({a} \cup {b}) <= Cardinality(S)
  BY <1>3, FS_Subset
<1> QED BY <1>2, <1>3, <1>4

\* What is queued was queued, or claimed, or is an occurrence not known before.
Admits ==
  \A i \in DOMAIN queue' :
    \/ \E j \in DOMAIN queue : queue'[i] = queue[j]
    \/ queue'[i] \in loop.reqs
    \/ Scheduled(queue'[i]) /\ ~Known(Key(queue'[i]))

\* Whoever waits was waiting, or has just asked.
AsksLater ==
  /\ \A w \in Waiting' : w \in Waiting \/ (w.req \in Nat /\ w.req > requested)
  /\ requested' \in Nat /\ requested <= requested'

\* A run goes on with its item, and does not come back from its handler; or its
\* item was queued.
RunsOn ==
  \A t \in Slots : tasks'[t].pc # "idle" =>
    \/ /\ tasks[t].pc # "idle" /\ tasks'[t].item = tasks[t].item
       /\ Leaving(tasks[t]) => Leaving(tasks'[t])
    \/ \E i \in DOMAIN queue : tasks'[t].item = queue[i]

\* A stop-all goes on as it was.
CallGoesOn(c) ==
  Lone(c)' =>
    /\ Lone(c) /\ calls'[c].seen = calls[c].seen
    /\ calls[c].pc = "cancelling" => calls'[c].pc = "cancelling" /\ calls'[c].task = calls[c].task

Leaves(c) ==
  Lone(c) =>
    \A item \in calls[c].seen :
      /\ Spent(item)
      /\ \A t \in Slots : tasks[t].pc # "idle" /\ tasks[t].item = item =>
           calls[c].pc = "cancelling" /\ t = calls[c].task /\ Leaving(tasks[t])

\* What is spent stays so.
LEMMA SpentStays ==
  ASSUME TypeInd, QueueInd, Remembers, Admits, AsksLater, NEW item \in Items, Spent(item) PROVE Spent(item)'
PROOF
<1>1. item.program \in Programs \cup {NoProgram} /\ item.at \in Times /\ item.req \in Nat
  BY DEF Items
<1>2. requested \in Nat /\ requested' \in Nat /\ requested <= requested'
  BY DEF TypeInd, TypeOK, EnvOK, AsksLater
<1>3. CASE Scheduled(item)
  <2>1. Known(Key(item)) /\ item.at \in Nat
    BY <1>1, <1>3 DEF Spent, Scheduled, Times
  <2>2. Known(Key(item))'
    BY <1>1, <2>1 DEF Remembers, Key
  <2>3. item \notin loop.reqs
    BY <1>3 DEF QueueInd, RequestsOrdered, Scheduled
  <2>4. \A i \in DOMAIN queue' : queue'[i] # item
    BY <2>1, <2>3 DEF Admits, Spent
  <2> QED BY <1>3, <2>2, <2>4 DEF Spent, Scheduled, Key
<1>4. CASE ~Scheduled(item)
  <2>1. item.req <= requested /\ item \notin Waiting
    BY <1>4 DEF Spent
  <2>2. item \notin Waiting' /\ item.req <= requested'
    BY <1>1, <1>2, <2>1 DEF AsksLater
  <2>3. \A i \in DOMAIN queue' : queue'[i] # item
    BY <1>4, <2>2 DEF Waiting, Scheduled
  <2> QED BY <1>4, <2>2, <2>3 DEF Spent, Scheduled
<1> QED BY <1>3, <1>4

\* A stop-all that goes on as it was still has what it found leaving.
LEMMA LeavesStays ==
  ASSUME TypeInd, QueueInd, Remembers, Admits, AsksLater, RunsOn, NEW c \in StopCalls, Leaves(c), CallGoesOn(c)
  PROVE  Leaves(c)'
PROOF
<1> SUFFICES ASSUME Lone(c)', NEW item \in calls'[c].seen
             PROVE  /\ Spent(item)'
                    /\ \A t \in Slots : tasks'[t].pc # "idle" /\ tasks'[t].item = item =>
                         calls'[c].pc = "cancelling" /\ t = calls'[c].task /\ Leaving(tasks'[t])
  BY DEF Leaves, Leaving
<1>1. Lone(c) /\ item \in calls[c].seen
  BY DEF CallGoesOn
<1>2. calls \in [Calls -> CallRecords] /\ c \in Calls
  BY DEF TypeInd, TypeOK, CallsOK, Calls
<1>3. item \in Items
  BY <1>1, <1>2 DEF CallRecords
<1>4. Spent(item)
  BY <1>1 DEF Leaves
<1>5. ASSUME NEW t \in Slots, tasks'[t].pc # "idle", tasks'[t].item = item
      PROVE  calls'[c].pc = "cancelling" /\ t = calls'[c].task /\ Leaving(tasks'[t])
  <2>1. ~ \E i \in DOMAIN queue : tasks'[t].item = queue[i]
    BY <1>4, <1>5 DEF Spent
  <2>2. tasks[t].pc # "idle" /\ tasks[t].item = item /\ (Leaving(tasks[t]) => Leaving(tasks'[t]))
    BY <1>5, <2>1 DEF RunsOn
  <2>3. calls[c].pc = "cancelling" /\ t = calls[c].task /\ Leaving(tasks[t])
    BY <1>1, <2>2 DEF Leaves
  <2> QED BY <2>2, <2>3 DEF CallGoesOn
<1> QED BY <1>3, <1>4, <1>5, SpentStays

\* Runs that go on were asked for before whoever waits.
LEMMA RanBeforeStays ==
  ASSUME TypeInd, QueueInd, AsksLater, RanBefore,
         \A t \in Slots : tasks'[t].pc # "idle" => tasks[t].pc # "idle" /\ tasks'[t].item = tasks[t].item
  PROVE  RanBefore'
PROOF
<1>1. requested \in Nat /\ requested' \in Nat /\ requested <= requested'
      /\ \A t \in Slots : tasks[t].item.req \in Nat
  BY OrderTypes DEF AsksLater
<1> SUFFICES ASSUME NEW t \in Slots, tasks'[t].pc # "idle", ~Scheduled(tasks'[t].item)
             PROVE  tasks'[t].item.req <= requested' /\ \A w \in Waiting' : tasks'[t].item.req < w.req
  BY DEF RanBefore, Scheduled
<1>2. tasks[t].pc # "idle" /\ tasks'[t].item = tasks[t].item
  OBVIOUS
<1>3. tasks[t].item.req <= requested /\ \A w \in Waiting : tasks[t].item.req < w.req
  BY <1>2 DEF RanBefore
<1>4. ASSUME NEW w \in Waiting' PROVE tasks[t].item.req < w.req
  <2>1. CASE w \in Waiting
    BY <1>3, <2>1
  <2>2. CASE w.req \in Nat /\ w.req > requested
    BY <1>1, <1>3, <2>2
  <2> QED BY <2>1, <2>2 DEF AsksLater
<1> QED BY <1>1, <1>2, <1>3, <1>4

\* A run that leaves keeps leaving, or is gone.
LEMMA LeavingLeaves ==
  ASSUME TypeInd, NEW t \in Slots, RunTaskStep(t), Leaving(tasks[t]) PROVE tasks'[t].pc = "idle" \/ Leaving(tasks'[t])
PROOF
<1> DEFINE k == tasks[t]
           handler == HandlerPcs \ {"cancel_record"}
<1>1. k \in Tasks /\ tasks \in [Slots -> Tasks]
  BY DEF TypeInd, TypeOK, RunsOK
<1>2. \A n : Becomes(t, n) => tasks'[t] = n
  BY <1>1 DEF Becomes
<1>3. Exits(t) => tasks'[t].pc = "idle"
  BY <1>2 DEF Exits, IdleTask
<1>4. \A pc, status : Ends(t, pc, status) => tasks'[t].pc = pc
  <2>1. \A pc, status : [k EXCEPT !.pc = pc, !.status = status, !.cancel = FALSE].pc = pc
    BY <1>1 DEF Tasks
  <2> QED BY <1>2, <2>1 DEF Ends
<1>5. \A n : n.pc \in handler => Leaving(n)
  BY DEF Leaving
<1>6. k.pc \in handler \/ (k.cancel /\ k.pc \in RunPcs)
  BY DEF Leaving
<1>7. CASE Cancelling(t, RunPcs) \/ Cancelling(t, HandlerPcs)
  <2>1. CASE CancelRun(t)
    <3>1. tasks'[t].pc \in {"cancel_mark", "cancel_finish"}
      BY <1>4, <2>1 DEF CancelRun
    <3> QED BY <1>5, <3>1 DEF HandlerPcs
  <2>2. CASE CancelHandler(t)
    BY <1>3, <2>2 DEF CancelHandler
  <2>3. CancelRun(t) \/ CancelHandler(t)
    <3>1. k.cancel /\ ~Quiet /\ k.pc \in RunPcs \cup handler
      BY <1>6, <1>7 DEF Cancelling, Quiet
    <3>2. ~RunBegins(t) /\ ~CancelUnstarted(t) /\ ~CancelSetup(t)
      BY <3>1 DEF RunBegins, CancelUnstarted, CancelSetup, Cancelling, SetupPcs, RunPcs, HandlerPcs
    <3> QED BY <3>1, <3>2 DEF RunTaskStep, RainDelayRead, WeatherDecided, TerminalRecorded, ZonesFetched, RunInserted,
         SetupFails, StepZonesFetched, ZoneStarts, StartFails, StartReplies, StartRepliesUntracked, StepStarted,
         StepSlept, StepEnds, RunStops, RunFinished, RunCrashes, InFlightCancelled, HandlerFails, At
  <2> QED BY <2>1, <2>2, <2>3
<1>8. CASE ~Cancelling(t, RunPcs) /\ ~Cancelling(t, HandlerPcs)
  <2>1. ~CancelRun(t) /\ ~CancelHandler(t)
    BY <1>8 DEF CancelRun, CancelHandler
  <2>2. CASE k.pc \in handler
    <3>1. k.pc \in {"cancel_mark", "cancel_finish", "crash_stop", "crash_finish"}
      BY <2>2 DEF HandlerPcs
    <3>2. InFlightCancelled(t) \/ HandlerFails(t) \/ RunStops(t) \/ RunFinished(t)
      BY <2>1, <3>1 DEF RunTaskStep, RunBegins, RainDelayRead, WeatherDecided, TerminalRecorded, ZonesFetched,
         RunInserted, SetupFails, StepZonesFetched, ZoneStarts, StartFails, StartReplies, StartRepliesUntracked,
         StepStarted, StepSlept, StepEnds, RunCrashes, CancelUnstarted, CancelSetup, At, Cancelling, SetupPcs
    <3>3. CASE InFlightCancelled(t)
      <4>1. tasks'[t].pc = "cancel_finish"
        BY <1>4, <3>3 DEF InFlightCancelled
      <4> QED BY <1>5, <4>1 DEF HandlerPcs
    <3>4. CASE RunStops(t)
      <4>1. tasks'[t].pc = "crash_finish"
        BY <1>4, <3>1, <3>4 DEF RunStops, At
      <4> QED BY <1>5, <4>1 DEF HandlerPcs
    <3>5. CASE HandlerFails(t) \/ RunFinished(t)
      BY <1>3, <3>5 DEF HandlerFails, RunFinished
    <3> QED BY <3>2, <3>3, <3>4, <3>5
  <2>3. CASE k.cancel /\ k.pc \in RunPcs
    <3>1. ~Yielded /\ ~Quiet
      BY <1>8, <2>3 DEF Cancelling, Quiet, Settled
    <3> QED BY <2>3, <3>1 DEF RunTaskStep, RunBegins, RainDelayRead, WeatherDecided, TerminalRecorded, ZonesFetched,
         RunInserted, SetupFails, StepZonesFetched, ZoneStarts, StartFails, StartReplies, StartRepliesUntracked,
         StepStarted, StepSlept, StepEnds, RunStops, RunFinished, RunCrashes, InFlightCancelled, HandlerFails,
         CancelUnstarted, CancelSetup, CancelRun, CancelHandler, At, Cancelling, Settled
  <2> QED BY <1>6, <2>2, <2>3
<1> QED BY <1>7, <1>8

\* Items that only leave the queue were there.
LEMMA ShrinkAdmits == ASSUME QueueShrinks PROVE Admits
  BY DEF QueueShrinks, Admits

\* Nobody joins those who wait.
LEMMA StillAsks ==
  ASSUME TypeInd, requested' = requested, loop'.reqs \cup run_requests' \subseteq loop.reqs \cup run_requests,
         \A i \in DOMAIN queue' : ~Scheduled(queue'[i]) => queue'[i] \in Waiting
  PROVE  AsksLater
PROOF
<1>1. requested \in Nat
  BY DEF TypeInd, TypeOK, EnvOK
<1>2. \A w \in Waiting' : w \in Waiting
  BY DEF Waiting, Scheduled
<1> QED BY <1>1, <1>2 DEF AsksLater

\* What only leaves the queue was waiting.
LEMMA ShrinkAsks ==
  ASSUME TypeInd, QueueShrinks, requested' = requested,
         loop'.reqs \cup run_requests' \subseteq loop.reqs \cup run_requests
  PROVE  AsksLater
PROOF
<1>1. \A i \in DOMAIN queue' : ~Scheduled(queue'[i]) => queue'[i] \in Waiting
  BY DEF QueueShrinks, Waiting, Scheduled
<1> QED BY <1>1, StillAsks

\* Steps in which every stop-all goes on as it was.
LEMMA StopKept ==
  ASSUME TypeInd, QueueInd, Remembers, Admits, AsksLater, RunsOn, StopInd, boot' = boot, RanBefore',
         \A c \in StopCalls : CallGoesOn(c)
  PROVE  StopInd'
PROOF
<1>1. \A c \in StopCalls : Leaves(c)
  BY DEF StopInd, FoundLeaves, Leaves
<1>2. \A c \in StopCalls : Leaves(c)'
  BY <1>1, LeavesStays
<1>3. FoundLeaves'
  BY <1>2 DEF FoundLeaves, Leaves, Lone, Spent, Leaving
<1> QED BY <1>3 DEF StopInd

\* Steps that leave the runs and the calls alone.
LEMMA StopStays ==
  ASSUME TypeInd, QueueInd, Remembers, Admits, AsksLater, StopInd, UNCHANGED <<tasks, calls, boot>>
  PROVE  StopInd'
PROOF
<1>1. RunsOn
  BY DEF RunsOn, Leaving
<1>2. \A c \in StopCalls : CallGoesOn(c)
  BY DEF CallGoesOn, Lone
<1>3. RanBefore'
  BY RanBeforeStays DEF StopInd
<1> QED BY <1>1, <1>2, <1>3, StopKept

\* A step of a run: it goes on with its item, or is gone.
LEMMA RunStop ==
  ASSUME TypeInd, TypeInd', QueueInd, RestartInd, StopInd, NEW t \in Slots, RunTaskStep(t) PROVE StopInd'
PROOF
<1>1. /\ tasks \in [Slots -> Tasks] /\ tasks[t].pc # "idle"
      /\ UNCHANGED <<queue, loop, run_requests, requested, calls, boot>>
  BY RunStepIsBusy DEF TypeInd, TypeOK, RunsOK, TaskUnchanged
<1>2. PICK n : tasks' = [tasks EXCEPT ![t] = n] /\ (n.pc # "idle" => n.item = tasks[t].item)
  BY RunGoesOnAs
<1>3. tasks'[t] = n /\ \A s \in Slots \ {t} : tasks'[s] = tasks[s]
  BY <1>1, <1>2
<1>4. \A s \in Slots : tasks'[s].pc # "idle" => tasks[s].pc # "idle" /\ tasks'[s].item = tasks[s].item
  BY <1>1, <1>2, <1>3
<1>5. \A s \in Slots : tasks'[s].pc # "idle" /\ Leaving(tasks[s]) => Leaving(tasks'[s])
  BY <1>3, LeavingLeaves
<1>6. RunsOn
  BY <1>4, <1>5 DEF RunsOn
<1>7. Remembers
  BY OthersWindow DEF RestartInd, WindowOK
<1>8. QueueShrinks
  BY <1>1 DEF QueueShrinks
<1>9. Admits /\ AsksLater
  BY <1>1, <1>8, ShrinkAdmits, ShrinkAsks
<1>10. RanBefore'
  BY <1>4, <1>9, RanBeforeStays DEF StopInd
<1>11. \A c \in StopCalls : CallGoesOn(c)
  BY <1>1 DEF CallGoesOn, Lone
<1> QED BY <1>1, <1>6, <1>7, <1>9, <1>10, <1>11, StopKept

\* The tick, its orphans and its refresh.
LEMMA TickStop ==
  ASSUME TypeInd, TypeInd', QueueInd, RestartInd, StopInd,
         \/ TickBegins \/ FinalizeOrphans \/ FinalizeFails \/ FetchPrograms \/ FetchSteps \/ ReadRunKeys
         \/ ClaimRequests \/ RefreshFails \/ RefreshDone
  PROVE  StopInd'
PROOF
<1>1. UNCHANGED <<tasks, calls, queue, requested, boot>>
  BY DEF TickBegins, FinalizeOrphans, FinalizeFails, FetchPrograms, FetchSteps, ReadRunKeys, ClaimRequests,
         RefreshFails, RefreshDone, LoopUnchanged
<1>2. Remembers
  BY TickWindow, ReadWindow, RefreshedWindow DEF RestartInd, WindowOK
<1>3. QueueShrinks
  BY <1>1 DEF QueueShrinks
<1>4. Admits /\ AsksLater
  BY <1>1, <1>3, ShrinkAdmits, ShrinkAsks, TickRequests
<1> QED BY <1>1, <1>2, <1>4, StopStays

\* A request is queued, ignored or missed: none that waited not.
LEMMA AdmitStop ==
  ASSUME TypeInd, TypeInd', QueueInd, RestartInd, StopInd, AdmitStep \/ RequestsAdmitted PROVE StopInd'
PROOF
<1>1. UNCHANGED <<tasks, calls, requested, run_requests, boot>>
  BY DEF AdmitStep, RequestsAdmitted, IgnoreRequest, OverflowRequest, AdmitRequest, InsertRequestMissed,
         AdmitUnchanged, LoopUnchanged
<1>2. Remembers
  BY AdmitWindow DEF RestartInd, WindowOK
<1>3. queue \in Seq(Items) /\ loop.reqs \subseteq Items
  BY DEF TypeInd, TypeOK, QueueOK, Loops
<1>4. \A i \in DOMAIN queue' : queue'[i] \in loop.reqs \/ \E j \in DOMAIN queue : queue'[i] = queue[j]
  <2>1. CASE UNCHANGED queue
    BY <2>1
  <2>2. ASSUME NEW req \in loop.reqs, AdmitRequest(req)
        PROVE  \A i \in DOMAIN queue' : queue'[i] \in loop.reqs \/ \E j \in DOMAIN queue : queue'[i] = queue[j]
    <3>1. PICK i \in 1 .. Len(queue) + 1 : queue' = InsertAt(queue, i, req)
      BY <2>2 DEF AdmitRequest
    <3>2. req \in Items
      BY <1>3
    <3>3. \A j \in DOMAIN queue' : queue'[j] = req \/ \E m \in DOMAIN queue : queue'[j] = queue[m]
      BY <1>3, <3>1, <3>2, Inserted
    <3> QED BY <3>3
  <2>3. UNCHANGED queue \/ \E req \in loop.reqs : AdmitRequest(req)
    BY DEF AdmitStep, RequestsAdmitted, IgnoreRequest, OverflowRequest, InsertRequestMissed
  <2> QED BY <2>1, <2>2, <2>3
<1>5. Admits
  BY <1>4 DEF Admits
<1>6. \A i \in DOMAIN queue' : ~Scheduled(queue'[i]) => queue'[i] \in Waiting
  BY <1>4 DEF Waiting
<1>7. AsksLater
  BY <1>1, <1>6, StillAsks, AdmitRequests
<1> QED BY <1>1, <1>2, <1>5, <1>7, StopStays

\* An occurrence that is queued was not known, so no stop-all has found it.
LEMMA EvaluateStop ==
  ASSUME TypeInd, TypeInd', QueueInd, RestartInd, StopInd,
         EvaluateProgram \/ SkipOccurrence \/ MissOccurrence \/ AdmitOccurrence \/ InsertMissed \/ EvaluateDone
  PROVE  StopInd'
PROOF
<1>1. UNCHANGED <<tasks, calls, requested, run_requests, boot>>
  BY DEF EvaluateProgram, SkipOccurrence, MissOccurrence, AdmitOccurrence, InsertMissed, EvaluateDone,
         EvaluateUnchanged, LoopUnchanged
<1>2. Remembers
  BY EvaluateWindow DEF RestartInd, WindowOK
<1>3. loop'.reqs = loop.reqs
  BY EvaluateRequests
<1>4. CASE UNCHANGED queue
  <2>1. QueueShrinks
    BY <1>4 DEF QueueShrinks
  <2>2. Admits /\ AsksLater
    BY <1>1, <1>3, <2>1, ShrinkAdmits, ShrinkAsks
  <2> QED BY <1>1, <1>2, <2>2, StopStays
<1>5. CASE AdmitOccurrence
  <2>1. PICK occ \in loop.work : /\ ~Skipped(loop.program, occ)
                                 /\ queue' = Append(queue, Item(loop.program, occ, 0, <<>>))
    BY <1>5 DEF AdmitOccurrence
  <2>2. PICK item : item = Item(loop.program, occ, 0, <<>>)
    OBVIOUS
  <2>3. ~Known(<<loop.program, occ>>) /\ occ \in Nat
    BY <1>5, <2>1, EvaluatedUnknown DEF RestartInd, AdmitOccurrence
  <2>4. Key(item) = <<loop.program, occ>> /\ Scheduled(item)
    BY <2>2, <2>3 DEF Item, Key, Scheduled, None
  <2>5. \A i \in DOMAIN queue' : queue'[i] = item \/ \E j \in DOMAIN queue : queue'[i] = queue[j]
    <3>1. queue \in Seq(Items) /\ item \in Items
      <4>1. loop.program \in Programs \cup {NoProgram} /\ <<>> \in Seq(Zones) /\ 0 \in Nat
        BY WindowTypes
      <4> QED BY <2>2, <2>3, <4>1 DEF Item, Items, Times, TypeInd, TypeOK, QueueOK
    <3>2. /\ DOMAIN queue = 1 .. Len(queue) /\ Len(queue) \in Nat /\ DOMAIN queue' = 1 .. Len(queue) + 1
          /\ queue'[Len(queue) + 1] = item /\ \A i \in 1 .. Len(queue) : queue'[i] = queue[i]
      BY <2>1, <2>2, <3>1, AppendProperties, LenProperties
    <3>3. \A i \in DOMAIN queue' : i \in DOMAIN queue \/ i = Len(queue) + 1
      BY <3>2
    <3> QED BY <3>2, <3>3
  <2>6. Admits
    BY <2>3, <2>4, <2>5 DEF Admits
  <2>7. \A i \in DOMAIN queue' : ~Scheduled(queue'[i]) => queue'[i] \in Waiting
    BY <2>4, <2>5 DEF Waiting
  <2>8. AsksLater
    BY <1>1, <1>3, <2>7, StillAsks
  <2> QED BY <1>1, <1>2, <2>6, <2>8, StopStays
<1> QED BY <1>4, <1>5 DEF EvaluateProgram, SkipOccurrence, MissOccurrence, InsertMissed, EvaluateDone

\* The pump starts the run that waited longest; what a stop-all has found does
\* not wait.
LEMMA PumpStop ==
  ASSUME TypeInd, TypeInd', QueueInd, RestartInd, StopInd, PumpIdle \/ PumpDrops \/ PumpStarts PROVE StopInd'
PROOF
<1>1. /\ UNCHANGED <<run_requests, calls, requested, boot>>
      /\ loop \in Loops /\ queue \in Seq(Items) /\ tasks \in [Slots -> Tasks]
      /\ DOMAIN queue = 1 .. Len(queue) /\ Len(queue) \in Nat
  BY LenProperties
     DEF PumpIdle, PumpDrops, PumpStarts, PumpUnchanged, db, env, TypeInd, TypeOK, QueueOK, RunsOK
<1>2. Remembers
  BY PumpWindow DEF RestartInd, WindowOK
<1>3. queue # <<>> /\ queue' = Tail(queue) =>
        /\ Head(queue) = queue[1] /\ 1 \in DOMAIN queue
        /\ \A i \in DOMAIN queue' : i + 1 \in DOMAIN queue /\ i + 1 > 1 /\ queue'[i] = queue[i + 1]
  BY QueueMovesUp
<1>4. QueueShrinks
  <2>1. queue' = queue \/ (queue # <<>> /\ queue' = Tail(queue))
    BY DEF PumpIdle, PumpDrops, PumpStarts
  <2> QED BY <1>3, <2>1 DEF QueueShrinks
<1>5. loop'.reqs = loop.reqs
  <2>1. TickEnds.reqs = loop.reqs
    BY <1>1 DEF TickEnds, Loops
  <2> QED BY <2>1 DEF PumpIdle, PumpDrops, PumpStarts
<1>6. Admits /\ AsksLater
  BY <1>1, <1>4, <1>5, ShrinkAdmits, ShrinkAsks
<1>7. CASE PumpIdle \/ PumpDrops
  <2>1. UNCHANGED tasks
    BY <1>7 DEF PumpIdle, PumpDrops
  <2> QED BY <1>1, <1>2, <1>6, <2>1, StopStays
<1>8. CASE PumpStarts
  <2> DEFINE item == Head(queue)
             k == RunTask(item)
  <2>1. PICK t \in Slots : tasks' = [tasks EXCEPT ![t] = k]
    BY <1>8 DEF PumpStarts
  <2>2. k.item = item
    BY DEF RunTask, IdleTask
  <2>3. queue # <<>> /\ queue' = Tail(queue)
    BY <1>8 DEF PumpStarts
  <2>4. item = queue[1] /\ 1 \in DOMAIN queue
    BY <1>3, <2>3
  <2> HIDE DEF k, item
  <2>5. tasks'[t].item = item /\ \A s \in Slots \ {t} : tasks'[s] = tasks[s]
    BY <1>1, <2>1, <2>2
  <2>6. RunsOn
    BY <2>4, <2>5 DEF RunsOn
  <2>7. ASSUME ~Scheduled(item), NEW w \in Waiting' PROVE item.req < w.req
    <3>1. CASE w \in run_requests \cup loop.reqs
      BY <2>4, <2>7, <3>1 DEF QueueInd, RequestsOrdered
    <3>2. CASE w \notin run_requests \cup loop.reqs
      <4>1. PICK i \in DOMAIN queue' : w = queue'[i] /\ ~Scheduled(queue'[i])
        BY <1>1, <1>5, <3>2 DEF Waiting, Scheduled
      <4>2. i + 1 \in DOMAIN queue /\ 1 < i + 1 /\ w = queue[i + 1] /\ ~Scheduled(queue[i + 1])
        <5>1. i + 1 \in DOMAIN queue /\ i + 1 > 1 /\ queue'[i] = queue[i + 1]
          BY <1>3, <2>3
        <5> QED BY <1>1, <4>1, <5>1
      <4> QED BY <2>4, <4>2 DEF QueueInd, QueueInv, ManualFifo
    <3> QED BY <3>1, <3>2
  <2>8. \A w \in Waiting' : w \in Waiting
    BY <1>1, <1>4, <1>5 DEF Waiting, QueueShrinks, Scheduled
  <2>9. RanBefore'
    <3>1. ASSUME NEW s \in Slots, tasks'[s].pc # "idle", ~Scheduled(tasks'[s].item)
          PROVE  tasks'[s].item.req <= requested /\ \A w \in Waiting' : tasks'[s].item.req < w.req
      <4>1. CASE s = t
        BY <2>4, <2>5, <2>7, <3>1, <4>1 DEF QueueInd, RequestsOrdered
      <4>2. CASE s # t
        BY <2>5, <2>8, <3>1, <4>2 DEF StopInd, RanBefore
      <4> QED BY <4>1, <4>2
    <3> QED BY <1>1, <3>1 DEF RanBefore, Scheduled
  <2>10. \A c \in StopCalls : CallGoesOn(c)
    BY <1>1 DEF CallGoesOn, Lone
  <2> QED BY <1>1, <1>2, <1>6, <2>6, <2>9, <2>10, StopKept
<1> QED BY <1>7, <1>8

\* The web app, the clock and the notifications: a new request is the last.
LEMMA WebStop ==
  ASSUME TypeInd, TypeInd', QueueInd, RestartInd, StopInd, WebStep \/ ClockTick \/ Notify PROVE StopInd'
PROOF
<1>1. UNCHANGED <<tasks, calls, queue, loop, boot>>
  BY DEF WebStep, ClockTick, Notify, SaveProgram, ToggleProgram, DeleteProgram, ToggleZone, RunNow, QuickRun,
         Request, Edit, WebUnchanged
<1>2. Remembers
  BY OthersWindow DEF RestartInd, WindowOK
<1>3. QueueShrinks
  BY <1>1 DEF QueueShrinks
<1>4. Admits
  BY <1>3, ShrinkAdmits
<1>5. requested \in Nat
  BY DEF TypeInd, TypeOK, EnvOK
<1>6. CASE run_requests' \subseteq run_requests /\ requested' = requested
  <2>1. AsksLater
    BY <1>1, <1>3, <1>6, ShrinkAsks
  <2> QED BY <1>1, <1>2, <1>4, <2>1, StopStays
<1>7. ASSUME NEW p \in Programs \cup {NoProgram}, NEW steps, Request(p, steps) PROVE StopInd'
  <2>1. /\ requested' = requested + 1
        /\ run_requests' = run_requests \cup {Item(p, None, requested + 1, steps)}
    BY <1>7 DEF Request
  <2>2. Item(p, None, requested + 1, steps).req = requested + 1
    BY DEF Item
  <2>3. requested + 1 \in Nat /\ requested + 1 > requested
    BY <1>5
  <2>4. \A w \in Waiting' : w \in Waiting \/ (w.req \in Nat /\ w.req > requested)
    BY <1>1, <2>1, <2>2, <2>3 DEF Waiting, Scheduled
  <2>5. AsksLater
    BY <1>5, <2>1, <2>3, <2>4 DEF AsksLater
  <2> QED BY <1>1, <1>2, <1>4, <2>5, StopStays
<1>8. CASE \E p \in Programs : RunNow(p)
  BY <1>7, <1>8 DEF RunNow
<1>9. CASE QuickRun
  BY <1>7, <1>9 DEF QuickRun
<1>10. CASE \/ \E p \in Programs : SaveProgram(p) \/ ToggleProgram(p) \/ DeleteProgram(p)
            \/ \E z \in Zones : ToggleZone(z)
            \/ ClockTick \/ Notify
  <2>1. run_requests' \subseteq run_requests /\ requested' = requested
    BY <1>10 DEF SaveProgram, ToggleProgram, DeleteProgram, ToggleZone, Edit, ClockTick, Notify, db
  <2> QED BY <1>6, <2>1
<1> QED BY <1>8, <1>9, <1>10 DEF WebStep

\* What a stop-all finds that comes alone: the queue and the one run, on record.
LEMMA ArrivalFinds ==
  ASSUME TypeInd, NEW c \in Calls, calls[c].pc = "ready", Arrived(c).clean
  PROVE  /\ \A t \in Slots : tasks[t].pc # "idle" =>
              t = run_task /\ tasks[t].pc \in OwnerPcs /\ tasks[t].item \in Arrived(c).seen
         /\ \A i \in DOMAIN queue : queue[i] \in Arrived(c).seen
         /\ \A item \in Arrived(c).seen :
              \/ \E i \in DOMAIN queue : item = queue[i]
              \/ \E t \in Slots : tasks[t].pc # "idle" /\ item = tasks[t].item
         /\ IsFiniteSet(Arrived(c).seen)
PROOF
<1> DEFINE items == {queue[i] : i \in DOMAIN queue}
           alive == {t \in Slots : tasks[t].pc # "idle"}
           running == {tasks[t].item : t \in alive}
<1>1. calls[c] \in CallRecords /\ tasks \in [Slots -> Tasks] /\ queue \in Seq(Items)
  BY DEF TypeInd, TypeOK, CallsOK, RunsOK, QueueOK
<1>2. \A seen, clean : /\ [calls[c] EXCEPT !.seen = seen, !.clean = clean].seen = seen
                       /\ [calls[c] EXCEPT !.seen = seen, !.clean = clean].clean = clean
  BY <1>1 DEF CallRecords
<1>3. /\ Arrived(c).seen = items \cup running
      /\ \A t \in Slots : tasks[t].pc # "idle" => t = run_task /\ tasks[t].pc \notin SetupPcs
  BY <1>2 DEF Arrived
<1>4. \A t \in Slots : tasks[t].pc \in TaskPcs
  BY <1>1 DEF Tasks
<1>5. IsFiniteSet(items)
  <2>1. DOMAIN queue = 1 .. Len(queue) /\ Len(queue) \in Nat
    BY <1>1, LenProperties
  <2>2. IsFiniteSet(DOMAIN queue)
    BY <2>1, FS_Interval
  <2>3. queue \in [DOMAIN queue -> items]
    BY <1>1, <2>1
  <2>4. queue \in Surjection(DOMAIN queue, items)
    BY <2>3 DEF Surjection
  <2> QED BY <2>2, <2>4, FS_Surjection
<1>6. IsFiniteSet(running)
  <2>1. running \subseteq {tasks[run_task].item}
    BY <1>3
  <2>2. IsFiniteSet({tasks[run_task].item})
    BY FS_Singleton
  <2> QED BY <2>1, <2>2, FS_Subset
<1>7. IsFiniteSet(items \cup running)
  BY <1>5, <1>6, FS_Union
<1> QED BY <1>3, <1>4, <1>7 DEF TaskPcs, OwnerPcs, SetupPcs

\* The run it cancels is all it has found: it is on its way out, its occurrence
\* is known, and its request no longer waits.
LEMMA ArrivalLeaves ==
  ASSUME TypeInd, QueueInd, OnceInd, StopInd, NEW c \in StopCalls, calls[c].pc = "ready", CancelActive(c)
  PROVE  Leaves(c)'
PROOF
<1> DEFINE it == tasks[run_task].item
<1>1. /\ c \in Calls /\ tasks \in [Slots -> Tasks] /\ calls \in [Calls -> CallRecords] /\ RunAlive /\ run_task \in Slots
      /\ UNCHANGED <<queue, fired, loop, now, requested, run_requests>>
      /\ tasks' = [tasks EXCEPT ![run_task].cancel = TRUE]
      /\ calls' = [calls EXCEPT ![c] = [Arrived(c) EXCEPT !.pc = "cancelling", !.task = run_task]]
  BY DEF CancelActive, CallUnchanged, CallBecomes, Calls, TypeInd, TypeOK, RunsOK, CallsOK, RunAlive
<1>2. Arrived(c) \in CallRecords
  BY <1>1, ArrivedTypes
<1>3. /\ calls'[c].pc = "cancelling" /\ calls'[c].task = run_task
      /\ calls'[c].seen = Arrived(c).seen /\ calls'[c].clean = Arrived(c).clean
  <2>1. PICK r : r = [Arrived(c) EXCEPT !.pc = "cancelling", !.task = run_task]
    OBVIOUS
  <2>2. r.pc = "cancelling" /\ r.task = run_task /\ r.seen = Arrived(c).seen /\ r.clean = Arrived(c).clean
    BY <1>2, <2>1 DEF CallRecords
  <2>3. calls'[c] = r
    BY <1>1, <2>1
  <2> QED BY <2>2, <2>3
<1> SUFFICES ASSUME Lone(c)', NEW item \in calls'[c].seen
             PROVE  /\ Spent(item)'
                    /\ \A t \in Slots : tasks'[t].pc # "idle" /\ tasks'[t].item = item =>
                         calls'[c].pc = "cancelling" /\ t = calls'[c].task /\ Leaving(tasks'[t])
  BY DEF Leaves, Leaving
<1>4. Arrived(c).clean /\ Cardinality(Arrived(c).seen) <= 1 /\ item \in Arrived(c).seen
  BY <1>3 DEF Lone
<1>5. /\ \A t \in Slots : tasks[t].pc # "idle" =>
           t = run_task /\ tasks[t].pc \in OwnerPcs /\ tasks[t].item \in Arrived(c).seen
      /\ \A i \in DOMAIN queue : queue[i] \in Arrived(c).seen
      /\ IsFiniteSet(Arrived(c).seen)
  BY <1>1, <1>4, ArrivalFinds
<1>6. tasks[run_task].pc # "idle" /\ tasks[run_task].pc \in OwnerPcs /\ it \in Arrived(c).seen
  BY <1>1, <1>5 DEF RunAlive
<1>7. \A x \in Arrived(c).seen : x = it
  BY <1>4, <1>5, <1>6, AtMostOne
<1>8. item = it /\ \A i \in DOMAIN queue : queue[i] = it
  BY <1>4, <1>5, <1>7
<1>9. it.req \in Nat
  BY <1>1, OrderTypes
<1>10. ~Scheduled(it) => it.req <= requested /\ it \notin Waiting
  <2>1. ~Scheduled(it) => it.req <= requested /\ \A w \in Waiting : it.req < w.req
    BY <1>1, <1>6 DEF StopInd, RanBefore
  <2> QED BY <1>9, <2>1
<1>11. Scheduled(it) => Known(Key(it)) /\ \A i \in DOMAIN queue : queue[i] # it
  <2>1. Scheduled(it) => Busy(run_task)
    BY <1>6 DEF Busy
  <2>2. Scheduled(it) => Known(Key(it))
    BY <1>1, <1>6, <2>1 DEF OnceInd, TouchedKnown
  <2>3. Scheduled(it) => \A i \in DOMAIN queue : queue[i] # it
    BY <1>1, <2>1 DEF OnceInd, QueuedOnce
  <2> QED BY <2>2, <2>3
<1>12. Spent(it)
  <2>1. ~Scheduled(it) => \A i \in DOMAIN queue : queue[i] # it
    BY <1>10 DEF Waiting
  <2> QED BY <1>10, <1>11, <2>1 DEF Spent
<1>13. Spent(item)'
  BY <1>1, <1>8, <1>12 DEF Spent, Waiting, Known, Horizon, Scheduled, Key
<1>14. ASSUME NEW t \in Slots, tasks'[t].pc # "idle"
       PROVE  t = run_task /\ Leaving(tasks'[t])
  <2>1. tasks'[t].pc = tasks[t].pc
    BY <1>1 DEF Tasks
  <2>2. t = run_task /\ tasks[t].pc \in OwnerPcs
    BY <1>5, <1>14, <2>1
  <2>3. tasks'[t].cancel = TRUE
    BY <1>1, <2>2 DEF Tasks
  <2> QED BY <2>1, <2>2, <2>3 DEF Leaving, OwnerPcs
<1> QED BY <1>3, <1>13, <1>14

\* The steps of a call leave the requests alone, and cancel a run at most.
LEMMA CallMoves ==
  ASSUME TypeInd, TypeInd', RestartInd, StopInd, QueueInd, NEW c \in Calls,
         CancelActive(c) \/ StopClears(c) \/ ItemCleared(c) \/ ManualHolds(c) \/ Command(c)
  PROVE  /\ Remembers /\ Admits /\ AsksLater /\ RunsOn /\ boot' = boot /\ RanBefore'
         /\ \A d \in StopCalls \ {c} : CallGoesOn(d)
PROOF
<1>1. tasks \in [Slots -> Tasks] /\ calls \in [Calls -> CallRecords]
  BY DEF TypeInd, TypeOK, RunsOK, CallsOK
<1>2. UNCHANGED <<loop, run_requests, requested, boot>>
  BY DEF CancelActive, StopClears, ItemCleared, ManualHolds, Command, CallUnchanged
<1>3. QueueShrinks
  <2>1. queue' = queue \/ queue' = <<>>
    BY DEF CancelActive, StopClears, ItemCleared, ManualHolds, Command
  <2> QED BY <2>1 DEF QueueShrinks
<1>4. Admits /\ AsksLater
  BY <1>2, <1>3, ShrinkAdmits, ShrinkAsks
<1>5. Remembers
  BY OthersWindow DEF RestartInd, WindowOK
<1>6. \A t \in Slots : /\ tasks'[t].pc = tasks[t].pc /\ tasks'[t].item = tasks[t].item
                       /\ tasks[t].cancel => tasks'[t].cancel
  <2>1. UNCHANGED tasks \/ tasks' = [tasks EXCEPT ![run_task].cancel = TRUE]
    BY DEF CancelActive, StopClears, ItemCleared, ManualHolds, Command
  <2>2. CASE tasks' = [tasks EXCEPT ![run_task].cancel = TRUE]
    BY <1>1, <2>2 DEF Tasks
  <2> QED BY <2>1, <2>2
<1>7. RunsOn
  BY <1>6 DEF RunsOn, Leaving
<1>8. RanBefore'
  BY <1>4, <1>6, RanBeforeStays DEF StopInd
<1>9. \E r : calls' = [calls EXCEPT ![c] = r]
  BY DEF CancelActive, StopClears, ItemCleared, ManualHolds, Command, ClearRest, CallBecomes
<1>10. \A d \in StopCalls \ {c} : calls'[d] = calls[d]
  BY <1>1, <1>9 DEF Calls
<1>11. \A d \in StopCalls \ {c} : CallGoesOn(d)
  BY <1>10 DEF CallGoesOn, Lone
<1> QED BY <1>2, <1>4, <1>5, <1>7, <1>8, <1>11

\* What clearing leaves of a call.
LEMMA ClearRestOf ==
  ASSUME TypeInd, NEW c \in Calls, NEW items, ClearRest(c, items)
  PROVE  /\ calls'[c].pc \in {"clearing", "command"}
         /\ calls'[c].seen = Arrived(c).seen /\ calls'[c].clean = Arrived(c).clean
         /\ items # <<>> => fired' = fired \cup Keys(Head(items))
PROOF
<1>1. Arrived(c) \in CallRecords /\ calls \in [Calls -> CallRecords]
  BY ArrivedTypes DEF TypeInd, TypeOK, CallsOK
<1>2. PICK list :
        \E pc \in {"clearing", "command"} :
          calls' = [calls EXCEPT ![c] = [Arrived(c) EXCEPT !.pc = pc, !.task = None, !.items = list]]
  BY DEF ClearRest, CallBecomes
<1>3. PICK pc \in {"clearing", "command"} :
        calls' = [calls EXCEPT ![c] = [Arrived(c) EXCEPT !.pc = pc, !.task = None, !.items = list]]
  BY <1>2
<1>4. PICK r : r = [Arrived(c) EXCEPT !.pc = pc, !.task = None, !.items = list]
  OBVIOUS
<1>5. r.pc = pc /\ r.seen = Arrived(c).seen /\ r.clean = Arrived(c).clean
  BY <1>1, <1>4 DEF CallRecords
<1>6. calls'[c] = r
  BY <1>1, <1>3, <1>4
<1> QED BY <1>5, <1>6 DEF ClearRest

\* With no run to cancel, all it has found is queued: it clears that, and marks
\* its first.
LEMMA ArrivalClears ==
  ASSUME TypeInd, QueueInd, NEW c \in StopCalls, calls[c].pc = "ready", StopClears(c)
  PROVE  Leaves(c)'
PROOF
<1>1. /\ c \in Calls /\ queue \in Seq(Items) /\ ~RunAlive /\ queue' = <<>> /\ ClearRest(c, queue)
      /\ UNCHANGED <<tasks, loop, now, requested, run_requests>>
  BY DEF StopClears, LetsGo, Resumes, CallUnchanged, Calls, TypeInd, TypeOK, QueueOK
<1>2. /\ calls'[c].seen = Arrived(c).seen /\ calls'[c].clean = Arrived(c).clean
      /\ queue # <<>> => fired' = fired \cup Keys(Head(queue))
  BY <1>1, ClearRestOf
<1> SUFFICES ASSUME Lone(c)', NEW item \in calls'[c].seen
             PROVE  /\ Spent(item)'
                    /\ \A t \in Slots : ~(tasks'[t].pc # "idle" /\ tasks'[t].item = item)
  BY DEF Leaves, Leaving
<1>3. Arrived(c).clean /\ Cardinality(Arrived(c).seen) <= 1 /\ item \in Arrived(c).seen
  BY <1>2 DEF Lone
<1>4. /\ \A t \in Slots : tasks[t].pc # "idle" => t = run_task
      /\ \A i \in DOMAIN queue : queue[i] \in Arrived(c).seen
      /\ \/ \E i \in DOMAIN queue : item = queue[i]
         \/ \E t \in Slots : tasks[t].pc # "idle" /\ item = tasks[t].item
      /\ IsFiniteSet(Arrived(c).seen)
  BY <1>1, <1>3, ArrivalFinds
<1>5. \A t \in Slots : tasks[t].pc = "idle"
  <2>1. None \notin Slots
    BY IdAssumption DEF None
  <2> QED BY <1>1, <1>4, <2>1 DEF RunAlive
<1>6. PICK i \in DOMAIN queue : item = queue[i]
  BY <1>4, <1>5
<1>7. queue # <<>> /\ Head(queue) = item
  <2>1. queue # <<>> /\ 1 \in DOMAIN queue /\ Head(queue) = queue[1]
    <3>1. DOMAIN queue = 1 .. Len(queue) /\ Len(queue) \in Nat
      BY <1>1, LenProperties
    <3>2. queue # <<>>
      BY <1>6
    <3>3. Head(queue) = queue[1]
      BY <1>1, <3>2, HeadTailProperties
    <3> QED BY <1>6, <3>1, <3>2, <3>3
  <2>2. queue[1] \in Arrived(c).seen
    BY <1>4, <2>1
  <2>3. queue[1] = item
    BY <1>3, <1>4, <2>2, AtMostOne
  <2> QED BY <2>1, <2>3
<1>8. CASE Scheduled(item)
  <2>1. Key(item) \in fired'
    BY <1>2, <1>7, <1>8 DEF Keys
  <2> QED BY <1>1, <1>5, <1>8, <2>1 DEF Spent, Known, Scheduled, Key
<1>9. CASE ~Scheduled(item)
  <2>1. item.req <= requested /\ \A r \in loop.reqs \cup run_requests : item.req < r.req
    BY <1>6, <1>9 DEF QueueInd, RequestsOrdered
  <2>2. item.req \in Nat
    <3>1. item \in Items
      BY <1>1, <1>6, LenProperties, ElementOfSeq
    <3> QED BY <3>1 DEF Items
  <2>3. item \notin Waiting'
    BY <1>1, <2>1, <2>2 DEF Waiting
  <2> QED BY <1>1, <1>5, <1>9, <2>1, <2>3 DEF Spent, Scheduled
<1> QED BY <1>8, <1>9

\* The run it waited for is over.
LEMMA ResumedClears ==
  ASSUME TypeInd, TypeInd', QueueInd, RestartInd, StopInd, ShutdownCalls = {},
         NEW c \in StopCalls, calls[c].pc # "ready", StopClears(c)
  PROVE  Leaves(c)'
PROOF
<1>1. /\ c \in Calls /\ ClearRest(c, queue) /\ UNCHANGED tasks /\ Resumes(c) /\ Arrived(c) = calls[c]
  BY DEF StopClears, LetsGo, Arrives, Calls, Arrived, InCall, CallUnchanged
<1>2. calls'[c].seen = calls[c].seen /\ calls'[c].clean = calls[c].clean
  BY <1>1, ClearRestOf
<1> SUFFICES ASSUME Lone(c)', NEW item \in calls'[c].seen
             PROVE  /\ Spent(item)'
                    /\ \A t \in Slots : ~(tasks'[t].pc # "idle" /\ tasks'[t].item = item)
  BY DEF Leaves, Leaving
<1>3. Lone(c) /\ item \in calls[c].seen
  BY <1>1, <1>2 DEF Lone, Resumes
<1>4. Spent(item) /\ \A t \in Slots : tasks[t].pc # "idle" /\ tasks[t].item = item => t = calls[c].task
  BY <1>3 DEF StopInd, FoundLeaves
<1>5. item \in Items
  BY <1>1, <1>3 DEF TypeInd, TypeOK, CallsOK, CallRecords
<1>6. Remembers /\ Admits /\ AsksLater
  BY <1>1, CallMoves
<1>7. Spent(item)'
  BY <1>4, <1>5, <1>6, SpentStays
<1> QED BY <1>1, <1>4, <1>7 DEF Resumes

\* A call that stops, clears, holds or commands.
LEMMA CallStop ==
  ASSUME TypeInd, TypeInd', QueueInd, RestartInd, OnceInd, StopInd, ShutdownCalls = {}, NEW c \in Calls, CallStep(c)
  PROVE  StopInd'
PROOF
<1>1. CancelActive(c) \/ StopClears(c) \/ ItemCleared(c) \/ ManualHolds(c) \/ Command(c)
  BY DEF CallStep, ShutdownBegins, ShutdownEnds
<1>2. /\ Remembers /\ Admits /\ AsksLater /\ RunsOn /\ boot' = boot /\ RanBefore'
      /\ \A d \in StopCalls \ {c} : CallGoesOn(d)
  BY <1>1, CallMoves
<1>3. calls \in [Calls -> CallRecords]
  BY DEF TypeInd, TypeOK, CallsOK
<1>4. ASSUME c \in StopCalls => Leaves(c)' PROVE StopInd'
  <2>1. \A d \in StopCalls \ {c} : Leaves(d)'
    <3>1. \A d \in StopCalls \ {c} : Leaves(d)
      BY DEF StopInd, FoundLeaves, Leaves
    <3> QED BY <1>2, <3>1, LeavesStays
  <2>2. FoundLeaves'
    BY <1>4, <2>1 DEF FoundLeaves, Leaves, Lone, Spent, Leaving
  <2> QED BY <1>2, <2>2 DEF StopInd
<1>5. ASSUME c \in StopCalls, CallGoesOn(c) PROVE StopInd'
  <2>1. Leaves(c)
    BY <1>5 DEF StopInd, FoundLeaves, Leaves
  <2>2. Leaves(c)'
    BY <1>2, <1>5, <2>1, LeavesStays
  <2> QED BY <1>4, <2>2
<1>6. CASE c \notin StopCalls
  BY <1>4, <1>6
<1>7. CASE c \in StopCalls /\ CancelActive(c)
  <2>1. calls[c].pc = "ready"
    BY <1>7 DEF CancelActive, Arrives
  <2> QED BY <1>4, <1>7, <2>1, ArrivalLeaves
<1>8. CASE c \in StopCalls /\ StopClears(c)
  BY <1>4, <1>8, ArrivalClears, ResumedClears
<1>9. CASE c \in StopCalls /\ ItemCleared(c)
  <2>1. calls[c].pc = "clearing" /\ ClearRest(c, Tail(calls[c].items)) /\ Arrived(c) = calls[c]
    BY <1>9 DEF ItemCleared, Arrived
  <2>2. calls'[c].seen = calls[c].seen /\ calls'[c].clean = calls[c].clean
    BY <2>1, ClearRestOf
  <2>3. CallGoesOn(c)
    BY <2>1, <2>2 DEF CallGoesOn, Lone
  <2> QED BY <1>5, <1>9, <2>3
<1>10. CASE c \in StopCalls /\ Command(c)
  <2>1. /\ calls[c].pc = "command"
        /\ \E pc \in {"done", "failed"} : calls' = [calls EXCEPT ![c] = [calls[c] EXCEPT !.pc = pc]]
    BY <1>10 DEF Command, CallBecomes
  <2>2. calls'[c].seen = calls[c].seen /\ calls'[c].clean = calls[c].clean
    BY <1>3, <2>1 DEF CallRecords
  <2>3. CallGoesOn(c)
    BY <2>1, <2>2 DEF CallGoesOn, Lone
  <2> QED BY <1>5, <1>10, <2>3
<1>11. ~(c \in StopCalls /\ ManualHolds(c))
  BY IdAssumption DEF ManualHolds
<1> QED BY <1>1, <1>6, <1>7, <1>8, <1>9, <1>10, <1>11

\* Nothing has been found, run or asked for when the model starts.
LEMMA InitStop == Init => StopInd
PROOF
<1> SUFFICES ASSUME Init PROVE StopInd
  OBVIOUS
<1>1. boot = 1 /\ (\A t \in Slots : tasks[t].pc = "idle") /\ \A c \in Calls : calls[c].pc = "ready"
  BY DEF Init, IdleTask, ReadyCall
<1> QED BY <1>1 DEF StopInd, RanBefore, FoundLeaves, Lone, Calls

\* StopInd is inductive while the process is not restarted, and a run is set up
\* before the loop ticks again.
LEMMA NextStop ==
  ASSUME MaxCrashes = 0, ShutdownCalls = {}
  PROVE  TypeInd /\ TypeInd' /\ QueueInd /\ RestartInd /\ OnceInd /\ StopInd /\ [Next]_vars => StopInd'
PROOF
<1> SUFFICES ASSUME TypeInd, TypeInd', QueueInd, RestartInd, OnceInd, StopInd, [Next]_vars PROVE StopInd'
  OBVIOUS
<1>1. CASE UNCHANGED vars
  <2>1. UNCHANGED <<queue, loop, run_requests, requested, tasks, calls, boot, now, fired>>
    BY <1>1 DEF vars, db, env
  <2> QED BY <2>1 DEF StopInd, RanBefore, FoundLeaves, Lone, Spent, Leaving, Known, Horizon, Waiting
<1>2. CASE WebStep \/ ClockTick \/ Notify
  BY <1>2, WebStop
<1>3. CASE LoopStep
  BY <1>3, TickStop, AdmitStop, EvaluateStop, PumpStop DEF LoopStep
<1>4. ASSUME NEW t \in Slots, RunTaskStep(t) PROVE StopInd'
  BY <1>4, RunStop
<1>5. ASSUME NEW c \in Calls, CallStep(c) PROVE StopInd'
  BY <1>5, CallStop
<1>6. ~Crash
  BY DEF Crash, StopInd
<1> QED BY <1>1, <1>2, <1>3, <1>4, <1>5, <1>6 DEF Next

LEMMA StopInvariant ==
  ASSUME PromptSetup, MaxCrashes = 0, ShutdownCalls = {}
  PROVE  Spec => [](TypeInd /\ QueueInd /\ RestartInd /\ OnceInd /\ StopInd)
  BY OnceInvariant, InitTypes, InitStop, NextTypes, NextStop, PTL DEF Spec

\* "Stop-all cancels the active run and clears the queue" (scheduler.py: on_stop_all,
\* cancel_active, _clear_queue), for any programs, requests, edits and faults, and any
\* other calls: a stop-all that came alone and found at most one run, which was on
\* record, or one queued item, has stopped it when it answers, and nothing starts it
\* again.  With two, StopAllStops fails: cancel_active awaits the run, and the loop,
\* which the run's end pokes, starts the next before _clear_queue.  The process must
\* not start again, for then an item whose "cancelled" row could not be inserted is
\* evaluated again; and a run must be set up before the loop ticks again, for else its
\* occurrence may be queued a second time while it runs (WatersOnce).
THEOREM LoneStopEnds ==
  ASSUME PromptSetup, MaxCrashes = 0, ShutdownCalls = {} PROVE Spec => []LoneStopStops
PROOF
<1>1. StopInd => LoneStopStops
  BY DEF StopInd, FoundLeaves, Lone, LoneStopStops, Stopped, WaterPcs
<1> QED BY StopInvariant, <1>1, PTL

-----------------------------------------------------------------------------
(* A run that is over leaves no water.                                     *)

\* Rows stay in their life, and no step of theirs turns out to have been watered.
RowsStay ==
  /\ \A r \in DOMAIN program_runs' : program_runs'[r].boot <= boot
  /\ \A r \in DOMAIN program_runs :
       /\ r \in DOMAIN program_runs' /\ program_runs'[r].boot = program_runs[r].boot
       /\ Answered(program_runs'[r]) => Answered(program_runs[r])

\* An INSERT, whether it fails or not.
LEMMA InsertedStays ==
  ASSUME TypeInd, WateredRow, NEW item \in Items, NEW status \in Statuses,
         Inserts(item, status, <<>>) \/ InsertFails(item, status, <<>>)
  PROVE  RowsStay
PROOF
<1>1. CASE UNCHANGED program_runs
  BY <1>1 DEF RowsStay, WateredRow
<1>2. CASE program_runs' = Append(program_runs, NewRow(item, status, <<>>))
  <2>1. <<>> \in Seq(Marks) /\ boot \in Nat
    BY DEF TypeInd, TypeOK, EnvOK
  <2>2. /\ DOMAIN program_runs = 1 .. Len(program_runs) /\ Len(program_runs) \in Nat
        /\ DOMAIN program_runs' = 1 .. Len(program_runs) + 1
        /\ \A r \in DOMAIN program_runs : program_runs'[r] = program_runs[r]
        /\ program_runs'[Len(program_runs) + 1] = NewRow(item, status, <<>>)
    BY <1>2, <2>1, AppendedRow
  <2>3. NewRow(item, status, <<>>).boot = boot
    BY DEF NewRow
  <2>4. \A r \in DOMAIN program_runs' : r \in DOMAIN program_runs \/ r = Len(program_runs) + 1
    BY <2>2
  <2>5. DOMAIN program_runs \subseteq DOMAIN program_runs'
    BY <2>2
  <2> QED BY <2>1, <2>2, <2>3, <2>4, <2>5 DEF RowsStay, WateredRow
<1> QED BY <1>1, <1>2 DEF Inserts, InsertFails

\* Orphans finalized, and a program deleted.
LEMMA RewrittenStays ==
  ASSUME TypeInd, WateredRow, FinalizeOrphans \/ FinalizeFails \/ WebStep \/ ClockTick \/ Notify
  PROVE  RowsStay
PROOF
<1>1. \A r \in DOMAIN program_runs : program_runs[r] \in Rows
  BY LenProperties, ElementOfSeq DEF TypeInd, TypeOK, RunsOK
<1>2. \/ UNCHANGED program_runs
      \/ program_runs' = [r \in DOMAIN program_runs |-> Finalized(program_runs[r])]
      \/ \E p \in Programs : program_runs' =
           [r \in DOMAIN program_runs |->
              IF program_runs[r].program = p THEN [program_runs[r] EXCEPT !.program = NoProgram] ELSE program_runs[r]]
  BY DEF FinalizeOrphans, FinalizeFails, WebStep, ClockTick, Notify, SaveProgram, ToggleProgram, DeleteProgram,
         ToggleZone, RunNow, QuickRun, Request, db
<1>3. ASSUME NEW r \in DOMAIN program_runs
      PROVE  /\ Finalized(program_runs[r]).boot = program_runs[r].boot
             /\ Answered(Finalized(program_runs[r])) => Answered(program_runs[r])
  BY <1>1 DEF Finalized, Rows, Answered
<1>4. ASSUME NEW r \in DOMAIN program_runs
      PROVE  /\ [program_runs[r] EXCEPT !.program = NoProgram].boot = program_runs[r].boot
             /\ [program_runs[r] EXCEPT !.program = NoProgram].steps = program_runs[r].steps
  BY <1>1 DEF Rows
<1>5. /\ DOMAIN program_runs' = DOMAIN program_runs
      /\ \A r \in DOMAIN program_runs :
           /\ program_runs'[r].boot = program_runs[r].boot
           /\ Answered(program_runs'[r]) => Answered(program_runs[r])
  BY <1>2, <1>3, <1>4 DEF Answered
<1> QED BY <1>5 DEF RowsStay, WateredRow

\* Whatever the loop does.
LEMMA LoopStays == ASSUME TypeInd, WateredRow, LoopStep PROVE RowsStay
PROOF
<1>1. CASE UNCHANGED program_runs
  BY <1>1 DEF RowsStay, WateredRow
<1>2. loop \in Loops /\ loop.reqs \subseteq Items /\ "missed" \in Statuses
  BY DEF TypeInd, TypeOK, QueueOK, Loops, Statuses
<1>3. ASSUME NEW req \in loop.reqs, InsertRequestMissed(req) PROVE RowsStay
  BY <1>2, <1>3, InsertedStays DEF InsertRequestMissed
<1>4. CASE InsertMissed
  <2>1. PICK occ \in loop.work : LET item == Item(loop.program, occ, 0, <<>>)
                                 IN  Inserts(item, "missed", <<>>) \/ InsertFails(item, "missed", <<>>)
    BY <1>4 DEF InsertMissed
  <2>2. Item(loop.program, occ, 0, <<>>) \in Items
    <3>1. <<>> \in Seq(Zones) /\ occ \in Nat
      BY <1>2 DEF Loops
    <3> QED BY <1>2, <3>1 DEF Loops, Item, Items, Times
  <2> QED BY <1>2, <2>1, <2>2, InsertedStays
<1>5. CASE FinalizeOrphans \/ FinalizeFails
  BY <1>5, RewrittenStays
<1>6. \/ UNCHANGED program_runs
      \/ InsertMissed \/ FinalizeOrphans \/ FinalizeFails
      \/ \E req \in loop.reqs : InsertRequestMissed(req)
  BY DEF LoopStep, TickBegins, FetchPrograms, FetchSteps, ReadRunKeys, ClaimRequests, RefreshFails, RefreshDone,
         AdmitStep, IgnoreRequest, OverflowRequest, AdmitRequest, RequestsAdmitted, EvaluateProgram, SkipOccurrence,
         MissOccurrence, AdmitOccurrence, EvaluateDone, PumpIdle, PumpDrops, PumpStarts, PumpUnchanged, db
<1> QED BY <1>1, <1>3, <1>4, <1>5, <1>6

\* The zone waters for the same run, or for none.
SameWater == hw'.row = None \/ (hw'.row = hw.row /\ (hw.refused => hw'.refused))

\* A step that leaves every run where it is, with its row.
LEMMA WaterStays ==
  ASSUME WaterInd, CancellerWaits', UNCHANGED boot, RowsStay, SameWater,
         (\E c \in Calls : InCall(c)) => (\E c \in Calls : InCall(c)'),
         \A t \in Slots : tasks'[t].row = tasks[t].row /\ (tasks'[t].row # None => tasks'[t].pc = tasks[t].pc)
  PROVE  WaterInd'
PROOF
<1>1. WateredRow'
  BY DEF WaterInd, WateredRow, RowsStay, SameWater
<1>2. ASSUME hw'.row # None
      PROVE  /\ hw.row = hw'.row /\ hw.row \in DOMAIN program_runs
             /\ program_runs'[hw'.row].boot = program_runs[hw.row].boot
             /\ Answered(program_runs'[hw'.row]) => Answered(program_runs[hw.row])
             /\ hw.refused => hw'.refused
  BY <1>2 DEF WaterInd, WateredRow, RowsStay, SameWater
<1>3. ASSUME NEW t \in Slots PROVE DealtWith(tasks[t])'
  <2> SUFFICES ASSUME hw'.row # None, tasks'[t].row = hw'.row, tasks'[t].pc \in ClosingPcs
               PROVE  hw'.refused \/ ~Answered(program_runs'[tasks'[t].row])
    BY DEF DealtWith, Answered, ClosingPcs
  <2>1. DealtWith(tasks[t])
    BY DEF WaterInd
  <2> QED BY <1>2, <2>1 DEF DealtWith
<1>4. NoWaterAfterRun'
  <2> SUFFICES ASSUME hw'.row # None, \A t \in Slots : tasks'[t].row # hw'.row
               PROVE  \/ hw'.refused \/ boot' > program_runs'[hw'.row].boot
                      \/ (\E c \in Calls : InCall(c)')
                      \/ ~Answered(program_runs'[hw'.row])
    BY DEF NoWaterAfterRun, InCall, Answered
  <2> QED BY <1>2 DEF WaterInd, NoWaterAfterRun
<1> QED BY <1>1, <1>3, <1>4 DEF WaterInd

\* A step takes a run out, or leaves it with its row unless it gives it one; it
\* cancels no run, and one that is not cancelled enters no handler of that.
RunExits(t) ==
  /\ Becomes(t, IdleTask)
  /\ \/ TerminalRecorded(t) \/ SetupFails(t) \/ RunFinished(t) \/ HandlerFails(t) \/ CancelUnstarted(t)
     \/ CancelSetup(t) \/ CancelHandler(t)
LEMMA RunMoves ==
  ASSUME TypeInd, NEW t \in Slots, RunTaskStep(t)
  PROVE  \/ RunExits(t)
         \/ /\ tasks'[t].pc # "idle" /\ (RunInserted(t) \/ tasks'[t].row = tasks[t].row)
            /\ tasks'[t].cancel => tasks[t].cancel
            /\ tasks'[t].pc \in CancelPcs => tasks[t].cancel \/ tasks[t].pc \in CancelPcs
            /\ tasks'[t].pc \in ClosingPcs => StepEnds(t) \/ RunStops(t) \/ RunCrashes(t)
PROOF
<1> DEFINE k == tasks[t]
<1>1. k \in Tasks /\ tasks \in [Slots -> Tasks]
  BY DEF TypeInd, TypeOK, RunsOK
<1>2. \A n : Becomes(t, n) => tasks'[t] = n
  BY <1>1 DEF Becomes
<1>3. \A pc : Goes(t, pc) => tasks'[t].pc = pc /\ tasks'[t].row = k.row /\ (tasks'[t].cancel => k.cancel)
  BY <1>1, <1>2 DEF Goes, Tasks
<1>4. \A pc, status : Ends(t, pc, status) => tasks'[t].pc = pc /\ tasks'[t].row = k.row /\ ~tasks'[t].cancel
  BY <1>1, <1>2 DEF Ends, Tasks
<1> HIDE DEF k
<1>5. CASE TerminalRecorded(t) \/ SetupFails(t) \/ RunFinished(t) \/ HandlerFails(t) \/ CancelUnstarted(t) \/ CancelHandler(t)
  BY <1>5 DEF RunExits, TerminalRecorded, SetupFails, RunFinished, HandlerFails, CancelUnstarted, CancelHandler, Exits
<1>6. CASE CancelSetup(t)
  <2>1. Ends(t, "cancel_record", "cancelled") \/ Becomes(t, IdleTask)
    BY <1>6 DEF CancelSetup, Exits
  <2> QED BY <1>4, <1>6, <2>1 DEF RunExits, CancelPcs, ClosingPcs, k
<1>7. CASE \/ RunBegins(t) \/ RainDelayRead(t) \/ WeatherDecided(t) \/ ZoneStarts(t) \/ StartReplies(t)
           \/ StartRepliesUntracked(t) \/ StepSlept(t)
  <2>1. \/ \E pc : Goes(t, pc) /\ pc # "idle" /\ pc \notin CancelPcs \cup ClosingPcs
        \/ \E status : Ends(t, "record_skip", status)
    BY <1>7 DEF RunBegins, RainDelayRead, WeatherDecided, ZoneStarts, StartReplies, StartRepliesUntracked, StepSlept,
       CancelPcs, ClosingPcs
  <2> QED BY <1>3, <1>4, <2>1 DEF CancelPcs, ClosingPcs, k
<1>8. CASE RunStops(t) \/ RunCrashes(t)
  <2>1. \E pc : /\ pc # "idle" /\ pc \notin CancelPcs
                /\ Goes(t, pc) \/ \E status : Ends(t, pc, status)
    BY <1>8 DEF RunStops, RunCrashes, CancelPcs
  <2> QED BY <1>3, <1>4, <1>8, <2>1 DEF k
<1>9. CASE InFlightCancelled(t) \/ CancelRun(t)
  <2>1. k.cancel \/ k.pc \in CancelPcs
    BY <1>9 DEF InFlightCancelled, CancelRun, At, Cancelling, CancelPcs, k
  <2>2. \E pc \in CancelPcs : \E status : Ends(t, pc, status)
    BY <1>9 DEF InFlightCancelled, CancelRun, CancelPcs
  <2> QED BY <1>4, <2>1, <2>2 DEF CancelPcs, ClosingPcs, k
<1>10. CASE ZonesFetched(t) \/ RunInserted(t) \/ StepZonesFetched(t) \/ StartFails(t) \/ StepStarted(t)
  <2>1. \A pc, x : /\ [k EXCEPT !.pc = pc, !.zones = x].cancel = k.cancel /\ [k EXCEPT !.pc = pc, !.zones = x].row = k.row
                   /\ [k EXCEPT !.pc = pc, !.zones = x].pc = pc
                   /\ [k EXCEPT !.zones = x, !.pc = pc].cancel = k.cancel /\ [k EXCEPT !.zones = x, !.pc = pc].row = k.row
                   /\ [k EXCEPT !.zones = x, !.pc = pc].pc = pc
    BY <1>1 DEF Tasks
  <2>2. \A pc, x : /\ [k EXCEPT !.pc = pc, !.row = x].cancel = k.cancel /\ [k EXCEPT !.pc = pc, !.row = x].pc = pc
                   /\ [k EXCEPT !.attempt = x, !.pc = pc].cancel = k.cancel /\ [k EXCEPT !.attempt = x, !.pc = pc].row = k.row
                   /\ [k EXCEPT !.attempt = x, !.pc = pc].pc = pc
                   /\ [k EXCEPT !.pc = pc, !.wake = x].cancel = k.cancel /\ [k EXCEPT !.pc = pc, !.wake = x].row = k.row
                   /\ [k EXCEPT !.pc = pc, !.wake = x].pc = pc
    BY <1>1 DEF Tasks
  <2>3. /\ tasks'[t].cancel = k.cancel /\ tasks'[t].pc # "idle" /\ tasks'[t].pc \notin CancelPcs \cup ClosingPcs
        /\ RunInserted(t) \/ tasks'[t].row = k.row
    <3>1. CASE StepZonesFetched(t)
      <4>1. PICK x : tasks'[t] = [k EXCEPT !.zones = x,
                                    !.pc = IF k.steps[Position(k)] \in x THEN "start" ELSE "mark_skipped"]
        BY <1>2, <3>1 DEF StepZonesFetched, k
      <4>2. PICK pc \in {"start", "mark_skipped"} : pc = IF k.steps[Position(k)] \in x THEN "start" ELSE "mark_skipped"
        OBVIOUS
      <4>3. tasks'[t] = [k EXCEPT !.zones = x, !.pc = pc]
        BY <4>1, <4>2
      <4> QED BY <2>1, <4>2, <4>3 DEF CancelPcs, ClosingPcs
    <3>2. CASE StartFails(t)
      <4>1. PICK pc \in {"start", "mark_failed"} : tasks'[t] = [k EXCEPT !.attempt = 2, !.pc = pc]
        BY <1>2, <3>2 DEF StartFails, k
      <4> QED BY <2>2, <4>1 DEF CancelPcs, ClosingPcs
    <3>3. CASE ZonesFetched(t)
      <4>1. tasks'[t] = [k EXCEPT !.pc = "insert_running", !.zones = enabled_zones]
        BY <1>2, <3>3 DEF ZonesFetched, k
      <4> QED BY <2>1, <4>1 DEF CancelPcs, ClosingPcs
    <3>4. CASE RunInserted(t)
      <4>1. tasks'[t] = [k EXCEPT !.pc = "fetch_step_zones", !.row = Len(program_runs) + 1]
        BY <1>2, <3>4 DEF RunInserted, k
      <4> QED BY <2>2, <3>4, <4>1 DEF CancelPcs, ClosingPcs
    <3>5. CASE StepStarted(t)
      <4>1. tasks'[t] = [k EXCEPT !.pc = "sleep", !.wake = now + StepMinutes]
        BY <1>2, <3>5 DEF StepStarted, k
      <4> QED BY <2>2, <4>1 DEF CancelPcs, ClosingPcs
    <3> QED BY <1>10, <3>1, <3>2, <3>3, <3>4, <3>5
  <2> QED BY <2>3 DEF k
<1>11. CASE StepEnds(t)
  <2>1. k.pc \in {"mark_skipped", "mark_failed", "mark_completed"} /\ StepMark[k.pc] \in Outcomes
    BY <1>11 DEF StepEnds, At, StepMark, Outcomes, k
  <2>2. tasks'[t] = AfterStep(k, StepMark[k.pc])
    BY <1>2, <1>11 DEF StepEnds, k
  <2>3. tasks'[t].row = k.row /\ tasks'[t].pc # "idle" /\ tasks'[t].pc \notin CancelPcs
    BY <1>1, <2>1, <2>2, AfterStepFields DEF CancelPcs
  <2>4. PICK m : m = [k EXCEPT !.outcomes = Append(@, StepMark[k.pc]), !.attempt = 1, !.wake = None, !.pc = "mark"]
    OBVIOUS
  <2>5. m.cancel = k.cancel /\ DOMAIN m = DOMAIN k /\ {"pc", "status", "cancel"} \subseteq DOMAIN m
    BY <1>1, <2>4 DEF Tasks
  <2>6. \/ tasks'[t] = [m EXCEPT !.pc = "fetch_step_zones"]
        \/ tasks'[t] = [m EXCEPT !.pc = "stop"]
        \/ tasks'[t] = [m EXCEPT !.pc = "finish", !.status = Summarize(m.outcomes)]
    BY <2>2, <2>4 DEF AfterStep
  <2>7. tasks'[t].cancel = k.cancel
    BY <2>5, <2>6
  <2> QED BY <1>11, <2>3, <2>7 DEF k
<1> QED BY <1>5, <1>6, <1>7, <1>8, <1>9, <1>10, <1>11 DEF RunTaskStep

\* A row none of whose marks is of an answered start.
LEMMA Unanswered ==
  ASSUME NEW k \in Tasks, NEW row \in Rows, SameRun(k, row), SameMarks(k, row),
         \A i \in DOMAIN k.outcomes : k.outcomes[i] # "completed",
         Position(k) <= Len(k.steps) => row.steps[Position(k)] \in {"pending", "skipped_disabled", "failed"}
  PROVE  ~Answered(row)
PROOF
<1> DEFINE n == Len(k.outcomes)
           marks == row.steps
<1>1. /\ n \in Nat /\ Len(k.steps) \in Nat /\ Position(k) = n + 1 /\ DOMAIN marks = 1 .. Len(k.steps)
      /\ \A i \in 1 .. n : marks[i] = k.outcomes[i] /\ k.outcomes[i] \in Outcomes /\ k.outcomes[i] # "completed"
      /\ \A i \in n + 2 .. Len(k.steps) : marks[i] = "pending"
      /\ n + 1 <= Len(k.steps) => marks[n + 1] \in {"pending", "skipped_disabled", "failed"}
  BY MarksOfRun DEF SameRun, SameMarks
<1> HIDE DEF n, marks
<1>2. \A i \in DOMAIN marks : i \in 1 .. n \/ i = n + 1 \/ i \in n + 2 .. Len(k.steps)
  BY <1>1
<1>3. ASSUME NEW i \in DOMAIN marks PROVE marks[i] \notin {"started", "completed"}
  <2>1. CASE i \in 1 .. n
    BY <1>1, <2>1 DEF Outcomes
  <2>2. CASE i = n + 1 \/ i \in n + 2 .. Len(k.steps)
    BY <1>1, <2>2
  <2> QED BY <1>2, <2>1, <2>2
<1> QED BY <1>3 DEF Answered, marks

\* A run that goes from its last step to its row owes no stop.
LEMMA EndOwesNone ==
  ASSUME TypeInd, TypeInd', HistoryInd', NEW t \in Slots, StepEnds(t), tasks'[t].pc = "finish"
  PROVE  ~Answered(program_runs'[tasks'[t].row])
PROOF
<1> DEFINE k == tasks[t]
           n == tasks'[t]
<1>1. k \in Tasks /\ tasks \in [Slots -> Tasks] /\ n \in Tasks /\ n.pc \in OwnerPcs
  BY DEF TypeInd, TypeOK, RunsOK, OwnerPcs, RunPcs, HandlerPcs
<1>2. n = AfterStep(k, StepMark[k.pc])
  BY <1>1 DEF StepEnds, Becomes
<1>3. PICK m : m = [k EXCEPT !.outcomes = Append(@, StepMark[k.pc]), !.attempt = 1, !.wake = None, !.pc = "mark"]
  OBVIOUS
<1>4. DOMAIN m = DOMAIN k /\ {"pc", "status", "outcomes"} \subseteq DOMAIN m /\ m.pc = "mark"
  BY <1>1, <1>3 DEF Tasks
<1>5. /\ n = IF Len(m.outcomes) < Len(m.steps) THEN [m EXCEPT !.pc = "fetch_step_zones"]
             ELSE IF StartedAny(m) THEN [m EXCEPT !.pc = "stop"]
             ELSE [m EXCEPT !.pc = "finish", !.status = Summarize(m.outcomes)]
      /\ n.pc = "finish"
  BY <1>2, <1>3 DEF AfterStep
<1> HIDE DEF k, n
<1>6. ~StartedAny(m) /\ n.outcomes = m.outcomes
  BY <1>4, <1>5
<1>7. \A i \in DOMAIN n.outcomes : n.outcomes[i] # "completed"
  BY <1>6 DEF StartedAny
<1> DEFINE row == program_runs'[n.row]
<1>8. /\ n.row \in DOMAIN program_runs' /\ Fits(n, row)
  <2>1. Linked(tasks[t])'
    BY DEF HistoryInd, OwnRows
  <2> QED BY <1>1, <2>1 DEF Linked, Fits, SameRun, SameMarks, SameStage, n
<1>9. row \in Rows
  BY <1>8, LenProperties, ElementOfSeq DEF TypeInd, TypeOK, RunsOK
<1> HIDE DEF row
<1>10. Len(n.outcomes) = Len(n.steps) /\ Len(n.steps) \in Nat
  BY <1>1, <1>5, <1>8, <1>9, MarksOfRun DEF Fits, SameStage
<1>11. ~(Position(n) <= Len(n.steps))
  BY <1>10 DEF Position
<1> QED BY <1>1, <1>7, <1>8, <1>9, <1>11, Unanswered DEF Fits, row, n

\* So does one that crashes with no step in flight or completed.
LEMMA CrashOwesNone ==
  ASSUME TypeInd, TypeInd', HistoryInd, NEW t \in Slots, RunCrashes(t), tasks'[t].pc = "crash_finish"
  PROVE  ~Answered(program_runs'[tasks'[t].row])
PROOF
<1> DEFINE k == tasks[t]
           old == program_runs[k.row]
           new == program_runs'[k.row]
<1>1. k \in Tasks /\ tasks \in [Slots -> Tasks]
  BY DEF TypeInd, TypeOK, RunsOK
<1>2. /\ k.pc \in {"mark_skipped", "mark_failed", "mark_started", "mark_completed", "finish"}
      /\ program_runs' \in Abandoned(k)
  BY DEF RunCrashes, At
<1>3. ~StartedAny(k) /\ tasks'[t].row = k.row
  <2>1. Goes(t, "crash_stop") => tasks'[t].pc = "crash_stop"
    BY <1>1 DEF Goes, Becomes, Tasks
  <2>2. ~StartedAny(k) /\ Ends(t, "crash_finish", "failed")
    BY <2>1 DEF RunCrashes
  <2> QED BY <1>1, <2>2 DEF Ends, Becomes, Tasks
<1>4. k.pc \in {"mark_skipped", "mark_failed", "finish"} /\ \A i \in DOMAIN k.outcomes : k.outcomes[i] # "completed"
  BY <1>2, <1>3 DEF StartedAny, InFlight
<1>5. RunReady(t) /\ k.row \in DOMAIN program_runs /\ Fits(k, old)
  <2>1. RunReady(t) /\ Linked(k)
    BY DEF TypeInd, TypeOK, RunsOK, EnvOK, HistoryInd, OwnRows, HasWork, RunReady, Tasks
  <2>2. k.pc \in OwnerPcs
    BY <1>4 DEF OwnerPcs, RunPcs, HandlerPcs
  <2> QED BY <2>1, <2>2 DEF Linked
<1>6. MarkAt(k.pc) = {"pending"}
  BY <1>4 DEF MarkAt
<1>7. old \in Rows
  BY <1>5, LenProperties, ElementOfSeq DEF TypeInd, TypeOK, RunsOK
<1>8. ASSUME new.steps = old.steps, new \in Rows, new.program = old.program, new.at = old.at, new.req = old.req
      PROVE  ~Answered(new)
  <2>1. SameRun(k, new) /\ SameMarks(k, new)
    BY <1>5, <1>8 DEF Fits, SameRun, SameMarks
  <2>2. Position(k) <= Len(k.steps) => new.steps[Position(k)] \in {"pending", "skipped_disabled", "failed"}
    BY <1>6, <2>1 DEF SameMarks
  <2> QED BY <1>1, <1>4, <1>8, <2>1, <2>2, Unanswered
<1>9. CASE UNCHANGED program_runs
  BY <1>3, <1>7, <1>8, <1>9
<1>10. CASE k.pc = "finish" /\ program_runs' = Updated(k)
  <2>1. program_runs' = [program_runs EXCEPT ![k.row].status = k.status]
    BY <1>10 DEF Updated, StepMark
  <2>2. new = [old EXCEPT !.status = k.status]
    BY <1>5, <2>1
  <2>3. new.steps = old.steps /\ new.program = old.program /\ new.at = old.at /\ new.req = old.req
    BY <1>7, <2>2 DEF Rows
  <2>4. new \in Rows
    <3>1. DOMAIN program_runs' = DOMAIN program_runs
      BY <2>1
    <3> QED BY <1>5, <3>1, LenProperties, ElementOfSeq DEF TypeInd, TypeOK, RunsOK
  <2> QED BY <1>3, <1>8, <2>3, <2>4
<1>11. CASE k.pc \in {"mark_skipped", "mark_failed"} /\ program_runs' = Updated(k)
  <2>1. k.pc \in DOMAIN StepMark /\ StepMark[k.pc] \in {"skipped_disabled", "failed"}
    BY <1>11 DEF StepMark
  <2> HIDE DEF k, old, new
  <2>2. /\ new \in Rows /\ SameRun(k, old) /\ SameMarks(k, old) /\ k \in Tasks
        /\ new.program = old.program /\ new.at = old.at /\ new.req = old.req
        /\ Len(new.steps) = Len(old.steps)
        /\ \A i \in 1 .. Len(k.steps) : new.steps[i] = IF i = Position(k) THEN StepMark[k.pc] ELSE old.steps[i]
        /\ Position(k) \in 1 .. Len(k.steps)
    BY <1>5, <1>11, <2>1, MarkSaved DEF k, old, new
  <2>3. /\ Position(k) = Len(k.outcomes) + 1 /\ Len(k.outcomes) \in Nat /\ Len(k.steps) \in Nat
        /\ Len(k.outcomes) <= Len(k.steps)
    BY <2>2, <1>7, MarksOfRun DEF SameRun
  <2>4. SameRun(k, new)
    BY <2>2 DEF SameRun
  <2>5. /\ \A i \in 1 .. Len(k.outcomes) : new.steps[i] = k.outcomes[i]
        /\ \A i \in Position(k) + 1 .. Len(k.steps) : new.steps[i] = "pending"
        /\ new.steps[Position(k)] \in {"pending", "skipped_disabled", "failed"}
    BY <2>1, <2>2, <2>3 DEF SameMarks
  <2> DEFINE c == [k EXCEPT !.pc = "crash_finish"]
  <2>6. /\ c \in Tasks /\ c.pc = "crash_finish" /\ c.outcomes = k.outcomes /\ c.steps = k.steps /\ c.item = k.item
    BY <2>2 DEF Tasks, TaskPcs, HandlerPcs
  <2> HIDE DEF c
  <2>7. SameRun(c, new) /\ SameMarks(c, new) /\ Position(c) = Position(k)
    BY <2>4, <2>5, <2>6 DEF SameRun, SameMarks, Position, MarkAt
  <2> QED BY <1>3, <1>4, <2>2, <2>5, <2>6, <2>7, Unanswered DEF k, new
<1>12. UNCHANGED program_runs \/ program_runs' = Updated(k)
  BY <1>2, <1>4 DEF Abandoned
<1> QED BY <1>3, <1>4, <1>9, <1>10, <1>11, <1>12

\* The zone waters for the run it watered for, unless this step starts one.
LEMMA RunWaters ==
  ASSUME TypeInd, NEW t \in Slots, RunTaskStep(t)
  PROVE  /\ ZoneStarts(t) \/ SameWater
         /\ RunStops(t) => hw'.row = None \/ hw'.refused
PROOF
<1>1. Off.row = None /\ (Refused.row = hw.row) /\ (hw.row # None => Refused.refused) /\ (hw.refused => Refused.refused)
  BY DEF Off, Refused, TypeInd, TypeOK, CallsOK, EnvOK, RunsOK, Waterings
<1>2. hw' \in {hw, Off} \/ ZoneStarts(t) \/ (RunStops(t) /\ hw' \in {Refused, Off})
  BY DEF RunTaskStep, RunBegins, RainDelayRead, WeatherDecided, TerminalRecorded, ZonesFetched, RunInserted,
         SetupFails, StepZonesFetched, StartFails, StartReplies, StartRepliesUntracked, StepStarted, StepSlept, StepEnds,
         RunStops, RunFinished, RunCrashes, InFlightCancelled, HandlerFails, CancelUnstarted, CancelSetup, CancelRun,
         CancelHandler
<1>3. RunStops(t) => hw' \in {Refused, Off}
  BY DEF RunStops
<1> QED BY <1>1, <1>2, <1>3 DEF SameWater

\* A run that leaves its row while nobody cancels it closes the row: the marks
\* are as they were, and so is the zone.
LEMMA LeavesRow ==
  ASSUME TypeInd, HistoryInd, NEW t \in Slots, RunTaskStep(t), tasks[t].row # None, tasks'[t].row # tasks[t].row,
         ~tasks[t].cancel, tasks[t].pc \notin CancelPcs
  PROVE  /\ tasks[t].pc \in ClosingPcs /\ UNCHANGED hw
         /\ program_runs'[tasks[t].row].steps = program_runs[tasks[t].row].steps
PROOF
<1> DEFINE k == tasks[t]
<1>1. k.pc \in OwnerPcs /\ k.row \in DOMAIN program_runs
  BY DEF HistoryInd, OwnRows, Linked, Rowless
<1>2. ~RunInserted(t)
  BY <1>1 DEF RunInserted, At, OwnerPcs, RunPcs, HandlerPcs
<1>3. RunExits(t)
  BY <1>2, RunMoves
<1>4. RunFinished(t) \/ HandlerFails(t)
  BY <1>1, <1>3 DEF RunExits, TerminalRecorded, SetupFails, CancelUnstarted, CancelSetup, CancelHandler, At, Cancelling,
     OwnerPcs, RunPcs, HandlerPcs, InsertFails
<1>5. k.pc \in ClosingPcs /\ UNCHANGED hw /\ program_runs' \in {program_runs, Updated(k)}
  <2>1. CASE RunFinished(t)
    BY <2>1 DEF RunFinished, At, FinishPcs, CancelPcs, ClosingPcs
  <2>2. CASE HandlerFails(t)
    <3>1. k.pc = "crash_finish" /\ program_runs' \in Abandoned(k) /\ UNCHANGED hw
      BY <1>1, <2>2 DEF HandlerFails, At, CancelPcs, OwnerPcs, RunPcs, HandlerPcs
    <3> QED BY <3>1 DEF Abandoned, ClosingPcs
  <2> QED BY <1>4, <2>1, <2>2
<1>6. Updated(k) = [program_runs EXCEPT ![k.row].status = k.status]
  BY <1>5 DEF Updated, StepMark, ClosingPcs
<1>7. program_runs[k.row] \in Rows
  BY <1>1, LenProperties, ElementOfSeq DEF TypeInd, TypeOK, RunsOK
<1>8. Updated(k)[k.row].steps = program_runs[k.row].steps
  BY <1>1, <1>6, <1>7 DEF Rows
<1> QED BY <1>5, <1>8

\* A run's step.
LEMMA RunWater ==
  ASSUME TypeInd, TypeInd', HistoryInd, HistoryInd', WaterInd, NEW t \in Slots, RunTaskStep(t) PROVE WaterInd'
PROOF
<1> DEFINE k == tasks[t]
           n == tasks'[t]
<1>1. tasks \in [Slots -> Tasks] /\ UNCHANGED <<boot, calls>> /\ k.pc # "idle" /\ boot \in Nat
  BY RunStepIsBusy DEF TypeInd, TypeOK, RunsOK, EnvOK, TaskUnchanged
<1>2. \A s \in Slots \ {t} : tasks'[s] = tasks[s]
  <2>1. PICK m : tasks' = [tasks EXCEPT ![t] = m]
    BY RunGoesOnAs
  <2> QED BY <1>1, <2>1
<1>3. OthersKept(t) /\ \A s \in Slots \ {t} : k.row # None => tasks[s].row # k.row
  BY RunTaskStepOK DEF RunStepOK, HistoryInd, OwnRows
<1>4. IdleTask.pc = "idle" /\ IdleTask.row = None /\ ~IdleTask.cancel
  BY DEF IdleTask
<1>5. RunExits(t) => n = IdleTask
  BY <1>1 DEF RunExits, Becomes
<1>6. ZoneStarts(t) => hw'.row = k.row /\ n.row = k.row /\ k.row \in DOMAIN program_runs
  <2> SUFFICES ASSUME ZoneStarts(t) PROVE hw'.row = k.row /\ n.row = k.row /\ k.row \in DOMAIN program_runs
    OBVIOUS
  <2>1. k.pc = "start" /\ hw' = Water(k.steps[Position(k)], k.row, StepMinutes) /\ Goes(t, "start_reply")
    BY DEF ZoneStarts, At
  <2>2. Linked(k)
    BY DEF HistoryInd, OwnRows
  <2>3. n.row = k.row
    BY <1>1, <2>1, SameRowOn
  <2> QED BY <2>1, <2>2, <2>3 DEF Water, Linked, OwnerPcs, RunPcs
<1> HIDE DEF k, n
<1>7. CancellerWaits'
  <2>1. n.pc = "idle" => ~n.cancel
    BY <1>4, <1>5, RunMoves DEF n
  <2>2. n.cancel \/ n.pc \in CancelPcs => k.cancel \/ k.pc \in CancelPcs
    BY <1>4, <1>5, RunMoves DEF k, n, CancelPcs
  <2>3. ASSUME NEW s \in Slots
        PROVE  /\ tasks'[s].pc = "idle" => ~tasks'[s].cancel
               /\ tasks'[s].cancel \/ tasks'[s].pc \in CancelPcs =>
                    \E c \in Calls : calls'[c].pc = "cancelling" /\ calls'[c].task = s
    BY <1>1, <1>2, <2>1, <2>2 DEF WaterInd, CancellerWaits, k, n
  <2> QED BY <2>3 DEF CancellerWaits, CancelPcs
<1>8. \A r \in DOMAIN program_runs' : program_runs'[r].boot <= boot
  <2>1. RowsFrom(k.item)
    BY RunRows DEF k
  <2> QED BY <1>1, <2>1 DEF RowsFrom, WaterInd, WateredRow
<1>9. WateredRow'
  BY <1>1, <1>3, <1>6, <1>8, RunWaters DEF WaterInd, WateredRow, OthersKept, SameWater
<1>10. ASSUME hw'.row # None, hw'.row = hw.row, hw.row # k.row
       PROVE  /\ program_runs'[hw'.row] = program_runs[hw.row] /\ (ZoneStarts(t) \/ (hw.refused => hw'.refused))
  BY <1>3, <1>10, RunWaters DEF WaterInd, WateredRow, OthersKept, SameWater, k
<1>11. ASSUME hw'.row # None, ~ZoneStarts(t) PROVE hw'.row = hw.row /\ (hw.refused => hw'.refused)
  BY <1>11, RunWaters DEF SameWater
<1>12. ASSUME NEW s \in Slots PROVE DealtWith(tasks[s])'
  <2> SUFFICES ASSUME hw'.row # None, tasks'[s].row = hw'.row, tasks'[s].pc \in ClosingPcs
               PROVE  hw'.refused \/ ~Answered(program_runs'[tasks'[s].row])
    BY DEF DealtWith, Answered, ClosingPcs
  <2>1. CASE s # t
    <3>1. tasks'[s] = tasks[s]
      BY <1>2, <2>1
    <3>2. ~ZoneStarts(t) /\ hw.row = hw'.row /\ hw.row # k.row /\ (hw.refused => hw'.refused)
      BY <1>3, <1>6, <1>11, <2>1, <3>1 DEF k
    <3>3. DealtWith(tasks[s])
      BY DEF WaterInd
    <3> QED BY <1>10, <3>1, <3>2, <3>3 DEF DealtWith
  <2>2. CASE s = t
    <3>1. ~RunExits(t)
      BY <1>4, <1>5, <2>2 DEF n
    <3>2. StepEnds(t) \/ RunStops(t) \/ RunCrashes(t)
      BY <2>2, <3>1, RunMoves
    <3>3. CASE StepEnds(t)
      <4>1. tasks'[t].pc = "finish"
        <5>1. tasks[t] \in Tasks /\ StepMark[tasks[t].pc] \in Outcomes
          BY <1>1, <3>3 DEF StepEnds, At, StepMark, Outcomes
        <5>2. tasks'[t] = AfterStep(tasks[t], StepMark[tasks[t].pc])
          BY <1>1, <3>3 DEF StepEnds, Becomes
        <5> QED BY <2>2, <5>1, <5>2, AfterStepFields DEF ClosingPcs
      <4> QED BY <2>2, <3>3, <4>1, EndOwesNone
    <3>4. CASE RunStops(t)
      BY <3>4, RunWaters
    <3>5. CASE RunCrashes(t)
      <4>1. tasks'[t].pc \in {"crash_stop", "crash_finish"}
        <5>1. Goes(t, "crash_stop") \/ Ends(t, "crash_finish", "failed")
          BY <3>5 DEF RunCrashes
        <5>2. Goes(t, "crash_stop") => tasks'[t].pc = "crash_stop"
          BY <1>1 DEF Goes, Becomes, Tasks
        <5>3. Ends(t, "crash_finish", "failed") => tasks'[t].pc = "crash_finish"
          BY <1>1 DEF Ends, Becomes, Tasks
        <5> QED BY <5>1, <5>2, <5>3
      <4> QED BY <2>2, <3>5, <4>1, CrashOwesNone DEF ClosingPcs
    <3> QED BY <3>2, <3>3, <3>4, <3>5
  <2> QED BY <2>1, <2>2
<1>13. NoWaterAfterRun'
  <2> SUFFICES ASSUME hw'.row # None, \A s \in Slots : tasks'[s].row # hw'.row
               PROVE  \/ hw'.refused \/ boot' > program_runs'[hw'.row].boot
                      \/ (\E c \in Calls : InCall(c)')
                      \/ ~Answered(program_runs'[hw'.row])
    BY DEF NoWaterAfterRun, InCall, Answered
  <2>1. ~ZoneStarts(t) /\ hw'.row = hw.row /\ (hw.refused => hw'.refused)
    BY <1>6, <1>11 DEF n
  <2>2. \A c \in Calls : InCall(c) => InCall(c)'
    BY <1>1 DEF InCall
  <2>3. CASE hw.row # k.row
    <3>1. \A s \in Slots : tasks[s].row # hw.row
      BY <1>2, <2>1, <2>3 DEF k
    <3>2. \/ hw.refused \/ boot > program_runs[hw.row].boot
          \/ (\E c \in Calls : InCall(c))
          \/ ~Answered(program_runs[hw.row])
      BY <2>1, <3>1 DEF WaterInd, NoWaterAfterRun
    <3>3. program_runs'[hw'.row] = program_runs[hw.row]
      BY <1>10, <2>1, <2>3
    <3> QED BY <1>1, <2>1, <2>2, <3>2, <3>3
  <2>4. CASE hw.row = k.row
    <3>1. k.row # None /\ n.row # k.row
      BY <2>1, <2>4 DEF n
    <3>2. CASE k.cancel \/ k.pc \in CancelPcs
      <4>1. \E c \in Calls : calls[c].pc = "cancelling"
        BY <3>2 DEF WaterInd, CancellerWaits, k
      <4> QED BY <2>2, <4>1 DEF InCall
    <3>3. CASE ~k.cancel /\ k.pc \notin CancelPcs
      <4>1. k.pc \in ClosingPcs /\ UNCHANGED hw /\ program_runs'[k.row].steps = program_runs[k.row].steps
        BY <3>1, <3>3, LeavesRow DEF k, n
      <4>2. DealtWith(k)
        BY DEF WaterInd, k
      <4> QED BY <2>1, <2>4, <4>1, <4>2 DEF DealtWith, Answered
    <3> QED BY <3>2, <3>3
  <2> QED BY <2>3, <2>4
<1> QED BY <1>7, <1>9, <1>12, <1>13 DEF WaterInd

\* A restart: no run is on, and what waters was commanded in an earlier life.
LEMMA RestartWater == ASSUME TypeInd, WaterInd, Restart PROVE WaterInd'
PROOF
<1>1. /\ boot' = boot + 1 /\ boot \in Nat /\ UNCHANGED <<hw, program_runs>>
      /\ \A t \in Slots : tasks'[t] = IdleTask
  BY DEF Restart, db, TypeInd, TypeOK, EnvOK
<1>2. IdleTask.pc = "idle" /\ IdleTask.row = None /\ ~IdleTask.cancel
  BY DEF IdleTask
<1>3. \A r \in DOMAIN program_runs : program_runs[r].boot \in Nat /\ program_runs[r].boot <= boot
  <2>1. \A r \in DOMAIN program_runs : program_runs[r] \in Rows
    BY LenProperties, ElementOfSeq DEF TypeInd, TypeOK, RunsOK
  <2> QED BY <2>1 DEF Rows, WaterInd, WateredRow
<1>4. \A r \in DOMAIN program_runs : program_runs[r].boot <= boot' /\ boot' > program_runs[r].boot
  BY <1>1, <1>3
<1>5. CancellerWaits'
  BY <1>1, <1>2 DEF CancellerWaits, CancelPcs
<1>6. WateredRow'
  BY <1>1, <1>4 DEF WaterInd, WateredRow
<1>7. \A t \in Slots : DealtWith(tasks[t])'
  BY <1>1, <1>2 DEF DealtWith, ClosingPcs
<1>8. NoWaterAfterRun'
  BY <1>1, <1>4 DEF WaterInd, WateredRow, NoWaterAfterRun
<1> QED BY <1>5, <1>6, <1>7, <1>8 DEF WaterInd

\* A call that leaves the runs alone, and that cancels none, keeps the cancellers
\* of those that are cancelled.
LEMMA CancellersStay ==
  ASSUME CancellerWaits, NEW c \in Calls, UNCHANGED tasks,
         \A d \in Calls \ {c} : calls'[d] = calls[d],
         calls[c].pc = "cancelling" => Resumes(c)
  PROVE  CancellerWaits'
  BY DEF CancellerWaits, CancelPcs, Resumes

\* A call: whoever cancels a run waits for it, and then has its own command to
\* send, which leaves no water of a run behind unless it fails.
LEMMA CallWater == ASSUME TypeInd, WaterInd, NEW c \in Calls, CallStep(c) PROVE WaterInd'
PROOF
<1>1. calls \in [Calls -> CallRecords] /\ tasks \in [Slots -> Tasks] /\ CallShape(calls[c]) /\ calls[c] \in CallRecords
  BY DEF TypeInd, TypeOK, CallsOK, RunsOK
<1>2. \A r : CallBecomes(c, r) => calls'[c] = r /\ \A d \in Calls \ {c} : calls'[d] = calls[d]
  BY <1>1 DEF CallBecomes
<1>3. ASSUME UNCHANGED program_runs PROVE RowsStay \/ boot' # boot
  BY <1>3 DEF RowsStay, WaterInd, WateredRow
<1>4. Arrived(c) \in CallRecords
  BY ArrivedTypes
<1>5. ASSUME NEW items, ClearRest(c, items)
      PROVE  calls'[c].pc \in {"command", "clearing"} /\ \A d \in Calls \ {c} : calls'[d] = calls[d]
  <2>1. PICK r : CallBecomes(c, r)
    BY <1>5 DEF ClearRest
  <2> QED BY <1>2, <1>5, <2>1, ClearRestOf
<1>6. CASE CancelActive(c)
  <2>1. /\ run_task \in Slots /\ tasks[run_task].pc # "idle"
        /\ tasks' = [tasks EXCEPT ![run_task].cancel = TRUE] /\ UNCHANGED <<boot, program_runs, hw>>
    BY <1>6 DEF CancelActive, RunAlive, CallUnchanged, TypeInd, TypeOK, RunsOK, CallsOK
  <2>2. calls'[c].pc = "cancelling" /\ calls'[c].task = run_task /\ \A d \in Calls \ {c} : calls'[d] = calls[d]
    <3>1. calls' = [calls EXCEPT ![c] = [Arrived(c) EXCEPT !.pc = "cancelling", !.task = run_task]]
      BY <1>6 DEF CancelActive, CallBecomes
    <3> QED BY <1>1, <1>4, <3>1 DEF CallRecords
  <2>3. calls[c].pc \in {"ready", "stopping"}
    BY <1>6 DEF CancelActive, Arrives
  <2>4. /\ \A t \in Slots : tasks'[t].row = tasks[t].row /\ tasks'[t].pc = tasks[t].pc
        /\ \A t \in Slots \ {run_task} : tasks'[t] = tasks[t]
    BY <1>1, <2>1 DEF Tasks
  <2>5. CancellerWaits'
    <3> SUFFICES ASSUME NEW t \in Slots
                 PROVE  /\ tasks'[t].pc = "idle" => ~tasks'[t].cancel
                        /\ tasks'[t].cancel \/ tasks'[t].pc \in CancelPcs =>
                             \E d \in Calls : calls'[d].pc = "cancelling" /\ calls'[d].task = t
      BY DEF CancellerWaits, CancelPcs
    <3>1. CASE t = run_task
      BY <2>1, <2>2, <2>4, <3>1
    <3>2. CASE t # run_task
      BY <2>2, <2>3, <2>4, <3>2 DEF WaterInd, CancellerWaits
    <3> QED BY <3>1, <3>2
  <2>6. InCall(c)'
    BY <2>2 DEF InCall
  <2> QED BY <1>3, <2>1, <2>4, <2>5, <2>6, WaterStays DEF SameWater
<1>7. CASE StopClears(c) \/ ManualHolds(c)
  <2>1. LetsGo(c) /\ UNCHANGED <<boot, program_runs, hw, tasks>>
    BY <1>7 DEF StopClears, ManualHolds, CallUnchanged
  <2>2. calls[c].pc = "cancelling" => Resumes(c)
    BY <2>1 DEF LetsGo, Arrives
  <2>3. calls'[c].pc \in {"command", "clearing"} /\ \A d \in Calls \ {c} : calls'[d] = calls[d]
    <3>1. CASE StopClears(c)
      BY <1>5, <3>1 DEF StopClears
    <3>2. CASE ManualHolds(c)
      <4>1. PICK r : r = [Arrived(c) EXCEPT !.pc = "command", !.task = None]
        OBVIOUS
      <4>2. r.pc = "command"
        BY <1>4, <4>1 DEF CallRecords
      <4> QED BY <1>2, <3>2, <4>1, <4>2 DEF ManualHolds
    <3> QED BY <1>7, <3>1, <3>2
  <2>4. CancellerWaits'
    BY <2>1, <2>2, <2>3, CancellersStay DEF WaterInd
  <2>5. InCall(c)'
    BY <2>3 DEF InCall
  <2> QED BY <1>3, <2>1, <2>4, <2>5, WaterStays DEF SameWater
<1>8. CASE ItemCleared(c)
  <2>1. PICK item : item = Head(calls[c].items)
    OBVIOUS
  <2>2. /\ Inserts(item, "cancelled", <<>>) \/ InsertFails(item, "cancelled", <<>>)
        /\ calls[c].pc = "clearing" /\ UNCHANGED <<tasks, hw, boot>>
    BY <1>8, <2>1 DEF ItemCleared, CallUnchanged
  <2>3. item \in Items
    <3>1. calls[c].items # <<>>
      BY <1>1, <2>2 DEF CallShape
    <3> QED BY <1>1, <2>1, <3>1, HeadTailProperties DEF CallRecords
  <2>4. RowsStay
    BY <2>2, <2>3, InsertedStays DEF Statuses, WaterInd
  <2>5. calls'[c].pc \in {"command", "clearing"} /\ \A d \in Calls \ {c} : calls'[d] = calls[d]
    BY <1>5, <1>8 DEF ItemCleared
  <2>6. CancellerWaits'
    BY <2>2, <2>5, CancellersStay DEF WaterInd
  <2>7. InCall(c)'
    BY <2>5 DEF InCall
  <2> QED BY <2>2, <2>4, <2>6, <2>7, WaterStays DEF SameWater
<1>9. CASE Command(c)
  <2>1. UNCHANGED <<tasks, program_runs, boot>> /\ calls[c].pc = "command" /\ \A d \in Calls \ {c} : calls'[d] = calls[d]
    BY <1>2, <1>9 DEF Command, CallUnchanged
  <2>2. CancellerWaits'
    BY <2>1, CancellersStay DEF WaterInd
  <2>3. hw'.row = None \/ (hw'.row = hw.row /\ hw'.refused)
    <3>1. Refused.row = hw.row /\ (hw.row # None => Refused.refused)
      BY DEF Refused, TypeInd, TypeOK, CallsOK, EnvOK, RunsOK, Waterings
    <3>2. \A w \in Commanded(c) : w.row = None
      BY DEF Commanded, Off, Water
    <3> QED BY <1>9, <3>1, <3>2 DEF Command
  <2>4. WateredRow'
    BY <2>1, <2>3 DEF WaterInd, WateredRow
  <2>5. \A t \in Slots : DealtWith(tasks[t])'
    BY <2>3 DEF DealtWith
  <2>6. NoWaterAfterRun'
    BY <2>3 DEF NoWaterAfterRun
  <2> QED BY <2>2, <2>4, <2>5, <2>6 DEF WaterInd
<1>10. CASE ShutdownBegins(c)
  <2>1. UNCHANGED <<tasks, program_runs, boot, hw>> /\ calls[c].pc = "ready"
    BY <1>10 DEF ShutdownBegins, db, env
  <2>2. calls'[c].pc = "stopping" /\ \A d \in Calls \ {c} : calls'[d] = calls[d]
    <3>1. calls' = [calls EXCEPT ![c] = [Arrived(c) EXCEPT !.pc = "stopping"]]
      BY <1>10 DEF ShutdownBegins, CallBecomes
    <3> QED BY <1>1, <1>4, <3>1 DEF CallRecords
  <2>3. CancellerWaits'
    BY <2>1, <2>2, CancellersStay DEF WaterInd
  <2>4. InCall(c)'
    BY <2>2 DEF InCall
  <2> QED BY <1>3, <2>1, <2>3, <2>4, WaterStays DEF SameWater
<1>11. CASE ShutdownEnds(c)
  BY <1>11, RestartWater DEF ShutdownEnds
<1> QED BY <1>6, <1>7, <1>8, <1>9, <1>10, <1>11 DEF CallStep

\* WaterInd is inductive, whatever fails, cancels and kills.
LEMMA NextWater ==
  TypeInd /\ TypeInd' /\ QueueInd /\ HistoryInd /\ HistoryInd' /\ WaterInd /\ [Next]_vars => WaterInd'
PROOF
<1> SUFFICES ASSUME TypeInd, TypeInd', QueueInd, HistoryInd, HistoryInd', WaterInd, [Next]_vars PROVE WaterInd'
  OBVIOUS
<1>1. CASE UNCHANGED vars
  <2>1. UNCHANGED <<tasks, program_runs, boot, hw, calls>>
    BY <1>1 DEF vars, db, env
  <2> QED BY <2>1 DEF WaterInd, CancellerWaits, WateredRow, DealtWith, NoWaterAfterRun, InCall
<1>2. CASE WebStep \/ ClockTick \/ Notify
  <2>1. UNCHANGED <<tasks, boot, calls>> /\ hw' \in {hw, Off}
    BY <1>2 DEF WebStep, ClockTick, Notify, SaveProgram, ToggleProgram, DeleteProgram, ToggleZone, RunNow, QuickRun, Request,
       Edit, WebUnchanged, config
  <2>2. RowsStay /\ SameWater
    BY <1>2, <2>1, RewrittenStays DEF WaterInd, SameWater, Off
  <2>3. CancellerWaits' /\ \A c \in Calls : InCall(c)' = InCall(c)
    BY <2>1 DEF WaterInd, CancellerWaits, CancelPcs, InCall
  <2> QED BY <2>1, <2>2, <2>3, WaterStays
<1>3. CASE LoopStep
  <2>1. /\ UNCHANGED <<hw, boot>>
        /\ \A t \in Slots : /\ tasks'[t].row = tasks[t].row
                            /\ tasks'[t] = tasks[t] \/ (tasks'[t].row = None /\ ~tasks'[t].cancel)
    BY <1>3, LoopRuns
  <2>2. RowsStay /\ SameWater
    BY <1>3, <2>1, LoopStays DEF WaterInd, SameWater
  <2>3. UNCHANGED calls
    BY <1>3 DEF LoopStep, TickBegins, FinalizeOrphans, FinalizeFails, FetchPrograms, FetchSteps, ReadRunKeys, ClaimRequests,
         RefreshFails, RefreshDone, AdmitStep, IgnoreRequest, OverflowRequest, AdmitRequest, InsertRequestMissed,
         RequestsAdmitted, EvaluateProgram, SkipOccurrence, MissOccurrence, AdmitOccurrence, InsertMissed, EvaluateDone,
         PumpIdle, PumpDrops, PumpStarts, LoopUnchanged, AdmitUnchanged, EvaluateUnchanged, PumpUnchanged
  <2>4. ASSUME NEW t \in Slots, tasks'[t].row = None, ~tasks'[t].cancel PROVE tasks'[t].pc \notin CancelPcs
    <3>1. Linked(tasks[t])'
      BY DEF HistoryInd, OwnRows
    <3>2. None \notin DOMAIN program_runs'
      BY LenProperties DEF None, TypeInd, TypeOK, RunsOK
    <3> QED BY <2>4, <3>1, <3>2 DEF Linked, OwnerPcs, HandlerPcs, CancelPcs
  <2>5. CancellerWaits' /\ \A c \in Calls : InCall(c)' = InCall(c)
    <3>1. ASSUME NEW t \in Slots
          PROVE  /\ tasks'[t].pc = "idle" => ~tasks'[t].cancel
                 /\ tasks'[t].cancel \/ tasks'[t].pc \in CancelPcs =>
                      \E c \in Calls : calls[c].pc = "cancelling" /\ calls[c].task = t
      BY <2>1, <2>4 DEF WaterInd, CancellerWaits
    <3> QED BY <2>3, <3>1 DEF CancellerWaits, CancelPcs, InCall
  <2> QED BY <2>1, <2>2, <2>5, WaterStays
<1>4. CASE Crash
  BY <1>4, RestartWater DEF Crash
<1>5. ASSUME NEW t \in Slots, RunTaskStep(t) PROVE WaterInd'
  BY <1>5, RunWater
<1>6. ASSUME NEW c \in Calls, CallStep(c) PROVE WaterInd'
  BY <1>6, CallWater
<1> QED BY <1>1, <1>2, <1>3, <1>4, <1>5, <1>6 DEF Next

\* A run that is over leaves no water, for any programs, requests and edits and
\* whatever fails, cancels and kills on its way: any mix of completed, failed
\* and skipped steps is stopped before its row is closed, unless no start was
\* answered (_execute); a cancelled run leaves that to the endpoint that cancels
\* it (stop_zone in main.py), a killed one to the zones' own timers, and a
\* stop_all that fails is only logged.
THEOREM WaterEnds == Spec => []NoWaterAfterRun
PROOF
<1>1. Init => WaterInd
  <2> SUFFICES ASSUME Init PROVE WaterInd
    OBVIOUS
  <2>1. hw.row = None /\ program_runs = <<>> /\ \A t \in Slots : tasks[t] = IdleTask
    BY DEF Init, Off
  <2>2. IdleTask.pc = "idle" /\ IdleTask.row = None /\ ~IdleTask.cancel
    BY DEF IdleTask
  <2> QED BY <2>1, <2>2 DEF WaterInd, CancellerWaits, CancelPcs, WateredRow, DealtWith, NoWaterAfterRun
<1>2. WaterInd => NoWaterAfterRun
  BY DEF WaterInd
<1>3. TypeInd /\ QueueInd /\ HistoryInd /\ (TypeInd /\ QueueInd /\ HistoryInd)' /\ WaterInd /\ [Next]_vars => WaterInd'
  BY NextWater
<1> QED BY <1>1, <1>2, <1>3, HistoryInvariant, PTL DEF Spec

==============================================================================
