------------------------- MODULE SchedulerTypeProofs -------------------------
(* The type invariant of the scheduler. *)
EXTENDS SchedulerProofs

ItemKeys == (Programs \cup {NoProgram}) \X Times

-----------------------------------------------------------------------------
(* Data.                                                                   *)

\* Keys are pairs of a program and an instant.
LEMMA KeysTypes == ASSUME NEW item \in Items PROVE Keys(item) \subseteq ItemKeys
  BY DEF Keys, Key, Items, ItemKeys

\* The records without content are well typed.
LEMMA IdleTypes == NoItem \in Items /\ IdleTask \in Tasks /\ TaskShape(IdleTask) /\ NoRun \in ActiveRuns /\ Off \in Waterings
PROOF
<1>1. NoItem \in Items
  BY DEF NoItem, Item, Items, Times
<1>2. IdleTask \in Tasks
  BY <1>1 DEF IdleTask, Tasks, TaskPcs, Times
<1> QED BY <1>1, <1>2 DEF TaskShape, IdleTask, NoRun, ActiveRuns, Off, Waterings, Times, FinishPcs

\* So is a call that has not been made.
LEMMA ReadyTypes == ReadyCall \in CallRecords /\ CallShape(ReadyCall)
  BY DEF ReadyCall, CallRecords, CallShape

\* The rows of program_runs.
LEMMA InsertTypes ==
  ASSUME NEW rows \in Seq(Rows), NEW item \in Items, NEW status \in Statuses, NEW steps \in Seq(Marks), boot \in Nat
  PROVE  Append(rows, NewRow(item, status, steps)) \in Seq(Rows)
PROOF
<1>1. NewRow(item, status, steps) \in Rows
  BY DEF NewRow, Rows, Items
<1> QED BY <1>1, AppendProperties

\* Replacing a row keeps the history well typed.
LEMMA RowsUpdate ==
  ASSUME NEW rows \in Seq(Rows), NEW r, NEW row, r \in DOMAIN rows => row \in Rows
  PROVE  [rows EXCEPT ![r] = row] \in Seq(Rows)
PROOF
<1>1. Len(rows) \in Nat /\ rows \in [1..Len(rows) -> Rows]
  BY LenProperties
<1>2. [rows EXCEPT ![r] = row] \in [1..Len(rows) -> Rows]
  BY <1>1
<1> QED BY <1>1, <1>2, SeqDef

\* So does marking one of its steps.
LEMMA MarksUpdate ==
  ASSUME NEW marks \in Seq(Marks), NEW i, NEW mark \in Marks
  PROVE  [marks EXCEPT ![i] = mark] \in Seq(Marks)
PROOF
<1>1. Len(marks) \in Nat /\ marks \in [1..Len(marks) -> Marks]
  BY LenProperties
<1>2. [marks EXCEPT ![i] = mark] \in [1..Len(marks) -> Marks]
  BY <1>1
<1> QED BY <1>1, <1>2, SeqDef

\* So does any UPDATE of a task.
LEMMA UpdatedTypes ==
  ASSUME NEW k \in Tasks, TaskShape(k), program_runs \in Seq(Rows), k.pc \in DOMAIN StepMark \cup FinishPcs
  PROVE  Updated(k) \in Seq(Rows)
PROOF
<1> DEFINE r == k.row
<1>1. r \in DOMAIN program_runs => program_runs[r] \in Rows
  BY LenProperties, ElementOfSeq
<1>2. CASE k.pc \in DOMAIN StepMark
  <2>1. StepMark[k.pc] \in Marks
    BY <1>2 DEF StepMark, Marks, Outcomes
  <2> DEFINE row == [program_runs[r] EXCEPT !.steps = [program_runs[r].steps EXCEPT ![Position(k)] = StepMark[k.pc]]]
  <2>2. ASSUME r \in DOMAIN program_runs PROVE row \in Rows
    <3>1. program_runs[r] \in Rows /\ program_runs[r].steps \in Seq(Marks)
      BY <1>1, <2>2 DEF Rows
    <3>2. [program_runs[r].steps EXCEPT ![Position(k)] = StepMark[k.pc]] \in Seq(Marks)
      BY <2>1, <3>1, MarksUpdate
    <3> QED BY <3>1, <3>2 DEF Rows
  <2>3. Updated(k) = [program_runs EXCEPT ![r] = row]
    BY <1>2 DEF Updated
  <2> HIDE DEF row, r
  <2> QED BY <2>2, <2>3, RowsUpdate
<1>3. CASE k.pc \notin DOMAIN StepMark
  <2> DEFINE row == [program_runs[r] EXCEPT !.status = k.status]
  <2>1. k.status \in Statuses
    BY <1>3 DEF TaskShape
  <2>2. ASSUME r \in DOMAIN program_runs PROVE row \in Rows
    BY <1>1, <2>1, <2>2 DEF Rows
  <2>3. Updated(k) = [program_runs EXCEPT ![r] = row]
    BY <1>3 DEF Updated
  <2> HIDE DEF row, r
  <2> QED BY <2>2, <2>3, RowsUpdate
<1> QED BY <1>2, <1>3

\* The row a task inserts is well typed.
LEMMA RowOfTask ==
  ASSUME NEW k \in Tasks, TaskShape(k), k.pc \in {"insert_running", "record_skip", "cancel_record"}
  PROVE  k.item \in Items /\ RowStatus(k) \in Statuses /\ RowSteps(k) \in Seq(Marks)
PROOF
<1>1. k.item \in Items /\ k.steps \in Seq(Zones)
  BY DEF Tasks
<1>2. RowStatus(k) \in Statuses
  BY DEF RowStatus, TaskShape, Statuses
<1>3. RowSteps(k) \in Seq(Marks)
  <2>1. Len(k.steps) \in Nat /\ DOMAIN k.steps = 1..Len(k.steps)
    BY <1>1, LenProperties
  <2>2. [i \in 1..Len(k.steps) |-> "pending"] \in [1..Len(k.steps) -> Marks]
    BY DEF Marks
  <2>3. [i \in DOMAIN k.steps |-> "pending"] \in Seq(Marks)
    BY <2>1, <2>2, SeqDef
  <2>4. <<>> \in Seq(Marks)
    OBVIOUS
  <2> QED BY <2>3, <2>4 DEF RowSteps
<1> QED BY <1>1, <1>2, <1>3

\* An abandoned store call leaves a well-typed history.
LEMMA AbandonedTypes ==
  ASSUME NEW k \in Tasks, TaskShape(k), program_runs \in Seq(Rows), boot \in Nat, NEW rows \in Abandoned(k)
  PROVE  rows \in Seq(Rows)
PROOF
<1>1. CASE rows = program_runs
  BY <1>1
<1>2. CASE k.pc \in {"insert_running", "record_skip", "cancel_record"}
           /\ rows = Append(program_runs, NewRow(k.item, RowStatus(k), RowSteps(k)))
  BY <1>2, RowOfTask, InsertTypes
<1>3. CASE k.pc \in DOMAIN StepMark \cup FinishPcs /\ rows = Updated(k)
  BY <1>3, UpdatedTypes
<1> QED BY <1>1, <1>2, <1>3 DEF Abandoned

-----------------------------------------------------------------------------
(* The coroutine of a run.                                                 *)

\* A task that moves to another await keeps its type.
LEMMA GoesTypes ==
  ASSUME NEW k \in Tasks, NEW pc \in TaskPcs \ (FinishPcs \cup {"record_skip", "cancel_record", "start", "start_reply"})
  PROVE  [k EXCEPT !.pc = pc] \in Tasks /\ TaskShape([k EXCEPT !.pc = pc])
  BY DEF Tasks, TaskShape

\* So does one that learns its final status.
LEMMA EndsTypes ==
  ASSUME NEW k \in Tasks, NEW pc \in TaskPcs \ {"start", "start_reply"}, NEW status \in Statuses
  PROVE  /\ [k EXCEPT !.pc = pc, !.status = status, !.cancel = FALSE] \in Tasks
         /\ TaskShape([k EXCEPT !.pc = pc, !.status = status, !.cancel = FALSE])
  BY DEF Tasks, TaskShape

\* A summary is a status of the schema.
LEMMA SummarizeTypes == ASSUME NEW outcomes PROVE Summarize(outcomes) \in Statuses
  BY DEF Summarize, Statuses

\* After a step a task is well typed, and knows its status if it was the last.
LEMMA AfterStepTypes ==
  ASSUME NEW k \in Tasks, NEW outcome \in Outcomes
  PROVE  AfterStep(k, outcome) \in Tasks /\ TaskShape(AfterStep(k, outcome))
PROOF
<1> DEFINE n == [k EXCEPT !.outcomes = Append(@, outcome), !.attempt = 1, !.wake = None, !.pc = "mark"]
           done == Append(k.outcomes, outcome)
<1>1. done \in Seq(Outcomes)
  BY AppendProperties DEF Tasks
<1> HIDE DEF done
<1> DEFINE Marked == [pc : TaskPcs \cup {"mark"}, item : Items, gate : BOOLEAN, steps : Seq(Zones),
                      row : Nat \cup {None}, outcomes : Seq(Outcomes), zones : SUBSET Zones, attempt : 1..2,
                      wake : Times, status : Statuses \cup {"none"}, cancel : BOOLEAN]
<1>0. n \in Marked
  <2>1. n = [k EXCEPT !.outcomes = done, !.attempt = 1, !.wake = None, !.pc = "mark"]
    BY DEF Tasks, done
  <2>2. [k EXCEPT !.outcomes = done] \in Tasks
    BY <1>1 DEF Tasks
  <2> DEFINE m == [k EXCEPT !.outcomes = done]
  <2>3. n = [m EXCEPT !.attempt = 1, !.wake = None, !.pc = "mark"]
    BY <2>1 DEF Tasks
  <2> HIDE DEF m, n
  <2>4. m \in Tasks /\ None \in Times /\ 1 \in 1..2
    BY <2>2 DEF m, Times
  <2> QED BY <2>3, <2>4 DEF Tasks
<1> HIDE DEF n
<1>2. \A pc \in {"fetch_step_zones", "stop"} : [n EXCEPT !.pc = pc] \in Tasks /\ [n EXCEPT !.pc = pc].pc = pc
  BY <1>0 DEF Tasks, TaskPcs, RunPcs
<1>3. ASSUME NEW status \in Statuses
      PROVE  /\ [n EXCEPT !.pc = "finish", !.status = status] \in Tasks
             /\ [n EXCEPT !.pc = "finish", !.status = status].pc = "finish"
             /\ [n EXCEPT !.pc = "finish", !.status = status].status = status
  BY <1>0 DEF Tasks, TaskPcs, RunPcs
<1>4. \/ \E pc \in {"fetch_step_zones", "stop"} : AfterStep(k, outcome) = [n EXCEPT !.pc = pc]
      \/ \E status \in Statuses : AfterStep(k, outcome) = [n EXCEPT !.pc = "finish", !.status = status]
  BY SummarizeTypes DEF AfterStep, n
<1>5. CASE \E pc \in {"fetch_step_zones", "stop"} : AfterStep(k, outcome) = [n EXCEPT !.pc = pc]
  BY <1>2, <1>5 DEF TaskShape, FinishPcs
<1>6. CASE \E status \in Statuses : AfterStep(k, outcome) = [n EXCEPT !.pc = "finish", !.status = status]
  BY <1>3, <1>6 DEF TaskShape, FinishPcs
<1> QED BY <1>4, <1>5, <1>6

\* What a step of run t leaves well-typed, whichever task it is about.
TaskStepOK(t) ==
  /\ \E k \in Tasks : TaskShape(k) /\ Becomes(t, k)
  /\ program_runs' \in Seq(Rows) /\ hw' \in Waterings /\ fired' \subseteq ItemKeys
  /\ active' \in ActiveRuns /\ poke' \in BOOLEAN /\ faults' \in Nat

\* A task's end leaves every task well typed.
LEMMA ExitsTypes ==
  ASSUME NEW t \in Slots, Exits(t)
  PROVE  /\ \E k \in Tasks : TaskShape(k) /\ Becomes(t, k)
         /\ active' \in ActiveRuns /\ poke' \in BOOLEAN
  BY IdleTypes DEF Exits

\* The count of faults stays a number.
LEMMA FaultTypes == faults \in Nat /\ (Fault \/ UNCHANGED faults) => faults' \in Nat
  BY DEF Fault

\* A refused command leaves the water as it was.
LEMMA RefusedTypes == hw \in Waterings => Refused \in Waterings
  BY DEF Refused, Waterings

\* A task's INSERT, whether it succeeds or fails, keeps the history well typed.
LEMMA InsertStepTypes ==
  ASSUME program_runs \in Seq(Rows), boot \in Nat, faults \in Nat,
         NEW item \in Items, NEW status \in Statuses, NEW steps \in Seq(Marks),
         Inserts(item, status, steps) \/ InsertFails(item, status, steps)
  PROVE  program_runs' \in Seq(Rows) /\ faults' \in Nat
PROOF
<1>1. Append(program_runs, NewRow(item, status, steps)) \in Seq(Rows)
  BY InsertTypes
<1> QED BY <1>1, FaultTypes DEF Inserts, InsertFails

\* The steps of a run before it has a row.
LEMMA SetupStepTypes ==
  ASSUME TypeInd, NEW t \in Slots,
         \/ RunBegins(t) \/ RainDelayRead(t) \/ WeatherDecided(t) \/ TerminalRecorded(t) \/ ZonesFetched(t)
         \/ RunInserted(t) \/ SetupFails(t) \/ CancelUnstarted(t) \/ CancelSetup(t)
  PROVE  TaskStepOK(t)
PROOF
<1> DEFINE k == tasks[t]
<1>1. /\ k \in Tasks /\ TaskShape(k) /\ k.item \in Items /\ k.steps \in Seq(Zones)
      /\ program_runs \in Seq(Rows) /\ hw \in Waterings /\ fired \subseteq ItemKeys /\ active \in ActiveRuns
      /\ poke \in BOOLEAN /\ faults \in Nat /\ boot \in Nat /\ enabled_zones \subseteq Zones
  BY DEF TypeInd, TypeOK, RunsOK, CallsOK, EnvOK, Tasks, ItemKeys
<1>2. \A pc \in {"rain_delay", "fetch_zones", "weather"} : [k EXCEPT !.pc = pc] \in Tasks /\ TaskShape([k EXCEPT !.pc = pc])
  BY <1>1, GoesTypes DEF TaskPcs, SetupPcs, FinishPcs
<1>3. \A pc \in {"record_skip", "cancel_record"}, status \in Statuses :
        /\ [k EXCEPT !.pc = pc, !.status = status, !.cancel = FALSE] \in Tasks
        /\ TaskShape([k EXCEPT !.pc = pc, !.status = status, !.cancel = FALSE])
  BY <1>1, EndsTypes DEF TaskPcs, SetupPcs
<1>4. {"skipped_rain_delay", "skipped_weather", "cancelled"} \subseteq Statuses
  BY DEF Statuses, Skips
<1> HIDE DEF k
<1>5. CASE RunBegins(t)
  BY <1>1, <1>2, <1>5 DEF RunBegins, Goes, TaskStepOK, k
<1>6. CASE RainDelayRead(t)
  BY <1>1, <1>2, <1>3, <1>4, <1>6 DEF RainDelayRead, Goes, Ends, TaskStepOK, k
<1>7. CASE WeatherDecided(t)
  BY <1>1, <1>2, <1>3, <1>4, <1>7 DEF WeatherDecided, Goes, Ends, TaskStepOK, k
<1>8. CASE TerminalRecorded(t)
  <2>1. k.status \in Statuses /\ <<>> \in Seq(Marks)
    BY <1>1, <1>8 DEF TerminalRecorded, At, TaskShape, k
  <2>2. program_runs' \in Seq(Rows) /\ faults' \in Nat
    BY <1>1, <1>8, <2>1, InsertStepTypes DEF TerminalRecorded, k
  <2>3. fired' \subseteq ItemKeys
    BY <1>1, <1>8, KeysTypes DEF TerminalRecorded, k
  <2> QED BY <1>1, <1>8, <2>2, <2>3, ExitsTypes DEF TerminalRecorded, TaskStepOK
<1>9. CASE ZonesFetched(t)
  <2>1. /\ [k EXCEPT !.pc = "insert_running", !.zones = enabled_zones] \in Tasks
        /\ TaskShape([k EXCEPT !.pc = "insert_running", !.zones = enabled_zones])
    BY <1>1 DEF Tasks, TaskPcs, SetupPcs, TaskShape, FinishPcs
  <2> QED BY <1>1, <1>9, <2>1 DEF ZonesFetched, TaskStepOK, k
<1>10. CASE RunInserted(t)
  <2> DEFINE row == Len(program_runs) + 1
  <2>1. row \in Nat
    BY <1>1, LenProperties
  <2>2. /\ k.pc = "insert_running" /\ Inserts(k.item, "running", RowSteps(k))
        /\ fired' = fired \cup Keys(k.item) /\ UNCHANGED <<hw, poke>>
        /\ active' = [row |-> row, program |-> k.item.program, at |-> k.item.at, step |-> None]
        /\ Becomes(t, [k EXCEPT !.pc = "fetch_step_zones", !.row = row])
    BY <1>10 DEF RunInserted, At, k
  <2> HIDE DEF row
  <2>3. program_runs' \in Seq(Rows) /\ faults' \in Nat
    BY <1>1, <2>2, RowOfTask, InsertStepTypes DEF Statuses
  <2>4. fired' \subseteq ItemKeys /\ active' \in ActiveRuns
    BY <1>1, <2>1, <2>2, KeysTypes DEF ActiveRuns, Items
  <2>5. /\ [k EXCEPT !.pc = "fetch_step_zones", !.row = row] \in Tasks
        /\ TaskShape([k EXCEPT !.pc = "fetch_step_zones", !.row = row])
    BY <1>1, <2>1 DEF Tasks, TaskPcs, RunPcs, TaskShape, FinishPcs
  <2> QED BY <1>1, <2>2, <2>3, <2>4, <2>5 DEF TaskStepOK
<1>11. CASE SetupFails(t)
  <2>1. program_runs' \in Seq(Rows) /\ faults' \in Nat
    <3>1. CASE At(t, {"fetch_zones"}) /\ Fault /\ UNCHANGED program_runs
      BY <1>1, <3>1, FaultTypes
    <3>2. CASE k.pc \in {"record_skip", "insert_running"} /\ InsertFails(k.item, RowStatus(k), RowSteps(k))
      BY <1>1, <3>2, RowOfTask, InsertStepTypes
    <3> QED BY <1>11, <3>1, <3>2 DEF SetupFails, At, k
  <2> QED BY <1>1, <1>11, <2>1, ExitsTypes DEF SetupFails, TaskStepOK
<1>12. CASE CancelUnstarted(t)
  BY <1>1, <1>12, IdleTypes DEF CancelUnstarted, TaskStepOK
<1>13. CASE CancelSetup(t)
  <2>1. program_runs' \in Seq(Rows)
    BY <1>1, <1>13, AbandonedTypes DEF CancelSetup, k
  <2>2. (\E n \in Tasks : TaskShape(n) /\ Becomes(t, n)) /\ active' \in ActiveRuns /\ poke' \in BOOLEAN
    BY <1>1, <1>3, <1>4, <1>13, ExitsTypes DEF CancelSetup, Ends, k
  <2> QED BY <1>1, <1>13, <2>1, <2>2 DEF CancelSetup, TaskStepOK
<1> QED BY <1>5, <1>6, <1>7, <1>8, <1>9, <1>10, <1>11, <1>12, <1>13

\* The steps of a run between its row and its last step.
LEMMA WateringStepTypes ==
  ASSUME TypeInd, NEW t \in Slots,
         \/ StepZonesFetched(t) \/ ZoneStarts(t) \/ StartFails(t) \/ StartReplies(t) \/ StartRepliesUntracked(t)
         \/ StepStarted(t) \/ StepSlept(t) \/ StepEnds(t)
  PROVE  TaskStepOK(t)
PROOF
<1> DEFINE k == tasks[t]
<1>1. /\ k \in Tasks /\ TaskShape(k) /\ k.steps \in Seq(Zones) /\ Position(k) \in Nat
      /\ program_runs \in Seq(Rows) /\ hw \in Waterings /\ fired \subseteq ItemKeys /\ active \in ActiveRuns
      /\ poke \in BOOLEAN /\ faults \in Nat /\ now \in Nat /\ enabled_zones \subseteq Zones
  <2>1. k \in Tasks /\ k.steps \in Seq(Zones) /\ k.outcomes \in Seq(Outcomes)
    BY DEF TypeInd, TypeOK, RunsOK, Tasks
  <2> HIDE DEF k
  <2>2. Position(k) \in Nat
    BY <2>1, LenProperties DEF Position
  <2> QED BY <2>1, <2>2 DEF TypeInd, TypeOK, RunsOK, CallsOK, EnvOK, ItemKeys, k
<1>2. \A pc \in {"crash_stop", "mark_started", "mark_completed"} :
        [k EXCEPT !.pc = pc] \in Tasks /\ TaskShape([k EXCEPT !.pc = pc])
  BY <1>1, GoesTypes DEF TaskPcs, RunPcs, HandlerPcs, FinishPcs
<1> HIDE DEF k
<1>3. CASE StepZonesFetched(t)
  <2>1. PICK zones \in {enabled_zones, k.zones} :
          /\ (zones = enabled_zones /\ UNCHANGED faults) \/ (zones = k.zones /\ Fault)
          /\ Becomes(t, [k EXCEPT !.zones = zones,
                           !.pc = IF k.steps[Position(k)] \in zones THEN "start" ELSE "mark_skipped"])
    BY <1>3 DEF StepZonesFetched, k
  <2>2. zones \subseteq Zones
    BY <1>1 DEF Tasks
  <2>3. CASE k.steps[Position(k)] \in zones
    <3> DEFINE n == [k EXCEPT !.zones = zones, !.pc = "start"]
    <3>1. /\ n \in Tasks /\ n.pc = "start" /\ n.steps = k.steps /\ n.outcomes = k.outcomes
          /\ k.steps[Position(k)] \in Zones
      BY <1>1, <2>2, <2>3 DEF Tasks, TaskPcs, RunPcs
    <3>2. Becomes(t, n)
      BY <2>1, <2>3
    <3> HIDE DEF n
    <3>3. TaskShape(n)
      BY <3>1 DEF TaskShape, FinishPcs, Position
    <3>4. faults' \in Nat
      BY <1>1, <2>1, FaultTypes
    <3> QED BY <1>1, <1>3, <3>1, <3>2, <3>3, <3>4 DEF StepZonesFetched, TaskStepOK
  <2>4. CASE k.steps[Position(k)] \notin zones
    <3> DEFINE n == [k EXCEPT !.zones = zones, !.pc = "mark_skipped"]
    <3>1. n \in Tasks /\ n.pc = "mark_skipped"
      BY <1>1, <2>2 DEF Tasks, TaskPcs, RunPcs
    <3>2. Becomes(t, n)
      BY <2>1, <2>4
    <3> HIDE DEF n
    <3>3. TaskShape(n)
      BY <3>1 DEF TaskShape, FinishPcs
    <3>4. faults' \in Nat
      BY <1>1, <2>1, FaultTypes
    <3> QED BY <1>1, <1>3, <3>1, <3>2, <3>3, <3>4 DEF StepZonesFetched, TaskStepOK
  <2> QED BY <2>3, <2>4
<1>4. CASE ZoneStarts(t)
  <2>1. /\ k.pc = "start" /\ Becomes(t, [k EXCEPT !.pc = "start_reply"])
        /\ hw' = Water(k.steps[Position(k)], k.row, StepMinutes)
        /\ program_runs' = [program_runs EXCEPT ![k.row].watered = TRUE]
        /\ UNCHANGED <<fired, active, poke, faults>>
    BY <1>4 DEF ZoneStarts, At, Goes, k
  <2>2. k.steps[Position(k)] \in Zones
    BY <1>1, <2>1 DEF TaskShape
  <2>3. hw' \in Waterings
    <3>1. now + StepMinutes \in Nat /\ k.row \in Nat \cup {None}
      BY <1>1, TimeAssumption DEF Tasks
    <3> QED BY <2>1, <2>2, <3>1 DEF Water, Waterings, Times
  <2>4. program_runs' \in Seq(Rows)
    <3> DEFINE row == [program_runs[k.row] EXCEPT !.watered = TRUE]
    <3>1. k.row \in DOMAIN program_runs => program_runs[k.row] \in Rows
      BY <1>1, LenProperties, ElementOfSeq
    <3>2. k.row \in DOMAIN program_runs => row \in Rows
      BY <3>1 DEF Rows
    <3>3. program_runs' = [program_runs EXCEPT ![k.row] = row]
      BY <2>1
    <3> HIDE DEF row
    <3> QED BY <1>1, <3>2, <3>3, RowsUpdate
  <2>5. /\ [k EXCEPT !.pc = "start_reply"] \in Tasks /\ [k EXCEPT !.pc = "start_reply"].pc = "start_reply"
        /\ [k EXCEPT !.pc = "start_reply"].steps = k.steps /\ [k EXCEPT !.pc = "start_reply"].outcomes = k.outcomes
    BY <1>1 DEF Tasks, TaskPcs, RunPcs
  <2>6. TaskShape([k EXCEPT !.pc = "start_reply"])
    BY <2>2, <2>5 DEF TaskShape, FinishPcs, Position
  <2> QED BY <1>1, <2>1, <2>3, <2>4, <2>5, <2>6 DEF TaskStepOK
<1>5. CASE StartFails(t)
  <2>1. PICK pc \in {"start", "mark_failed"} :
          k.pc \in {"start", "start_reply"} /\ Becomes(t, [k EXCEPT !.attempt = 2, !.pc = pc])
    BY <1>5 DEF StartFails, At, k
  <2> DEFINE n == [k EXCEPT !.attempt = 2, !.pc = pc]
  <2>2. n \in Tasks /\ n.pc = pc /\ n.steps = k.steps /\ n.outcomes = k.outcomes
    <3>1. pc \in TaskPcs /\ 2 \in 1..2
      BY <2>1 DEF TaskPcs, RunPcs
    <3> QED BY <1>1, <3>1 DEF Tasks
  <2> HIDE DEF n
  <2>3. TaskShape(n)
    BY <1>1, <2>1, <2>2 DEF TaskShape, FinishPcs, Position
  <2>4. faults' \in Nat
    BY <1>1, <1>5, FaultTypes DEF StartFails
  <2> QED BY <1>1, <1>5, <2>1, <2>2, <2>3, <2>4 DEF StartFails, TaskStepOK, n
<1>6. CASE StartReplies(t)
  <2>1. active' = [active EXCEPT !.step = Position(k)] /\ Becomes(t, [k EXCEPT !.pc = "mark_started"])
    BY <1>6 DEF StartReplies, Goes, k
  <2>2. active' \in ActiveRuns
    BY <1>1, <2>1 DEF ActiveRuns
  <2> QED BY <1>1, <1>2, <1>6, <2>1, <2>2 DEF StartReplies, TaskStepOK
<1>7. CASE StartRepliesUntracked(t)
  BY <1>1, <1>2, <1>7 DEF StartRepliesUntracked, Goes, TaskStepOK, k
<1>8. CASE StepStarted(t)
  <2>1. /\ Becomes(t, [k EXCEPT !.pc = "sleep", !.wake = now + StepMinutes])
        /\ k.pc = "mark_started" /\ program_runs' = Updated(k)
    BY <1>8 DEF StepStarted, At, k
  <2>2. now + StepMinutes \in Times
    BY <1>1, TimeAssumption DEF Times
  <2>3. /\ [k EXCEPT !.pc = "sleep", !.wake = now + StepMinutes] \in Tasks
        /\ TaskShape([k EXCEPT !.pc = "sleep", !.wake = now + StepMinutes])
    BY <1>1, <2>2 DEF Tasks, TaskPcs, RunPcs, TaskShape, FinishPcs
  <2>4. program_runs' \in Seq(Rows)
    BY <1>1, <2>1, UpdatedTypes DEF StepMark
  <2> QED BY <1>1, <1>8, <2>1, <2>3, <2>4 DEF StepStarted, TaskStepOK
<1>9. CASE StepSlept(t)
  BY <1>1, <1>2, <1>9 DEF StepSlept, Goes, TaskStepOK, k
<1>10. CASE StepEnds(t)
  <2>1. /\ k.pc \in {"mark_skipped", "mark_failed", "mark_completed"}
        /\ program_runs' = Updated(k) /\ Becomes(t, AfterStep(k, StepMark[k.pc]))
    BY <1>10 DEF StepEnds, At, k
  <2>2. StepMark[k.pc] \in Outcomes /\ k.pc \in DOMAIN StepMark
    BY <2>1 DEF StepMark, Outcomes
  <2>3. program_runs' \in Seq(Rows)
    BY <1>1, <2>1, <2>2, UpdatedTypes
  <2>4. AfterStep(k, StepMark[k.pc]) \in Tasks /\ TaskShape(AfterStep(k, StepMark[k.pc]))
    BY <1>1, <2>2, AfterStepTypes
  <2> QED BY <1>1, <1>10, <2>1, <2>3, <2>4 DEF StepEnds, TaskStepOK
<1> QED BY <1>3, <1>4, <1>5, <1>6, <1>7, <1>8, <1>9, <1>10

\* The steps that end a run: stop, summary, cancellation, crash.
LEMMA EndStepTypes ==
  ASSUME TypeInd, NEW t \in Slots,
         \/ RunStops(t) \/ RunFinished(t) \/ RunCrashes(t) \/ InFlightCancelled(t) \/ HandlerFails(t)
         \/ CancelRun(t) \/ CancelHandler(t)
  PROVE  TaskStepOK(t)
PROOF
<1> DEFINE k == tasks[t]
<1>1. /\ k \in Tasks /\ TaskShape(k) /\ k.item \in Items
      /\ program_runs \in Seq(Rows) /\ hw \in Waterings /\ Off \in Waterings
      /\ fired \subseteq ItemKeys /\ active \in ActiveRuns
      /\ poke \in BOOLEAN /\ faults \in Nat /\ boot \in Nat
  BY IdleTypes DEF TypeInd, TypeOK, RunsOK, CallsOK, EnvOK, Tasks, ItemKeys
<1>2. [k EXCEPT !.pc = "crash_stop"] \in Tasks /\ TaskShape([k EXCEPT !.pc = "crash_stop"])
  BY <1>1, GoesTypes DEF TaskPcs, HandlerPcs, FinishPcs
<1>3. \A pc \in {"finish", "crash_finish", "cancel_finish", "cancel_mark"}, status \in Statuses :
        /\ [k EXCEPT !.pc = pc, !.status = status, !.cancel = FALSE] \in Tasks
        /\ TaskShape([k EXCEPT !.pc = pc, !.status = status, !.cancel = FALSE])
  BY <1>1, EndsTypes DEF TaskPcs, RunPcs, HandlerPcs
<1>4. {"failed", "cancelled"} \subseteq Statuses /\ Summarize(k.outcomes) \in Statuses
  BY SummarizeTypes DEF Statuses
<1>5. Abandoned(k) \subseteq Seq(Rows)
  BY <1>1, AbandonedTypes
<1> HIDE DEF k
<1>6. CASE RunStops(t)
  <2>1. hw' \in Waterings /\ faults' \in Nat
    BY <1>1, <1>6, FaultTypes, RefusedTypes DEF RunStops
  <2>2. \E n \in Tasks : TaskShape(n) /\ Becomes(t, n)
    BY <1>3, <1>4, <1>6 DEF RunStops, Ends, k
  <2> QED BY <1>1, <1>6, <2>1, <2>2 DEF RunStops, TaskStepOK
<1>7. CASE RunFinished(t)
  <2>1. program_runs' \in Seq(Rows)
    BY <1>1, <1>7, UpdatedTypes DEF RunFinished, At, k
  <2> QED BY <1>1, <1>7, <2>1, ExitsTypes DEF RunFinished, TaskStepOK
<1>8. CASE RunCrashes(t)
  <2>1. \E n \in Tasks : TaskShape(n) /\ Becomes(t, n)
    BY <1>2, <1>3, <1>4, <1>8 DEF RunCrashes, Goes, Ends, k
  <2>2. program_runs' \in Seq(Rows) /\ faults' \in Nat
    BY <1>1, <1>5, <1>8, FaultTypes DEF RunCrashes, k
  <2> QED BY <1>1, <1>8, <2>1, <2>2 DEF RunCrashes, TaskStepOK
<1>9. CASE InFlightCancelled(t)
  <2>1. k.pc \in DOMAIN StepMark
    BY <1>9 DEF InFlightCancelled, At, StepMark, k
  <2>2. program_runs' \in Seq(Rows)
    BY <1>1, <1>9, <2>1, UpdatedTypes DEF InFlightCancelled, k
  <2> QED BY <1>1, <1>3, <1>4, <1>9, <2>2 DEF InFlightCancelled, Ends, TaskStepOK, k
<1>10. CASE HandlerFails(t)
  <2>1. program_runs' \in Seq(Rows) /\ faults' \in Nat
    <3>1. CASE Fault /\ program_runs' \in Abandoned(k)
      BY <1>1, <1>5, <3>1, FaultTypes
    <3>2. CASE InsertFails(k.item, "cancelled", <<>>)
      <4>1. <<>> \in Seq(Marks) /\ "cancelled" \in Statuses
        BY <1>4
      <4> QED BY <1>1, <3>2, <4>1, InsertStepTypes
    <3> QED BY <1>10, <3>1, <3>2 DEF HandlerFails, k
  <2>2. fired' \subseteq ItemKeys
    <3>1. fired' = fired \cup Keys(k.item) \/ fired' = fired
      BY <1>10 DEF HandlerFails, k
    <3> QED BY <1>1, <3>1, KeysTypes
  <2> QED BY <1>1, <1>10, <2>1, <2>2, ExitsTypes DEF HandlerFails, TaskStepOK
<1>11. CASE CancelRun(t)
  <2>1. \E n \in Tasks : TaskShape(n) /\ Becomes(t, n)
    BY <1>3, <1>4, <1>11 DEF CancelRun, Ends, k
  <2>2. program_runs' \in Seq(Rows) /\ hw' \in Waterings
    BY <1>1, <1>5, <1>11 DEF CancelRun, k
  <2> QED BY <1>1, <1>11, <2>1, <2>2 DEF CancelRun, TaskStepOK
<1>12. CASE CancelHandler(t)
  <2>1. program_runs' \in Seq(Rows) /\ hw' \in Waterings
    BY <1>1, <1>5, <1>12 DEF CancelHandler, k
  <2> QED BY <1>1, <1>12, <2>1, ExitsTypes DEF CancelHandler, TaskStepOK
<1> QED BY <1>6, <1>7, <1>8, <1>9, <1>10, <1>11, <1>12

\* Every step of a run keeps the types.
LEMMA RunTaskStepTypes == ASSUME TypeInd, QueueTypes', NEW t \in Slots, RunTaskStep(t) PROVE TypeInd'
PROOF
<1>1. TaskStepOK(t)
  BY SetupStepTypes, WateringStepTypes, EndStepTypes DEF RunTaskStep
<1>2. TaskUnchanged
  BY DEF RunTaskStep, RunBegins, RainDelayRead, WeatherDecided, TerminalRecorded, ZonesFetched, RunInserted,
         SetupFails, StepZonesFetched, ZoneStarts, StartFails, StartReplies, StartRepliesUntracked, StepStarted,
         StepSlept, StepEnds, RunStops, RunFinished, RunCrashes, InFlightCancelled, HandlerFails,
         CancelUnstarted, CancelSetup, CancelRun, CancelHandler
<1>3. PICK k \in Tasks : TaskShape(k) /\ tasks' = [tasks EXCEPT ![t] = k]
  BY <1>1 DEF TaskStepOK, Becomes
<1>4. tasks' \in [Slots -> Tasks] /\ \A s \in Slots : TaskShape(tasks'[s])
  BY <1>3 DEF TypeInd, TypeOK, RunsOK
<1>5. RunsOK'
  BY <1>1, <1>2, <1>4 DEF TaskStepOK, TaskUnchanged, TypeInd, TypeOK, RunsOK, ItemKeys
<1>6. EnvOK' /\ CallsOK' /\ \A c \in Calls : CallShape(calls'[c])
  BY <1>1, <1>2 DEF TaskStepOK, TaskUnchanged, TypeInd, TypeOK, EnvOK, CallsOK
<1>7. \A s \in Slots : TaskShape(tasks[s])'
  BY <1>4 DEF TaskShape, Position
<1>8. \A c \in Calls : CallShape(calls[c])'
  BY <1>6 DEF CallShape
<1> QED BY <1>5, <1>6, <1>7, <1>8 DEF TypeInd, TypeOK, QueueTypes

-----------------------------------------------------------------------------
(* The loop, the web app, the calls and the process.                       *)

\* The task and call coroutines keep their shapes if they are left alone.
LEMMA ShapesKept ==
  ASSUME TypeInd, UNCHANGED <<tasks, calls>>, QueueTypes', EnvOK', RunsOK', CallsOK'
  PROVE  TypeInd'
  BY DEF TypeInd, TypeOK, QueueTypes, TaskShape, CallShape, Position

\* Every step of the loop before the pump keeps the types.
LEMMA LoopStepTypes ==
  ASSUME TypeInd, QueueTypes',
         \/ TickBegins \/ FinalizeOrphans \/ FinalizeFails \/ FetchPrograms \/ FetchSteps \/ ReadRunKeys \/ ClaimRequests
         \/ RefreshFails \/ RefreshDone \/ AdmitStep \/ RequestsAdmitted \/ EvaluateProgram \/ SkipOccurrence
         \/ MissOccurrence \/ AdmitOccurrence \/ InsertMissed \/ EvaluateDone
  PROVE  TypeInd'
PROOF
<1>1. /\ UNCHANGED <<enabled_zones, hw, tasks, calls, now, notify, boot, requested, edits, active, run_task, manual_until>>
      /\ poke' \in {poke, FALSE}
  BY DEF TickBegins, FinalizeOrphans, FinalizeFails, FetchPrograms, FetchSteps, ReadRunKeys, ClaimRequests, RefreshFails,
         RefreshDone, AdmitStep, RequestsAdmitted, EvaluateProgram, SkipOccurrence, MissOccurrence, AdmitOccurrence,
         InsertMissed, EvaluateDone, LoopUnchanged, AdmitUnchanged, EvaluateUnchanged, IgnoreRequest,
         OverflowRequest, AdmitRequest, InsertRequestMissed
<1>2. /\ program_runs \in Seq(Rows) /\ fired \subseteq ItemKeys /\ faults \in Nat /\ boot \in Nat
      /\ loop \in Loops /\ \A r \in DOMAIN program_runs : program_runs[r] \in Rows
  BY LenProperties, ElementOfSeq DEF TypeInd, TypeOK, RunsOK, EnvOK, QueueOK, ItemKeys
<1>3. "missed" \in Statuses /\ <<>> \in Seq(Marks)
  BY DEF Statuses
<1>4. [r \in DOMAIN program_runs |-> Finalized(program_runs[r])] \in Seq(Rows)
  <2>1. ASSUME NEW row \in Rows PROVE Finalized(row) \in Rows
    <3> DEFINE steps == [i \in DOMAIN row.steps |-> IF row.steps[i] = "started" THEN "cancelled" ELSE row.steps[i]]
    <3>1. row.steps \in Seq(Marks)
      BY DEF Rows
    <3>2. Len(row.steps) \in Nat /\ DOMAIN row.steps = 1..Len(row.steps) /\ \A i \in 1..Len(row.steps) : row.steps[i] \in Marks
      BY <3>1, LenProperties, ElementOfSeq
    <3>3. steps \in [1..Len(row.steps) -> Marks]
      BY <3>2 DEF Marks
    <3>4. steps \in Seq(Marks)
      BY <3>2, <3>3, SeqDef
    <3> HIDE DEF steps
    <3>5. [row EXCEPT !.status = "cancelled", !.steps = steps] \in Rows
      BY <3>4 DEF Rows, Statuses
    <3>6. Finalized(row) = row \/ Finalized(row) = [row EXCEPT !.status = "cancelled", !.steps = steps]
      BY DEF Finalized, steps
    <3> QED BY <3>5, <3>6
  <2>2. Len(program_runs) \in Nat /\ DOMAIN program_runs = 1..Len(program_runs)
    BY <1>2, LenProperties
  <2>3. [r \in 1..Len(program_runs) |-> Finalized(program_runs[r])] \in [1..Len(program_runs) -> Rows]
    BY <1>2, <2>1, <2>2
  <2> QED BY <2>2, <2>3, SeqDef
<1>5. program_runs' \in Seq(Rows) /\ fired' \subseteq ItemKeys /\ faults' \in Nat
  <2>1. CASE \/ TickBegins \/ FetchPrograms \/ FetchSteps \/ ClaimRequests \/ RefreshDone \/ RequestsAdmitted \/ EvaluateProgram
             \/ SkipOccurrence \/ MissOccurrence \/ AdmitOccurrence \/ EvaluateDone
    <3>1. UNCHANGED <<program_runs, fired, faults>>
      BY <2>1 DEF TickBegins, FetchPrograms, FetchSteps, ClaimRequests, RefreshDone, RequestsAdmitted, EvaluateProgram,
                  SkipOccurrence, MissOccurrence, AdmitOccurrence, EvaluateDone, LoopUnchanged, AdmitUnchanged,
                  EvaluateUnchanged
    <3> QED BY <1>2, <3>1
  <2>2. CASE FinalizeOrphans \/ FinalizeFails \/ RefreshFails
    BY <1>2, <1>4, <2>2, FaultTypes DEF FinalizeOrphans, FinalizeFails, RefreshFails
  <2>3. CASE ReadRunKeys
    <3>1. fired' \subseteq fired \cup RecentRunKeys(loop.now - Lookback) /\ UNCHANGED <<program_runs, faults>>
      BY <2>3 DEF ReadRunKeys
    <3>2. RecentRunKeys(loop.now - Lookback) \subseteq ItemKeys
      BY <1>2 DEF RecentRunKeys, Rows, ItemKeys
    <3> QED BY <1>2, <3>1, <3>2
  <2>4. CASE AdmitStep
    <3>1. PICK req \in loop.reqs :
            IgnoreRequest(req) \/ OverflowRequest(req) \/ AdmitRequest(req) \/ InsertRequestMissed(req)
      BY <2>4 DEF AdmitStep
    <3>2. req \in Items
      BY <1>2 DEF Loops
    <3>3. fired' = fired
      BY <3>1 DEF IgnoreRequest, OverflowRequest, AdmitRequest, InsertRequestMissed, AdmitUnchanged
    <3>4. \/ UNCHANGED <<program_runs, faults>>
          \/ Inserts(req, "missed", <<>>) \/ InsertFails(req, "missed", <<>>)
      BY <3>1 DEF IgnoreRequest, OverflowRequest, AdmitRequest, InsertRequestMissed
    <3>5. program_runs' \in Seq(Rows) /\ faults' \in Nat
      BY <1>2, <1>3, <3>2, <3>4, InsertStepTypes
    <3> QED BY <1>2, <3>3, <3>5
  <2>5. CASE InsertMissed
    <3>1. PICK occ \in loop.work :
            LET item == Item(loop.program, occ, 0, <<>>)
            IN  \/ Inserts(item, "missed", <<>>) /\ fired' = fired \cup {Key(item)}
                \/ InsertFails(item, "missed", <<>>) /\ UNCHANGED fired
      BY <2>5 DEF InsertMissed
    <3> DEFINE item == Item(loop.program, occ, 0, <<>>)
    <3>2. item \in Items
      BY <1>2 DEF Loops, Item, Items, Times
    <3> HIDE DEF item
    <3>3. program_runs' \in Seq(Rows) /\ faults' \in Nat
      BY <1>2, <1>3, <3>1, <3>2, InsertStepTypes DEF item
    <3>4. Key(item) \in ItemKeys
      BY <3>2 DEF Key, Items, ItemKeys
    <3> QED BY <1>2, <3>1, <3>3, <3>4 DEF item
  <2> QED BY <2>1, <2>2, <2>3, <2>4, <2>5
<1>6. EnvOK' /\ RunsOK' /\ CallsOK'
  BY <1>1, <1>5 DEF TypeInd, TypeOK, EnvOK, RunsOK, CallsOK, ItemKeys
<1> QED BY <1>1, <1>6, ShapesKept

\* The pump keeps the types.
LEMMA PumpTypes == ASSUME TypeInd, QueueTypes', PumpIdle \/ PumpDrops \/ PumpStarts PROVE TypeInd'
PROOF
<1>1. UNCHANGED <<program_runs, enabled_zones, hw, fired, active, poke, calls, env>>
  BY DEF PumpIdle, PumpDrops, PumpStarts, PumpUnchanged, db
<1>2. /\ tasks \in [Slots -> Tasks] /\ run_task \in Slots \cup {None} /\ manual_until \in Times
      /\ queue \in Seq(Items) /\ cache \in [Programs -> Versions]
      /\ \A t \in Slots : TaskShape(tasks[t])
  BY DEF TypeInd, TypeOK, RunsOK, CallsOK, QueueOK, ConfigOK
<1>3. EnvOK' /\ program_runs' \in Seq(Rows) /\ active' \in ActiveRuns /\ fired' \subseteq ItemKeys
      /\ hw' \in Waterings /\ enabled_zones' \subseteq Zones /\ calls' \in [Calls -> CallRecords]
      /\ poke' \in BOOLEAN /\ \A c \in Calls : CallShape(calls'[c])
  BY <1>1 DEF TypeInd, TypeOK, RunsOK, CallsOK, EnvOK, env, ItemKeys
<1>4. manual_until' \in Times
  BY <1>2 DEF PumpIdle, PumpDrops, PumpStarts, Times
<1>5. tasks' \in [Slots -> Tasks] /\ run_task' \in Slots \cup {None} /\ \A t \in Slots : TaskShape(tasks'[t])
  <2>1. CASE PumpIdle \/ PumpDrops
    BY <1>2, <2>1 DEF PumpIdle, PumpDrops
  <2>2. CASE PumpStarts
    <3> DEFINE item == Head(queue)
               k == RunTask(item)
    <3>1. PICK t \in Slots : tasks' = [tasks EXCEPT ![t] = k] /\ run_task' = t
      BY <2>2 DEF PumpStarts
    <3>2. item \in Items
      BY <1>2, <2>2, HeadTailProperties DEF PumpStarts
    <3>3. /\ item.program # NoProgram => item.program \in Programs /\ cache[item.program] \in Versions
          /\ item.steps \in Seq(Zones)
      BY <1>2, <3>2 DEF Items
    <3> HIDE DEF item
    <3>4. (IF item.program = NoProgram THEN item.steps ELSE cache[item.program].steps) \in Seq(Zones)
      BY <3>3 DEF Versions
    <3>5. (Scheduled(item) /\ cache[item.program].respect) \in BOOLEAN
      BY DEF Scheduled
    <3>6. k \in Tasks
      <4>1. "new" \in TaskPcs
        BY DEF TaskPcs, SetupPcs
      <4> QED BY <3>2, <3>4, <3>5, <4>1, IdleTypes DEF RunTask, Tasks
    <3>7. k.pc = "new"
      BY IdleTypes DEF RunTask, Tasks
    <3> HIDE DEF k
    <3>8. TaskShape(k)
      BY <3>7 DEF TaskShape, FinishPcs
    <3> QED BY <1>2, <3>1, <3>6, <3>8
  <2> QED BY <2>1, <2>2
<1>6. (\A t \in Slots : TaskShape(tasks[t])') /\ \A c \in Calls : CallShape(calls[c])'
  BY <1>3, <1>5 DEF TaskShape, Position, CallShape
<1> QED BY <1>3, <1>4, <1>5, <1>6 DEF TypeInd, TypeOK, QueueTypes, RunsOK, CallsOK, ItemKeys

\* The web routes, the clock and NOTIFY keep the types.
LEMMA WebTypes == ASSUME TypeInd, QueueTypes', WebStep \/ ClockTick \/ Notify PROVE TypeInd'
PROOF
<1>1. /\ UNCHANGED <<fired, active, run_task, manual_until, tasks, calls, boot, faults>>
      /\ poke' \in {poke, TRUE}
  BY DEF WebStep, ClockTick, Notify, SaveProgram, ToggleProgram, DeleteProgram, ToggleZone, RunNow, QuickRun,
         Request, Edit, WebUnchanged
<1>2. hw' \in {hw, Off} /\ notify' \in {notify, TRUE, FALSE}
  BY DEF WebStep, ClockTick, Notify, SaveProgram, ToggleProgram, DeleteProgram, ToggleZone, RunNow, QuickRun,
         Request, Edit, WebUnchanged
<1>3. requested' \in Nat /\ edits' \in Nat /\ now' \in Nat
  <2>1. requested \in Nat /\ edits \in Nat /\ now \in Nat
    BY DEF TypeInd, TypeOK, EnvOK
  <2>2. requested' \in {requested, requested + 1} /\ edits' \in {edits, edits + 1} /\ now' \in {now, now + 1}
    BY DEF WebStep, ClockTick, Notify, SaveProgram, ToggleProgram, DeleteProgram, ToggleZone, RunNow, QuickRun,
           Request, Edit, WebUnchanged
  <2> QED BY <2>1, <2>2
<1>4. enabled_zones' \subseteq Zones
  <2>1. enabled_zones' = enabled_zones \/ \E z \in Zones : enabled_zones' \subseteq enabled_zones \cup {z}
    BY DEF WebStep, ClockTick, Notify, SaveProgram, ToggleProgram, DeleteProgram, ToggleZone, RunNow, QuickRun,
           Request, Edit, WebUnchanged, db
  <2> QED BY <2>1 DEF TypeInd, TypeOK, RunsOK
<1>5. program_runs' \in Seq(Rows)
  <2>1. program_runs \in Seq(Rows) /\ Len(program_runs) \in Nat /\ DOMAIN program_runs = 1..Len(program_runs)
        /\ \A r \in DOMAIN program_runs : program_runs[r] \in Rows
    BY LenProperties, ElementOfSeq DEF TypeInd, TypeOK, RunsOK
  <2>2. CASE UNCHANGED program_runs
    BY <2>1, <2>2
  <2>3. ASSUME NEW p \in Programs, DeleteProgram(p) PROVE program_runs' \in Seq(Rows)
    <3> DEFINE row(r) == IF program_runs[r].program = p THEN [program_runs[r] EXCEPT !.program = NoProgram]
                         ELSE program_runs[r]
    <3>1. \A r \in DOMAIN program_runs : row(r) \in Rows
      BY <2>1 DEF Rows
    <3>2. program_runs' = [r \in 1..Len(program_runs) |-> row(r)]
      BY <2>1, <2>3 DEF DeleteProgram
    <3> HIDE DEF row
    <3>3. program_runs' \in [1..Len(program_runs) -> Rows]
      BY <2>1, <3>1, <3>2
    <3> QED BY <2>1, <3>3, SeqDef
  <2>4. UNCHANGED program_runs \/ \E p \in Programs : DeleteProgram(p)
    BY DEF WebStep, ClockTick, Notify, SaveProgram, ToggleProgram, ToggleZone, RunNow, QuickRun, Request, db
  <2> QED BY <2>2, <2>3, <2>4
<1>6. EnvOK' /\ RunsOK' /\ CallsOK'
  BY <1>1, <1>2, <1>3, <1>4, <1>5, IdleTypes DEF TypeInd, TypeOK, EnvOK, RunsOK, CallsOK
<1> QED BY <1>1, <1>6, ShapesKept

\* The executor's memory after Restart; the calls are the caller's business.
LEMMA RestartTypes ==
  ASSUME TypeInd, QueueTypes', Restart, calls' \in [Calls -> CallRecords], \A c \in Calls : CallShape(calls'[c])
  PROVE  TypeInd'
PROOF
<1>1. /\ tasks' = [t \in Slots |-> IdleTask] /\ fired' = {} /\ active' = NoRun /\ run_task' = None
      /\ manual_until' = None /\ poke' = FALSE /\ boot' = boot + 1 /\ notify' = FALSE
      /\ UNCHANGED <<program_runs, enabled_zones, hw, now, requested, edits, faults>>
  BY DEF Restart, db
<1>2. tasks' \in [Slots -> Tasks] /\ \A t \in Slots : TaskShape(tasks'[t])
  BY <1>1, IdleTypes
<1>3. RunsOK'
  BY <1>1, <1>2, IdleTypes DEF TypeInd, TypeOK, RunsOK
<1>4. EnvOK'
  <2>1. boot \in Nat /\ now \in Nat /\ requested \in Nat /\ edits \in Nat /\ faults \in Nat
    BY DEF TypeInd, TypeOK, EnvOK
  <2>2. boot' \in Nat
    BY <1>1, <2>1
  <2>3. notify' \in BOOLEAN
    BY <1>1
  <2> QED BY <1>1, <2>1, <2>2, <2>3 DEF EnvOK
<1>5. CallsOK'
  BY <1>1 DEF CallsOK, Times
<1>6. (\A t \in Slots : TaskShape(tasks[t])') /\ \A c \in Calls : CallShape(calls[c])'
  BY <1>2 DEF TaskShape, Position, CallShape
<1> QED BY <1>3, <1>4, <1>5, <1>6 DEF TypeInd, TypeOK, QueueTypes

\* What a call notes on arrival is well typed.
LEMMA ArrivedTypes ==
  ASSUME TypeInd, NEW c \in Calls
  PROVE  /\ Arrived(c) \in CallRecords
         /\ \A pc \in {"stopping", "cancelling", "command"}, task \in Slots \cup {None} :
              /\ [Arrived(c) EXCEPT !.pc = pc, !.task = task] \in CallRecords
              /\ CallShape([Arrived(c) EXCEPT !.pc = pc, !.task = task])
         /\ \A pc \in {"clearing", "command"}, items \in Seq(Items) :
              LET r == [Arrived(c) EXCEPT !.pc = pc, !.task = None, !.items = items]
              IN  r \in CallRecords /\ (CallShape(r) \/ (pc = "clearing" /\ items = <<>>))
PROOF
<1>1. calls[c] \in CallRecords
  BY DEF TypeInd, TypeOK, CallsOK
<1>2. Arrived(c) \in CallRecords
  <2> DEFINE seen == {queue[i] : i \in DOMAIN queue} \cup {tasks[t].item : t \in {t \in Slots : tasks[t].pc # "idle"}}
             clean == /\ \A d \in Calls \ {c} : ~InCall(d)
                      /\ \A t \in Slots : tasks[t].pc # "idle" => t = run_task /\ tasks[t].pc \notin SetupPcs
  <2>1. \A i \in DOMAIN queue : queue[i] \in Items
    BY LenProperties, ElementOfSeq DEF TypeInd, TypeOK, QueueOK
  <2>2. \A t \in Slots : tasks[t].item \in Items
    BY DEF TypeInd, TypeOK, RunsOK, Tasks
  <2>3. seen \subseteq Items
    BY <2>1, <2>2
  <2>4. clean \in BOOLEAN
    OBVIOUS
  <2>5. Arrived(c) = calls[c] \/ Arrived(c) = [calls[c] EXCEPT !.seen = seen, !.clean = clean]
    BY DEF Arrived
  <2> HIDE DEF seen, clean
  <2> QED BY <1>1, <2>3, <2>4, <2>5 DEF CallRecords
<1>3. ASSUME NEW pc \in {"stopping", "cancelling", "command"}, NEW task \in Slots \cup {None}
      PROVE  /\ [Arrived(c) EXCEPT !.pc = pc, !.task = task] \in CallRecords
             /\ CallShape([Arrived(c) EXCEPT !.pc = pc, !.task = task])
  BY <1>2 DEF CallRecords, CallShape
<1>4. ASSUME NEW pc \in {"clearing", "command"}, NEW items \in Seq(Items)
      PROVE  LET r == [Arrived(c) EXCEPT !.pc = pc, !.task = None, !.items = items]
             IN  r \in CallRecords /\ (CallShape(r) \/ (pc = "clearing" /\ items = <<>>))
  BY <1>2 DEF CallRecords, CallShape
<1> QED BY <1>2, <1>3, <1>4

\* Clearing the queue item by item keeps the calls well typed.
LEMMA ClearRestTypes ==
  ASSUME TypeInd, NEW c \in Calls, NEW items \in Seq(Items), ClearRest(c, items)
  PROVE  /\ calls' \in [Calls -> CallRecords] /\ \A d \in Calls : CallShape(calls'[d])
         /\ manual_until' \in Times /\ fired' \subseteq ItemKeys
PROOF
<1>1. /\ calls \in [Calls -> CallRecords] /\ (\A d \in Calls : CallShape(calls[d])) /\ fired \subseteq ItemKeys
      /\ manual_until \in Times /\ None \in Times
  BY DEF TypeInd, TypeOK, CallsOK, RunsOK, ItemKeys, Times
<1>2. CASE items = <<>>
  <2> DEFINE r == [Arrived(c) EXCEPT !.pc = "command", !.task = None, !.items = <<>>]
  <2>1. r \in CallRecords /\ CallShape(r)
    BY <1>2, ArrivedTypes
  <2>2. calls' = [calls EXCEPT ![c] = r] /\ manual_until' = None /\ fired' = fired
    BY <1>2 DEF ClearRest, CallBecomes
  <2> HIDE DEF r
  <2> QED BY <1>1, <2>1, <2>2
<1>3. CASE items # <<>>
  <2> DEFINE r == [Arrived(c) EXCEPT !.pc = "clearing", !.task = None, !.items = items]
  <2>1. r \in CallRecords /\ CallShape(r)
    BY <1>3, ArrivedTypes
  <2>2. calls' = [calls EXCEPT ![c] = r] /\ manual_until' = manual_until /\ fired' = fired \cup Keys(Head(items))
    BY <1>3 DEF ClearRest, CallBecomes
  <2>3. Keys(Head(items)) \subseteq ItemKeys
    BY <1>3, HeadTailProperties, KeysTypes
  <2> HIDE DEF r
  <2> QED BY <1>1, <2>1, <2>2, <2>3
<1> QED BY <1>2, <1>3

\* Every step of a call keeps the types.
LEMMA CallTypes == ASSUME TypeInd, QueueTypes', NEW c \in Calls, CallStep(c) PROVE TypeInd'
PROOF
<1>1. /\ calls \in [Calls -> CallRecords] /\ (\A d \in Calls : CallShape(calls[d])) /\ tasks \in [Slots -> Tasks]
      /\ (\A t \in Slots : TaskShape(tasks[t])) /\ queue \in Seq(Items) /\ fired \subseteq ItemKeys
      /\ hw \in Waterings /\ program_runs \in Seq(Rows) /\ enabled_zones \subseteq Zones /\ active \in ActiveRuns
      /\ run_task \in Slots \cup {None} /\ manual_until \in Times /\ poke \in BOOLEAN
      /\ now \in Nat /\ notify \in BOOLEAN /\ boot \in Nat /\ requested \in Nat /\ edits \in Nat /\ faults \in Nat
  BY DEF TypeInd, TypeOK, CallsOK, QueueOK, RunsOK, EnvOK, ItemKeys
<1>2. calls[c] \in CallRecords /\ CallShape(calls[c])
  BY <1>1
<1>3. ASSUME CallUnchanged \/ UNCHANGED <<enabled_zones, active, poke, env>>,
             calls' \in [Calls -> CallRecords], \A d \in Calls : CallShape(calls'[d]),
             tasks' \in [Slots -> Tasks], \A t \in Slots : TaskShape(tasks'[t]),
             run_task' \in Slots \cup {None}, manual_until' \in Times, fired' \subseteq ItemKeys,
             hw' \in Waterings, program_runs' \in Seq(Rows), faults' \in Nat
      PROVE  TypeInd'
  <2>1. UNCHANGED <<enabled_zones, active, poke, now, notify, boot, requested, edits>>
    BY <1>3 DEF CallUnchanged, env
  <2>2. RunsOK' /\ CallsOK' /\ EnvOK'
    BY <1>1, <1>3, <2>1 DEF RunsOK, CallsOK, EnvOK, ItemKeys
  <2>3. (\A t \in Slots : TaskShape(tasks[t])') /\ \A d \in Calls : CallShape(calls[d])'
    BY <1>3 DEF TaskShape, Position, CallShape
  <2> QED BY <2>2, <2>3 DEF TypeInd, TypeOK, QueueTypes
<1>4. CASE CancelActive(c)
  <2> DEFINE k == [tasks[run_task] EXCEPT !.cancel = TRUE]
             r == [Arrived(c) EXCEPT !.pc = "cancelling", !.task = run_task]
  <2>1. r \in CallRecords /\ CallShape(r)
    BY <1>1, ArrivedTypes
  <2>2. run_task \in Slots
    BY <1>1, <1>4 DEF CancelActive, RunAlive
  <2>3. k \in Tasks /\ TaskShape(k)
    <3> DEFINE task == tasks[run_task]
    <3>1. task \in Tasks /\ TaskShape(task)
      BY <1>1, <2>2
    <3> HIDE DEF task
    <3>2. /\ [task EXCEPT !.cancel = TRUE] \in Tasks
          /\ TaskShape([task EXCEPT !.cancel = TRUE])
      BY <3>1 DEF Tasks, TaskShape, Position
    <3> QED BY <3>2 DEF task
  <2>4. calls' = [calls EXCEPT ![c] = r] /\ tasks' = [tasks EXCEPT ![run_task] = k]
    BY <1>4 DEF CancelActive, CallBecomes
  <2> HIDE DEF k, r
  <2>5. /\ calls' \in [Calls -> CallRecords] /\ (\A d \in Calls : CallShape(calls'[d]))
        /\ tasks' \in [Slots -> Tasks] /\ \A t \in Slots : TaskShape(tasks'[t])
    BY <1>1, <2>1, <2>3, <2>4
  <2>6. CallUnchanged /\ UNCHANGED <<program_runs, hw, fired, queue, run_task, manual_until, faults>>
    BY <1>4 DEF CancelActive
  <2> QED BY <1>1, <1>3, <2>5, <2>6
<1>5. CASE StopClears(c)
  <2>1. ClearRest(c, queue) /\ run_task' = None /\ CallUnchanged /\ UNCHANGED <<program_runs, hw, tasks, faults>>
    BY <1>5 DEF StopClears, LetsGo
  <2>2. /\ calls' \in [Calls -> CallRecords] /\ (\A d \in Calls : CallShape(calls'[d]))
        /\ manual_until' \in Times /\ fired' \subseteq ItemKeys
    BY <1>1, <2>1, ClearRestTypes
  <2> QED BY <1>1, <1>3, <2>1, <2>2
<1>6. CASE ItemCleared(c)
  <2> DEFINE items == calls[c].items
  <2>1. items \in Seq(Items) /\ items # <<>>
    BY <1>2, <1>6 DEF ItemCleared, CallRecords, CallShape
  <2>2. Head(items) \in Items /\ Tail(items) \in Seq(Items)
    BY <2>1, HeadTailProperties
  <2>3. /\ Inserts(Head(items), "cancelled", <<>>) \/ InsertFails(Head(items), "cancelled", <<>>)
        /\ ClearRest(c, Tail(items)) /\ CallUnchanged /\ UNCHANGED <<hw, queue, run_task, tasks>>
    BY <1>6 DEF ItemCleared
  <2> HIDE DEF items
  <2>4. program_runs' \in Seq(Rows) /\ faults' \in Nat
    <3>1. "cancelled" \in Statuses /\ <<>> \in Seq(Marks)
      BY DEF Statuses
    <3> QED BY <1>1, <2>2, <2>3, <3>1, InsertStepTypes
  <2>5. /\ calls' \in [Calls -> CallRecords] /\ (\A d \in Calls : CallShape(calls'[d]))
        /\ manual_until' \in Times /\ fired' \subseteq ItemKeys
    BY <2>2, <2>3, ClearRestTypes
  <2> QED BY <1>1, <1>3, <2>3, <2>4, <2>5
<1>7. CASE ManualHolds(c)
  <2> DEFINE r == [Arrived(c) EXCEPT !.pc = "command", !.task = None]
  <2>1. r \in CallRecords /\ CallShape(r)
    BY ArrivedTypes
  <2>2. /\ calls' = [calls EXCEPT ![c] = r] /\ manual_until' = now + ManualMinutes /\ run_task' = None
        /\ CallUnchanged /\ UNCHANGED <<program_runs, hw, fired, queue, tasks, faults>>
    BY <1>7 DEF ManualHolds, CallBecomes, LetsGo
  <2> HIDE DEF r
  <2>3. calls' \in [Calls -> CallRecords] /\ \A d \in Calls : CallShape(calls'[d])
    BY <1>1, <2>1, <2>2
  <2>4. manual_until' \in Times
    BY <1>1, <2>2, TimeAssumption DEF Times
  <2> QED BY <1>1, <1>3, <2>2, <2>3, <2>4
<1>8. CASE Command(c)
  <2>1. CallUnchanged /\ UNCHANGED <<program_runs, fired, queue, run_task, manual_until, tasks>>
    BY <1>8 DEF Command
  <2>2. PICK pc \in {"done", "failed"} : calls' = [calls EXCEPT ![c] = [calls[c] EXCEPT !.pc = pc]]
    BY <1>8 DEF Command, CallBecomes
  <2>3. [calls[c] EXCEPT !.pc = pc] \in CallRecords /\ CallShape([calls[c] EXCEPT !.pc = pc])
    BY <1>2, <2>2 DEF CallRecords, CallShape
  <2>4. calls' \in [Calls -> CallRecords] /\ \A d \in Calls : CallShape(calls'[d])
    BY <1>1, <2>2, <2>3
  <2>5. Commanded(c) \subseteq Waterings
    <3>1. now + ManualMinutes \in Nat
      BY <1>1, TimeAssumption
    <3>2. \A z \in enabled_zones : Water(z, None, ManualMinutes) \in Waterings
      BY <1>1, <3>1 DEF Water, Waterings, Times
    <3> QED BY <3>2, IdleTypes DEF Commanded
  <2>6. hw' \in Waterings /\ faults' \in Nat
    <3>1. hw' \in {Refused} \cup Commanded(c) /\ (Fault \/ UNCHANGED faults)
      BY <1>8 DEF Command
    <3> QED BY <1>1, <2>5, <3>1, FaultTypes, RefusedTypes
  <2> QED BY <1>1, <1>3, <2>1, <2>4, <2>6
<1>9. CASE ShutdownBegins(c)
  <2> DEFINE r == [Arrived(c) EXCEPT !.pc = "stopping"]
  <2>1. r \in CallRecords /\ CallShape(r)
    <3>1. Arrived(c) \in CallRecords
      BY ArrivedTypes
    <3> QED BY <3>1 DEF CallRecords, CallShape
  <2>2. /\ calls' = [calls EXCEPT ![c] = r]
        /\ UNCHANGED <<db, hw, fired, active, run_task, manual_until, poke, tasks, env>>
    BY <1>9 DEF ShutdownBegins, CallBecomes
  <2> HIDE DEF r
  <2>3. calls' \in [Calls -> CallRecords] /\ \A d \in Calls : CallShape(calls'[d])
    BY <1>1, <2>1, <2>2
  <2> QED BY <1>1, <1>3, <2>2, <2>3 DEF db, env
<1>10. CASE ShutdownEnds(c)
  <2> DEFINE r == [calls[c] EXCEPT !.pc = "done", !.task = None]
  <2>1. r \in CallRecords /\ CallShape(r)
    BY <1>2 DEF CallRecords, CallShape
  <2>2. calls' = [calls EXCEPT ![c] = r] /\ Restart
    BY <1>10 DEF ShutdownEnds, CallBecomes
  <2> HIDE DEF r
  <2>3. calls' \in [Calls -> CallRecords] /\ \A d \in Calls : CallShape(calls'[d])
    BY <1>1, <2>1, <2>2
  <2> QED BY <2>2, <2>3, RestartTypes
<1> QED BY <1>4, <1>5, <1>6, <1>7, <1>8, <1>9, <1>10 DEF CallStep

\* So does a kill.
LEMMA CrashTypes == ASSUME TypeInd, QueueTypes', Crash PROVE TypeInd'
PROOF
<1>1. ASSUME NEW c \in Calls
      PROVE  /\ calls[c] \in CallRecords /\ CallShape(calls[c])
             /\ [calls[c] EXCEPT !.pc = "failed"] \in CallRecords /\ CallShape([calls[c] EXCEPT !.pc = "failed"])
  <2>1. calls[c] \in CallRecords /\ CallShape(calls[c])
    BY DEF TypeInd, TypeOK, CallsOK
  <2> QED BY <2>1 DEF CallRecords, CallShape
<1>2. calls' \in [Calls -> CallRecords] /\ \A c \in Calls : CallShape(calls'[c])
  BY <1>1 DEF Crash
<1> QED BY <1>2, RestartTypes DEF Crash

-----------------------------------------------------------------------------
\* The initial state is well typed.
LEMMA InitTypes == Init => TypeInd
PROOF
<1> SUFFICES ASSUME Init PROVE TypeInd
  OBVIOUS
<1>1. QueueTypes
  BY InitQueue DEF QueueInd
<1>2. /\ tasks = [t \in Slots |-> IdleTask] /\ calls = [c \in Calls |-> ReadyCall]
      /\ program_runs = <<>> /\ hw = Off /\ enabled_zones = Zones /\ fired = {} /\ active = NoRun
      /\ run_task = None /\ manual_until = None /\ poke = FALSE
      /\ now = 0 /\ notify = FALSE /\ boot = 1 /\ requested = 0 /\ edits = 0 /\ faults = 0
  BY DEF Init
<1>3. RunsOK /\ EnvOK
  <2>1. <<>> \in Seq(Rows)
    OBVIOUS
  <2> QED BY <1>2, <2>1, IdleTypes DEF RunsOK, EnvOK
<1>4. CallsOK
  BY <1>2, ReadyTypes DEF CallsOK, Times
<1> QED BY <1>1, <1>2, <1>3, <1>4, IdleTypes, ReadyTypes DEF TypeInd, TypeOK, QueueTypes

\* TypeInd is inductive, beside QueueInd.
LEMMA NextTypes == TypeInd /\ QueueInd /\ [Next]_vars => TypeInd' /\ QueueInd'
PROOF
<1> SUFFICES ASSUME TypeInd, QueueInd, [Next]_vars PROVE TypeInd' /\ QueueInd'
  OBVIOUS
<1>1. QueueInd' /\ QueueTypes'
  BY NextQueue DEF QueueInd
<1>2. CASE UNCHANGED vars
  <2>1. EnvOK' /\ RunsOK' /\ CallsOK'
    BY <1>2 DEF vars, db, env, TypeInd, TypeOK, EnvOK, RunsOK, CallsOK
  <2> QED BY <1>1, <1>2, <2>1, ShapesKept DEF vars
<1>3. CASE WebStep \/ ClockTick \/ Notify
  BY <1>1, <1>3, WebTypes
<1>4. CASE LoopStep
  BY <1>1, <1>4, LoopStepTypes, PumpTypes DEF LoopStep
<1>5. CASE Crash
  BY <1>1, <1>5, CrashTypes
<1>6. ASSUME NEW t \in Slots, RunTaskStep(t) PROVE TypeInd'
  BY <1>1, <1>6, RunTaskStepTypes
<1>7. ASSUME NEW c \in Calls, CallStep(c) PROVE TypeInd'
  BY <1>1, <1>7, CallTypes
<1> QED BY <1>1, <1>2, <1>3, <1>4, <1>5, <1>6, <1>7 DEF Next

\* Every part of the database, the executor and the controller keeps its type,
\* for any programs, requests, calls, faults and crashes (the columns of
\* program_runs and program_run_steps, and the fields of Scheduler.__init__).
THEOREM TypeCorrect == Spec => []TypeOK
PROOF
<1>1. TypeInd => TypeOK
  BY DEF TypeInd
<1> QED BY InitTypes, InitQueue, NextTypes, <1>1, PTL DEF Spec
==============================================================================
