------------------------ MODULE SchedulerHistoryProofs ------------------------
(***************************************************************************)
(* The history is true, and no zone waters without it: every run owns a    *)
(* row of its own, and its row's marks are the outcomes of its steps.      *)
(***************************************************************************)
EXTENDS SchedulerTypeProofs, SchedulerInvariants

-----------------------------------------------------------------------------
(* One run and its row.                                                    *)

\* The outcomes of a task's steps, and the marks of a row, are what their types say.
LEMMA MarksOfRun ==
  ASSUME NEW k \in Tasks, NEW row \in Rows
  PROVE  /\ Len(k.outcomes) \in Nat /\ Len(k.steps) \in Nat /\ Len(row.steps) \in Nat
         /\ Position(k) = Len(k.outcomes) + 1
         /\ DOMAIN k.outcomes = 1 .. Len(k.outcomes) /\ DOMAIN k.steps = 1 .. Len(k.steps)
         /\ DOMAIN row.steps = 1 .. Len(row.steps)
         /\ \A i \in 1 .. Len(k.outcomes) : k.outcomes[i] \in Outcomes
         /\ \A i \in 1 .. Len(row.steps) : row.steps[i] \in Marks
         /\ k.outcomes \in Seq(Outcomes) /\ k.steps \in Seq(Zones) /\ row.steps \in Seq(Marks)
PROOF
<1>1. k.outcomes \in Seq(Outcomes) /\ k.steps \in Seq(Zones) /\ row.steps \in Seq(Marks)
  BY DEF Tasks, Rows
<1> QED BY <1>1, LenProperties, ElementOfSeq DEF Position

\* A row that fits a run tells the truth while it is running, when it is closed
\* as failed, and when it is closed as cancelled with no step left in progress.
LEMMA FittingRowIsTrue ==
  ASSUME NEW k \in Tasks, NEW row \in Rows, SameRun(k, row), SameMarks(k, row),
         \/ row.status \in {"running", "failed"}
         \/ row.status = "cancelled" /\ k.pc = "cancel_finish"
  PROVE  TrueRow(row)
PROOF
<1> DEFINE n == Len(k.outcomes)
           marks == row.steps
<1>0. /\ n \in Nat /\ Len(k.steps) \in Nat /\ Position(k) = n + 1 /\ DOMAIN marks = 1 .. Len(k.steps)
      /\ \A i \in 1 .. n : marks[i] \in Outcomes
      /\ \A i \in n + 2 .. Len(k.steps) : marks[i] = "pending"
      /\ n + 1 <= Len(k.steps) => marks[n + 1] \in MarkAt(k.pc)
  BY MarksOfRun DEF SameRun, SameMarks
<1> HIDE DEF n, marks
<1>1. ASSUME NEW i \in DOMAIN marks, NEW j \in DOMAIN marks, i < j, marks[j] # "pending"
      PROVE  marks[i] \in Outcomes
  BY <1>0, <1>1
<1>2. CASE row.status \in {"running", "failed"}
  BY <1>1, <1>2 DEF TrueRow, marks
<1>3. CASE row.status = "cancelled" /\ k.pc = "cancel_finish"
  <2>1. ASSUME NEW i \in DOMAIN marks PROVE marks[i] # "started"
    <3>1. i \in 1 .. n \/ i = n + 1 \/ i \in n + 2 .. Len(k.steps)
      BY <1>0
    <3>2. MarkAt(k.pc) = {"pending", "skipped_disabled", "failed", "cancelled"}
      BY <1>3 DEF MarkAt
    <3> QED BY <1>0, <3>1, <3>2 DEF Outcomes
  <2> QED BY <1>1, <1>3, <2>1 DEF TrueRow, marks
<1> QED BY <1>2, <1>3

\* A row whose marks are all the outcomes, closed with their summary, tells the truth.
LEMMA SummarizedRowIsTrue ==
  ASSUME NEW k \in Tasks, NEW row \in Rows, SameRun(k, row), SameMarks(k, row),
         Len(k.outcomes) = Len(k.steps), row.status = Summarize(k.outcomes)
  PROVE  TrueRow(row)
PROOF
<1>1. \A i \in DOMAIN row.steps : row.steps[i] = k.outcomes[i] /\ row.steps[i] \in Outcomes
  BY MarksOfRun DEF SameRun, SameMarks
<1>2. DOMAIN row.steps = DOMAIN k.outcomes
  BY MarksOfRun DEF SameRun
<1>3. CASE \A i \in DOMAIN k.outcomes : k.outcomes[i] # "failed"
  <2>1. row.status = "completed"
    BY <1>3 DEF Summarize
  <2> QED BY <1>1, <1>2, <1>3, <2>1 DEF TrueRow, Outcomes
<1>4. CASE \E i \in DOMAIN k.outcomes : k.outcomes[i] = "failed"
  <2>1. CASE \A i \in DOMAIN k.outcomes : k.outcomes[i] = "failed"
    <3>1. row.status = "failed"
      BY <1>4, <2>1 DEF Summarize
    <3> QED BY <1>1, <3>1 DEF TrueRow
  <2>2. CASE \E i \in DOMAIN k.outcomes : k.outcomes[i] # "failed"
    <3>1. row.status = "partial"
      BY <1>4, <2>2 DEF Summarize
    <3> QED BY <1>1, <1>2, <1>4, <2>2, <3>1 DEF TrueRow
  <2> QED BY <2>1, <2>2
<1> QED BY <1>3, <1>4

\* A row inserted without steps tells the truth.
LEMMA EmptyRowIsTrue ==
  ASSUME NEW item, NEW status, status # "partial"
  PROVE  TrueRow(NewRow(item, status, <<>>))
  BY DEF TrueRow, NewRow

\* The UPDATE of the step in progress: that mark and nothing else.
LEMMA MarkedRow ==
  ASSUME NEW k \in Tasks, program_runs \in Seq(Rows), k.row \in DOMAIN program_runs, k.pc \in DOMAIN StepMark,
         Len(program_runs[k.row].steps) = Len(k.steps), Position(k) <= Len(k.steps),
         NEW new, new = Updated(k)[k.row]
  PROVE  /\ DOMAIN Updated(k) = DOMAIN program_runs
         /\ \A r \in DOMAIN program_runs : r # k.row => Updated(k)[r] = program_runs[r]
         /\ program_runs[k.row] \in Rows /\ new \in Rows
         /\ new = [program_runs[k.row] EXCEPT !.steps = new.steps]
         /\ DOMAIN new.steps = DOMAIN program_runs[k.row].steps /\ Len(new.steps) = Len(program_runs[k.row].steps)
         /\ \A i \in 1 .. Len(k.steps) :
              new.steps[i] = IF i = Position(k) THEN StepMark[k.pc] ELSE program_runs[k.row].steps[i]
PROOF
<1> DEFINE old == program_runs[k.row]
           marks == [old.steps EXCEPT ![Position(k)] = StepMark[k.pc]]
<1>1. old \in Rows
  BY ElementOfSeq, LenProperties
<1>2. /\ Len(old.steps) \in Nat /\ DOMAIN old.steps = 1 .. Len(old.steps) /\ old.steps \in Seq(Marks)
      /\ Position(k) \in 1 .. Len(old.steps)
  BY <1>1, MarksOfRun
<1>3. StepMark[k.pc] \in Marks
  BY DEF StepMark, Marks, Outcomes
<1>4. marks \in Seq(Marks) /\ DOMAIN marks = DOMAIN old.steps /\ Len(marks) = Len(old.steps)
  <2>1. marks \in Seq(Marks)
    BY <1>2, <1>3, MarksUpdate
  <2>2. DOMAIN marks = DOMAIN old.steps
    OBVIOUS
  <2> HIDE DEF marks, old
  <2>3. Len(marks) \in Nat /\ DOMAIN marks = 1 .. Len(marks)
    BY <2>1, LenProperties
  <2> QED BY <1>2, <2>1, <2>2, <2>3
<1>5. Updated(k) = [program_runs EXCEPT ![k.row] = [old EXCEPT !.steps = marks]]
  BY DEF Updated
<1>6. /\ DOMAIN Updated(k) = DOMAIN program_runs
      /\ \A r \in DOMAIN program_runs : r # k.row => Updated(k)[r] = program_runs[r]
      /\ new = [old EXCEPT !.steps = marks]
  BY <1>5
<1>7. \A i \in 1 .. Len(k.steps) : marks[i] = IF i = Position(k) THEN StepMark[k.pc] ELSE old.steps[i]
  BY <1>2
<1> HIDE DEF marks, old
<1>8. new \in Rows /\ new.steps = marks /\ new = [old EXCEPT !.steps = new.steps]
  BY <1>1, <1>4, <1>6 DEF Rows
<1> QED BY <1>1, <1>2, <1>4, <1>6, <1>7, <1>8 DEF old

\* The UPDATE that closes the row: its status and nothing else.
LEMMA ClosedRow ==
  ASSUME NEW k \in Tasks, program_runs \in Seq(Rows), k.row \in DOMAIN program_runs, k.pc \in FinishPcs,
         k.status \in Statuses, NEW new, new = Updated(k)[k.row]
  PROVE  /\ DOMAIN Updated(k) = DOMAIN program_runs
         /\ \A r \in DOMAIN program_runs : r # k.row => Updated(k)[r] = program_runs[r]
         /\ program_runs[k.row] \in Rows /\ new \in Rows
         /\ new = [program_runs[k.row] EXCEPT !.status = k.status] /\ new.status = k.status
PROOF
<1> DEFINE old == program_runs[k.row]
<1>1. old \in Rows
  BY ElementOfSeq, LenProperties
<1>2. Updated(k) = [program_runs EXCEPT ![k.row] = [old EXCEPT !.status = k.status]]
  BY DEF Updated, FinishPcs, StepMark
<1>3. /\ DOMAIN Updated(k) = DOMAIN program_runs
      /\ \A r \in DOMAIN program_runs : r # k.row => Updated(k)[r] = program_runs[r]
      /\ new = [old EXCEPT !.status = k.status]
  BY <1>2
<1> HIDE DEF old
<1>4. new \in Rows /\ new.status = k.status
  BY <1>1, <1>3 DEF Rows
<1> QED BY <1>1, <1>3, <1>4 DEF old

\* A row keeps fitting a task that moves on within its step, when only the mark
\* of that step changes, to one the task's new place allows.
LEMMA FitsOn ==
  ASSUME NEW k \in Tasks, NEW n \in Tasks, NEW old \in Rows, NEW new \in Rows, SameRun(k, old), SameMarks(k, old),
         n.item = k.item, n.steps = k.steps, n.outcomes = k.outcomes,
         new.program = old.program, new.at = old.at, new.req = old.req, Len(new.steps) = Len(old.steps),
         \A i \in 1 .. Len(k.steps) : i # Position(k) => new.steps[i] = old.steps[i],
         Position(k) <= Len(k.steps) => new.steps[Position(k)] \in MarkAt(n.pc)
  PROVE  SameRun(n, new) /\ SameMarks(n, new)
PROOF
<1>1. /\ Position(n) = Position(k) /\ Position(k) = Len(k.outcomes) + 1
      /\ Len(k.outcomes) \in Nat /\ Len(k.steps) \in Nat /\ Len(k.outcomes) <= Len(k.steps)
  BY MarksOfRun DEF Position, SameRun
<1>2. SameRun(n, new)
  BY DEF SameRun
<1>3. \A i \in 1 .. Len(k.outcomes) : new.steps[i] = k.outcomes[i]
  BY <1>1 DEF SameMarks
<1>4. \A i \in Position(k) + 1 .. Len(k.steps) : new.steps[i] = "pending"
  BY <1>1 DEF SameMarks
<1> QED BY <1>1, <1>2, <1>3, <1>4 DEF SameMarks

\* It fits a task whose step is over, when the step is marked with its outcome.
LEMMA FitsAfter ==
  ASSUME NEW k \in Tasks, NEW n \in Tasks, NEW old \in Rows, NEW new \in Rows, SameRun(k, old), SameMarks(k, old),
         NEW outcome \in Outcomes, Position(k) <= Len(k.steps), MarkAt(n.pc) = {"pending"},
         n.item = k.item, n.steps = k.steps, n.outcomes = Append(k.outcomes, outcome),
         new.program = old.program, new.at = old.at, new.req = old.req, Len(new.steps) = Len(old.steps),
         \A i \in 1 .. Len(k.steps) : new.steps[i] = IF i = Position(k) THEN outcome ELSE old.steps[i]
  PROVE  SameRun(n, new) /\ SameMarks(n, new) /\ Len(n.outcomes) = Position(k)
PROOF
<1>1. /\ Position(k) = Len(k.outcomes) + 1 /\ Len(k.outcomes) \in Nat /\ Len(k.steps) \in Nat
      /\ k.outcomes \in Seq(Outcomes)
  BY MarksOfRun
<1>2. /\ Len(n.outcomes) = Position(k) /\ n.outcomes[Position(k)] = outcome
      /\ \A i \in 1 .. Len(k.outcomes) : n.outcomes[i] = k.outcomes[i]
  BY <1>1, AppendProperties
<1>3. Position(n) = Position(k) + 1
  BY <1>2 DEF Position
<1>4. SameRun(n, new)
  BY <1>2 DEF SameRun
<1>5. \A i \in 1 .. Len(n.outcomes) : new.steps[i] = n.outcomes[i]
  BY <1>1, <1>2 DEF SameMarks
<1>6. \A i \in Position(k) + 1 .. Len(k.steps) : new.steps[i] = "pending"
  BY <1>1 DEF SameMarks
<1> QED BY <1>1, <1>2, <1>3, <1>4, <1>5, <1>6 DEF SameMarks

-----------------------------------------------------------------------------
(* One step of a run.                                                      *)

\* A run touches its own row, or adds one, and leaves what it touched true.
OthersKept(t) ==
  /\ DOMAIN program_runs \subseteq DOMAIN program_runs'
  /\ \A r \in DOMAIN program_runs : r # tasks[t].row => program_runs'[r] = program_runs[r]
  /\ \A r \in DOMAIN program_runs' : r \notin DOMAIN program_runs \/ r = tasks[t].row => TrueRow(program_runs'[r])

\* Its row, if it has one afterwards, is the one it had or a new one, and fits it.
RowKept(t, n) ==
  /\ n.pc # "idle" => n.steps # <<>>
  /\ IF n.pc \in OwnerPcs THEN n.row \in DOMAIN program_runs' /\ Fits(n, program_runs'[n.row]) ELSE Rowless(n)
  /\ n.row \in {None, tasks[t].row} \/ n.row \notin DOMAIN program_runs
RunStepOK(t) == OthersKept(t) /\ \E n \in Tasks : Becomes(t, n) /\ RowKept(t, n)

\* What the UPDATE a run awaits leaves is true, whether or not the run lives to see it.
LEMMA UpdatedIsTrue ==
  ASSUME NEW k \in Tasks, TaskShape(k), program_runs \in Seq(Rows), k.pc \in DOMAIN StepMark \cup FinishPcs, Linked(k)
  PROVE  /\ DOMAIN Updated(k) = DOMAIN program_runs
         /\ \A r \in DOMAIN program_runs : r # k.row => Updated(k)[r] = program_runs[r]
         /\ TrueRow(Updated(k)[k.row])
PROOF
<1> DEFINE old == program_runs[k.row]
           new == Updated(k)[k.row]
<1>1. k.pc \in OwnerPcs
  BY DEF StepMark, FinishPcs, OwnerPcs, RunPcs, HandlerPcs
<1>2. k.row \in DOMAIN program_runs /\ SameRun(k, old) /\ SameMarks(k, old) /\ SameStage(k, old)
  BY <1>1 DEF Linked, Fits
<1>3. Len(old.steps) = Len(k.steps)
  BY <1>2 DEF SameRun
<1> HIDE DEF old, new
<1>4. CASE k.pc \in DOMAIN StepMark
  <2>1. Position(k) <= Len(k.steps) /\ old.status = "running"
    BY <1>2, <1>4 DEF SameStage, StepMark, RunPcs
  <2>2. /\ DOMAIN Updated(k) = DOMAIN program_runs
        /\ \A r \in DOMAIN program_runs : r # k.row => Updated(k)[r] = program_runs[r]
        /\ old \in Rows /\ new \in Rows /\ new = [old EXCEPT !.steps = new.steps] /\ Len(new.steps) = Len(old.steps)
        /\ \A i \in 1 .. Len(k.steps) : new.steps[i] = IF i = Position(k) THEN StepMark[k.pc] ELSE old.steps[i]
    BY <1>2, <1>3, <1>4, <2>1, MarkedRow DEF old, new
  <2> DEFINE n == [k EXCEPT !.pc = IF k.pc = "cancel_mark" THEN "cancel_finish" ELSE "crash_finish"]
  <2>3. n \in Tasks /\ n.item = k.item /\ n.steps = k.steps /\ n.outcomes = k.outcomes
    BY DEF Tasks, TaskPcs, HandlerPcs
  <2>4. StepMark[k.pc] \in MarkAt(n.pc)
    BY <1>4 DEF StepMark, MarkAt, Tasks
  <2>5. new.program = old.program /\ new.at = old.at /\ new.req = old.req /\ new.status = "running"
    BY <2>1, <2>2 DEF Rows
  <2> HIDE DEF n
  <2>6. \A i \in 1 .. Len(k.steps) : i # Position(k) => new.steps[i] = old.steps[i]
    BY <2>2
  <2>7. Position(k) <= Len(k.steps) => new.steps[Position(k)] \in MarkAt(n.pc)
    <3>1. Position(k) \in 1 .. Len(k.steps)
      BY <2>1, <2>2, MarksOfRun
    <3> QED BY <2>2, <2>4, <3>1
  <2>8. SameRun(n, new) /\ SameMarks(n, new)
    BY <1>2, <2>2, <2>3, <2>5, <2>6, <2>7, FitsOn
  <2>9. TrueRow(new)
    BY <2>2, <2>3, <2>5, <2>8, FittingRowIsTrue
  <2> QED BY <2>2, <2>9 DEF new
<1>5. CASE k.pc \in FinishPcs
  <2>1. k.status \in Statuses
    BY <1>5 DEF TaskShape
  <2>2. /\ DOMAIN Updated(k) = DOMAIN program_runs
        /\ \A r \in DOMAIN program_runs : r # k.row => Updated(k)[r] = program_runs[r]
        /\ old \in Rows /\ new \in Rows /\ new = [old EXCEPT !.status = k.status] /\ new.status = k.status
    BY <1>2, <1>5, <2>1, ClosedRow DEF old, new
  <2>3. new.program = old.program /\ new.at = old.at /\ new.req = old.req /\ new.steps = old.steps
    BY <2>2 DEF Rows
  <2>4. SameRun(k, new) /\ SameMarks(k, new)
    BY <1>2, <2>3 DEF SameRun, SameMarks
  <2>5. ASSUME k.pc = "finish" PROVE TrueRow(new)
    BY <1>2, <2>2, <2>4, <2>5, SummarizedRowIsTrue DEF SameStage
  <2>6. ASSUME k.pc \in {"cancel_finish", "crash_finish"} PROVE TrueRow(new)
    <3>1. (k.pc = "cancel_finish" => new.status = "cancelled") /\ (k.pc = "crash_finish" => new.status = "failed")
      BY <1>2, <2>2 DEF SameStage
    <3> QED BY <2>2, <2>4, <2>6, <3>1, FittingRowIsTrue
  <2>7. TrueRow(new)
    BY <1>5, <2>5, <2>6 DEF FinishPcs
  <2> QED BY <2>2, <2>7 DEF new
<1> QED BY <1>4, <1>5

\* A new row of pending steps tells the truth.
LEMMA RunningRowIsTrue ==
  ASSUME NEW k \in Tasks
  PROVE  TrueRow(NewRow(k.item, "running", [i \in DOMAIN k.steps |-> "pending"]))
  BY DEF TrueRow, NewRow

\* So does the row a task inserts.
LEMMA RowOfTaskIsTrue ==
  ASSUME NEW k \in Tasks, TaskShape(k), k.pc \in {"insert_running", "record_skip", "cancel_record"},
         Rowless(k)
  PROVE  TrueRow(NewRow(k.item, RowStatus(k), RowSteps(k)))
PROOF
<1>1. CASE k.pc = "insert_running"
  BY <1>1, RunningRowIsTrue DEF RowStatus, RowSteps
<1>2. CASE k.pc # "insert_running"
  BY <1>2, EmptyRowIsTrue DEF RowStatus, RowSteps, Rowless, Skips
<1> QED BY <1>1, <1>2

\* What a run's step may rely on: its own record, its row, and a true history.
RunReady(t) ==
  /\ tasks[t] \in Tasks /\ TaskShape(tasks[t]) /\ tasks[t].row \in Nat \cup {None}
  /\ program_runs \in Seq(Rows) /\ boot \in Nat /\ enabled_zones \subseteq Zones
  /\ Linked(tasks[t]) /\ HistoryIsTrue

\* A step that leaves the history alone keeps every row.
LEMMA HistoryUnchanged == ASSUME NEW t \in Slots, RunReady(t), UNCHANGED program_runs PROVE OthersKept(t)
  BY DEF RunReady, HistoryIsTrue, OthersKept

\* So does one that appends a true row.
LEMMA RowAppended ==
  ASSUME NEW t \in Slots, RunReady(t), NEW row \in Rows, TrueRow(row), program_runs' = Append(program_runs, row)
  PROVE  /\ OthersKept(t) /\ DOMAIN program_runs' = 1 .. Len(program_runs) + 1
         /\ program_runs'[Len(program_runs) + 1] = row
         /\ Len(program_runs) \in Nat /\ DOMAIN program_runs = 1 .. Len(program_runs)
         /\ Len(program_runs) + 1 \notin DOMAIN program_runs
PROOF
<1>1. /\ program_runs \in Seq(Rows) /\ Len(program_runs) \in Nat
      /\ DOMAIN program_runs = 1 .. Len(program_runs)
  BY LenProperties DEF RunReady
<1>2. /\ program_runs' \in Seq(Rows) /\ Len(program_runs') = Len(program_runs) + 1
      /\ \A r \in 1 .. Len(program_runs) : program_runs'[r] = program_runs[r]
      /\ program_runs'[Len(program_runs) + 1] = row
  BY <1>1, AppendProperties
<1>3. DOMAIN program_runs' = 1 .. Len(program_runs) + 1
  BY <1>1, <1>2, LenProperties
<1>4. OthersKept(t)
  BY <1>1, <1>2, <1>3 DEF OthersKept, RunReady, HistoryIsTrue
<1> QED BY <1>1, <1>2, <1>3, <1>4

\* An INSERT of a true row keeps every row, whether it fails or not.
LEMMA RowInserted ==
  ASSUME NEW t \in Slots, RunReady(t), NEW item \in Items, NEW status \in Statuses, NEW steps \in Seq(Marks),
         TrueRow(NewRow(item, status, steps)),
         \/ UNCHANGED program_runs
         \/ program_runs' = Append(program_runs, NewRow(item, status, steps))
         \/ Inserts(item, status, steps) \/ InsertFails(item, status, steps)
  PROVE  OthersKept(t)
PROOF
<1>1. NewRow(item, status, steps) \in Rows
  BY DEF NewRow, Rows, Items, RunReady
<1>2. UNCHANGED program_runs \/ program_runs' = Append(program_runs, NewRow(item, status, steps))
  BY DEF Inserts, InsertFails
<1> QED BY <1>1, <1>2, HistoryUnchanged, RowAppended

\* An UPDATE keeps every row.
LEMMA RowUpdated ==
  ASSUME NEW t \in Slots, RunReady(t), tasks[t].pc \in DOMAIN StepMark \cup FinishPcs,
         program_runs' = Updated(tasks[t])
  PROVE  OthersKept(t)
  BY UpdatedIsTrue DEF RunReady, HistoryIsTrue, OthersKept

\* So does a store call that is abandoned.
LEMMA CallAbandoned ==
  ASSUME NEW t \in Slots, RunReady(t), program_runs' \in Abandoned(tasks[t])
  PROVE  OthersKept(t)
PROOF
<1> DEFINE k == tasks[t]
<1>1. CASE UNCHANGED program_runs
  BY <1>1, HistoryUnchanged
<1>2. CASE /\ k.pc \in {"insert_running", "record_skip", "cancel_record"}
           /\ program_runs' = Append(program_runs, NewRow(k.item, RowStatus(k), RowSteps(k)))
  <2>1. k.item \in Items /\ RowStatus(k) \in Statuses /\ RowSteps(k) \in Seq(Marks)
    BY <1>2, RowOfTask DEF RunReady
  <2>2. Rowless(k)
    BY <1>2 DEF RunReady, Linked, OwnerPcs, RunPcs, HandlerPcs
  <2>3. TrueRow(NewRow(k.item, RowStatus(k), RowSteps(k)))
    BY <1>2, <2>2, RowOfTaskIsTrue DEF RunReady
  <2> QED BY <1>2, <2>1, <2>3, RowInserted
<1>3. CASE k.pc \in DOMAIN StepMark \cup FinishPcs /\ program_runs' = Updated(k)
  BY <1>3, RowUpdated
<1> QED BY <1>1, <1>2, <1>3 DEF Abandoned

\* A run that ends has no row, whatever it did to the one it had.
LEMMA RunEnds == ASSUME NEW t \in Slots, OthersKept(t), Becomes(t, IdleTask) PROVE RunStepOK(t)
PROOF
<1>1. IdleTask.pc = "idle" /\ IdleTask.row = None /\ IdleTask.outcomes = <<>>
  BY DEF IdleTask
<1>2. RowKept(t, IdleTask)
  BY <1>1 DEF RowKept, OwnerPcs, RunPcs, HandlerPcs, Rowless
<1> QED BY <1>2, IdleTypes DEF RunStepOK

\* A run that has no row yet and goes on has none.
LEMMA SetupGoesOn ==
  ASSUME NEW t \in Slots, RunReady(t), OthersKept(t), NEW n \in Tasks, Becomes(t, n), Rowless(tasks[t]), Rowless(n),
         n.pc \notin OwnerPcs, n.steps = tasks[t].steps, tasks[t].steps # <<>>
  PROVE  RunStepOK(t)
  BY DEF RunStepOK, RowKept, Rowless

\* The steps of a run before it has a row.
LEMMA SetupHistory ==
  ASSUME NEW t \in Slots, RunReady(t), tasks[t].pc # "idle" => tasks[t].steps # <<>>,
         \/ RunBegins(t) \/ RainDelayRead(t) \/ WeatherDecided(t) \/ TerminalRecorded(t) \/ ZonesFetched(t)
         \/ SetupFails(t) \/ CancelUnstarted(t) \/ CancelSetup(t)
  PROVE  RunStepOK(t)

PROOF
<1> DEFINE k == tasks[t]
<1>1. /\ k \in Tasks /\ TaskShape(k) /\ k.item \in Items /\ program_runs \in Seq(Rows) /\ boot \in Nat
      /\ k.pc \in SetupPcs => Rowless(k) /\ k.pc \notin OwnerPcs /\ k.steps # <<>>
  BY DEF RunReady, Linked, OwnerPcs, RunPcs, HandlerPcs, SetupPcs, Tasks
<1>2. ASSUME NEW n \in Tasks, Becomes(t, n), UNCHANGED program_runs, k.pc \in SetupPcs,
             Rowless(n), n.steps = k.steps, n.pc \notin OwnerPcs
      PROVE  RunStepOK(t)
  BY <1>1, <1>2, HistoryUnchanged, SetupGoesOn
<1> HIDE DEF k
<1>3. ASSUME NEW pc \in {"rain_delay", "fetch_zones", "weather"}, Goes(t, pc), UNCHANGED program_runs, k.pc \in SetupPcs
      PROVE  RunStepOK(t)
  <2> DEFINE n == [k EXCEPT !.pc = pc]
  <2>1. n \in Tasks /\ n.row = k.row /\ n.outcomes = k.outcomes /\ n.steps = k.steps /\ n.pc = pc
    BY <1>1 DEF Tasks, TaskPcs, SetupPcs
  <2>2. Becomes(t, n)
    BY <1>3 DEF Goes, k
  <2> HIDE DEF n
  <2> QED BY <1>1, <1>2, <1>3, <2>1, <2>2 DEF Rowless, OwnerPcs, RunPcs, HandlerPcs
<1>4. ASSUME NEW pc \in {"record_skip", "cancel_record"}, NEW status \in Statuses, k.pc \in SetupPcs, OthersKept(t),
             pc = "record_skip" => status \in Skips, pc = "cancel_record" => status = "cancelled", Ends(t, pc, status)
      PROVE  RunStepOK(t)
  <2> DEFINE n == [k EXCEPT !.pc = pc, !.status = status, !.cancel = FALSE]
  <2>1. n \in Tasks /\ n.row = k.row /\ n.outcomes = k.outcomes /\ n.steps = k.steps /\ n.pc = pc /\ n.status = status
    BY <1>1 DEF Tasks, TaskPcs, SetupPcs
  <2>2. Becomes(t, n)
    BY <1>4 DEF Ends, k
  <2> HIDE DEF n
  <2>3. Rowless(n) /\ n.pc \notin OwnerPcs
    BY <1>1, <1>4, <2>1 DEF Rowless, OwnerPcs, RunPcs, HandlerPcs
  <2> QED BY <1>1, <1>4, <2>1, <2>2, <2>3, SetupGoesOn DEF k
<1>5. CASE RunBegins(t)
  BY <1>3, <1>5 DEF RunBegins, SetupPcs, k
<1>6. CASE RainDelayRead(t) \/ WeatherDecided(t)
  <2>1. k.pc \in SetupPcs /\ UNCHANGED program_runs
    BY <1>6 DEF RainDelayRead, WeatherDecided, At, SetupPcs, k
  <2>2. OthersKept(t)
    BY <2>1, HistoryUnchanged
  <2>3. {"skipped_rain_delay", "skipped_weather"} \subseteq Statuses \cap Skips
    BY DEF Statuses, Skips
  <2> QED BY <1>3, <1>4, <1>6, <2>1, <2>2, <2>3 DEF RainDelayRead, WeatherDecided
<1>7. CASE TerminalRecorded(t)
  <2>1. k.pc \in {"record_skip", "cancel_record"} /\ Inserts(k.item, k.status, <<>>) /\ Exits(t)
    BY <1>7 DEF TerminalRecorded, At, k
  <2>2. k.status \in Statuses /\ k.status # "partial" /\ <<>> \in Seq(Marks)
    BY <1>1, <2>1 DEF TaskShape, Rowless, SetupPcs, Skips
  <2>3. OthersKept(t)
    BY <1>1, <2>1, <2>2, EmptyRowIsTrue, RowInserted
  <2> QED BY <2>1, <2>3, RunEnds DEF Exits
<1>8. CASE ZonesFetched(t)
  <2> DEFINE n == [k EXCEPT !.pc = "insert_running", !.zones = enabled_zones]
  <2>1. Becomes(t, n) /\ k.pc \in SetupPcs /\ UNCHANGED program_runs
    BY <1>8 DEF ZonesFetched, At, SetupPcs, k
  <2>2. enabled_zones \subseteq Zones
    BY DEF RunReady
  <2>3. n \in Tasks /\ n.row = k.row /\ n.outcomes = k.outcomes /\ n.steps = k.steps /\ n.pc = "insert_running"
    BY <1>1, <2>2 DEF Tasks, TaskPcs, SetupPcs
  <2> HIDE DEF n
  <2>4. Rowless(n) /\ n.pc \notin OwnerPcs
    BY <1>1, <2>1, <2>3 DEF Rowless, OwnerPcs, RunPcs, HandlerPcs
  <2> QED BY <1>2, <2>1, <2>3, <2>4
<1>9. CASE SetupFails(t)
  <2>1. Exits(t) /\ k.pc \in SetupPcs
    BY <1>9 DEF SetupFails, At, SetupPcs, k
  <2>2. CASE UNCHANGED program_runs
    BY <2>1, <2>2, HistoryUnchanged, RunEnds DEF Exits
  <2>3. CASE k.pc \in {"record_skip", "insert_running"} /\ InsertFails(k.item, RowStatus(k), RowSteps(k))
    <3>1. /\ RowStatus(k) \in Statuses /\ RowSteps(k) \in Seq(Marks)
          /\ TrueRow(NewRow(k.item, RowStatus(k), RowSteps(k)))
      BY <1>1, <2>1, <2>3, RowOfTask, RowOfTaskIsTrue
    <3>2. OthersKept(t)
      BY <1>1, <2>3, <3>1, RowInserted
    <3> QED BY <2>1, <3>2, RunEnds DEF Exits
  <2> QED BY <1>9, <2>2, <2>3 DEF SetupFails, At, k
<1>10. CASE CancelUnstarted(t)
  BY <1>10, HistoryUnchanged, RunEnds DEF CancelUnstarted
<1>11. CASE CancelSetup(t)
  <2>1. OthersKept(t) /\ k.pc \in SetupPcs /\ (Ends(t, "cancel_record", "cancelled") \/ Exits(t))
    BY <1>11, CallAbandoned DEF CancelSetup, Cancelling, k
  <2> QED BY <1>4, <2>1, RunEnds DEF Exits, Statuses
<1> QED BY <1>5, <1>6, <1>7, <1>8, <1>9, <1>10, <1>11

\* The run's own row, opened with all its steps ahead.
LEMMA RunInsertedHistory ==
  ASSUME NEW t \in Slots, RunReady(t), tasks[t].steps # <<>>, RunInserted(t)
  PROVE  RunStepOK(t)
PROOF
<1> DEFINE k == tasks[t]
           row == Len(program_runs) + 1
           new == NewRow(k.item, "running", RowSteps(k))
           n == [k EXCEPT !.pc = "fetch_step_zones", !.row = row]
<1>1. /\ k \in Tasks /\ TaskShape(k) /\ k.pc = "insert_running" /\ k.item \in Items /\ Becomes(t, n)
      /\ program_runs' = Append(program_runs, new) /\ Rowless(k)
  BY DEF RunReady, RunInserted, At, Inserts, Tasks, Linked, OwnerPcs, RunPcs, HandlerPcs

<1>2. Len(k.steps) \in Nat /\ DOMAIN k.steps = 1 .. Len(k.steps) /\ Len(k.steps) > 0 /\ k.outcomes = <<>>
  BY <1>1, EmptySeq, LenProperties DEF Tasks, Rowless
<1>3. row \in Nat /\ RowSteps(k) = [i \in 1 .. Len(k.steps) |-> "pending"] /\ RowSteps(k) \in Seq(Marks)
      /\ Len(RowSteps(k)) = Len(k.steps)
  <2>1. RowSteps(k) = [i \in 1 .. Len(k.steps) |-> "pending"] /\ RowSteps(k) \in Seq(Marks)
    BY <1>1, <1>2, RowOfTask DEF RowSteps
  <2>2. Len(RowSteps(k)) \in Nat /\ DOMAIN RowSteps(k) = 1 .. Len(RowSteps(k))
    BY <2>1, LenProperties
  <2>3. DOMAIN RowSteps(k) = 1 .. Len(k.steps)
    BY <2>1
  <2>4. Len(program_runs) \in Nat
    BY LenProperties DEF RunReady
  <2> HIDE DEF k
  <2> QED BY <1>2, <2>1, <2>2, <2>3, <2>4
<1>4. new \in Rows /\ TrueRow(new)
  BY <1>1, <1>3, RunningRowIsTrue DEF NewRow, Rows, Items, Statuses, RowSteps, RunReady
<1>5. new.program = k.item.program /\ new.at = k.item.at /\ new.req = k.item.req /\ new.status = "running"
      /\ new.steps = RowSteps(k)
  BY DEF NewRow
<1> HIDE DEF new
<1>6. OthersKept(t) /\ row \in DOMAIN program_runs' /\ program_runs'[row] = new /\ row \notin DOMAIN program_runs
  BY <1>1, <1>3, <1>4, RowAppended
<1> HIDE DEF row, k
<1>7. /\ n \in Tasks /\ n.pc = "fetch_step_zones" /\ n.row = row /\ n.steps = k.steps /\ n.outcomes = <<>>
      /\ n.item = k.item
  BY <1>1, <1>2, <1>3 DEF Tasks, TaskPcs, RunPcs
<1> HIDE DEF n
<1>8. Position(n) = 1 /\ Len(n.outcomes) = 0
  BY <1>7 DEF Position
<1>9. SameRun(n, new)
  BY <1>2, <1>3, <1>5, <1>7, <1>8 DEF SameRun
<1>10. SameMarks(n, new)
  BY <1>2, <1>3, <1>5, <1>7, <1>8 DEF SameMarks, MarkAt
<1>11. SameStage(n, new)
  BY <1>2, <1>5, <1>7, <1>8 DEF SameStage, RunPcs
<1>12. RowKept(t, n)
  BY <1>6, <1>7, <1>9, <1>10, <1>11 DEF RowKept, Fits, OwnerPcs, RunPcs, k
<1> QED BY <1>1, <1>6, <1>7, <1>12 DEF RunStepOK

\* A run that owns a row and goes on with what it has: its row fits it still, if
\* the step in progress is marked as its new place allows.
LEMMA RunGoesOn ==
  ASSUME NEW t \in Slots, RunReady(t), tasks[t].pc \in OwnerPcs, tasks[t].steps # <<>>,
         NEW n \in Tasks, Becomes(t, n), n.pc \in OwnerPcs, n.row = tasks[t].row, n.item = tasks[t].item,
         n.steps = tasks[t].steps, n.outcomes = tasks[t].outcomes,
         \/ UNCHANGED program_runs
         \/ program_runs' = [program_runs EXCEPT ![tasks[t].row].watered = TRUE],
         Position(tasks[t]) <= Len(tasks[t].steps) => MarkAt(tasks[t].pc) \subseteq MarkAt(n.pc),
         SameStage(n, program_runs[tasks[t].row])
  PROVE  RunStepOK(t)
PROOF
<1> DEFINE k == tasks[t]
           old == program_runs[k.row]
           new == program_runs'[k.row]
<1>1. /\ k \in Tasks /\ program_runs \in Seq(Rows) /\ k.row \in DOMAIN program_runs
      /\ SameRun(k, old) /\ SameMarks(k, old) /\ TrueRow(old)
  BY DEF RunReady, Linked, Fits, HistoryIsTrue
<1>2. old \in Rows
  BY <1>1, ElementOfSeq, LenProperties
<1>3. /\ DOMAIN program_runs' = DOMAIN program_runs
      /\ \A r \in DOMAIN program_runs : r # k.row => program_runs'[r] = program_runs[r]
      /\ new = old \/ new = [old EXCEPT !.watered = TRUE]
  BY <1>1
<1> HIDE DEF new, old
<1>4. /\ new \in Rows /\ new.program = old.program /\ new.at = old.at /\ new.req = old.req
      /\ new.steps = old.steps /\ new.status = old.status
  BY <1>2, <1>3 DEF Rows
<1>5. TrueRow(new)
  BY <1>1, <1>4 DEF TrueRow
<1>6. OthersKept(t)
  BY <1>3, <1>5 DEF OthersKept, new
<1>7. Position(k) <= Len(k.steps) => new.steps[Position(k)] \in MarkAt(n.pc)
  BY <1>1, <1>4 DEF SameMarks
<1>8. SameRun(n, new) /\ SameMarks(n, new)
  BY <1>1, <1>2, <1>4, <1>7, FitsOn
<1>9. SameStage(n, new)
  BY <1>4 DEF SameStage, old
<1>10. RowKept(t, n)
  BY <1>1, <1>3, <1>8, <1>9 DEF RowKept, Fits, new
<1> QED BY <1>6, <1>10 DEF RunStepOK

\* The steps of a run between its row and its last step, but for the outcome's UPDATE.
LEMMA WateringHistory ==
  ASSUME NEW t \in Slots, RunReady(t), tasks[t].pc # "idle" => tasks[t].steps # <<>>, now \in Nat,
         \/ StepZonesFetched(t) \/ ZoneStarts(t) \/ StartFails(t) \/ StartReplies(t) \/ StartRepliesUntracked(t)
         \/ StepSlept(t) \/ RunStops(t)
  PROVE  RunStepOK(t)
PROOF
<1> DEFINE k == tasks[t]
           old == program_runs[k.row]
<1>1. /\ k \in Tasks /\ enabled_zones \subseteq Zones
      /\ k.pc \in OwnerPcs => k.row \in DOMAIN program_runs /\ SameStage(k, old) /\ SameRun(k, old) /\ k.steps # <<>>
  BY DEF RunReady, Linked, Fits, OwnerPcs, RunPcs, HandlerPcs
<1>2. k.pc \in OwnerPcs => k.outcomes \in Seq(Outcomes) /\ Len(k.outcomes) \in Nat
                           /\ Len(k.steps) \in Nat /\ Position(k) = Len(k.outcomes) + 1
  BY <1>1, LenProperties DEF Tasks, Position
<1> HIDE DEF old, k
<1>3. ASSUME NEW pc \in RunPcs \cup {"crash_stop"}, Goes(t, pc), k.pc \in RunPcs, MarkAt(k.pc) \subseteq MarkAt(pc),
             pc \notin {"stop", "finish"}, k.pc \notin {"stop", "finish"},
             UNCHANGED program_runs \/ program_runs' = [program_runs EXCEPT ![k.row].watered = TRUE]
      PROVE  RunStepOK(t)
  <2> DEFINE n == [k EXCEPT !.pc = pc]
  <2>1. /\ n \in Tasks /\ n.row = k.row /\ n.outcomes = k.outcomes /\ n.steps = k.steps /\ n.item = k.item
        /\ n.pc = pc /\ pc \in OwnerPcs /\ k.pc \in OwnerPcs
    <3>1. pc \in TaskPcs /\ pc \in OwnerPcs /\ k.pc \in OwnerPcs
      BY <1>3 DEF TaskPcs, OwnerPcs, RunPcs, HandlerPcs
    <3> QED BY <1>1, <3>1 DEF Tasks
  <2>2. Becomes(t, n)
    BY <1>3 DEF Goes, k
  <2> HIDE DEF n
  <2>3. SameStage(n, old)
    BY <1>1, <1>3, <2>1 DEF SameStage, RunPcs, Position
  <2> QED BY <1>1, <1>3, <2>1, <2>2, <2>3, RunGoesOn DEF k, old
<1>4. CASE StepZonesFetched(t)
  <2>1. PICK zones \in {enabled_zones, k.zones} :
          Becomes(t, [k EXCEPT !.zones = zones,
                       !.pc = IF k.steps[Position(k)] \in zones THEN "start" ELSE "mark_skipped"])
    BY <1>4 DEF StepZonesFetched, k
  <2> DEFINE n == [k EXCEPT !.zones = zones, !.pc = IF k.steps[Position(k)] \in zones THEN "start" ELSE "mark_skipped"]
  <2>2. k.pc = "fetch_step_zones" /\ k.pc \in OwnerPcs /\ UNCHANGED program_runs
    BY <1>4 DEF StepZonesFetched, At, OwnerPcs, RunPcs, k
  <2>3. /\ n \in Tasks /\ n.row = k.row /\ n.outcomes = k.outcomes /\ n.steps = k.steps /\ n.item = k.item
        /\ n.pc \in {"start", "mark_skipped"}
    <3>1. zones \subseteq Zones /\ {"start", "mark_skipped"} \subseteq TaskPcs
      BY <1>1 DEF Tasks, TaskPcs, RunPcs
    <3>2. (IF k.steps[Position(k)] \in zones THEN "start" ELSE "mark_skipped") \in {"start", "mark_skipped"}
      OBVIOUS
    <3> QED BY <1>1, <3>1, <3>2 DEF Tasks
  <2> HIDE DEF n
  <2>4. SameStage(n, old) /\ MarkAt(k.pc) = MarkAt(n.pc) /\ n.pc \in OwnerPcs
    BY <1>1, <2>2, <2>3 DEF SameStage, RunPcs, Position, MarkAt, OwnerPcs
  <2> QED BY <1>1, <2>1, <2>2, <2>3, <2>4, RunGoesOn DEF k, old, n
<1>5. CASE ZoneStarts(t)
  BY <1>3, <1>5 DEF ZoneStarts, At, RunPcs, MarkAt, k
<1>6. CASE StartFails(t)
  <2> DEFINE n == [k EXCEPT !.attempt = 2, !.pc = IF k.attempt = 1 THEN "start" ELSE "mark_failed"]
  <2>1. k.pc \in {"start", "start_reply"} /\ k.pc \in OwnerPcs /\ UNCHANGED program_runs /\ Becomes(t, n)
    BY <1>6 DEF StartFails, At, OwnerPcs, RunPcs, k
  <2>2. /\ n \in Tasks /\ n.row = k.row /\ n.outcomes = k.outcomes /\ n.steps = k.steps /\ n.item = k.item
        /\ n.pc \in {"start", "mark_failed"}
    <3>1. 2 \in 1 .. 2 /\ {"start", "mark_failed"} \subseteq TaskPcs
      BY DEF TaskPcs, RunPcs
    <3>2. (IF k.attempt = 1 THEN "start" ELSE "mark_failed") \in {"start", "mark_failed"}
      OBVIOUS
    <3> QED BY <1>1, <3>1, <3>2 DEF Tasks
  <2> HIDE DEF n
  <2>3. SameStage(n, old) /\ MarkAt(k.pc) = MarkAt(n.pc) /\ n.pc \in OwnerPcs
    BY <1>1, <2>1, <2>2 DEF SameStage, RunPcs, Position, MarkAt, OwnerPcs
  <2> QED BY <1>1, <2>1, <2>2, <2>3, RunGoesOn DEF k, old
<1>7. CASE StartReplies(t)
  BY <1>3, <1>7 DEF StartReplies, At, RunPcs, MarkAt, k
<1>8. CASE StartRepliesUntracked(t)
  BY <1>3, <1>8 DEF StartRepliesUntracked, At, RunPcs, MarkAt, k
<1>9. CASE StepSlept(t)
  BY <1>3, <1>9 DEF StepSlept, At, RunPcs, MarkAt, k
<1>10. CASE RunStops(t)
  <2> DEFINE n == [k EXCEPT !.pc = IF k.pc = "stop" THEN "finish" ELSE "crash_finish",
                            !.status = IF k.pc = "stop" THEN Summarize(k.outcomes) ELSE "failed", !.cancel = FALSE]
  <2>1. k.pc \in {"stop", "crash_stop"} /\ k.pc \in OwnerPcs /\ UNCHANGED program_runs /\ Becomes(t, n)
    BY <1>10 DEF RunStops, At, Ends, OwnerPcs, RunPcs, HandlerPcs, k
  <2>2. /\ n \in Tasks /\ n.row = k.row /\ n.outcomes = k.outcomes /\ n.steps = k.steps /\ n.item = k.item
        /\ n.pc = IF k.pc = "stop" THEN "finish" ELSE "crash_finish"
        /\ n.status = IF k.pc = "stop" THEN Summarize(k.outcomes) ELSE "failed"
    <3>1. {"finish", "crash_finish"} \subseteq TaskPcs
      BY DEF TaskPcs, RunPcs, HandlerPcs
    <3>2. k.outcomes \in Seq(Outcomes)
      BY <1>1 DEF Tasks
    <3>3. Summarize(k.outcomes) \in Statuses /\ "failed" \in Statuses
      BY <3>2, SummarizeTypes DEF Statuses
    <3> HIDE DEF k
    <3> QED BY <1>1, <3>1, <3>3 DEF Tasks
  <2> HIDE DEF n
  <2>3. SameStage(n, old) /\ n.pc \in OwnerPcs
    BY <1>1, <2>1, <2>2 DEF SameStage, RunPcs, Position, OwnerPcs, HandlerPcs
  <2>4. Position(k) <= Len(k.steps) => MarkAt(k.pc) \subseteq MarkAt(n.pc)
    <3>1. k.pc = "stop" => ~(Position(k) <= Len(k.steps))
      BY <1>1, <1>2, <2>1 DEF SameStage
    <3> QED BY <2>1, <2>2, <3>1 DEF MarkAt
  <2> QED BY <1>1, <2>1, <2>2, <2>3, <2>4, RunGoesOn DEF k, old
<1> QED BY <1>4, <1>5, <1>6, <1>7, <1>8, <1>9, <1>10

\* What the end of a step leaves of a task.
LEMMA AfterStepFields ==
  ASSUME NEW k \in Tasks, NEW outcome \in Outcomes, NEW n, n = AfterStep(k, outcome)
  PROVE  /\ n \in Tasks /\ n.item = k.item /\ n.steps = k.steps /\ n.row = k.row
         /\ n.outcomes = Append(k.outcomes, outcome)
         /\ n.pc \in {"stop", "finish"} <=> ~(Len(n.outcomes) < Len(k.steps))
         /\ n.pc \in {"fetch_step_zones", "stop", "finish"}
         /\ n.pc = "finish" => n.status = Summarize(n.outcomes)
PROOF
<1> DEFINE m == [k EXCEPT !.outcomes = Append(@, outcome), !.attempt = 1, !.wake = None, !.pc = "mark"]
<1>1. /\ m.item = k.item /\ m.steps = k.steps /\ m.row = k.row /\ m.outcomes = Append(k.outcomes, outcome)
      /\ DOMAIN m = DOMAIN k /\ {"pc", "status", "item", "steps", "row", "outcomes"} \subseteq DOMAIN m
  BY DEF Tasks
<1>2. n = IF Len(m.outcomes) < Len(m.steps) THEN [m EXCEPT !.pc = "fetch_step_zones"]
          ELSE IF StartedAny(m) THEN [m EXCEPT !.pc = "stop"]
          ELSE [m EXCEPT !.pc = "finish", !.status = Summarize(m.outcomes)]
  BY DEF AfterStep
<1> HIDE DEF m
<1>3. n \in Tasks
  BY AfterStepTypes
<1>4. n.item = k.item /\ n.steps = k.steps /\ n.row = k.row /\ n.outcomes = m.outcomes
  BY <1>1, <1>2
<1>5. n.pc = IF Len(m.outcomes) < Len(m.steps) THEN "fetch_step_zones" ELSE IF StartedAny(m) THEN "stop" ELSE "finish"
  BY <1>1, <1>2
<1>6. n.pc = "finish" => n.status = Summarize(m.outcomes)
  BY <1>1, <1>2, <1>5
<1> QED BY <1>1, <1>3, <1>4, <1>5, <1>6

\* A run that owns a row and has saved a mark or a status: its row fits it when
\* only the step in progress or the status has changed, to what its new place allows.
LEMMA RunSaves ==
  ASSUME NEW t \in Slots, RunReady(t), OthersKept(t), tasks[t].pc \in OwnerPcs, tasks[t].steps # <<>>,
         NEW n \in Tasks, Becomes(t, n), n.pc \in OwnerPcs, n.row = tasks[t].row, n.steps = tasks[t].steps,
         Fits(n, program_runs'[n.row])
  PROVE  RunStepOK(t)
PROOF
<1>1. tasks[t].row \in DOMAIN program_runs
  BY DEF RunReady, Linked
<1> QED BY <1>1 DEF RunStepOK, RowKept, OthersKept

\* A run that saved a mark as it should: the row, and what has changed in it.
LEMMA MarkSaved ==
  ASSUME NEW t \in Slots, RunReady(t), tasks[t].pc \in DOMAIN StepMark, program_runs' = Updated(tasks[t]),
         NEW k, k = tasks[t], NEW old, old = program_runs[k.row], NEW new, new = program_runs'[k.row]
  PROVE  /\ OthersKept(t) /\ k.pc \in OwnerPcs /\ k \in Tasks /\ old \in Rows /\ new \in Rows
         /\ SameRun(k, old) /\ SameMarks(k, old) /\ SameStage(k, old)
         /\ new.program = old.program /\ new.at = old.at /\ new.req = old.req /\ new.status = old.status
         /\ old.status = "running" /\ Position(k) <= Len(k.steps) /\ Len(new.steps) = Len(old.steps)
         /\ \A i \in 1 .. Len(k.steps) : new.steps[i] = IF i = Position(k) THEN StepMark[k.pc] ELSE old.steps[i]
         /\ Position(k) \in 1 .. Len(k.steps)
PROOF
<1>1. OthersKept(t)
  BY RowUpdated
<1>2. k.pc \in OwnerPcs /\ k.pc \in RunPcs \cup {"cancel_mark"} /\ k.pc \notin {"stop", "finish"}
  BY DEF StepMark, OwnerPcs, RunPcs, HandlerPcs
<1>3. /\ k \in Tasks /\ program_runs \in Seq(Rows) /\ k.row \in DOMAIN program_runs
      /\ SameRun(k, old) /\ SameMarks(k, old) /\ SameStage(k, old)
  BY <1>2 DEF RunReady, Linked, Fits
<1>4. old.status = "running" /\ Position(k) <= Len(k.steps) /\ Len(old.steps) = Len(k.steps)
  BY <1>2, <1>3 DEF SameStage, SameRun
<1>5. /\ old \in Rows /\ new \in Rows /\ new = [old EXCEPT !.steps = new.steps] /\ Len(new.steps) = Len(old.steps)
      /\ \A i \in 1 .. Len(k.steps) : new.steps[i] = IF i = Position(k) THEN StepMark[k.pc] ELSE old.steps[i]
  BY SMTT(30), <1>3, <1>4, MarkedRow
<1>6. new.program = old.program /\ new.at = old.at /\ new.req = old.req /\ new.status = old.status
  BY <1>5 DEF Rows
<1>7. Position(k) \in 1 .. Len(k.steps)
  BY SMTT(30), <1>3, <1>4, <1>5, MarksOfRun
<1> QED BY <1>1, <1>2, <1>3, <1>4, <1>5, <1>6, <1>7

\* A run that saved, or failed to save, and goes to a handler.
LEMMA HandlerHistory ==
  ASSUME NEW t \in Slots, RunReady(t), tasks[t].pc \in RunPcs, tasks[t].steps # <<>>,
         program_runs' \in Abandoned(tasks[t]), NEW n \in Tasks, Becomes(t, n), n.row = tasks[t].row,
         n.item = tasks[t].item, n.steps = tasks[t].steps, n.outcomes = tasks[t].outcomes,
         \/ n.pc = "crash_stop"
         \/ n.pc = "crash_finish" /\ n.status = "failed"
         \/ n.pc = "cancel_mark" /\ InFlight(tasks[t])
         \/ n.pc = "cancel_finish" /\ n.status = "cancelled" /\ ~InFlight(tasks[t])
  PROVE  RunStepOK(t)
PROOF
<1> DEFINE k == tasks[t]
           old == program_runs[k.row]
           new == program_runs'[k.row]
<1>1. OthersKept(t)
  BY CallAbandoned
<1>2. k.pc \in OwnerPcs /\ n.pc \in OwnerPcs /\ n.pc \in HandlerPcs
  BY DEF OwnerPcs, RunPcs, HandlerPcs
<1>3. /\ k \in Tasks /\ TaskShape(k) /\ program_runs \in Seq(Rows) /\ k.row \in DOMAIN program_runs
      /\ SameRun(k, old) /\ SameMarks(k, old) /\ SameStage(k, old)
  BY <1>2 DEF RunReady, Linked, Fits
<1>4. old \in Rows
  BY <1>3, ElementOfSeq, LenProperties
<1> HIDE DEF k, old, new
<1>5. SameStage(n, new)
  <2>1. n.pc = "cancel_mark" => Position(n) <= Len(n.steps) /\ new.status = "running"
    <3> SUFFICES ASSUME n.pc = "cancel_mark" PROVE Position(n) <= Len(n.steps) /\ new.status = "running"
      OBVIOUS
    <3>1. k.pc \in {"mark_started", "sleep", "mark_completed"}
      BY DEF InFlight, k
    <3>2. Position(n) = Position(k) /\ Position(k) <= Len(k.steps) /\ n.steps = k.steps /\ old.status = "running"
      BY <1>3, <3>1 DEF SameStage, Position, RunPcs, k
    <3>3. CASE program_runs' = program_runs
      BY <3>2, <3>3 DEF old, new
    <3>4. CASE k.pc \in DOMAIN StepMark /\ program_runs' = Updated(k)
      BY <3>2, <3>4, MarkSaved DEF k, old, new
    <3> QED BY <3>1, <3>3, <3>4 DEF Abandoned, FinishPcs, k
  <2> QED BY <1>2, <2>1 DEF SameStage, RunPcs, HandlerPcs
<1>6. SameRun(n, new) /\ SameMarks(n, new)
  <2>1. CASE program_runs' = program_runs
    <3>1. MarkAt(k.pc) \subseteq MarkAt(n.pc)
      BY DEF MarkAt, RunPcs, InFlight, k
    <3>2. new = old /\ n.item = k.item /\ n.steps = k.steps /\ n.outcomes = k.outcomes
      BY <2>1 DEF k, old, new
    <3>3. Position(k) <= Len(k.steps) => new.steps[Position(k)] \in MarkAt(n.pc)
      BY <1>3, <3>1, <3>2 DEF SameMarks
    <3> QED BY <1>3, <1>4, <3>2, <3>3, FitsOn
  <2>2. CASE k.pc \in DOMAIN StepMark /\ program_runs' = Updated(k)
    <3>1. StepMark[k.pc] \in MarkAt(n.pc)
      BY <2>2 DEF MarkAt, StepMark, RunPcs, InFlight, k
    <3>2. /\ old \in Rows /\ new \in Rows /\ SameRun(k, old) /\ SameMarks(k, old)
          /\ new.program = old.program /\ new.at = old.at /\ new.req = old.req /\ Len(new.steps) = Len(old.steps)
          /\ \A i \in 1 .. Len(k.steps) : new.steps[i] = IF i = Position(k) THEN StepMark[k.pc] ELSE old.steps[i]
          /\ Position(k) \in 1 .. Len(k.steps)
      BY SMTT(30), <2>2, MarkSaved DEF k, old, new
    <3>3. \A i \in 1 .. Len(k.steps) : i # Position(k) => new.steps[i] = old.steps[i]
      BY <3>2
    <3>4. new.steps[Position(k)] \in MarkAt(n.pc)
      BY <3>1, <3>2
    <3> QED BY <1>3, <3>2, <3>3, <3>4, FitsOn DEF k
  <2>3. CASE k.pc \in FinishPcs /\ program_runs' = Updated(k)
    <3>1. k.pc = "finish" /\ k.status \in Statuses
      BY <1>3, <2>3 DEF FinishPcs, RunPcs, TaskShape, k
    <3>2. new \in Rows /\ new = [old EXCEPT !.status = k.status]
      BY <1>3, <2>3, <3>1, ClosedRow DEF old, new
    <3>3. new.program = old.program /\ new.at = old.at /\ new.req = old.req /\ new.steps = old.steps
      BY <1>4, <3>2 DEF Rows
    <3>4. ~(Position(k) <= Len(k.steps))
      BY <1>3, <1>4, <3>1, MarksOfRun DEF SameStage
    <3> QED BY <1>3, <1>4, <3>2, <3>3, <3>4, FitsOn DEF k
  <2> QED BY <2>1, <2>2, <2>3 DEF Abandoned, RunPcs, k
<1> QED BY <1>1, <1>2, <1>5, <1>6, RunSaves DEF Fits, k, new

\* The steps of a run that save the outcome of a step or the end of the run.
LEMMA SavingHistory ==
  ASSUME NEW t \in Slots, RunReady(t), tasks[t].pc # "idle" => tasks[t].steps # <<>>, now \in Nat,
         \/ StepStarted(t) \/ StepEnds(t) \/ RunFinished(t) \/ RunCrashes(t) \/ InFlightCancelled(t)
         \/ HandlerFails(t) \/ CancelRun(t) \/ CancelHandler(t)
  PROVE  RunStepOK(t)
PROOF
<1> DEFINE k == tasks[t]
           old == program_runs[k.row]
           new == program_runs'[k.row]
<1>1. k \in Tasks /\ (k.pc \in OwnerPcs => k.steps # <<>>)
  BY DEF RunReady, OwnerPcs, RunPcs, HandlerPcs
<1> HIDE DEF k, old, new
<1>2. ASSUME NEW pc \in HandlerPcs \ {"cancel_record"}, NEW status \in Statuses, Ends(t, pc, status)
      PROVE  \E n \in Tasks : /\ Becomes(t, n) /\ n.pc = pc /\ n.status = status /\ n.row = k.row
                              /\ n.item = k.item /\ n.steps = k.steps /\ n.outcomes = k.outcomes
  <2> DEFINE n == [k EXCEPT !.pc = pc, !.status = status, !.cancel = FALSE]
  <2>1. /\ n \in Tasks /\ n.pc = pc /\ n.status = status /\ n.row = k.row
        /\ n.item = k.item /\ n.steps = k.steps /\ n.outcomes = k.outcomes
    BY <1>1 DEF Tasks, TaskPcs
  <2>2. Becomes(t, n)
    BY <1>2 DEF Ends, k
  <2> QED BY <2>1, <2>2
<1>3. {"failed", "cancelled"} \subseteq Statuses
  BY DEF Statuses
<1>4. CASE StepStarted(t)
  <2>1. k.pc = "mark_started" /\ k.pc \in DOMAIN StepMark /\ program_runs' = Updated(k)
    BY <1>4 DEF StepStarted, At, StepMark, k
  <2> DEFINE n == [k EXCEPT !.pc = "sleep", !.wake = now + StepMinutes]
  <2>2. Becomes(t, n)
    BY <1>4 DEF StepStarted, k
  <2>3. /\ OthersKept(t) /\ k.pc \in OwnerPcs /\ old \in Rows /\ new \in Rows
        /\ SameRun(k, old) /\ SameMarks(k, old) /\ SameStage(k, old)
        /\ new.program = old.program /\ new.at = old.at /\ new.req = old.req /\ new.status = old.status
        /\ old.status = "running" /\ Len(new.steps) = Len(old.steps)
        /\ \A i \in 1 .. Len(k.steps) : new.steps[i] = IF i = Position(k) THEN StepMark[k.pc] ELSE old.steps[i]
        /\ Position(k) \in 1 .. Len(k.steps)
    BY SMTT(30), <2>1, MarkSaved DEF k, old, new
  <2>4. now + StepMinutes \in Times
    BY TimeAssumption DEF Times
  <2>5. /\ n \in Tasks /\ n.pc = "sleep" /\ n.row = k.row
        /\ n.item = k.item /\ n.steps = k.steps /\ n.outcomes = k.outcomes
    BY <1>1, <2>4 DEF Tasks, TaskPcs, RunPcs
  <2> HIDE DEF n
  <2>6. StepMark[k.pc] \in MarkAt(n.pc)
    BY <2>1, <2>5 DEF StepMark, MarkAt
  <2>7. \A i \in 1 .. Len(k.steps) : i # Position(k) => new.steps[i] = old.steps[i]
    BY <2>3
  <2>8. new.steps[Position(k)] \in MarkAt(n.pc)
    BY <2>3, <2>6
  <2>9. SameRun(n, new) /\ SameMarks(n, new)
    BY <1>1, <2>3, <2>5, <2>7, <2>8, FitsOn
  <2>10. SameStage(n, new)
    BY <1>1, <2>1, <2>3, <2>5 DEF SameStage, Position, RunPcs
  <2>11. n.pc \in OwnerPcs
    BY <2>5 DEF OwnerPcs, RunPcs
  <2> QED BY <1>1, <2>2, <2>3, <2>5, <2>9, <2>10, <2>11, RunSaves DEF Fits, k, new
<1>5. CASE StepEnds(t)
  <2>1. /\ k.pc \in {"mark_skipped", "mark_failed", "mark_completed"} /\ k.pc \in DOMAIN StepMark
        /\ program_runs' = Updated(k) /\ Becomes(t, AfterStep(k, StepMark[k.pc]))
    BY <1>5 DEF StepEnds, At, StepMark, k
  <2> DEFINE outcome == StepMark[k.pc]
             n == AfterStep(k, outcome)
  <2>2. outcome \in Outcomes
    BY <2>1 DEF StepMark, Outcomes
  <2> HIDE DEF outcome
  <2>3. /\ OthersKept(t) /\ k.pc \in OwnerPcs /\ old \in Rows /\ new \in Rows
        /\ SameRun(k, old) /\ SameMarks(k, old) /\ SameStage(k, old)
        /\ new.program = old.program /\ new.at = old.at /\ new.req = old.req /\ new.status = old.status
        /\ old.status = "running" /\ Len(new.steps) = Len(old.steps) /\ Position(k) <= Len(k.steps)
        /\ \A i \in 1 .. Len(k.steps) : new.steps[i] = IF i = Position(k) THEN outcome ELSE old.steps[i]
        /\ Position(k) \in 1 .. Len(k.steps)
    <3>1. tasks[t].pc \in DOMAIN StepMark /\ program_runs' = Updated(tasks[t]) /\ k = tasks[t]
      BY <2>1 DEF k
    <3>2. old = program_runs[k.row] /\ new = program_runs'[k.row]
      BY DEF old, new
    <3> QED BY SMTT(30), <3>1, <3>2, MarkSaved DEF outcome
  <2>4. /\ n \in Tasks /\ n.item = k.item /\ n.steps = k.steps /\ n.row = k.row
        /\ n.outcomes = Append(k.outcomes, outcome)
        /\ n.pc \in {"stop", "finish"} <=> ~(Len(n.outcomes) < Len(k.steps))
        /\ n.pc \in {"fetch_step_zones", "stop", "finish"}
        /\ n.pc = "finish" => n.status = Summarize(n.outcomes)
    BY <1>1, <2>2, AfterStepFields
  <2> HIDE DEF n
  <2>5. MarkAt(n.pc) = {"pending"}
    BY <2>4 DEF MarkAt
  <2>6. SameRun(n, new) /\ SameMarks(n, new) /\ Len(n.outcomes) = Position(k)
    BY <1>1, <2>2, <2>3, <2>4, <2>5, FitsAfter
  <2>7. Len(k.steps) \in Nat /\ Position(k) \in Nat /\ Position(n) = Position(k) + 1
    BY <1>1, <2>3, <2>6, MarksOfRun DEF Position
  <2>8. SameStage(n, new)
    BY <2>3, <2>4, <2>6, <2>7 DEF SameStage
  <2>9. n.pc \in OwnerPcs
    BY <2>4 DEF OwnerPcs, RunPcs
  <2> QED BY <1>1, <2>1, <2>3, <2>4, <2>6, <2>8, <2>9, RunSaves DEF Fits, k, new, n, outcome
<1>6. CASE RunFinished(t)
  <2>1. k.pc \in FinishPcs /\ program_runs' = Updated(k) /\ Becomes(t, IdleTask)
    BY <1>6 DEF RunFinished, At, Exits, k
  <2>2. OthersKept(t)
    BY <2>1, RowUpdated DEF k
  <2> QED BY <2>1, <2>2, RunEnds
<1>7. CASE RunCrashes(t)
  <2>1. /\ k.pc \in RunPcs /\ program_runs' \in Abandoned(k) /\ k.pc \in OwnerPcs
        /\ Goes(t, "crash_stop") \/ Ends(t, "crash_finish", "failed")
    BY <1>7 DEF RunCrashes, At, RunPcs, OwnerPcs, k
  <2>2. CASE Goes(t, "crash_stop")
    <3> DEFINE n == [k EXCEPT !.pc = "crash_stop"]
    <3>1. /\ n \in Tasks /\ n.pc = "crash_stop" /\ n.row = k.row
          /\ n.item = k.item /\ n.steps = k.steps /\ n.outcomes = k.outcomes
      BY <1>1 DEF Tasks, TaskPcs, HandlerPcs
    <3>2. Becomes(t, n)
      BY <2>2 DEF Goes, k
    <3> HIDE DEF n
    <3> QED BY <1>1, <2>1, <3>1, <3>2, HandlerHistory DEF k
  <2>3. CASE Ends(t, "crash_finish", "failed")
    <3>1. "crash_finish" \in HandlerPcs \ {"cancel_record"}
      BY DEF HandlerPcs
    <3>2. PICK n \in Tasks : /\ Becomes(t, n) /\ n.pc = "crash_finish" /\ n.status = "failed" /\ n.row = k.row
                             /\ n.item = k.item /\ n.steps = k.steps /\ n.outcomes = k.outcomes
      BY <1>2, <1>3, <2>3, <3>1
    <3> QED BY <1>1, <2>1, <3>2, HandlerHistory DEF k
  <2> QED BY <2>1, <2>2, <2>3
<1>8. CASE InFlightCancelled(t)
  <2>1. /\ k.pc = "cancel_mark" /\ k.pc \in DOMAIN StepMark /\ program_runs' = Updated(k)
        /\ Ends(t, "cancel_finish", "cancelled")
    BY <1>8 DEF InFlightCancelled, At, StepMark, k
  <2>2. "cancel_finish" \in HandlerPcs \ {"cancel_record"}
    BY DEF HandlerPcs
  <2>3. PICK n \in Tasks : /\ Becomes(t, n) /\ n.pc = "cancel_finish" /\ n.status = "cancelled" /\ n.row = k.row
                           /\ n.item = k.item /\ n.steps = k.steps /\ n.outcomes = k.outcomes
    BY <1>2, <1>3, <2>1, <2>2
  <2>4. /\ OthersKept(t) /\ k.pc \in OwnerPcs /\ old \in Rows /\ new \in Rows
        /\ SameRun(k, old) /\ SameMarks(k, old)
        /\ new.program = old.program /\ new.at = old.at /\ new.req = old.req /\ Len(new.steps) = Len(old.steps)
        /\ \A i \in 1 .. Len(k.steps) : new.steps[i] = IF i = Position(k) THEN StepMark[k.pc] ELSE old.steps[i]
        /\ Position(k) \in 1 .. Len(k.steps)
    BY SMTT(30), <2>1, MarkSaved DEF k, old, new
  <2>5. StepMark[k.pc] \in MarkAt(n.pc)
    BY <2>1, <2>3 DEF StepMark, MarkAt
  <2>6. \A i \in 1 .. Len(k.steps) : i # Position(k) => new.steps[i] = old.steps[i]
    BY <2>4
  <2>7. new.steps[Position(k)] \in MarkAt(n.pc)
    BY <2>4, <2>5
  <2>8. SameRun(n, new) /\ SameMarks(n, new)
    BY <1>1, <2>3, <2>4, <2>6, <2>7, FitsOn
  <2>9. SameStage(n, new) /\ n.pc \in OwnerPcs
    BY <2>3 DEF SameStage, RunPcs, OwnerPcs, HandlerPcs
  <2> QED BY <1>1, <2>3, <2>4, <2>8, <2>9, RunSaves DEF Fits, k, new
<1>9. CASE HandlerFails(t)
  <2>1. Becomes(t, IdleTask)
    BY <1>9 DEF HandlerFails, Exits
  <2>2. CASE program_runs' \in Abandoned(k)
    BY <2>1, <2>2, CallAbandoned, RunEnds DEF k
  <2>3. CASE k.pc = "cancel_record" /\ InsertFails(k.item, "cancelled", <<>>)
    <3>1. TrueRow(NewRow(k.item, "cancelled", <<>>)) /\ k.item \in Items /\ <<>> \in Seq(Marks)
      BY <1>1, EmptyRowIsTrue DEF Tasks
    <3>2. OthersKept(t)
      BY <1>3, <2>3, <3>1, RowInserted
    <3> QED BY <2>1, <3>2, RunEnds
  <2> QED BY <1>9, <2>2, <2>3 DEF HandlerFails, At, k
<1>10. CASE CancelRun(t)
  <2>1. /\ k.pc \in RunPcs /\ k.pc \in OwnerPcs /\ program_runs' \in Abandoned(k)
        /\ Ends(t, IF InFlight(k) THEN "cancel_mark" ELSE "cancel_finish", "cancelled")
    BY <1>10 DEF CancelRun, Cancelling, RunPcs, OwnerPcs, k
  <2>2. {"cancel_mark", "cancel_finish"} \subseteq HandlerPcs \ {"cancel_record"}
    BY DEF HandlerPcs
  <2>3. CASE InFlight(k)
    BY <1>1, <1>2, <1>3, <2>1, <2>2, <2>3, HandlerHistory DEF k
  <2>4. CASE ~InFlight(k)
    BY <1>1, <1>2, <1>3, <2>1, <2>2, <2>4, HandlerHistory DEF k
  <2> QED BY <2>3, <2>4
<1>11. CASE CancelHandler(t)
  BY <1>11, CallAbandoned, RunEnds DEF CancelHandler, Exits
<1> QED BY <1>4, <1>5, <1>6, <1>7, <1>8, <1>9, <1>10, <1>11

-----------------------------------------------------------------------------
(* Every step.                                                             *)

\* A step of a run keeps the history and the runs' rows.
LEMMA RunStepKeeps ==
  ASSUME TypeInd, HistoryInd, NEW t \in Slots, tasks[t].pc # "idle", RunStepOK(t), TaskUnchanged
  PROVE  HistoryInd'
PROOF
<1>1. PICK n \in Tasks : tasks' = [tasks EXCEPT ![t] = n] /\ RowKept(t, n)
  BY DEF RunStepOK, Becomes
<1>2. OthersKept(t) /\ tasks \in [Slots -> Tasks]
  BY DEF RunStepOK, TypeInd, TypeOK, RunsOK
<1>3. tasks'[t] = n /\ \A s \in Slots \ {t} : tasks'[s] = tasks[s]
  BY <1>1, <1>2
<1>4. None \notin DOMAIN program_runs
  BY LenProperties DEF None, TypeInd, TypeOK, RunsOK
<1>5. \A s \in Slots : tasks[s].row # None => tasks[s].row \in DOMAIN program_runs
  BY DEF HistoryInd, OwnRows, Linked, Rowless
<1>6. ASSUME NEW s \in Slots PROVE Linked(tasks[s])'
  <2>1. CASE s = t
    BY <1>1, <1>3, <2>1 DEF RowKept, Linked, Rowless
  <2>2. CASE s # t
    <3>1. Linked(tasks[s]) /\ tasks'[s] = tasks[s]
      BY <1>3, <2>2 DEF HistoryInd, OwnRows
    <3>2. ASSUME tasks[s].pc \in OwnerPcs
          PROVE  /\ tasks[s].row \in DOMAIN program_runs'
                 /\ program_runs'[tasks[s].row] = program_runs[tasks[s].row]
      <4>1. tasks[s].row \in DOMAIN program_runs /\ tasks[s].row # None
        BY <1>4, <3>1, <3>2 DEF Linked
      <4>2. tasks[s].row # tasks[t].row
        BY <2>2, <4>1 DEF HistoryInd, OwnRows
      <4> QED BY <1>2, <4>1, <4>2 DEF OthersKept
    <3> QED BY <3>1, <3>2 DEF Linked, Rowless
  <2> QED BY <2>1, <2>2
<1>7. ASSUME NEW r \in Slots, NEW s \in Slots, r # s, tasks'[s].row # None PROVE tasks'[r].row # tasks'[s].row
  <2>1. tasks[r].row # tasks[s].row \/ tasks[s].row = None
    BY <1>7 DEF HistoryInd, OwnRows
  <2>2. n.row \in {None, tasks[t].row} \/ n.row \notin DOMAIN program_runs
    BY <1>1 DEF RowKept
  <2>3. CASE r # t /\ s # t
    BY <1>3, <1>7, <2>1, <2>3
  <2>4. CASE s = t
    <3>1. tasks'[r] = tasks[r] /\ tasks'[s] = n /\ n.row # None
      BY <1>3, <1>7, <2>4
    <3> QED BY <1>5, <2>1, <2>2, <2>4, <3>1
  <2>5. CASE r = t
    <3>1. tasks'[s] = tasks[s] /\ tasks'[r] = n /\ tasks[s].row # None
      BY <1>3, <1>7, <2>5
    <3> QED BY <1>5, <2>1, <2>2, <2>5, <3>1
  <2> QED BY <2>3, <2>4, <2>5
<1>8. OwnRows'
  BY <1>6, <1>7 DEF OwnRows
<1>9. HasWork'
  <2>1. \A s \in Slots : tasks'[s].pc # "idle" => tasks'[s].steps # <<>>
    BY <1>1, <1>3 DEF HistoryInd, HasWork, RowKept
  <2> QED BY <2>1 DEF HistoryInd, HasWork, TaskUnchanged
<1>10. BootOrder'
  BY DEF HistoryInd, BootOrder, TaskUnchanged, config
<1>11. HistoryIsTrue'
  BY <1>2 DEF HistoryInd, HistoryIsTrue, OthersKept, TrueRow
<1> QED BY <1>8, <1>9, <1>10, <1>11 DEF HistoryInd

\* Only a run that is on has steps to take.
LEMMA RunStepIsBusy ==
  ASSUME NEW t \in Slots, RunTaskStep(t) PROVE tasks[t].pc # "idle" /\ TaskUnchanged
PROOF
<1>1. TaskUnchanged
  BY DEF RunTaskStep, RunBegins, RainDelayRead, WeatherDecided, TerminalRecorded, ZonesFetched, RunInserted,
         SetupFails, StepZonesFetched, ZoneStarts, StartFails, StartReplies, StartRepliesUntracked, StepStarted,
         StepSlept, StepEnds, RunStops, RunFinished, RunCrashes, InFlightCancelled, HandlerFails,
         CancelUnstarted, CancelSetup, CancelRun, CancelHandler
<1>2. tasks[t].pc # "idle"
  BY DEF RunTaskStep, RunBegins, RainDelayRead, WeatherDecided, TerminalRecorded, ZonesFetched, RunInserted,
         SetupFails, StepZonesFetched, ZoneStarts, StartFails, StartReplies, StartRepliesUntracked, StepStarted,
         StepSlept, StepEnds, RunStops, RunFinished, RunCrashes, InFlightCancelled, HandlerFails,
         CancelUnstarted, CancelSetup, CancelRun, CancelHandler, At, Cancelling, SetupPcs, RunPcs, HandlerPcs, FinishPcs
<1> QED BY <1>1, <1>2

\* Every step of a run keeps the other rows and leaves its own fitting.
LEMMA RunTaskStepOK ==
  ASSUME TypeInd, HistoryInd, NEW t \in Slots, RunTaskStep(t) PROVE RunReady(t) /\ RunStepOK(t)
PROOF
<1>1. RunReady(t) /\ now \in Nat /\ (tasks[t].pc # "idle" => tasks[t].steps # <<>>)
  BY DEF TypeInd, TypeOK, RunsOK, EnvOK, HistoryInd, OwnRows, HasWork, RunReady, Tasks
<1>2. tasks[t].pc # "idle" /\ TaskUnchanged /\ tasks[t].steps # <<>>
  BY <1>1, RunStepIsBusy
<1>3. RunInserted(t) => RunStepOK(t)
  BY <1>1, <1>2, RunInsertedHistory
<1>4. RunBegins(t) \/ RainDelayRead(t) \/ WeatherDecided(t) \/ TerminalRecorded(t) \/ ZonesFetched(t)
      \/ SetupFails(t) \/ CancelUnstarted(t) \/ CancelSetup(t)
      => RunStepOK(t)
  BY <1>1, <1>2, SetupHistory
<1>5. StepZonesFetched(t) \/ ZoneStarts(t) \/ StartFails(t) \/ StartReplies(t) \/ StartRepliesUntracked(t)
      \/ StepSlept(t) \/ RunStops(t)
      => RunStepOK(t)
  BY <1>1, <1>2, WateringHistory
<1>6. StepStarted(t) \/ StepEnds(t) \/ RunFinished(t) \/ RunCrashes(t) \/ InFlightCancelled(t)
      \/ HandlerFails(t) \/ CancelRun(t) \/ CancelHandler(t)
      => RunStepOK(t)
  BY <1>1, <1>2, SavingHistory
<1> QED BY <1>1, <1>3, <1>4, <1>5, <1>6 DEF RunTaskStep

\* Every step of a run.
LEMMA RunTaskStepHistory ==
  ASSUME TypeInd, HistoryInd, NEW t \in Slots, RunTaskStep(t) PROVE HistoryInd'
  BY RunTaskStepOK, RunStepIsBusy, RunStepKeeps

\* The history changes, if at all, by one row that is true.
LEMMA RowAdded ==
  ASSUME TypeInd, HistoryInd, UNCHANGED tasks, NEW item \in Items, NEW status \in Statuses \ {"partial"},
         \/ UNCHANGED program_runs
         \/ Inserts(item, status, <<>>) \/ InsertFails(item, status, <<>>)
  PROVE  OwnRows' /\ HistoryIsTrue'
PROOF
<1> DEFINE row == NewRow(item, status, <<>>)
<1>1. program_runs \in Seq(Rows) /\ boot \in Nat
  BY DEF TypeInd, TypeOK, RunsOK, EnvOK
<1>2. row \in Rows /\ TrueRow(row)
  BY SMTT(30), <1>1, EmptyRowIsTrue DEF NewRow, Rows, Items
<1>3. UNCHANGED program_runs \/ program_runs' = Append(program_runs, row)
  BY DEF Inserts, InsertFails
<1> HIDE DEF row
<1>4. /\ DOMAIN program_runs \subseteq DOMAIN program_runs'
      /\ \A r \in DOMAIN program_runs : program_runs'[r] = program_runs[r]
      /\ \A r \in DOMAIN program_runs' : r \in DOMAIN program_runs \/ program_runs'[r] = row
  <2>1. CASE UNCHANGED program_runs
    BY <2>1
  <2>2. CASE program_runs' = Append(program_runs, row)
    <3>1. /\ program_runs' \in Seq(Rows) /\ Len(program_runs') = Len(program_runs) + 1
          /\ \A r \in 1 .. Len(program_runs) : program_runs'[r] = program_runs[r]
          /\ program_runs'[Len(program_runs) + 1] = row
      BY <1>1, <1>2, <2>2, AppendProperties
    <3>2. /\ DOMAIN program_runs = 1 .. Len(program_runs) /\ DOMAIN program_runs' = 1 .. Len(program_runs) + 1
          /\ Len(program_runs) \in Nat
      BY <1>1, <3>1, LenProperties
    <3> QED BY <3>1, <3>2
  <2> QED BY <1>3, <2>1, <2>2
<1>5. \A t \in Slots : Linked(tasks[t])'
  BY <1>4 DEF HistoryInd, OwnRows, Linked, Rowless
<1>6. HistoryIsTrue'
  BY <1>2, <1>4 DEF HistoryInd, HistoryIsTrue, TrueRow
<1> QED BY <1>5, <1>6 DEF HistoryInd, OwnRows

\* What the loop does next depends on the tick, not on its work.
LEMMA TickFields ==
  ASSUME NEW l \in Loops
  PROVE  /\ Refreshing(l).pc \in {"fetch_programs", "evaluate", "wait"}
         /\ Refreshing(l).work = l.work /\ Refreshing(l).program = l.program /\ Refreshing(l).now = l.now
         /\ Refreshing(l).pc = "evaluate" => ready
         /\ \A loaded \in BOOLEAN :
              /\ Evaluating(l, loaded).pc = IF loaded THEN "evaluate" ELSE "wait"
              /\ Evaluating(l, loaded).work = l.work /\ Evaluating(l, loaded).program = l.program
              /\ Evaluating(l, loaded).now = l.now
PROOF
<1>1. ASSUME NEW loaded
      PROVE  /\ Evaluating(l, loaded).pc = IF loaded THEN "evaluate" ELSE "wait"
             /\ Evaluating(l, loaded).work = l.work /\ Evaluating(l, loaded).program = l.program
             /\ Evaluating(l, loaded).now = l.now
  BY DEF Loops, Evaluating
<1>2. /\ [l EXCEPT !.pc = "fetch_programs"].pc = "fetch_programs" /\ [l EXCEPT !.pc = "fetch_programs"].work = l.work
      /\ [l EXCEPT !.pc = "fetch_programs"].program = l.program /\ [l EXCEPT !.pc = "fetch_programs"].now = l.now
  BY DEF Loops
<1> QED BY <1>1, <1>2 DEF Refreshing

\* A step of the loop that leaves the runs alone keeps the invariant, if it keeps
\* the history and queues no empty run.
LEMMA LoopKeeps ==
  ASSUME TypeInd, HistoryInd, UNCHANGED tasks, OwnRows', HistoryIsTrue',
         orphans_finalized \in BOOLEAN, orphans_finalized' = orphans_finalized,
         \A i \in DOMAIN queue' : queue'[i].program = NoProgram => queue'[i].steps # <<>>,
         loop'.work # {} => loop'.program # NoProgram,
         loop'.pc \notin {"wait", "stopped"} => (loop'.pc = "finalize" <=> ~orphans_finalized)
  PROVE  HistoryInd'
PROOF
<1>1. HasWork'
  BY DEF HistoryInd, HasWork
<1>2. BootOrder'
  BY DEF HistoryInd, BootOrder
<1> QED BY <1>1, <1>2 DEF HistoryInd

\* The tick, its orphans and its refresh.
LEMMA TickHistory ==
  ASSUME TypeInd, HistoryInd,
         \/ TickBegins \/ FetchPrograms \/ FetchSteps \/ ReadRunKeys \/ ClaimRequests \/ RefreshFails \/ RefreshDone
  PROVE  HistoryInd'
PROOF
<1>1. UNCHANGED <<tasks, program_runs, queue, orphans_finalized>>
  BY DEF TickBegins, FetchPrograms, FetchSteps, ReadRunKeys, ClaimRequests, RefreshFails, RefreshDone, LoopUnchanged, config
<1>2. OwnRows' /\ HistoryIsTrue'
  BY <1>1 DEF HistoryInd, OwnRows, HistoryIsTrue, Linked, Rowless
<1>3. loop \in Loops /\ ready \in BOOLEAN /\ orphans_finalized \in BOOLEAN /\ now \in Nat
  BY DEF TypeInd, TypeOK, QueueOK, ConfigOK, EnvOK
<1>4. loop'.work = loop.work /\ loop'.program = loop.program
  <2>1. CASE TickBegins
    <3>1. [loop EXCEPT !.now = now] \in Loops
      BY <1>3 DEF Loops
    <3> QED BY <1>3, <2>1, <3>1, TickFields DEF TickBegins, Loops
  <2>2. CASE FetchPrograms \/ FetchSteps \/ ReadRunKeys \/ ClaimRequests
    BY <1>3, <2>2 DEF FetchPrograms, FetchSteps, ReadRunKeys, ClaimRequests, Loops
  <2>3. CASE RefreshFails
    <3>1. [loop EXCEPT !.rows = InitialPrograms] \in Loops
      BY <1>3, DataAssumption DEF Loops
    <3> QED BY <1>3, <2>3, <3>1, TickFields DEF RefreshFails, Loops
  <2>4. CASE RefreshDone
    BY <1>3, <2>4, TickFields DEF RefreshDone
  <2> QED BY <2>1, <2>2, <2>3, <2>4
<1>5. loop'.pc \notin {"wait", "stopped"} => (loop'.pc = "finalize" <=> ~orphans_finalized)
  <2>1. CASE TickBegins
    <3>1. [loop EXCEPT !.now = now] \in Loops
      BY <1>3 DEF Loops
    <3>2. CASE orphans_finalized
      BY <1>3, <2>1, <3>1, <3>2, TickFields DEF TickBegins
    <3>3. CASE ~orphans_finalized
      <4>1. loop'.pc = "finalize"
        BY <1>3, <2>1, <3>3 DEF TickBegins, Loops
      <4> QED BY <3>3, <4>1
    <3> QED BY <3>2, <3>3
  <2>2. CASE FetchPrograms \/ FetchSteps \/ ReadRunKeys \/ ClaimRequests
    BY <1>3, <2>2 DEF FetchPrograms, FetchSteps, ReadRunKeys, ClaimRequests, Loops, HistoryInd, BootOrder, Awaits
  <2>3. CASE RefreshFails
    <3>1. [loop EXCEPT !.rows = InitialPrograms] \in Loops
      BY <1>3, DataAssumption DEF Loops
    <3>2. loop'.pc \in {"evaluate", "wait"} /\ orphans_finalized
      BY <1>3, <2>3, <3>1, TickFields DEF RefreshFails, HistoryInd, BootOrder, Awaits
    <3> QED BY <3>2
  <2>4. CASE RefreshDone
    <3>1. loop'.pc = "evaluate" /\ orphans_finalized
      BY <1>3, <2>4, TickFields DEF RefreshDone, HistoryInd, BootOrder, Awaits
    <3> QED BY <3>1
  <2> QED BY <2>1, <2>2, <2>3, <2>4
<1> QED BY <1>1, <1>2, <1>3, <1>4, <1>5, LoopKeeps DEF HistoryInd, HasWork

\* Finalizing a row leaves it true.
LEMMA FinalizedIsTrue ==
  ASSUME NEW row \in Rows, TrueRow(row) PROVE TrueRow(Finalized(row)) /\ Finalized(row) \in Rows
PROOF
<1>1. CASE row.status # "running"
  BY <1>1 DEF Finalized
<1>2. CASE row.status = "running"
  <2> DEFINE marks == [i \in DOMAIN row.steps |-> IF row.steps[i] = "started" THEN "cancelled" ELSE row.steps[i]]
  <2>1. /\ row.steps \in Seq(Marks) /\ Len(row.steps) \in Nat /\ DOMAIN row.steps = 1 .. Len(row.steps)
        /\ \A i \in 1 .. Len(row.steps) : row.steps[i] \in Marks
    BY LenProperties, ElementOfSeq DEF Rows
  <2>2. marks \in [1 .. Len(row.steps) -> Marks]
    BY <2>1 DEF Marks
  <2>3. marks \in Seq(Marks)
    BY <2>1, <2>2, SeqDef
  <2>4. \A i, j \in DOMAIN marks : i < j /\ marks[j] # "pending" => marks[i] \in Outcomes
    <3> SUFFICES ASSUME NEW i \in DOMAIN marks, NEW j \in DOMAIN marks, i < j, marks[j] # "pending"
                 PROVE  marks[i] \in Outcomes
      OBVIOUS
    <3>1. row.steps[i] \in Outcomes
      BY <1>2 DEF TrueRow
    <3> QED BY <3>1 DEF Outcomes
  <2>5. \A i \in DOMAIN marks : marks[i] # "started"
    OBVIOUS
  <2>6. Finalized(row) = [row EXCEPT !.status = "cancelled", !.steps = marks]
    BY <1>2 DEF Finalized
  <2> HIDE DEF marks
  <2>7. Finalized(row) \in Rows /\ Finalized(row).status = "cancelled" /\ Finalized(row).steps = marks
    BY <2>3, <2>6 DEF Rows, Statuses
  <2> QED BY <2>4, <2>5, <2>7 DEF TrueRow
<1> QED BY <1>1, <1>2

\* The orphans are finalized before any run starts.
LEMMA FinalizeHistory ==
  ASSUME TypeInd, HistoryInd, FinalizeOrphans \/ FinalizeFails PROVE HistoryInd'
PROOF
<1> DEFINE finalized == [r \in DOMAIN program_runs |-> Finalized(program_runs[r])]
<1>1. UNCHANGED <<tasks, queue>> /\ program_runs' \in {program_runs, finalized}
  BY DEF FinalizeOrphans, FinalizeFails, LoopUnchanged
<1>2. program_runs \in Seq(Rows) /\ loop \in Loops /\ orphans_finalized \in BOOLEAN
  BY DEF TypeInd, TypeOK, RunsOK, QueueOK, ConfigOK
<1>3. \A r \in DOMAIN program_runs : program_runs[r] \in Rows
  BY <1>2, LenProperties, ElementOfSeq
<1>4. \A t \in Slots : tasks[t].pc = "idle"
  BY DEF FinalizeOrphans, FinalizeFails, Awaits, HistoryInd, BootOrder
<1>5. OwnRows'
  BY <1>1, <1>4 DEF HistoryInd, OwnRows, Linked, Rowless, OwnerPcs, RunPcs, HandlerPcs
<1>6. HistoryIsTrue'
  <2>1. \A r \in DOMAIN finalized : TrueRow(finalized[r])
    BY <1>3, FinalizedIsTrue DEF HistoryInd, HistoryIsTrue
  <2> QED BY <1>1, <2>1 DEF HistoryInd, HistoryIsTrue, TrueRow
<1> HIDE DEF finalized
<1>7. loop'.work = loop.work /\ loop'.program = loop.program
  BY <1>2, TickFields DEF FinalizeOrphans, FinalizeFails, Loops
<1>8. HasWork'
  BY <1>1, <1>7 DEF HistoryInd, HasWork
<1>9. BootOrder'
  <2>1. CASE FinalizeOrphans
    BY <1>2, <2>1, TickFields DEF FinalizeOrphans, BootOrder
  <2>2. CASE FinalizeFails
    <3>1. loop'.pc = "wait" /\ orphans_finalized' = orphans_finalized
      BY <1>2, <2>2 DEF FinalizeFails, Loops, config
    <3> QED BY <1>1, <1>4, <3>1 DEF BootOrder
  <2> QED BY <2>1, <2>2
<1> QED BY <1>5, <1>6, <1>8, <1>9 DEF HistoryInd

\* Requests are admitted, recorded as missed or ignored.
LEMMA AdmitHistory ==
  ASSUME TypeInd, HistoryInd, AdmitStep \/ RequestsAdmitted PROVE HistoryInd'
PROOF
<1>1. loop \in Loops /\ queue \in Seq(Items) /\ orphans_finalized \in BOOLEAN /\ loop.reqs \subseteq Items
  BY DEF TypeInd, TypeOK, QueueOK, ConfigOK, Loops
<1>2. UNCHANGED <<tasks, orphans_finalized>> /\ loop.pc \in {"admit", "insert_request_missed"}
  BY DEF AdmitStep, RequestsAdmitted, IgnoreRequest, OverflowRequest, AdmitRequest, InsertRequestMissed,
         AdmitUnchanged, LoopUnchanged, config, Awaits
<1>3. orphans_finalized
  BY <1>2 DEF HistoryInd, BootOrder
<1>4. /\ \A req : /\ Handled(req).work = loop.work /\ Handled(req).program = loop.program
                  /\ Handled(req).pc = "admit"
      /\ \A pc \in {"insert_request_missed", "weather_settings"} :
           /\ [loop EXCEPT !.pc = pc].work = loop.work /\ [loop EXCEPT !.pc = pc].program = loop.program
           /\ [loop EXCEPT !.pc = pc].pc = pc
  BY <1>1 DEF Handled, Loops
<1>5. UNCHANGED program_runs => OwnRows' /\ HistoryIsTrue'
  BY <1>2 DEF HistoryInd, OwnRows, HistoryIsTrue, Linked, Rowless
<1>6. CASE RequestsAdmitted
  <2>1. UNCHANGED <<program_runs, queue>> /\ loop' = [loop EXCEPT !.pc = "weather_settings"]
    BY <1>6 DEF RequestsAdmitted
  <2> QED BY <1>1, <1>2, <1>3, <1>4, <1>5, <2>1, LoopKeeps DEF HistoryInd, HasWork
<1>7. ASSUME NEW req \in loop.reqs, IgnoreRequest(req) \/ OverflowRequest(req) PROVE HistoryInd'
  <2>1. /\ UNCHANGED <<program_runs, queue>>
        /\ (loop' = Handled(req) \/ loop' = [loop EXCEPT !.pc = "insert_request_missed"])
    BY <1>7 DEF IgnoreRequest, OverflowRequest
  <2>2. loop'.work = loop.work /\ loop'.program = loop.program /\ loop'.pc \in {"admit", "insert_request_missed"}
    <3>1. CASE loop' = Handled(req)
      BY <1>4, <3>1
    <3>2. CASE loop' = [loop EXCEPT !.pc = "insert_request_missed"]
      BY <1>1, <3>2 DEF Loops
    <3> QED BY <2>1, <3>1, <3>2
  <2> QED BY <1>1, <1>2, <1>3, <1>5, <2>1, <2>2, LoopKeeps DEF HistoryInd, HasWork
<1>8. ASSUME NEW req \in loop.reqs, InsertRequestMissed(req) PROVE HistoryInd'
  <2>1. UNCHANGED queue /\ loop' = Handled(req) /\ (Inserts(req, "missed", <<>>) \/ InsertFails(req, "missed", <<>>))
    BY <1>8 DEF InsertRequestMissed
  <2>2. OwnRows' /\ HistoryIsTrue'
    BY <1>1, <1>2, <2>1, RowAdded DEF Statuses
  <2> QED BY <1>1, <1>2, <1>3, <1>4, <2>1, <2>2, LoopKeeps DEF HistoryInd, HasWork
<1>9. ASSUME NEW req \in loop.reqs, AdmitRequest(req) PROVE HistoryInd'
  <2>1. PICK i \in 1 .. Len(queue) + 1 : queue' = InsertAt(queue, i, req)
    BY <1>9 DEF AdmitRequest
  <2>2. \A j \in DOMAIN queue' : queue'[j] = req \/ \E m \in DOMAIN queue : queue'[j] = queue[m]
    BY <1>1, <2>1, Inserted
  <2>3. req.program = NoProgram => req.steps # <<>>
    BY <1>9 DEF AdmitRequest, Admissible
  <2>4. \A j \in DOMAIN queue' : queue'[j].program = NoProgram => queue'[j].steps # <<>>
    BY <2>2, <2>3 DEF HistoryInd, HasWork
  <2>5. UNCHANGED program_runs /\ loop' = Handled(req)
    BY <1>9 DEF AdmitRequest
  <2> QED BY <1>1, <1>2, <1>3, <1>4, <1>5, <2>4, <2>5, LoopKeeps DEF HistoryInd, HasWork
<1> QED BY <1>6, <1>7, <1>8, <1>9 DEF AdmitStep

\* Occurrences are skipped, recorded as missed or queued.
LEMMA EvaluateHistory ==
  ASSUME TypeInd, HistoryInd,
         EvaluateProgram \/ SkipOccurrence \/ MissOccurrence \/ AdmitOccurrence \/ InsertMissed \/ EvaluateDone
  PROVE  HistoryInd'
PROOF
<1>1. /\ loop \in Loops /\ queue \in Seq(Items) /\ orphans_finalized \in BOOLEAN
      /\ loop.work \subseteq Nat /\ loop.todo \subseteq Programs /\ loop.program \in Programs \cup {NoProgram}
  BY DEF TypeInd, TypeOK, QueueOK, ConfigOK, Loops
<1>2. UNCHANGED <<tasks, orphans_finalized>> /\ loop.pc \in {"evaluate", "insert_missed"}
  BY DEF EvaluateProgram, SkipOccurrence, MissOccurrence, AdmitOccurrence, InsertMissed, EvaluateDone,
         EvaluateUnchanged, LoopUnchanged, config, Awaits
<1>3. orphans_finalized
  BY <1>2 DEF HistoryInd, BootOrder
<1>4. UNCHANGED program_runs => OwnRows' /\ HistoryIsTrue'
  BY <1>2 DEF HistoryInd, OwnRows, HistoryIsTrue, Linked, Rowless
<1>5. loop.work # {} => loop.program # NoProgram
  BY DEF HistoryInd, HasWork
<1>6. \A occ : /\ Examined(occ).work = loop.work \ {occ} /\ Examined(occ).program = loop.program
               /\ Examined(occ).pc = "evaluate"
  BY <1>1 DEF Examined, Loops
<1>7. CASE EvaluateProgram
  <2>1. PICK p \in loop.todo :
          loop' = [loop EXCEPT !.todo = @ \ {p}, !.program = p,
                               !.work = Occurrences(p, loop.now - Lookback, loop.now)]
    BY <1>7 DEF EvaluateProgram
  <2>2. loop'.program = p /\ loop'.pc = loop.pc /\ p # NoProgram /\ loop.pc = "evaluate"
    BY <1>1, <1>7, <2>1, IdAssumption DEF Loops, EvaluateProgram
  <2>3. UNCHANGED <<program_runs, queue>>
    BY <1>7 DEF EvaluateProgram
  <2> QED BY <1>2, <1>3, <1>4, <2>2, <2>3, LoopKeeps DEF HistoryInd, HasWork
<1>8. CASE EvaluateDone
  <2>1. loop'.work = {} /\ loop'.pc = "pump"
    BY <1>1, <1>8 DEF EvaluateDone, Loops
  <2>2. UNCHANGED <<program_runs, queue>>
    BY <1>8 DEF EvaluateDone
  <2> QED BY <1>2, <1>3, <1>4, <2>1, <2>2, LoopKeeps DEF HistoryInd, HasWork
<1>9. CASE SkipOccurrence
  <2>1. PICK occ \in loop.work : loop' = Examined(occ)
    BY <1>9 DEF SkipOccurrence
  <2>2. UNCHANGED <<program_runs, queue>>
    BY <1>9 DEF SkipOccurrence
  <2> QED BY <1>2, <1>3, <1>4, <1>5, <1>6, <2>1, <2>2, LoopKeeps DEF HistoryInd, HasWork
<1>10. CASE MissOccurrence
  <2>1. loop'.work = loop.work /\ loop'.program = loop.program /\ loop'.pc = "insert_missed"
    BY <1>1, <1>10 DEF MissOccurrence, Loops
  <2>2. UNCHANGED <<program_runs, queue>>
    BY <1>10 DEF MissOccurrence
  <2> QED BY <1>2, <1>3, <1>4, <1>5, <2>1, <2>2, LoopKeeps DEF HistoryInd, HasWork
<1>11. CASE AdmitOccurrence
  <2>1. PICK occ \in loop.work : /\ queue' = Append(queue, Item(loop.program, occ, 0, <<>>))
                                 /\ loop' = Examined(occ)
    BY <1>11 DEF AdmitOccurrence
  <2> DEFINE item == Item(loop.program, occ, 0, <<>>)
  <2>2. item \in Items /\ item.program # NoProgram
    BY <1>1, <1>5 DEF Item, Items, Times
  <2> HIDE DEF item
  <2>3. queue' = Append(queue, item)
    BY <2>1 DEF item
  <2>4. \A i \in DOMAIN queue' : queue'[i] = item \/ \E j \in DOMAIN queue : queue'[i] = queue[j]
    <3>1. /\ queue' \in Seq(Items) /\ Len(queue') = Len(queue) + 1 /\ queue'[Len(queue) + 1] = item
          /\ \A i \in 1 .. Len(queue) : queue'[i] = queue[i]
      BY <1>1, <2>2, <2>3, AppendProperties
    <3>2. Len(queue) \in Nat /\ DOMAIN queue = 1 .. Len(queue) /\ DOMAIN queue' = 1 .. Len(queue) + 1
      BY <1>1, <3>1, LenProperties
    <3> QED BY <3>1, <3>2
  <2>5. \A i \in DOMAIN queue' : queue'[i].program = NoProgram => queue'[i].steps # <<>>
    BY <2>2, <2>4 DEF HistoryInd, HasWork
  <2>6. UNCHANGED program_runs
    BY <1>11 DEF AdmitOccurrence
  <2> QED BY <1>2, <1>3, <1>4, <1>5, <1>6, <2>1, <2>5, <2>6, LoopKeeps
<1>12. CASE InsertMissed
  <2>1. PICK occ \in loop.work :
          /\ loop' = Examined(occ)
          /\ \/ Inserts(Item(loop.program, occ, 0, <<>>), "missed", <<>>)
             \/ InsertFails(Item(loop.program, occ, 0, <<>>), "missed", <<>>)
    BY <1>12 DEF InsertMissed
  <2>2. Item(loop.program, occ, 0, <<>>) \in Items
    BY <1>1 DEF Item, Items, Times
  <2>3. OwnRows' /\ HistoryIsTrue'
    BY <1>2, <2>1, <2>2, RowAdded DEF Statuses
  <2>4. UNCHANGED queue
    BY <1>12 DEF InsertMissed
  <2> QED BY <1>2, <1>3, <1>5, <1>6, <2>1, <2>3, <2>4, LoopKeeps DEF HistoryInd, HasWork
<1> QED BY <1>7, <1>8, <1>9, <1>10, <1>11, <1>12

\* The pump drops what is gone, and starts runs that have steps.
LEMMA PumpHistory == ASSUME TypeInd, HistoryInd, PumpIdle \/ PumpDrops \/ PumpStarts PROVE HistoryInd'
PROOF
<1>1. /\ loop \in Loops /\ queue \in Seq(Items) /\ tasks \in [Slots -> Tasks] /\ orphans_finalized \in BOOLEAN
      /\ UNCHANGED <<program_runs, orphans_finalized>> /\ loop.pc = "pump"
  BY DEF TypeInd, TypeOK, QueueOK, RunsOK, ConfigOK, PumpIdle, PumpDrops, PumpStarts, PumpUnchanged, db, config
<1>2. orphans_finalized
  BY <1>1 DEF HistoryInd, BootOrder
<1>3. TickEnds.pc = "wait" /\ TickEnds.work = loop.work /\ TickEnds.program = loop.program
  BY <1>1 DEF TickEnds, Loops
<1>4. loop' \in {loop, TickEnds}
  BY DEF PumpIdle, PumpDrops, PumpStarts
<1>5. loop'.work = loop.work /\ loop'.program = loop.program /\ loop'.pc \in {"pump", "wait"}
  BY <1>1, <1>3, <1>4
<1>6. \A i \in DOMAIN queue' : queue'[i].program = NoProgram => queue'[i].steps # <<>>
  <2>1. CASE queue' = queue
    BY <2>1 DEF HistoryInd, HasWork
  <2>2. CASE queue # <<>> /\ queue' = Tail(queue)
    <3>1. /\ Len(queue) \in Nat /\ DOMAIN queue = 1 .. Len(queue) /\ Len(queue') = Len(queue) - 1
          /\ \A i \in 1 .. (Len(queue) - 1) : queue'[i] = queue[i + 1]
          /\ queue' \in Seq(Items)
      BY <1>1, <2>2, HeadTailProperties, LenProperties
    <3>2. DOMAIN queue' = 1 .. (Len(queue) - 1)
      BY <3>1, LenProperties
    <3> QED BY <3>1, <3>2 DEF HistoryInd, HasWork
  <2> QED BY <2>1, <2>2 DEF PumpIdle, PumpDrops, PumpStarts
<1>7. CASE UNCHANGED tasks
  <2>1. OwnRows' /\ HistoryIsTrue'
    BY <1>1, <1>7 DEF HistoryInd, OwnRows, HistoryIsTrue, Linked, Rowless
  <2> QED BY <1>1, <1>2, <1>5, <1>6, <1>7, <2>1, LoopKeeps DEF HistoryInd, HasWork
<1>8. CASE PumpStarts
  <2> DEFINE k == RunTask(Head(queue))
  <2>1. PICK t \in Slots : tasks' = [tasks EXCEPT ![t] = k]
    BY <1>8 DEF PumpStarts
  <2>2. k.pc = "new" /\ k.row = None /\ k.outcomes = <<>>
    BY DEF RunTask, IdleTask
  <2>3. k.steps # <<>>
    <3>1. queue # <<>> /\ Runnable(Head(queue)) /\ Head(queue) = queue[1] /\ 1 \in DOMAIN queue
      BY <1>1, <1>8, LenProperties, HeadTailProperties, EmptySeq DEF PumpStarts
    <3>2. Head(queue).program = NoProgram => Head(queue).steps # <<>>
      BY <3>1 DEF HistoryInd, HasWork
    <3>3. Head(queue).program # NoProgram => cache[Head(queue).program].steps # <<>>
      BY <3>1 DEF Runnable, HasSteps
    <3> QED BY <3>2, <3>3 DEF RunTask, IdleTask
  <2> HIDE DEF k
  <2>4. tasks'[t] = k /\ \A s \in Slots \ {t} : tasks'[s] = tasks[s]
    BY <1>1, <2>1
  <2>5. Rowless(k) /\ k.pc \notin OwnerPcs
    BY <2>2 DEF Rowless, OwnerPcs, RunPcs, HandlerPcs
  <2>6. \A s \in Slots : Linked(tasks[s])'
    BY <1>1, <2>4, <2>5 DEF HistoryInd, OwnRows, Linked, Rowless
  <2>7. OwnRows'
    BY <2>2, <2>4, <2>6 DEF HistoryInd, OwnRows
  <2>8. HasWork'
    BY <1>5, <1>6, <2>3, <2>4 DEF HistoryInd, HasWork
  <2>9. BootOrder' /\ HistoryIsTrue'
    BY <1>1, <1>2, <1>5 DEF HistoryInd, BootOrder, HistoryIsTrue
  <2> QED BY <2>7, <2>8, <2>9 DEF HistoryInd
<1> QED BY <1>7, <1>8 DEF PumpIdle, PumpDrops

\* A process that starts again has no run, no queue and no loop at work.
LEMMA RestartHistory == ASSUME TypeInd, HistoryInd, Restart PROVE HistoryInd'
PROOF
<1>1. /\ queue' = <<>> /\ orphans_finalized' = FALSE /\ loop' = IdleLoop /\ tasks' = [t \in Slots |-> IdleTask]
      /\ UNCHANGED program_runs
  BY DEF Restart, db
<1>2. /\ IdleTask.pc = "idle" /\ IdleTask.row = None /\ IdleTask.outcomes = <<>>
      /\ IdleLoop.pc = "wait" /\ IdleLoop.work = {}
  BY DEF IdleTask, IdleLoop
<1>3. \A t \in Slots : tasks'[t] = IdleTask
  BY <1>1
<1>4. OwnRows'
  BY <1>2, <1>3 DEF OwnRows, Linked, Rowless, OwnerPcs, RunPcs, HandlerPcs
<1>5. HasWork' /\ BootOrder'
  BY <1>1, <1>2, <1>3 DEF HasWork, BootOrder
<1>6. HistoryIsTrue'
  BY <1>1 DEF HistoryInd, HistoryIsTrue
<1> QED BY <1>4, <1>5, <1>6 DEF HistoryInd

\* A row goes on fitting its task when neither has changed in what they share; the
\* row may lose its program's id.
LEMMA FitsAlike ==
  ASSUME NEW k, NEW n, NEW old, NEW new, Fits(k, old),
         n.pc = k.pc, n.item = k.item, n.steps = k.steps, n.outcomes = k.outcomes, n.status = k.status,
         new.program \in {old.program, NoProgram}, new.at = old.at, new.req = old.req,
         new.status = old.status, new.steps = old.steps
  PROVE  Fits(n, new)
PROOF
<1>1. SameRun(n, new)
  BY DEF Fits, SameRun
<1>2. SameMarks(n, new)
  BY DEF Fits, SameMarks, Position
<1>3. SameStage(n, new)
  BY DEF Fits, SameStage, Position
<1> QED BY <1>1, <1>2, <1>3 DEF Fits

\* A cancellation asked for, a queue cleared and a command change no row's truth.
LEMMA CallHistory == ASSUME TypeInd, HistoryInd, NEW c \in Calls, CallStep(c) PROVE HistoryInd'
PROOF
<1>1. loop \in Loops /\ tasks \in [Slots -> Tasks] /\ queue \in Seq(Items) /\ calls \in [Calls -> CallRecords]
  BY DEF TypeInd, TypeOK, QueueOK, RunsOK, CallsOK
<1>2. CASE CancelActive(c)
  <2>1. /\ tasks' = [tasks EXCEPT ![run_task].cancel = TRUE]
        /\ UNCHANGED <<program_runs, queue, loop, orphans_finalized>>
    BY <1>2 DEF CancelActive, CallUnchanged, config
  <2>2. \A t \in Slots :
          /\ tasks'[t].pc = tasks[t].pc /\ tasks'[t].row = tasks[t].row /\ tasks'[t].item = tasks[t].item
          /\ tasks'[t].steps = tasks[t].steps /\ tasks'[t].outcomes = tasks[t].outcomes
          /\ tasks'[t].status = tasks[t].status
    BY <1>1, <2>1 DEF Tasks
  <2>3. ASSUME NEW t \in Slots PROVE Linked(tasks[t])'
    <3>1. Linked(tasks[t])
      BY DEF HistoryInd, OwnRows
    <3>2. CASE tasks[t].pc \in OwnerPcs
      <4>1. /\ Fits(tasks[t], program_runs[tasks[t].row])
            /\ program_runs'[tasks'[t].row] = program_runs[tasks[t].row]
        BY <2>1, <2>2, <3>1, <3>2 DEF Linked
      <4>2. Fits(tasks'[t], program_runs'[tasks'[t].row])
        BY <2>2, <4>1, FitsAlike
      <4> QED BY <2>1, <2>2, <3>1, <3>2, <4>2 DEF Linked
    <3>3. CASE tasks[t].pc \notin OwnerPcs
      BY <2>2, <3>1, <3>3 DEF Linked, Rowless
    <3> QED BY <3>2, <3>3
  <2>4. OwnRows'
    BY <2>2, <2>3 DEF HistoryInd, OwnRows
  <2>5. HasWork' /\ BootOrder'
    BY <2>1, <2>2 DEF HistoryInd, HasWork, BootOrder
  <2>6. HistoryIsTrue'
    BY <2>1 DEF HistoryInd, HistoryIsTrue
  <2> QED BY <2>4, <2>5, <2>6 DEF HistoryInd
<1>3. CASE StopClears(c) \/ ManualHolds(c) \/ Command(c)
  <2>1. UNCHANGED <<tasks, program_runs, loop, orphans_finalized>> /\ (queue' = queue \/ queue' = <<>>)
    BY <1>3 DEF StopClears, ManualHolds, Command, CallUnchanged, config
  <2>2. HasWork'
    BY <2>1 DEF HistoryInd, HasWork
  <2> QED BY <2>1, <2>2 DEF HistoryInd, OwnRows, BootOrder, HistoryIsTrue, Linked, Rowless
<1>4. CASE ItemCleared(c)
  <2>1. /\ UNCHANGED <<tasks, queue, loop, orphans_finalized>> /\ calls[c].pc = "clearing"
        /\ \/ Inserts(Head(calls[c].items), "cancelled", <<>>)
           \/ InsertFails(Head(calls[c].items), "cancelled", <<>>)
    BY <1>4 DEF ItemCleared, CallUnchanged, config
  <2>2. Head(calls[c].items) \in Items
    <3>1. calls[c].items \in Seq(Items) /\ calls[c].items # <<>>
      BY <1>1, <2>1 DEF TypeInd, CallShape, CallRecords
    <3> QED BY <3>1, HeadTailProperties
  <2>3. OwnRows' /\ HistoryIsTrue'
    BY <2>1, <2>2, RowAdded DEF Statuses
  <2>4. HasWork' /\ BootOrder'
    BY <2>1 DEF HistoryInd, HasWork, BootOrder
  <2> QED BY <2>3, <2>4 DEF HistoryInd
<1>5. CASE ShutdownBegins(c)
  <2>1. loop'.pc = "stopped" /\ loop'.work = {} /\ UNCHANGED <<tasks, queue, program_runs, orphans_finalized>>
    BY <1>5 DEF ShutdownBegins, IdleLoop, config, db
  <2> QED BY <2>1 DEF HistoryInd, OwnRows, HasWork, BootOrder, HistoryIsTrue, Linked, Rowless
<1>6. CASE ShutdownEnds(c)
  BY <1>6, RestartHistory DEF ShutdownEnds
<1> QED BY <1>2, <1>3, <1>4, <1>5, <1>6 DEF CallStep

\* The web app takes a program's id off its rows, no more.
LEMMA WebHistory == ASSUME TypeInd, HistoryInd, WebStep \/ ClockTick \/ Notify PROVE HistoryInd'
PROOF
<1>1. UNCHANGED <<tasks, queue, loop, orphans_finalized>>
  BY DEF WebStep, ClockTick, Notify, SaveProgram, ToggleProgram, DeleteProgram, ToggleZone, RunNow, QuickRun,
         Request, Edit, WebUnchanged, config
<1>2. program_runs \in Seq(Rows)
  BY DEF TypeInd, TypeOK, RunsOK
<1>3. \/ UNCHANGED program_runs
      \/ \E p \in Programs : program_runs' =
           [r \in DOMAIN program_runs |->
              IF program_runs[r].program = p THEN [program_runs[r] EXCEPT !.program = NoProgram] ELSE program_runs[r]]
  BY DEF WebStep, ClockTick, Notify, SaveProgram, ToggleProgram, DeleteProgram, ToggleZone, RunNow, QuickRun,
         Request, db
<1>4. /\ DOMAIN program_runs' = DOMAIN program_runs
      /\ \A r \in DOMAIN program_runs :
           /\ program_runs'[r].program \in {program_runs[r].program, NoProgram}
           /\ program_runs'[r].at = program_runs[r].at /\ program_runs'[r].req = program_runs[r].req
           /\ program_runs'[r].status = program_runs[r].status /\ program_runs'[r].steps = program_runs[r].steps
  <2>1. \A r \in DOMAIN program_runs : program_runs[r] \in Rows
    BY <1>2, LenProperties, ElementOfSeq
  <2> QED BY <1>3, <2>1 DEF Rows
<1>5. OwnRows'
  <2>1. ASSUME NEW t \in Slots PROVE Linked(tasks[t])'
    <3>1. Linked(tasks[t]) /\ UNCHANGED tasks
      BY <1>1 DEF HistoryInd, OwnRows
    <3>2. CASE tasks[t].pc \in OwnerPcs
      BY <1>4, <3>1, <3>2, FitsAlike DEF Linked
    <3>3. CASE tasks[t].pc \notin OwnerPcs
      BY <3>1, <3>3 DEF Linked, Rowless
    <3> QED BY <3>2, <3>3
  <2> QED BY <1>1, <2>1 DEF HistoryInd, OwnRows
<1>6. HistoryIsTrue'
  BY <1>4 DEF HistoryInd, HistoryIsTrue, TrueRow
<1> QED BY <1>1, <1>5, <1>6 DEF HistoryInd, HasWork, BootOrder

\* The history starts empty.
LEMMA InitHistory == Init => HistoryInd
PROOF
<1> SUFFICES ASSUME Init PROVE HistoryInd
  OBVIOUS
<1>1. /\ queue = <<>> /\ orphans_finalized = FALSE /\ loop = IdleLoop /\ program_runs = <<>>
      /\ \A t \in Slots : tasks[t] = IdleTask
  BY DEF Init
<1>2. /\ IdleTask.pc = "idle" /\ IdleTask.row = None /\ IdleTask.outcomes = <<>>
      /\ IdleLoop.pc = "wait" /\ IdleLoop.work = {}
  BY DEF IdleTask, IdleLoop
<1>3. OwnRows
  BY <1>1, <1>2 DEF OwnRows, Linked, Rowless, OwnerPcs, RunPcs, HandlerPcs
<1> QED BY <1>1, <1>2, <1>3 DEF HistoryInd, HasWork, BootOrder, HistoryIsTrue

\* HistoryInd is inductive.
LEMMA NextHistory == TypeInd /\ HistoryInd /\ [Next]_vars => HistoryInd'
PROOF
<1> SUFFICES ASSUME TypeInd, HistoryInd, [Next]_vars PROVE HistoryInd'
  OBVIOUS
<1>1. CASE UNCHANGED vars
  BY <1>1 DEF vars, db, HistoryInd, OwnRows, HasWork, BootOrder, HistoryIsTrue, Linked, Rowless
<1>2. CASE WebStep \/ ClockTick \/ Notify
  BY <1>2, WebHistory
<1>3. CASE LoopStep
  BY <1>3, TickHistory, FinalizeHistory, AdmitHistory, EvaluateHistory, PumpHistory DEF LoopStep
<1>4. CASE Crash
  BY <1>4, RestartHistory DEF Crash
<1>5. ASSUME NEW t \in Slots, RunTaskStep(t) PROVE HistoryInd'
  BY <1>5, RunTaskStepHistory
<1>6. ASSUME NEW c \in Calls, CallStep(c) PROVE HistoryInd'
  BY <1>6, CallHistory
<1> QED BY <1>1, <1>2, <1>3, <1>4, <1>5, <1>6 DEF Next

\* What the invariants together give at every step of every behaviour.
LEMMA HistoryInvariant == Spec => [](TypeInd /\ QueueInd /\ HistoryInd)
  BY InitTypes, InitQueue, InitHistory, NextTypes, NextHistory, PTL DEF Spec

\* The history tells what happened, for any programs, requests, calls, faults,
\* cancellations and crashes: a completed run has no failed or unfinished step, a
\* cancelled one none still in progress, and steps go in order (_execute,
\* _run_steps, _summarize, finalize_orphans).
THEOREM HistoryTrue == Spec => []HistoryIsTrue
PROOF
<1>1. HistoryInd => HistoryIsTrue
  BY DEF HistoryInd
<1> QED BY HistoryInvariant, <1>1, PTL

\* "Never water without history" (scheduler.py): whatever fails, is cancelled or
\* restarts, a run that waters owns a running row of its own item, and no other
\* run writes to it (insert_running before the step loop of _execute).
THEOREM WaterNeedsHistory == Spec => []NeverWaterWithoutHistory
PROOF
<1>1. TypeInd /\ HistoryInd => NeverWaterWithoutHistory
  <2> SUFFICES ASSUME TypeInd, HistoryInd, NEW t \in Slots, tasks[t].pc \in WaterPcs
               PROVE  /\ tasks[t].row \in DOMAIN program_runs
                      /\ program_runs[tasks[t].row].status = "running"
                      /\ program_runs[tasks[t].row].req = tasks[t].item.req
                      /\ program_runs[tasks[t].row].at = tasks[t].item.at
                      /\ \A s \in Slots \ {t} : tasks[s].row # tasks[t].row
    BY DEF NeverWaterWithoutHistory
  <2>1. tasks[t].pc \in OwnerPcs /\ tasks[t].pc \in RunPcs
    BY DEF WaterPcs, OwnerPcs, RunPcs, HandlerPcs
  <2>2. tasks[t].row \in DOMAIN program_runs /\ Fits(tasks[t], program_runs[tasks[t].row])
    BY <2>1 DEF HistoryInd, OwnRows, Linked
  <2>3. tasks[t].row # None
    BY <2>2, LenProperties DEF None, TypeInd, TypeOK, RunsOK
  <2> QED BY <2>1, <2>2, <2>3 DEF HistoryInd, OwnRows, Fits, SameRun, SameStage
<1> QED BY HistoryInvariant, <1>1, PTL

=============================================================================
