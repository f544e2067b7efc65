------------------------ MODULE SchedulerLedgerProofs ------------------------
(***************************************************************************)
(* An occurrence waters once, whatever fails, is cancelled or restarts,    *)
(* when a run is set up before the loop ticks again: what is queued or     *)
(* running was never begun before, and what was begun is known.  From that *)
(* the scheduler implements RunLedger: every step of the engine is a step  *)
(* of the ledger its history is, or changes nothing of it.                 *)
(***************************************************************************)
EXTENDS SchedulerRestartProofs

-----------------------------------------------------------------------------
(* What a step of a run writes.                                            *)

\* Nothing, the row's UPDATE, a row of its own, or the mark that it waters.
RunWrites(t) ==
  \/ UNCHANGED program_runs
  \/ tasks[t].pc \in DOMAIN StepMark \cup FinishPcs /\ program_runs' = Updated(tasks[t])
  \/ /\ tasks[t].pc \in {"insert_running", "record_skip", "cancel_record"}
     /\ program_runs' = Append(program_runs, NewRow(tasks[t].item, RowStatus(tasks[t]), RowSteps(tasks[t])))
  \/ tasks[t].pc = "start" /\ program_runs' = [program_runs EXCEPT ![tasks[t].row].watered = TRUE]

\* Every step writes one of these.
LEMMA RunStepWrites ==
  ASSUME TypeInd, HistoryInd, NEW t \in Slots, RunTaskStep(t) PROVE RunWrites(t)
PROOF
<1> DEFINE k == tasks[t]
<1>1. \A status, steps : Inserts(k.item, status, steps) \/ InsertFails(k.item, status, steps) =>
        UNCHANGED program_runs \/ program_runs' = Append(program_runs, NewRow(k.item, status, steps))
  BY DEF Inserts, InsertFails
<1>2. k.pc = "cancel_record" => k.status = "cancelled"
  BY DEF HistoryInd, OwnRows, Linked, Rowless, OwnerPcs
<1>3. CASE \/ RunBegins(t) \/ RainDelayRead(t) \/ WeatherDecided(t) \/ ZonesFetched(t) \/ StepZonesFetched(t)
           \/ StartFails(t) \/ StartReplies(t) \/ StartRepliesUntracked(t) \/ StepSlept(t) \/ RunStops(t)
           \/ CancelUnstarted(t)
  BY <1>3 DEF RunBegins, RainDelayRead, WeatherDecided, ZonesFetched, StepZonesFetched, StartFails, StartReplies,
     StartRepliesUntracked, StepSlept, RunStops, CancelUnstarted, RunWrites
<1>4. CASE StepStarted(t) \/ StepEnds(t) \/ RunFinished(t) \/ InFlightCancelled(t)
  BY <1>4 DEF StepStarted, StepEnds, RunFinished, InFlightCancelled, At, RunWrites, StepMark, FinishPcs
<1>5. CASE program_runs' \in Abandoned(k)
  BY <1>5 DEF Abandoned, RunWrites
<1>6. CASE RunCrashes(t) \/ CancelSetup(t) \/ CancelRun(t) \/ CancelHandler(t)
  BY <1>5, <1>6 DEF RunCrashes, CancelSetup, CancelRun, CancelHandler
<1>7. CASE ZoneStarts(t)
  BY <1>7 DEF ZoneStarts, At, RunWrites
<1>8. CASE TerminalRecorded(t)
  <2>1. k.pc \in {"record_skip", "cancel_record"} /\ Inserts(k.item, k.status, <<>>)
    BY <1>8 DEF TerminalRecorded, At
  <2>2. k.status = RowStatus(k) /\ <<>> = RowSteps(k)
    BY <2>1 DEF RowStatus, RowSteps
  <2> QED BY <1>1, <2>1, <2>2 DEF RunWrites
<1>9. CASE RunInserted(t)
  <2>1. k.pc = "insert_running" /\ Inserts(k.item, "running", RowSteps(k))
    BY <1>9 DEF RunInserted, At
  <2>2. RowStatus(k) = "running"
    BY <2>1 DEF RowStatus
  <2> QED BY <1>1, <2>1, <2>2 DEF RunWrites
<1>10. CASE SetupFails(t)
  <2>1. \/ UNCHANGED program_runs
        \/ k.pc \in {"record_skip", "insert_running"} /\ InsertFails(k.item, RowStatus(k), RowSteps(k))
    BY <1>10 DEF SetupFails, At
  <2> QED BY <1>1, <2>1 DEF RunWrites
<1>11. CASE HandlerFails(t)
  <2>1. \/ program_runs' \in Abandoned(k)
        \/ k.pc = "cancel_record" /\ InsertFails(k.item, "cancelled", <<>>)
    BY <1>11 DEF HandlerFails, At
  <2>2. k.pc = "cancel_record" => RowStatus(k) = "cancelled" /\ RowSteps(k) = <<>>
    BY <1>2 DEF RowStatus, RowSteps
  <2> QED BY <1>1, <1>5, <2>1, <2>2 DEF RunWrites
<1> QED BY <1>3, <1>4, <1>6, <1>7, <1>8, <1>9, <1>10, <1>11 DEF RunTaskStep

-----------------------------------------------------------------------------
(* Rows whose run reached a step.                                          *)

\* No row is touched that was not: what a step does that is not a run's.
Untouching ==
  \A r \in DOMAIN program_runs' : Touched(program_runs'[r]) =>
    /\ r \in DOMAIN program_runs /\ Touched(program_runs[r])
    /\ KeyOf(program_runs'[r]) = KeyOf(program_runs[r])

\* A row whose steps are all ahead.
LEMMA NewRowUntouched ==
  ASSUME NEW item, NEW status, NEW steps, \A i \in DOMAIN steps : steps[i] = "pending"
  PROVE  ~Touched(NewRow(item, status, steps))
  BY DEF Touched, NewRow

\* An INSERT without steps, whether it fails or not.
LEMMA InsertUntouching ==
  ASSUME TypeInd, NEW item \in Items, NEW status \in Statuses,
         Inserts(item, status, <<>>) \/ InsertFails(item, status, <<>>)
  PROVE  Untouching
PROOF
<1>1. CASE UNCHANGED program_runs
  BY <1>1 DEF Untouching
<1>2. CASE program_runs' = Append(program_runs, NewRow(item, status, <<>>))
  <2>1. ~Touched(NewRow(item, status, <<>>))
    BY NewRowUntouched
  <2>2. <<>> \in Seq(Marks)
    OBVIOUS
  <2>3. /\ DOMAIN program_runs = 1 .. Len(program_runs) /\ DOMAIN program_runs' = 1 .. Len(program_runs) + 1
        /\ Len(program_runs) \in Nat
        /\ \A r \in DOMAIN program_runs : program_runs'[r] = program_runs[r]
        /\ program_runs'[Len(program_runs) + 1] = NewRow(item, status, <<>>)
    BY <1>2, <2>2, AppendedRow
  <2>4. \A r \in DOMAIN program_runs' : r \in DOMAIN program_runs \/ r = Len(program_runs) + 1
    BY <2>3
  <2> QED BY <2>1, <2>3, <2>4 DEF Untouching
<1> QED BY <1>1, <1>2 DEF Inserts, InsertFails

\* Orphans finalized, and a program deleted.
LEMMA RewriteUntouching ==
  ASSUME TypeInd, FinalizeOrphans \/ FinalizeFails \/ WebStep \/ ClockTick \/ Notify PROVE Untouching
PROOF
<1>1. \A r \in DOMAIN program_runs : program_runs[r] \in Rows
  BY LenProperties, ElementOfSeq DEF TypeInd, TypeOK, RunsOK
<1>2. \/ UNCHANGED program_runs
      \/ program_runs' = [r \in DOMAIN program_runs |-> Finalized(program_runs[r])]
      \/ \E p \in Programs : program_runs' =
           [r \in DOMAIN program_runs |->
              IF program_runs[r].program = p THEN [program_runs[r] EXCEPT !.program = NoProgram] ELSE program_runs[r]]
  BY DEF FinalizeOrphans, FinalizeFails, WebStep, ClockTick, Notify, SaveProgram, ToggleProgram, DeleteProgram,
         ToggleZone, RunNow, QuickRun, Request, db
<1>3. CASE program_runs' = [r \in DOMAIN program_runs |-> Finalized(program_runs[r])]
  <2> SUFFICES ASSUME NEW r \in DOMAIN program_runs, Touched(Finalized(program_runs[r]))
               PROVE  Touched(program_runs[r]) /\ KeyOf(Finalized(program_runs[r])) = KeyOf(program_runs[r])
    BY <1>3 DEF Untouching
  <2> DEFINE row == program_runs[r]
             new == Finalized(row)
  <2>1. row \in Rows
    BY <1>1
  <2>2. /\ new.program = row.program /\ new.at = row.at /\ new.watered = row.watered
        /\ DOMAIN new.steps = DOMAIN row.steps
        /\ \A i \in DOMAIN row.steps : new.steps[i] # "pending" => row.steps[i] # "pending"
    BY <2>1 DEF Finalized, Rows
  <2>3. Touched(new)
    OBVIOUS
  <2> HIDE DEF new
  <2>4. Touched(row) /\ KeyOf(new) = KeyOf(row)
    BY <2>2, <2>3 DEF Touched, Keyed, KeyOf
  <2> QED BY <2>4 DEF new
<1>4. ASSUME NEW p \in Programs,
             program_runs' = [r \in DOMAIN program_runs |->
               IF program_runs[r].program = p THEN [program_runs[r] EXCEPT !.program = NoProgram] ELSE program_runs[r]]
      PROVE  Untouching
  <2>1. \A r \in DOMAIN program_runs : [program_runs[r] EXCEPT !.program = NoProgram].program = NoProgram
    BY <1>1 DEF Rows
  <2> QED BY <1>4, <2>1 DEF Untouching, Touched, Keyed
<1> QED BY <1>2, <1>3, <1>4 DEF Untouching

\* A run touches its own row, for its own occurrence, once it has one.
RunTouches(t) ==
  \A r \in DOMAIN program_runs' : Touched(program_runs'[r]) =>
    /\ r \in DOMAIN program_runs /\ KeyOf(program_runs'[r]) = KeyOf(program_runs[r])
    /\ \/ Touched(program_runs[r])
       \/ /\ r = tasks[t].row /\ tasks[t].pc \in OwnerPcs /\ Busy(t)
          /\ KeyOf(program_runs[r]) = Key(tasks[t].item)

\* The steps of a run.
LEMMA RunStepTouches ==
  ASSUME TypeInd, HistoryInd, NEW t \in Slots, RunTaskStep(t) PROVE RunTouches(t)
PROOF
<1> DEFINE k == tasks[t]
<1>1. k \in Tasks /\ TaskShape(k) /\ k.item \in Items /\ Linked(k)
  BY DEF TypeInd, TypeOK, RunsOK, Tasks, HistoryInd, OwnRows
<1>2. /\ None \notin DOMAIN program_runs
      /\ \A r \in DOMAIN program_runs : program_runs[r] \in Rows
  BY LenProperties, ElementOfSeq DEF None, TypeInd, TypeOK, RunsOK
<1>3. ASSUME NEW r \in DOMAIN program_runs, r = k.row, Keyed(program_runs[r])
      PROVE  k.pc \in OwnerPcs /\ Busy(t) /\ KeyOf(program_runs[r]) = Key(k.item)
  <2>1. k.pc \in OwnerPcs /\ SameRun(k, program_runs[r])
    BY <1>1, <1>2, <1>3 DEF Linked, Rowless, Fits
  <2>2. k.pc # "idle"
    BY <2>1 DEF OwnerPcs, RunPcs, HandlerPcs
  <2> QED BY <1>3, <2>1, <2>2 DEF Busy, Scheduled, SameRun, Keyed, KeyOf, Key
<1>4. OthersKept(t)
  BY RunTaskStepOK DEF RunStepOK
<1>5. RowsFrom(k.item)
  BY RunRows
<1>6. \A r \in DOMAIN program_runs' : r \notin DOMAIN program_runs => ~Touched(program_runs'[r])
  <2>1. RunWrites(t)
    BY RunStepWrites
  <2>2. CASE k.pc \in DOMAIN StepMark \cup FinishPcs /\ program_runs' = Updated(k)
    BY <2>2 DEF Updated
  <2>3. CASE /\ k.pc \in {"insert_running", "record_skip", "cancel_record"}
             /\ program_runs' = Append(program_runs, NewRow(k.item, RowStatus(k), RowSteps(k)))
    <3>1. RowStatus(k) \in Statuses /\ RowSteps(k) \in Seq(Marks)
      BY <1>1, <2>3, RowOfTask
    <3>2. \A i \in DOMAIN RowSteps(k) : RowSteps(k)[i] = "pending"
      BY DEF RowSteps
    <3>3. ~Touched(NewRow(k.item, RowStatus(k), RowSteps(k)))
      BY <3>2, NewRowUntouched
    <3>4. /\ DOMAIN program_runs = 1 .. Len(program_runs) /\ DOMAIN program_runs' = 1 .. Len(program_runs) + 1
          /\ Len(program_runs) \in Nat
          /\ program_runs'[Len(program_runs) + 1] = NewRow(k.item, RowStatus(k), RowSteps(k))
      BY <1>1, <2>3, <3>1, AppendedRow
    <3>5. \A r \in DOMAIN program_runs' : r \in DOMAIN program_runs \/ r = Len(program_runs) + 1
      BY <3>4
    <3> QED BY <3>3, <3>4, <3>5
  <2> QED BY <2>1, <2>2, <2>3 DEF RunWrites
<1> SUFFICES ASSUME NEW r \in DOMAIN program_runs', Touched(program_runs'[r])
             PROVE  /\ r \in DOMAIN program_runs /\ KeyOf(program_runs'[r]) = KeyOf(program_runs[r])
                    /\ \/ Touched(program_runs[r])
                       \/ /\ r = k.row /\ k.pc \in OwnerPcs /\ Busy(t)
                          /\ KeyOf(program_runs[r]) = Key(k.item)
  BY DEF RunTouches
<1>7. r \in DOMAIN program_runs
  BY <1>6
<1>8. Keyed(program_runs[r]) /\ KeyOf(program_runs'[r]) = KeyOf(program_runs[r])
  BY <1>5, <1>7 DEF RowsFrom, Touched, Keyed, KeyOf
<1>9. CASE r # k.row
  BY <1>4, <1>7, <1>8, <1>9 DEF OthersKept
<1>10. CASE r = k.row
  BY <1>3, <1>7, <1>8, <1>10
<1> QED BY <1>9, <1>10

-----------------------------------------------------------------------------
(* The invariant, step by step.                                            *)

\* The key of an occurrence that runs is of the types memory is about.
LEMMA BusyKey ==
  ASSUME TypeInd, NEW t \in Slots, Busy(t)
  PROVE  \E p \in Programs \cup {NoProgram}, at \in Nat : Key(tasks[t].item) = <<p, at>>
PROOF
<1>1. tasks[t].item \in Items
  BY DEF TypeInd, TypeOK, RunsOK, Tasks
<1> QED BY <1>1 DEF Busy, Scheduled, Items, Times, Key

\* The runs stay as they are, but for those that are cancelled or gone.
RunsStay ==
  \A t \in Slots : tasks'[t].pc # "idle" =>
    /\ tasks'[t].pc = tasks[t].pc /\ tasks'[t].item = tasks[t].item /\ tasks'[t].row = tasks[t].row

\* Items only leave the queue.
QueueShrinks == \A i \in DOMAIN queue' : \E j \in DOMAIN queue : queue'[i] = queue[j]

\* Memory covers the occurrences that were begun, after the step.
BegunKnown ==
  Loaded' => \A p \in Programs, at \in Nat, r \in DOMAIN program_runs :
    Touched(program_runs[r]) /\ KeyOf(program_runs[r]) = <<p, at>> => Known(<<p, at>>)'

\* A step that touches no row, starts no run and forgets nothing: what was
\* reached is known, and an occurrence's run stays alone with it.
LEMMA OnceStays ==
  ASSUME TypeInd, OnceInd, Untouching, RunsStay, SetUpPromptly', Remembers, BegunKnown
  PROVE  SetUpPromptly' /\ TouchedKnown' /\ RunsOnce' /\ TouchedOnce'
PROOF
<1>1. \A t \in Slots : Busy(t)' => Busy(t) /\ tasks'[t].item = tasks[t].item /\ tasks'[t].row = tasks[t].row
  BY DEF RunsStay, Busy, Scheduled
<1>2. TouchedKnown'
  <2>1. ASSUME Loaded', NEW r \in DOMAIN program_runs', Touched(program_runs'[r]) PROVE Known(KeyOf(program_runs[r]))'
    <3>1. /\ r \in DOMAIN program_runs /\ Touched(program_runs[r])
          /\ KeyOf(program_runs'[r]) = KeyOf(program_runs[r])
      BY <2>1 DEF Untouching
    <3>2. PICK p \in Programs, at \in Nat : KeyOf(program_runs[r]) = <<p, at>>
      BY <3>1, KeyTypes DEF KeyOf, Touched
    <3>3. Known(<<p, at>>)'
      BY <2>1, <3>1, <3>2 DEF BegunKnown
    <3>4. KeyOf(program_runs[r])' = <<p, at>>
      BY <3>1, <3>2 DEF KeyOf
    <3> QED BY <3>3, <3>4 DEF Known
  <2>2. ASSUME NEW t \in Slots, Busy(t)', tasks'[t].pc \in OwnerPcs PROVE Known(Key(tasks[t].item))'
    <3>1. Busy(t) /\ tasks[t].pc \in OwnerPcs /\ tasks'[t].item = tasks[t].item
      BY <1>1, <2>2 DEF RunsStay, Busy
    <3>2. PICK p \in Programs \cup {NoProgram}, at \in Nat : Key(tasks[t].item) = <<p, at>>
      BY <3>1, BusyKey
    <3>3. Known(<<p, at>>)
      BY <3>1, <3>2 DEF OnceInd, TouchedKnown
    <3>4. Known(<<p, at>>)' /\ Key(tasks'[t].item) = <<p, at>>
      BY <3>1, <3>2, <3>3 DEF Remembers
    <3> QED BY <3>4 DEF Known, Key
  <2> QED BY <2>1, <2>2 DEF TouchedKnown, Touched, Keyed, KeyOf
<1>3. RunsOnce'
  <2>1. ASSUME NEW t \in Slots, NEW s \in Slots \ {t}, Busy(t)', Busy(s)'
        PROVE  Key(tasks'[s].item) # Key(tasks'[t].item)
    BY <1>1, <2>1 DEF OnceInd, RunsOnce
  <2>2. ASSUME NEW t \in Slots, Busy(t)', NEW r \in DOMAIN program_runs' \ {tasks'[t].row}, Touched(program_runs'[r])
        PROVE  KeyOf(program_runs'[r]) # Key(tasks'[t].item)
    BY <1>1, <2>2 DEF OnceInd, RunsOnce, Untouching
  <2> QED BY <2>1, <2>2 DEF RunsOnce, Key, KeyOf, Touched, Keyed
<1>4. TouchedOnce'
  <2>1. ASSUME NEW r \in DOMAIN program_runs', NEW s \in DOMAIN program_runs',
               Touched(program_runs'[r]), Touched(program_runs'[s]), r # s
        PROVE  KeyOf(program_runs'[r]) # KeyOf(program_runs'[s])
    BY <2>1 DEF OnceInd, TouchedOnce, Untouching
  <2> QED BY <2>1 DEF TouchedOnce, Touched, Keyed, KeyOf
<1> QED BY <1>2, <1>3, <1>4

\* Nor does it begin what is queued, if nothing joins the queue.
LEMMA QueueStays ==
  ASSUME OnceInd, Untouching, RunsStay, QueueShrinks PROVE QueuedOnce'
PROOF
<1>1. \A t \in Slots : Busy(t)' => Busy(t) /\ tasks'[t].item = tasks[t].item
  BY DEF RunsStay, Busy, Scheduled
<1>2. ASSUME NEW i \in DOMAIN queue', Scheduled(queue'[i])
      PROVE  /\ \A r \in DOMAIN program_runs' : Touched(program_runs'[r]) => KeyOf(program_runs'[r]) # Key(queue'[i])
             /\ \A t \in Slots : Busy(t)' => Key(tasks'[t].item) # Key(queue'[i])
  <2>1. PICK j \in DOMAIN queue : queue'[i] = queue[j]
    BY DEF QueueShrinks
  <2>2. Scheduled(queue[j])
    BY <1>2, <2>1
  <2>3. /\ \A r \in DOMAIN program_runs : Touched(program_runs[r]) => KeyOf(program_runs[r]) # Key(queue[j])
        /\ \A t \in Slots : Busy(t) => Key(tasks[t].item) # Key(queue[j])
    BY <2>2 DEF OnceInd, QueuedOnce
  <2> QED BY <1>1, <2>1, <2>3 DEF Untouching
<1> QED BY <1>2 DEF QueuedOnce, Scheduled, Touched, Keyed, KeyOf, Key

\* A step of the rest of the executor or of the web app.
LEMMA OnceKept ==
  ASSUME TypeInd, OnceInd, WindowOK, Untouching, RunsStay, QueueShrinks, SetUpPromptly' PROVE OnceInd'
PROOF
<1>1. BegunKnown
  <2> SUFFICES ASSUME Loaded', NEW p \in Programs, NEW at \in Nat, NEW r \in DOMAIN program_runs,
                      Touched(program_runs[r]), KeyOf(program_runs[r]) = <<p, at>>
               PROVE  Known(<<p, at>>)'
    BY DEF BegunKnown
  <2>1. Known(<<p, at>>)
    BY DEF WindowOK, OnceInd, TouchedKnown
  <2> QED BY <2>1 DEF WindowOK, Remembers
<1> QED BY <1>1, OnceStays, QueueStays DEF WindowOK, OnceInd

\* No run is being set up while the loop is at its tick.
LEMMA NoneBeingSetUp ==
  ASSUME OnceInd, loop.pc \notin {"wait", "stopped"} PROVE \A t \in Slots : tasks[t].pc \notin SetupPcs
  BY DEF OnceInd, SetUpPromptly

\* The tick, its orphans and its refresh, but for the reading of the fired-set.
LEMMA TickOnce ==
  ASSUME PromptSetup, TypeInd, TypeInd', RestartInd, OnceInd,
         \/ TickBegins \/ FinalizeOrphans \/ FinalizeFails \/ FetchPrograms \/ FetchSteps \/ ClaimRequests \/ RefreshFails
         \/ RefreshDone
  PROVE  OnceInd'
PROOF
<1>1. UNCHANGED <<tasks, queue>>
  BY DEF TickBegins, FinalizeOrphans, FinalizeFails, FetchPrograms, FetchSteps, ClaimRequests, RefreshFails,
         RefreshDone, LoopUnchanged
<1>2. WindowOK
  BY TickWindow, RefreshedWindow DEF RestartInd
<1>3. Untouching
  <2>1. CASE FinalizeOrphans \/ FinalizeFails
    BY <2>1, RewriteUntouching
  <2>2. CASE TickBegins \/ FetchPrograms \/ FetchSteps \/ ClaimRequests \/ RefreshFails \/ RefreshDone
    <3>1. UNCHANGED program_runs
      BY <2>2 DEF TickBegins, FetchPrograms, FetchSteps, ClaimRequests, RefreshFails, RefreshDone
    <3> QED BY <3>1 DEF Untouching
  <2> QED BY <2>1, <2>2
<1>4. \A t \in Slots : tasks[t].pc \notin SetupPcs
  <2>1. CASE TickBegins
    BY <2>1 DEF TickBegins
  <2>2. CASE ~TickBegins
    <3>1. loop.pc \notin {"wait", "stopped"}
      BY <2>2 DEF FinalizeOrphans, FinalizeFails, FetchPrograms, FetchSteps, ClaimRequests, RefreshFails,
         RefreshDone, Awaits
    <3> QED BY <3>1, NoneBeingSetUp
  <2> QED BY <2>1, <2>2
<1>5. SetUpPromptly' /\ RunsStay /\ QueueShrinks
  BY <1>1, <1>4 DEF SetUpPromptly, RunsStay, QueueShrinks
<1> QED BY <1>2, <1>3, <1>5, OnceKept

\* The fired-set read again: it covers the history.
LEMMA ReadOnce == ASSUME TypeInd, RestartInd, OnceInd, ReadRunKeys PROVE OnceInd'
PROOF
<1>1. UNCHANGED <<tasks, queue, program_runs>> /\ loop.pc = "run_keys"
  BY DEF ReadRunKeys, LoopUnchanged, Awaits
<1>2. Remembers /\ \A r \in DOMAIN program_runs : Keyed(program_runs[r]) => Known(KeyOf(program_runs[r]))'
  BY ReadWindow DEF RestartInd
<1>3. BegunKnown
  <2> SUFFICES ASSUME NEW p \in Programs, NEW at \in Nat, NEW r \in DOMAIN program_runs,
                      Touched(program_runs[r]), KeyOf(program_runs[r]) = <<p, at>>
               PROVE  Known(<<p, at>>)'
    BY DEF BegunKnown
  <2>1. Known(KeyOf(program_runs[r]))' /\ KeyOf(program_runs'[r]) = <<p, at>>
    BY <1>1, <1>2 DEF Touched
  <2> QED BY <2>1 DEF Known, KeyOf
<1>4. Untouching /\ RunsStay /\ QueueShrinks
  BY <1>1 DEF Untouching, RunsStay, QueueShrinks
<1>5. SetUpPromptly'
  BY <1>1, NoneBeingSetUp DEF SetUpPromptly
<1> QED BY <1>2, <1>3, <1>4, <1>5, OnceStays, QueueStays DEF OnceInd

\* Requests are no occurrences.
LEMMA AdmitOnce ==
  ASSUME TypeInd, TypeInd', QueueInd, RestartInd, OnceInd, AdmitStep \/ RequestsAdmitted PROVE OnceInd'
PROOF
<1>1. UNCHANGED tasks /\ loop.pc \in {"admit", "insert_request_missed"}
  BY DEF AdmitStep, RequestsAdmitted, IgnoreRequest, OverflowRequest, AdmitRequest, InsertRequestMissed,
         AdmitUnchanged, LoopUnchanged, Awaits
<1>2. WindowOK
  BY AdmitWindow DEF RestartInd
<1>3. SetUpPromptly' /\ RunsStay
  BY <1>1, NoneBeingSetUp DEF SetUpPromptly, RunsStay
<1>4. \A req \in loop.reqs : req.at = None /\ req \in Items
  BY WindowTypes DEF QueueInd, RequestsOrdered
<1>5. CASE UNCHANGED <<program_runs, queue>>
  <2>1. Untouching /\ QueueShrinks
    BY <1>5 DEF Untouching, QueueShrinks
  <2> QED BY <1>2, <1>3, <2>1, OnceKept
<1>6. ASSUME NEW req \in loop.reqs, InsertRequestMissed(req) PROVE OnceInd'
  <2>1. UNCHANGED queue /\ (Inserts(req, "missed", <<>>) \/ InsertFails(req, "missed", <<>>))
    BY <1>6 DEF InsertRequestMissed
  <2>2. req \in Items /\ "missed" \in Statuses
    BY <1>4 DEF Statuses
  <2>3. Untouching
    BY <2>1, <2>2, InsertUntouching
  <2>4. QueueShrinks
    BY <2>1 DEF QueueShrinks
  <2> QED BY <1>2, <1>3, <2>3, <2>4, OnceKept
<1>7. ASSUME NEW req \in loop.reqs, AdmitRequest(req) PROVE OnceInd'
  <2>1. queue \in Seq(Items) /\ req \in Items
    BY <1>4 DEF TypeInd, TypeOK, QueueOK
  <2>2. PICK i \in 1 .. Len(queue) + 1 : queue' = InsertAt(queue, i, req)
    BY <1>7 DEF AdmitRequest
  <2>3. \A j \in DOMAIN queue' : queue'[j] = req \/ \E m \in DOMAIN queue : queue'[j] = queue[m]
    BY <2>1, <2>2, Inserted
  <2>4. UNCHANGED program_runs
    BY <1>7 DEF AdmitRequest
  <2>5. Untouching
    BY <2>4 DEF Untouching
  <2>6. SetUpPromptly' /\ TouchedKnown' /\ RunsOnce' /\ TouchedOnce'
    <3>1. BegunKnown
      BY <1>2, <2>4 DEF BegunKnown, WindowOK, Remembers, OnceInd, TouchedKnown
    <3> QED BY <1>2, <1>3, <2>5, <3>1, OnceStays DEF WindowOK
  <2>7. QueuedOnce'
    <3> SUFFICES ASSUME NEW j \in DOMAIN queue', Scheduled(queue'[j])
                 PROVE  /\ \A r \in DOMAIN program_runs' :
                             Touched(program_runs[r])' => KeyOf(program_runs[r])' # Key(queue[j])'
                        /\ \A t \in Slots : Busy(t)' => Key(tasks[t].item)' # Key(queue[j])'
      BY DEF QueuedOnce, Scheduled
    <3>1. req.at = None
      BY <1>4
    <3>2. PICK m \in DOMAIN queue : queue'[j] = queue[m]
      BY <2>3, <3>1 DEF Scheduled
    <3> QED BY <1>1, <2>4, <3>2 DEF OnceInd, QueuedOnce, Touched, Keyed, KeyOf, Busy, Key, Scheduled
  <2> QED BY <2>6, <2>7 DEF OnceInd
<1>8. CASE RequestsAdmitted \/ \E req \in loop.reqs : IgnoreRequest(req) \/ OverflowRequest(req)
  BY <1>5, <1>8 DEF RequestsAdmitted, IgnoreRequest, OverflowRequest
<1> QED BY <1>6, <1>7, <1>8 DEF AdmitStep

\* An occurrence is queued only if nobody knows of it.
LEMMA EvaluateOnce ==
  ASSUME TypeInd, TypeInd', RestartInd, OnceInd,
         EvaluateProgram \/ SkipOccurrence \/ MissOccurrence \/ AdmitOccurrence \/ InsertMissed \/ EvaluateDone
  PROVE  OnceInd'
PROOF
<1>1. /\ UNCHANGED tasks /\ loop.pc \in {"evaluate", "insert_missed"}
      /\ loop \in Loops /\ loop.work \subseteq Nat /\ loop.program \in Programs \cup {NoProgram}
  BY WindowTypes DEF EvaluateProgram, SkipOccurrence, MissOccurrence, AdmitOccurrence, InsertMissed, EvaluateDone,
         EvaluateUnchanged, LoopUnchanged, Awaits
<1>2. WindowOK
  BY EvaluateWindow DEF RestartInd
<1>3. SetUpPromptly' /\ RunsStay
  BY <1>1, NoneBeingSetUp DEF SetUpPromptly, RunsStay
<1>4. CASE UNCHANGED <<program_runs, queue>>
  <2>1. Untouching /\ QueueShrinks
    BY <1>4 DEF Untouching, QueueShrinks
  <2> QED BY <1>2, <1>3, <2>1, OnceKept
<1>5. CASE EvaluateProgram \/ SkipOccurrence \/ MissOccurrence \/ EvaluateDone
  BY <1>4, <1>5 DEF EvaluateProgram, SkipOccurrence, MissOccurrence, EvaluateDone
<1>6. CASE InsertMissed
  <2>1. PICK occ \in loop.work :
          \/ Inserts(Item(loop.program, occ, 0, <<>>), "missed", <<>>)
          \/ InsertFails(Item(loop.program, occ, 0, <<>>), "missed", <<>>)
    BY <1>6 DEF InsertMissed
  <2> DEFINE item == Item(loop.program, occ, 0, <<>>)
  <2>2. item \in Items
    BY <1>1 DEF Item, Items, Times
  <2>3. Inserts(item, "missed", <<>>) \/ InsertFails(item, "missed", <<>>)
    BY <2>1
  <2> HIDE DEF item
  <2>4. "missed" \in Statuses
    BY DEF Statuses
  <2>5. Untouching
    BY <2>2, <2>3, <2>4, InsertUntouching
  <2>6. QueueShrinks
    BY <1>6 DEF InsertMissed, QueueShrinks
  <2> QED BY <1>2, <1>3, <2>5, <2>6, OnceKept
<1>7. CASE AdmitOccurrence
  <2>1. PICK occ \in loop.work : /\ ~Skipped(loop.program, occ)
                                 /\ queue' = Append(queue, Item(loop.program, occ, 0, <<>>))
    BY <1>7 DEF AdmitOccurrence
  <2> DEFINE item == Item(loop.program, occ, 0, <<>>)
  <2>2. item \in Items /\ Key(item) = <<loop.program, occ>>
    BY <1>1 DEF Item, Items, Times, Key
  <2> HIDE DEF item
  <2>3. queue \in Seq(Items) /\ queue' = Append(queue, item)
    BY <2>1 DEF item, TypeInd, TypeOK, QueueOK
  <2>4. /\ queue' \in Seq(Items) /\ Len(queue') = Len(queue) + 1 /\ queue'[Len(queue) + 1] = item
        /\ \A i \in 1 .. Len(queue) : queue'[i] = queue[i]
    BY <2>2, <2>3, AppendProperties
  <2>5. Len(queue) \in Nat /\ DOMAIN queue = 1 .. Len(queue) /\ DOMAIN queue' = 1 .. Len(queue) + 1
    BY <2>3, <2>4, LenProperties
  <2>6. UNCHANGED program_runs /\ loop.pc = "evaluate"
    BY <1>7 DEF AdmitOccurrence
  <2>7. Loaded /\ ~Known(Key(item))
    BY <2>1, <2>2, <2>6, EvaluatedUnknown DEF RestartInd
  <2>8. \A r \in DOMAIN program_runs : Touched(program_runs[r]) => KeyOf(program_runs[r]) # Key(item)
    BY <2>7 DEF OnceInd, TouchedKnown
  <2>9. \A t \in Slots : Busy(t) => Key(tasks[t].item) # Key(item)
    <3> SUFFICES ASSUME NEW t \in Slots, Busy(t) PROVE Key(tasks[t].item) # Key(item)
      OBVIOUS
    <3>1. tasks[t].pc \in TaskPcs \ (SetupPcs \cup {"idle"})
      BY <2>6, NoneBeingSetUp DEF Busy, TypeInd, TypeOK, RunsOK, Tasks
    <3>2. tasks[t].pc \in OwnerPcs
      BY <3>1 DEF TaskPcs, SetupPcs, OwnerPcs
    <3>3. Known(Key(tasks[t].item))
      BY <3>2 DEF OnceInd, TouchedKnown
    <3> QED BY <2>7, <3>3
  <2>10. SetUpPromptly' /\ TouchedKnown' /\ RunsOnce' /\ TouchedOnce'
    <3>1. BegunKnown
      BY <1>2, <2>6 DEF BegunKnown, WindowOK, Remembers, OnceInd, TouchedKnown
    <3>2. Untouching
      BY <2>6 DEF Untouching
    <3> QED BY <1>2, <1>3, <3>1, <3>2, OnceStays DEF WindowOK
  <2>11. QueuedOnce'
    <3> SUFFICES ASSUME NEW j \in DOMAIN queue', Scheduled(queue'[j])
                 PROVE  /\ \A r \in DOMAIN program_runs' :
                             Touched(program_runs[r])' => KeyOf(program_runs[r])' # Key(queue[j])'
                        /\ \A t \in Slots : Busy(t)' => Key(tasks[t].item)' # Key(queue[j])'
      BY DEF QueuedOnce, Scheduled
    <3>1. \/ queue'[j] = item
          \/ j \in DOMAIN queue /\ queue'[j] = queue[j]
      BY <2>4, <2>5
    <3>2. \A r \in DOMAIN program_runs : Touched(program_runs[r]) => KeyOf(program_runs[r]) # Key(queue'[j])
      BY <2>8, <3>1 DEF OnceInd, QueuedOnce
    <3>3. \A t \in Slots : Busy(t) => Key(tasks[t].item) # Key(queue'[j])
      BY <2>9, <3>1 DEF OnceInd, QueuedOnce
    <3> QED BY <1>1, <2>6, <3>2, <3>3 DEF Touched, Keyed, KeyOf, Busy, Key, Scheduled
  <2> QED BY <2>10, <2>11 DEF OnceInd
<1> QED BY <1>5, <1>6, <1>7

\* The pump starts what nobody began, and only that.
LEMMA PumpOnce ==
  ASSUME TypeInd, TypeInd', QueueInd, RestartInd, OnceInd, PumpIdle \/ PumpDrops \/ PumpStarts PROVE OnceInd'
PROOF
<1>1. /\ loop \in Loops /\ queue \in Seq(Items) /\ tasks \in [Slots -> Tasks] /\ Len(queue) \in Nat
      /\ DOMAIN queue = 1 .. Len(queue) /\ UNCHANGED program_runs /\ loop.pc = "pump"
  BY LenProperties DEF TypeInd, TypeOK, QueueOK, RunsOK, PumpIdle, PumpDrops, PumpStarts, PumpUnchanged, db
<1>2. WindowOK
  BY PumpWindow DEF RestartInd
<1>3. Untouching
  BY <1>1 DEF Untouching
<1>4. \A t \in Slots : tasks[t].pc \notin SetupPcs
  BY <1>1, NoneBeingSetUp
<1>5. queue # <<>> /\ queue' = Tail(queue) =>
        /\ DOMAIN queue' = 1 .. (Len(queue) - 1) /\ Head(queue) = queue[1] /\ 1 \in DOMAIN queue
        /\ \A i \in DOMAIN queue' : i + 1 \in DOMAIN queue /\ i + 1 # 1 /\ queue'[i] = queue[i + 1]
  <2> SUFFICES ASSUME queue # <<>>, queue' = Tail(queue)
               PROVE  /\ DOMAIN queue' = 1 .. (Len(queue) - 1) /\ Head(queue) = queue[1] /\ 1 \in DOMAIN queue
                      /\ \A i \in DOMAIN queue' : i + 1 \in DOMAIN queue /\ i + 1 # 1 /\ queue'[i] = queue[i + 1]
    OBVIOUS
  <2>1. /\ Len(queue') = Len(queue) - 1 /\ queue' \in Seq(Items) /\ Head(queue) = queue[1]
        /\ \A i \in 1 .. (Len(queue) - 1) : queue'[i] = queue[i + 1]
    BY <1>1, HeadTailProperties
  <2>2. DOMAIN queue' = 1 .. (Len(queue) - 1) /\ Len(queue) # 0
    BY <1>1, <2>1, LenProperties, EmptySeq
  <2> QED BY <1>1, <2>1, <2>2
<1>6. QueueShrinks
  <2>1. queue' = queue \/ (queue # <<>> /\ queue' = Tail(queue))
    BY DEF PumpIdle, PumpDrops, PumpStarts
  <2> QED BY <1>5, <2>1 DEF QueueShrinks
<1>7. CASE UNCHANGED tasks
  <2>1. SetUpPromptly' /\ RunsStay
    BY <1>4, <1>7 DEF SetUpPromptly, RunsStay
  <2> QED BY <1>2, <1>3, <1>6, <2>1, OnceKept
<1>8. CASE PumpStarts
  <2> DEFINE k == RunTask(Head(queue))
             item == Head(queue)
  <2>1. PICK t \in Slots : tasks' = [tasks EXCEPT ![t] = k] /\ FreeSlot(t)
    BY <1>8 DEF PumpStarts
  <2>2. k.pc = "new" /\ k.item = item /\ k.row = None
    BY DEF RunTask, IdleTask
  <2>3. queue # <<>> /\ queue' = Tail(queue) /\ loop' = TickEnds /\ tasks[t].pc = "idle"
    BY <1>8, <2>1 DEF PumpStarts, FreeSlot
  <2>4. item = queue[1] /\ 1 \in DOMAIN queue
    BY <1>5, <2>3
  <2> HIDE DEF k, item
  <2>5. tasks'[t] = k /\ \A s \in Slots \ {t} : tasks'[s] = tasks[s]
    BY <1>1, <2>1
  <2>6. \A s \in Slots : Busy(s)' =>
          \/ s = t /\ Scheduled(item) /\ tasks'[s].item = item
          \/ s # t /\ Busy(s) /\ tasks'[s] = tasks[s]
    BY <2>2, <2>5 DEF Busy, Scheduled
  <2>7. Scheduled(item) =>
          /\ \A r \in DOMAIN program_runs : Touched(program_runs[r]) => KeyOf(program_runs[r]) # Key(item)
          /\ \A s \in Slots : Busy(s) => Key(tasks[s].item) # Key(item)
    BY <2>4 DEF OnceInd, QueuedOnce
  <2>8. SetUpPromptly'
    BY <1>1, <2>3 DEF SetUpPromptly, TickEnds, Loops
  <2>9. TouchedKnown'
    <3>1. ASSUME Loaded', NEW r \in DOMAIN program_runs', Touched(program_runs[r])' PROVE Known(KeyOf(program_runs[r]))'
      <4>1. r \in DOMAIN program_runs /\ Touched(program_runs[r]) /\ program_runs'[r] = program_runs[r]
        BY <1>1, <3>1 DEF Touched, Keyed
      <4>2. PICK p \in Programs, at \in Nat : KeyOf(program_runs[r]) = <<p, at>>
        BY <4>1, KeyTypes DEF KeyOf, Touched
      <4>3. Known(<<p, at>>)
        BY <1>2, <3>1, <4>1, <4>2 DEF WindowOK, OnceInd, TouchedKnown
      <4>4. Known(<<p, at>>)' /\ KeyOf(program_runs[r])' = <<p, at>>
        BY <1>2, <4>1, <4>2, <4>3 DEF WindowOK, Remembers, KeyOf
      <4> QED BY <4>4 DEF Known
    <3>2. ASSUME NEW s \in Slots, Busy(s)', tasks'[s].pc \in OwnerPcs PROVE Known(Key(tasks[s].item))'
      <4>1. "new" \notin OwnerPcs
        BY DEF OwnerPcs, RunPcs, HandlerPcs
      <4>2. Busy(s) /\ tasks'[s] = tasks[s] /\ tasks[s].pc \in OwnerPcs
        BY <2>2, <2>5, <2>6, <3>2, <4>1
      <4>3. PICK p \in Programs \cup {NoProgram}, at \in Nat : Key(tasks[s].item) = <<p, at>>
        BY <4>2, BusyKey
      <4>4. Known(<<p, at>>)
        BY <4>2, <4>3 DEF OnceInd, TouchedKnown
      <4>5. Known(<<p, at>>)' /\ Key(tasks[s].item)' = <<p, at>>
        BY <1>2, <4>2, <4>3, <4>4 DEF WindowOK, Remembers, Key
      <4> QED BY <4>5 DEF Known
    <3> QED BY <3>1, <3>2 DEF TouchedKnown
  <2>10. QueuedOnce'
    <3> SUFFICES ASSUME NEW i \in DOMAIN queue', Scheduled(queue'[i])
                 PROVE  /\ \A r \in DOMAIN program_runs' :
                             Touched(program_runs[r])' => KeyOf(program_runs[r])' # Key(queue[i])'
                        /\ \A s \in Slots : Busy(s)' => Key(tasks[s].item)' # Key(queue[i])'
      BY DEF QueuedOnce, Scheduled
    <3>1. i + 1 \in DOMAIN queue /\ i + 1 # 1 /\ queue'[i] = queue[i + 1] /\ Scheduled(queue[i + 1])
      BY <1>5, <2>3
    <3>2. /\ \A r \in DOMAIN program_runs : Touched(program_runs[r]) => KeyOf(program_runs[r]) # Key(queue[i + 1])
          /\ \A s \in Slots : Busy(s) => Key(tasks[s].item) # Key(queue[i + 1])
      BY <3>1 DEF OnceInd, QueuedOnce
    <3>3. Scheduled(item) => Key(item) # Key(queue[i + 1])
      BY <2>4, <3>1 DEF QueueInd, QueueInv, OneOccurrenceQueued, Key
    <3>4. \A r \in DOMAIN program_runs' : Touched(program_runs[r])' => KeyOf(program_runs[r])' # Key(queue[i])'
      BY <1>1, <3>1, <3>2 DEF Touched, Keyed, KeyOf, Key
    <3>5. \A s \in Slots : Busy(s)' => Key(tasks[s].item)' # Key(queue[i])'
      BY <2>6, <3>1, <3>2, <3>3 DEF Key
    <3> QED BY <3>4, <3>5
  <2>11. RunsOnce'
    <3>1. ASSUME NEW s \in Slots, NEW u \in Slots \ {s}, Busy(s)', Busy(u)' PROVE Key(tasks[u].item)' # Key(tasks[s].item)'
      BY <2>6, <2>7, <3>1 DEF OnceInd, RunsOnce, Key
    <3>2. ASSUME NEW s \in Slots, Busy(s)', NEW r \in DOMAIN program_runs' \ {tasks'[s].row}, Touched(program_runs[r])'
          PROVE  KeyOf(program_runs[r])' # Key(tasks[s].item)'
      <4>1. /\ r \in DOMAIN program_runs /\ Touched(program_runs[r])
            /\ KeyOf(program_runs[r])' = KeyOf(program_runs[r])
        BY <1>1, <3>2 DEF Touched, Keyed, KeyOf
      <4> QED BY <2>6, <2>7, <3>2, <4>1 DEF OnceInd, RunsOnce, Key
    <3> QED BY <3>1, <3>2 DEF RunsOnce
  <2>12. TouchedOnce'
    BY <1>1 DEF OnceInd, TouchedOnce, Touched, Keyed, KeyOf
  <2> QED BY <2>8, <2>9, <2>10, <2>11, <2>12 DEF OnceInd
<1> QED BY <1>7, <1>8 DEF PumpIdle, PumpDrops

\* The web app, the clock and the calls touch no row and start no run.
LEMMA WebOnce == ASSUME TypeInd, TypeInd', RestartInd, OnceInd, WebStep \/ ClockTick \/ Notify PROVE OnceInd'
PROOF
<1>1. UNCHANGED <<tasks, queue, loop>>
  BY DEF WebStep, ClockTick, Notify, SaveProgram, ToggleProgram, DeleteProgram, ToggleZone, RunNow, QuickRun,
         Request, Edit, WebUnchanged
<1>2. WindowOK /\ Untouching
  BY OthersWindow, RewriteUntouching DEF RestartInd
<1>3. SetUpPromptly' /\ RunsStay /\ QueueShrinks
  BY <1>1 DEF OnceInd, SetUpPromptly, RunsStay, QueueShrinks
<1> QED BY <1>2, <1>3, OnceKept

\* The calls, but for the end of a shutdown.
LEMMA CallOnce ==
  ASSUME TypeInd, TypeInd', RestartInd, OnceInd, NEW c \in Calls,
         \/ CancelActive(c) \/ StopClears(c) \/ ItemCleared(c) \/ ManualHolds(c) \/ Command(c)
         \/ ShutdownBegins(c)
  PROVE  OnceInd'
PROOF
<1>1. tasks \in [Slots -> Tasks] /\ calls \in [Calls -> CallRecords]
  BY DEF TypeInd, TypeOK, RunsOK, CallsOK
<1>2. WindowOK
  BY OthersWindow, ShutdownWindow DEF RestartInd
<1>3. RunsStay /\ \A t \in Slots : tasks'[t].pc = tasks[t].pc
  <2>1. UNCHANGED tasks \/ tasks' = [tasks EXCEPT ![run_task].cancel = TRUE]
    BY DEF CancelActive, StopClears, ItemCleared, ManualHolds, Command, ShutdownBegins
  <2>2. \A t \in Slots : tasks'[t].pc = tasks[t].pc /\ tasks'[t].item = tasks[t].item /\ tasks'[t].row = tasks[t].row
    <3>1. CASE tasks' = [tasks EXCEPT ![run_task].cancel = TRUE]
      BY <1>1, <3>1 DEF Tasks
    <3> QED BY <2>1, <3>1
  <2> QED BY <2>2 DEF RunsStay
<1>4. QueueShrinks
  <2>1. queue' = queue \/ queue' = <<>>
    BY DEF CancelActive, StopClears, ItemCleared, ManualHolds, Command, ShutdownBegins
  <2> QED BY <2>1 DEF QueueShrinks
<1>5. SetUpPromptly'
  <2>1. UNCHANGED loop \/ loop'.pc = "stopped"
    BY DEF CancelActive, StopClears, ItemCleared, ManualHolds, Command, ShutdownBegins, CallUnchanged, IdleLoop
  <2> QED BY <1>3, <2>1 DEF OnceInd, SetUpPromptly
<1>6. Untouching
  <2>1. CASE ItemCleared(c)
    <3>1. calls[c].items \in Seq(Items) /\ calls[c].items # <<>>
      BY <1>1, <2>1 DEF ItemCleared, TypeInd, CallShape, CallRecords
    <3>2. Head(calls[c].items) \in Items /\ "cancelled" \in Statuses
      BY <3>1, HeadTailProperties DEF Statuses
    <3>3. \/ Inserts(Head(calls[c].items), "cancelled", <<>>)
          \/ InsertFails(Head(calls[c].items), "cancelled", <<>>)
      BY <2>1 DEF ItemCleared
    <3> QED BY <3>2, <3>3, InsertUntouching
  <2>2. CASE ~ItemCleared(c)
    <3>1. UNCHANGED program_runs
      BY <2>2 DEF CancelActive, StopClears, ManualHolds, Command, ShutdownBegins, db
    <3> QED BY <3>1 DEF Untouching
  <2> QED BY <2>1, <2>2
<1> QED BY <1>2, <1>3, <1>4, <1>5, <1>6, OnceKept

\* A process that starts again runs nothing, and the history is as it was.
LEMMA RestartOnce == ASSUME OnceInd, Restart PROVE OnceInd'
PROOF
<1>1. /\ UNCHANGED program_runs /\ queue' = <<>> /\ \A t \in Slots : tasks'[t].pc = "idle"
      /\ loop'.pc = "wait"
  BY DEF Restart, IdleTask, IdleLoop, db
<1>2. ~Loaded' /\ \A t \in Slots : ~Busy(t)'
  BY <1>1, RestartWindow DEF Busy
<1>3. SetUpPromptly' /\ TouchedKnown' /\ QueuedOnce' /\ RunsOnce'
  BY <1>1, <1>2 DEF SetUpPromptly, TouchedKnown, QueuedOnce, RunsOnce
<1>4. TouchedOnce'
  BY <1>1 DEF OnceInd, TouchedOnce, Touched, Keyed, KeyOf
<1> QED BY <1>3, <1>4 DEF OnceInd

\* A run reaches its steps for its own occurrence, which by then is known.
LEMMA RunOnce ==
  ASSUME TypeInd, TypeInd', HistoryInd, RestartInd, OnceInd, NEW t \in Slots, RunTaskStep(t) PROVE OnceInd'
PROOF
<1> DEFINE k == tasks[t]
           key == Key(tasks[t].item)
<1>1. /\ tasks \in [Slots -> Tasks] /\ UNCHANGED <<queue, loop, ready>> /\ k.pc # "idle"
  BY RunStepIsBusy DEF TypeInd, TypeOK, RunsOK, TaskUnchanged, config
<1>2. WindowOK
  BY OthersWindow DEF RestartInd
<1>3. RunTouches(t)
  BY RunStepTouches
<1>4. PICK n : /\ tasks' = [tasks EXCEPT ![t] = n]
               /\ n.pc # "idle" => /\ n.item = k.item
                                   /\ n.row = k.row \/ RunInserted(t)
                                   /\ n.pc \in SetupPcs => k.pc \in SetupPcs
                                   /\ n.pc \in OwnerPcs => k.pc \in OwnerPcs \/ RunInserted(t)
  BY RunGoesOnAs
<1>5. tasks'[t] = n /\ \A s \in Slots \ {t} : tasks'[s] = tasks[s]
  BY <1>1, <1>4
<1>6. \A s \in Slots : Busy(s)' => Busy(s) /\ Key(tasks[s].item)' = Key(tasks[s].item)
  BY <1>1, <1>4, <1>5 DEF Busy, Scheduled, Key
<1>7. RunInserted(t) => k.row = None /\ fired' = fired \cup Keys(k.item)
  <2>1. "insert_running" \notin OwnerPcs
    BY DEF OwnerPcs, RunPcs, HandlerPcs
  <2>2. k.pc = "insert_running" => k.row = None
    BY <2>1 DEF HistoryInd, OwnRows, Linked, Rowless
  <2> QED BY <2>2 DEF RunInserted, At
<1>8. Busy(t) =>
        /\ \A s \in Slots \ {t} : Busy(s) => Key(tasks[s].item) # key
        /\ \A r \in DOMAIN program_runs \ {k.row} : Touched(program_runs[r]) => KeyOf(program_runs[r]) # key
  BY DEF OnceInd, RunsOnce
<1>9. Busy(t) /\ k.pc \in OwnerPcs => Known(key)
  BY DEF OnceInd, TouchedKnown
<1>10. \A r \in DOMAIN program_runs' : Touched(program_runs'[r]) =>
         /\ r \in DOMAIN program_runs /\ KeyOf(program_runs'[r]) = KeyOf(program_runs[r])
         /\ \/ Touched(program_runs[r])
            \/ r = k.row /\ k.pc \in OwnerPcs /\ Busy(t) /\ KeyOf(program_runs[r]) = key
  BY <1>3 DEF RunTouches
<1> HIDE DEF k, key
<1>11. SetUpPromptly'
  <2>1. \A s \in Slots : tasks'[s].pc \in SetupPcs => tasks[s].pc \in SetupPcs
    <3>1. "idle" \notin SetupPcs
      BY DEF SetupPcs
    <3> QED BY <1>4, <1>5, <3>1 DEF k
  <2> QED BY <1>1, <2>1 DEF OnceInd, SetUpPromptly
<1>12. TouchedKnown'
  <2>1. ASSUME Loaded', NEW r \in DOMAIN program_runs', Touched(program_runs[r])' PROVE Known(KeyOf(program_runs[r]))'
    <3>1. /\ r \in DOMAIN program_runs /\ KeyOf(program_runs'[r]) = KeyOf(program_runs[r])
          /\ Touched(program_runs'[r])
      BY <1>10, <2>1 DEF Touched, Keyed
    <3>2. Known(KeyOf(program_runs[r]))
      BY <1>2, <1>9, <1>10, <2>1, <3>1 DEF WindowOK, OnceInd, TouchedKnown
    <3>3. Keyed(program_runs[r])
      <4>1. program_runs'[r].at # None /\ program_runs'[r].program # NoProgram
        BY <3>1 DEF Touched, Keyed
      <4> QED BY <3>1, <4>1 DEF KeyOf, Keyed
    <3>4. PICK p \in Programs, at \in Nat : KeyOf(program_runs[r]) = <<p, at>>
      BY <3>1, <3>3, KeyTypes DEF KeyOf
    <3>5. Known(<<p, at>>)' /\ KeyOf(program_runs[r])' = <<p, at>>
      BY <1>2, <3>1, <3>2, <3>4 DEF WindowOK, Remembers, KeyOf
    <3> QED BY <3>5 DEF Known
  <2>2. ASSUME NEW s \in Slots, Busy(s)', tasks'[s].pc \in OwnerPcs PROVE Known(Key(tasks[s].item))'
    <3>1. Busy(s) /\ Key(tasks[s].item)' = Key(tasks[s].item)
      BY <1>6, <2>2
    <3>2. PICK p \in Programs \cup {NoProgram}, at \in Nat : Key(tasks[s].item) = <<p, at>>
      BY <3>1, BusyKey
    <3>3. CASE tasks[s].pc \in OwnerPcs
      <4>1. Known(<<p, at>>)
        BY <3>1, <3>2, <3>3 DEF OnceInd, TouchedKnown
      <4>2. Known(<<p, at>>)' /\ Key(tasks[s].item)' = <<p, at>>
        BY <1>2, <3>1, <3>2, <4>1 DEF WindowOK, Remembers
      <4> QED BY <4>2 DEF Known
    <3>4. CASE tasks[s].pc \notin OwnerPcs
      <4>1. s = t /\ RunInserted(t)
        <5>1. "idle" \notin OwnerPcs
          BY DEF OwnerPcs, RunPcs, HandlerPcs
        <5> QED BY <1>4, <1>5, <2>2, <3>4, <5>1 DEF k
      <4>2. Keys(k.item) = {Key(k.item)}
        BY <3>1, <4>1 DEF Keys, Busy, k
      <4>3. Key(k.item) \in fired'
        BY <1>7, <4>1, <4>2
      <4> QED BY <3>1, <4>1, <4>3 DEF Known, k
    <3> QED BY <3>3, <3>4
  <2> QED BY <2>1, <2>2 DEF TouchedKnown
<1>13. QueuedOnce'
  <2> SUFFICES ASSUME NEW i \in DOMAIN queue', Scheduled(queue'[i])
               PROVE  /\ \A r \in DOMAIN program_runs' :
                           Touched(program_runs[r])' => KeyOf(program_runs[r])' # Key(queue[i])'
                      /\ \A s \in Slots : Busy(s)' => Key(tasks[s].item)' # Key(queue[i])'
    BY DEF QueuedOnce, Scheduled
  <2>1. /\ \A r \in DOMAIN program_runs : Touched(program_runs[r]) => KeyOf(program_runs[r]) # Key(queue[i])
        /\ \A s \in Slots : Busy(s) => Key(tasks[s].item) # Key(queue[i])
    BY <1>1 DEF OnceInd, QueuedOnce
  <2>2. Key(queue[i])' = Key(queue[i])
    BY <1>1 DEF Key
  <2>3. Busy(t) => key # Key(queue[i])
    BY <2>1 DEF key
  <2>4. ASSUME NEW r \in DOMAIN program_runs', Touched(program_runs'[r]) PROVE KeyOf(program_runs'[r]) # Key(queue[i])
    BY <1>10, <2>1, <2>3, <2>4
  <2> QED BY <1>6, <2>1, <2>2, <2>4 DEF Touched, Keyed, KeyOf
<1>14. RunsOnce'
  <2>1. ASSUME NEW s \in Slots, NEW u \in Slots \ {s}, Busy(s)', Busy(u)' PROVE Key(tasks[u].item)' # Key(tasks[s].item)'
    BY <1>6, <2>1 DEF OnceInd, RunsOnce
  <2>2. ASSUME NEW s \in Slots, Busy(s)', NEW r \in DOMAIN program_runs' \ {tasks'[s].row}, Touched(program_runs'[r])
        PROVE  KeyOf(program_runs'[r]) # Key(tasks[s].item)'
    <3>1. /\ r \in DOMAIN program_runs /\ KeyOf(program_runs'[r]) = KeyOf(program_runs[r])
          /\ Busy(s) /\ Key(tasks[s].item)' = Key(tasks[s].item)
      BY <1>6, <1>10, <2>2
    <3>2. CASE s = t
      <4>1. k.row = tasks'[s].row \/ k.row = None
        BY <1>4, <1>5, <1>7, <2>2, <3>2 DEF Busy
      <4>2. r # k.row
        <5>1. None \notin DOMAIN program_runs
          BY LenProperties DEF None, TypeInd, TypeOK, RunsOK
        <5> QED BY <2>2, <3>1, <4>1, <5>1
      <4> QED BY <1>8, <1>10, <2>2, <3>1, <3>2, <4>2 DEF key
    <3>3. CASE s # t
      <4>1. tasks'[s] = tasks[s]
        BY <1>5, <3>3
      <4>2. Busy(t) => Key(tasks[s].item) # key
        BY <1>8, <3>1, <3>3
      <4>3. Touched(program_runs[r]) => KeyOf(program_runs[r]) # Key(tasks[s].item)
        BY <2>2, <3>1, <4>1 DEF OnceInd, RunsOnce
      <4> QED BY <1>10, <2>2, <3>1, <4>2, <4>3
    <3> QED BY <3>2, <3>3
  <2> QED BY <2>1, <2>2 DEF RunsOnce, Touched, Keyed, KeyOf
<1>15. TouchedOnce'
  <2>1. ASSUME NEW r \in DOMAIN program_runs', NEW s \in DOMAIN program_runs',
               Touched(program_runs'[r]), Touched(program_runs'[s]), r # s
        PROVE  KeyOf(program_runs'[r]) # KeyOf(program_runs'[s])
    BY <1>8, <1>10, <2>1 DEF OnceInd, TouchedOnce
  <2> QED BY <2>1 DEF TouchedOnce, Touched, Keyed, KeyOf
<1> QED BY <1>11, <1>12, <1>13, <1>14, <1>15 DEF OnceInd

-----------------------------------------------------------------------------
(* The theorem.                                                            *)

\* Nothing runs, and nothing has, when the scheduler starts.
LEMMA InitOnce == Init => OnceInd
PROOF
<1> SUFFICES ASSUME Init PROVE OnceInd
  OBVIOUS
<1>1. program_runs = <<>> /\ queue = <<>> /\ loop.pc = "wait" /\ \A t \in Slots : tasks[t].pc = "idle"
  BY DEF Init, IdleTask, IdleLoop
<1> QED BY <1>1 DEF OnceInd, SetUpPromptly, TouchedKnown, QueuedOnce, RunsOnce, TouchedOnce, Busy

\* A step that changes nothing.
LEMMA StutterOnce == ASSUME TypeInd, WindowInd, OnceInd, UNCHANGED vars PROVE OnceInd'
PROOF
<1>1. UNCHANGED <<program_runs, queue, loop, ready, tasks, now, fired>>
  BY DEF vars, db, env
<1>2. WindowOK
  <2>1. now \in Nat
    BY DEF TypeInd, TypeOK, EnvOK
  <2> QED BY <1>1, <2>1, WindowStays
<1>3. Untouching /\ RunsStay /\ QueueShrinks /\ SetUpPromptly'
  BY <1>1 DEF Untouching, RunsStay, QueueShrinks, OnceInd, SetUpPromptly
<1> QED BY <1>2, <1>3, OnceKept

\* OnceInd is inductive when a run is set up before the loop ticks again.
LEMMA NextOnce ==
  ASSUME PromptSetup
  PROVE  TypeInd /\ TypeInd' /\ QueueInd /\ HistoryInd /\ RestartInd /\ OnceInd /\ [Next]_vars => OnceInd'
PROOF
<1> SUFFICES ASSUME TypeInd, TypeInd', QueueInd, HistoryInd, RestartInd, OnceInd, [Next]_vars PROVE OnceInd'
  OBVIOUS
<1>1. CASE UNCHANGED vars
  BY <1>1, StutterOnce DEF RestartInd
<1>2. CASE WebStep \/ ClockTick \/ Notify
  BY <1>2, WebOnce
<1>3. CASE LoopStep
  BY <1>3, TickOnce, ReadOnce, AdmitOnce, EvaluateOnce, PumpOnce DEF LoopStep
<1>4. ASSUME NEW t \in Slots, RunTaskStep(t) PROVE OnceInd'
  BY <1>4, RunOnce
<1>5. ASSUME NEW c \in Calls, CallStep(c) PROVE OnceInd'
  BY <1>5, CallOnce, RestartOnce DEF CallStep, ShutdownEnds
<1>6. CASE Crash
  BY <1>6, RestartOnce DEF Crash
<1> QED BY <1>1, <1>2, <1>3, <1>4, <1>5, <1>6 DEF Next

\* What the invariants together give at every step of every behaviour.
LEMMA OnceInvariant ==
  ASSUME PromptSetup
  PROVE  Spec => [](TypeInd /\ QueueInd /\ HistoryInd /\ RestartInd /\ OnceInd)
  BY RestartInvariant, InitTypes, InitQueue, InitHistory, InitRestart, InitOnce, NextTypes, NextOnce, PTL DEF Spec

\* "Dedupe per (program_id, occurrence)", for any programs, requests, calls,
\* edits, faults, cancellations, kills and shutdowns: two rows of one occurrence
\* never both watered (_fired, _pending and _active, insert_running, and
\* recent_run_keys after a restart).  It holds when a run is set up, its row
\* inserted, before the loop ticks again; the run slow_setup shows that it does
\* not otherwise, for _pending knows a run only once its row is there.
THEOREM WatersOnce == ASSUME PromptSetup PROVE Spec => []FiresOnce
PROOF
<1>1. OnceInd => FiresOnce
  BY DEF OnceInd, TouchedOnce, FiresOnce, BothWatered, Touched, Keyed, KeyOf
<1> QED BY OnceInvariant, <1>1, PTL

-----------------------------------------------------------------------------
(* The ledger's variables.                                                 *)

\* The history as the ledger sees it, and the rows whose run is alive.
Entry(row) == [program |-> row.program, at |-> row.at, status |-> row.status, steps |-> row.steps]
EntriesOf(runs) == [r \in DOMAIN runs |->
                      [program |-> runs[r].program, at |-> runs[r].at, status |-> runs[r].status,
                       steps |-> runs[r].steps]]
Entries == EntriesOf(program_runs)
OpenRows == {tasks[t].row : t \in Slots} \ {None}
EntrySet == [program : Programs \cup {NoProgram}, at : Times, status : Statuses, steps : Seq(Marks)]

\* They are the ledger's variables: while they stay, the ledger does.
LEMMA LedgerStays == ASSUME UNCHANGED <<Entries, OpenRows>> PROVE [Ledger!Next]_(Ledger!vars)
  BY DEF Ledger!vars, Entries, EntriesOf, OpenRows

\* The entries are as many as the rows, and in their order.
LEMMA EntryTypes ==
  ASSUME NEW runs \in Seq(Rows), NEW entries, entries = EntriesOf(runs)
  PROVE  /\ entries \in Seq(EntrySet) /\ Len(entries) = Len(runs) /\ Len(runs) \in Nat
         /\ DOMAIN entries = 1 .. Len(runs) /\ DOMAIN runs = 1 .. Len(runs)
         /\ \A r \in 1 .. Len(runs) : entries[r] = Entry(runs[r]) /\ runs[r] \in Rows
PROOF
<1>1. Len(runs) \in Nat /\ DOMAIN runs = 1 .. Len(runs)
  BY LenProperties
<1>2. \A r \in 1 .. Len(runs) : runs[r] \in Rows
  BY ElementOfSeq
<1>3. \A r \in DOMAIN runs : entries[r] = Entry(runs[r]) /\ Entry(runs[r]) \in EntrySet
  BY <1>1, <1>2 DEF EntriesOf, Entry, EntrySet, Rows
<1>4. entries \in [1 .. Len(runs) -> EntrySet] /\ DOMAIN entries = 1 .. Len(runs)
  BY <1>1, <1>3 DEF EntriesOf
<1>5. entries \in Seq(EntrySet)
  BY <1>1, <1>4, SeqDef
<1>6. Len(entries) \in Nat /\ 1 .. Len(entries) = 1 .. Len(runs)
  BY <1>4, <1>5, LenProperties
<1>7. Len(entries) = Len(runs)
  <2>1. ASSUME NEW m \in Nat, NEW n \in Nat, m < n PROVE 1 .. m # 1 .. n
    <3>1. n \in 1 .. n /\ n \notin 1 .. m
      BY <2>1
    <3> QED BY <3>1
  <2> QED BY <1>1, <1>6, <2>1
<1> QED BY <1>1, <1>2, <1>3, <1>4, <1>5, <1>7

\* The ledger starts empty.
LEMMA InitLedger == Init => Ledger!Init
PROOF
<1> SUFFICES ASSUME Init PROVE Ledger!Init
  OBVIOUS
<1>1. program_runs = <<>> /\ \A t \in Slots : tasks[t].row = None
  BY DEF Init, IdleTask
<1>2. OpenRows = {}
  BY <1>1 DEF OpenRows
<1>3. Entries = <<>>
  BY <1>1 DEF Entries, EntriesOf
<1> QED BY <1>2, <1>3 DEF Ledger!Init, OpenRows, Entries, EntriesOf

\* A step that changes no entry and closes no run but some.
LEMMA LedgerDies == ASSUME UNCHANGED Entries, OpenRows' \subseteq OpenRows PROVE Ledger!Next
PROOF
<1>1. Ledger!Die
  BY DEF Ledger!Die, Entries, EntriesOf, OpenRows
<1> QED BY <1>1 DEF Ledger!Next

\* An entry is added.
LEMMA EntryAdded ==
  ASSUME TypeInd, NEW row \in Rows, program_runs' = Append(program_runs, row)
  PROVE  /\ Len(Entries') = Len(Entries) + 1 /\ SubSeq(Entries', 1, Len(Entries)) = Entries
         /\ Entries'[Len(Entries')] = Entry(row)
PROOF
<1>1. program_runs \in Seq(Rows)
  BY DEF TypeInd, TypeOK, RunsOK
<1>2. /\ program_runs' \in Seq(Rows) /\ Len(program_runs') = Len(program_runs) + 1
      /\ \A r \in 1 .. Len(program_runs) : program_runs'[r] = program_runs[r]
      /\ program_runs'[Len(program_runs) + 1] = row
  BY <1>1, AppendProperties
<1>3. /\ Entries \in Seq(EntrySet) /\ Len(Entries) = Len(program_runs) /\ Len(Entries) \in Nat
      /\ DOMAIN Entries = 1 .. Len(Entries)
      /\ \A r \in 1 .. Len(Entries) : Entries[r] = Entry(program_runs[r])
  BY <1>1, EntryTypes DEF Entries
<1>4. /\ Entries' \in Seq(EntrySet) /\ Len(Entries') = Len(program_runs')
      /\ DOMAIN Entries' = 1 .. Len(Entries')
      /\ \A r \in 1 .. Len(Entries') : Entries'[r] = Entry(program_runs'[r])
  <2>1. Entries' = EntriesOf(program_runs')
    BY DEF Entries, EntriesOf
  <2> QED BY ZenonT(60), <1>2, <2>1, EntryTypes
<1> HIDE DEF Entries
<1>5. Len(Entries') = Len(Entries) + 1
  BY <1>2, <1>3, <1>4
<1>6. Entries'[Len(Entries')] = Entry(row)
  BY <1>2, <1>3, <1>4, <1>5
<1>7. SubSeq(Entries', 1, Len(Entries)) = Entries
  <2> DEFINE front == SubSeq(Entries', 1, Len(Entries))
  <2>1. front \in Seq(EntrySet) /\ Len(front) = Len(Entries) /\ \A r \in 1 .. Len(Entries) : front[r] = Entries'[r]
    BY <1>3, <1>4, <1>5, SubSeqProperties
  <2>2. \A r \in 1 .. Len(Entries) : Entries'[r] = Entries[r]
    BY <1>2, <1>3, <1>4, <1>5
  <2> HIDE DEF front
  <2>3. front = Entries
    BY <1>3, <2>1, <2>2, SeqEqual
  <2> QED BY <2>3 DEF front
<1> QED BY <1>5, <1>6, <1>7

\* A row without steps is recorded.
LEMMA LedgerRecords ==
  ASSUME TypeInd, NEW item \in Items, NEW status \in Statuses \ {"running"},
         program_runs' = Append(program_runs, NewRow(item, status, <<>>)), UNCHANGED OpenRows
  PROVE  Ledger!Next
PROOF
<1> DEFINE row == NewRow(item, status, <<>>)
<1>1. /\ row \in Rows /\ row.program \in Programs \cup {NoProgram} /\ row.status = status
      /\ row.steps = <<>>
  BY DEF NewRow, Rows, Items, TypeInd, TypeOK, EnvOK
<1> HIDE DEF row
<1>2. /\ Len(Entries') = Len(Entries) + 1 /\ SubSeq(Entries', 1, Len(Entries)) = Entries
      /\ Entries'[Len(Entries')] = Entry(row)
  BY <1>1, EntryAdded DEF row
<1>3. status \in Ledger!Final
  BY DEF Statuses, Skips, Ledger!Final
<1>4. /\ Entry(row).program \in Programs \cup {NoProgram} /\ Entry(row).status = status /\ Entry(row).steps = <<>>
  BY <1>1 DEF Entry
<1>5. Ledger!Record
  BY <1>2, <1>3, <1>4 DEF Ledger!Record, Entries, EntriesOf, OpenRows
<1> QED BY <1>5 DEF Ledger!Next

\* A run opens its row, for an occurrence that never ran.
LEMMA LedgerOpens ==
  ASSUME TypeInd, RunsOnce, NEW t \in Slots, tasks[t].pc = "insert_running", tasks[t].row = None,
         tasks[t].steps # <<>>,
         program_runs' = Append(program_runs, NewRow(tasks[t].item, "running", RowSteps(tasks[t]))),
         OpenRows' \in {OpenRows, OpenRows \cup {Len(program_runs) + 1}}
  PROVE  Ledger!Next
PROOF
<1> DEFINE k == tasks[t]
           row == NewRow(k.item, "running", RowSteps(k))
<1>1. program_runs \in Seq(Rows) /\ boot \in Nat /\ k \in Tasks /\ k.item \in Items
  BY DEF TypeInd, TypeOK, RunsOK, EnvOK, Tasks
<1>2. /\ RowSteps(k) \in Seq(Marks) /\ RowSteps(k) # <<>>
      /\ \A i \in DOMAIN RowSteps(k) : RowSteps(k)[i] = "pending"
  <2>1. k.steps \in Seq(Zones)
    BY <1>1 DEF Tasks
  <2>2. RowSteps(k) = [i \in DOMAIN k.steps |-> "pending"] /\ TaskShape(k) /\ "pending" \in Marks
    BY DEF RowSteps, TypeInd, Marks
  <2>3. RowSteps(k) \in Seq(Marks)
    BY <1>1, <2>2, RowOfTask
  <2>4. Len(k.steps) \in Nat \ {0} /\ DOMAIN k.steps = 1 .. Len(k.steps)
    BY <2>1, EmptySeq, LenProperties
  <2>5. 1 \in DOMAIN RowSteps(k)
    BY <2>2, <2>4
  <2>6. RowSteps(k) # <<>>
    BY <2>5
  <2> QED BY <2>2, <2>3, <2>6
<1>3. row \in Rows /\ row.program = k.item.program /\ row.at = k.item.at /\ row.status = "running"
      /\ row.steps = RowSteps(k) /\ row.program \in Programs \cup {NoProgram}
  BY <1>1, <1>2 DEF NewRow, Rows, Items, Statuses
<1>4. ~Ledger!Ran(k.item.program, k.item.at)
  <2> SUFFICES ASSUME k.item.program # NoProgram, k.item.at # None, NEW r \in DOMAIN Entries,
                      Entries[r].program = k.item.program, Entries[r].at = k.item.at,
                      NEW i \in DOMAIN Entries[r].steps, Entries[r].steps[i] # "pending"
               PROVE  FALSE
    BY DEF Ledger!Ran, Entries, EntriesOf
  <2>1. r \in DOMAIN program_runs /\ Entries[r] = Entry(program_runs[r]) /\ r # None
    BY <1>1, EntryTypes DEF Entries, None
  <2>2. Touched(program_runs[r]) /\ KeyOf(program_runs[r]) = Key(k.item)
    BY <2>1 DEF Entry, Touched, Keyed, KeyOf, Key
  <2> QED BY <2>1, <2>2 DEF RunsOnce, Busy, Scheduled
<1> HIDE DEF row, k
<1>5. program_runs' = Append(program_runs, row)
  BY DEF row, k
<1>6. /\ Len(Entries') = Len(Entries) + 1 /\ SubSeq(Entries', 1, Len(Entries)) = Entries
      /\ Entries'[Len(Entries')] = Entry(row)
  BY <1>3, <1>5, EntryAdded
<1>7. Len(Entries) = Len(program_runs)
  BY <1>1, EntryTypes DEF Entries
<1>8. /\ Entry(row).program \in Programs \cup {NoProgram} /\ Entry(row).status = "running"
      /\ Entry(row).steps # <<>> /\ \A i \in DOMAIN Entry(row).steps : Entry(row).steps[i] = "pending"
      /\ ~Ledger!Ran(Entry(row).program, Entry(row).at)
  BY <1>2, <1>3, <1>4 DEF Entry
<1>9. OpenRows' \in {OpenRows, OpenRows \cup {Len(Entries')}}
  BY <1>6, <1>7
<1>10. Ledger!Open
  BY <1>6, <1>8, <1>9 DEF Ledger!Open, Entries, EntriesOf, OpenRows
<1> QED BY <1>10 DEF Ledger!Next

\* A run is the owner of its row when it saves to it.
LEMMA SavesOwnRow ==
  ASSUME TypeInd, HistoryInd, NEW t \in Slots, tasks[t].pc \in DOMAIN StepMark \cup FinishPcs
  PROVE  /\ tasks[t] \in Tasks /\ tasks[t].row \in DOMAIN program_runs /\ tasks[t].row \in OpenRows
         /\ program_runs \in Seq(Rows) /\ program_runs[tasks[t].row] \in Rows
         /\ Fits(tasks[t], program_runs[tasks[t].row])
PROOF
<1>1. tasks[t].pc \in OwnerPcs /\ tasks[t] \in Tasks /\ program_runs \in Seq(Rows)
  BY DEF OwnerPcs, StepMark, FinishPcs, RunPcs, HandlerPcs, TypeInd, TypeOK, RunsOK
<1>2. tasks[t].row \in DOMAIN program_runs /\ Fits(tasks[t], program_runs[tasks[t].row])
  BY <1>1 DEF HistoryInd, OwnRows, Linked
<1>3. program_runs[tasks[t].row] \in Rows /\ tasks[t].row # None
  BY <1>1, <1>2, LenProperties, ElementOfSeq DEF None
<1> QED BY <1>1, <1>2, <1>3 DEF OpenRows

\* It marks the step in progress.
LEMMA LedgerAdvances ==
  ASSUME TypeInd, HistoryInd, NEW t \in Slots, tasks[t].pc \in DOMAIN StepMark, program_runs' = Updated(tasks[t]),
         OpenRows' \in {OpenRows, OpenRows \ {tasks[t].row}}
  PROVE  Ledger!Next
PROOF
<1> DEFINE k == tasks[t]
<1>0. PICK r : r = k.row
  OBVIOUS
<1> DEFINE row == program_runs[r]
           p == Position(k)
           mark == StepMark[k.pc]
<1>1. /\ k \in Tasks /\ r \in DOMAIN program_runs /\ r \in OpenRows /\ program_runs \in Seq(Rows) /\ row \in Rows
      /\ SameRun(k, row) /\ SameMarks(k, row) /\ SameStage(k, row)
  BY <1>0, SavesOwnRow DEF Fits
<1>2. row.status = "running" /\ p <= Len(k.steps)
  BY <1>1 DEF SameStage, StepMark, RunPcs
<1>3. /\ Len(k.steps) \in Nat /\ Len(k.outcomes) \in Nat /\ p = Len(k.outcomes) + 1
      /\ Len(row.steps) = Len(k.steps) /\ DOMAIN row.steps = 1 .. Len(k.steps)
      /\ \A i \in 1 .. Len(k.outcomes) : k.outcomes[i] \in Outcomes
  BY <1>1, MarksOfRun, ElementOfSeq DEF Tasks, Rows, SameRun, Position
<1>4. p \in DOMAIN row.steps
  BY <1>2, <1>3
<1>5. \A j \in 1 .. (p - 1) : row.steps[j] \in Ledger!Passed
  BY <1>1, <1>3 DEF SameMarks, Outcomes, Ledger!Passed
<1>6. \A j \in (p + 1) .. Len(row.steps) : row.steps[j] = "pending"
  BY <1>1, <1>3 DEF SameMarks
<1>7. mark \in Ledger!After[row.steps[p]]
  BY <1>1, <1>2 DEF SameMarks, MarkAt, StepMark, Ledger!After
<1>8. /\ DOMAIN Entries = DOMAIN program_runs /\ Entries[r] = Entry(row)
  BY <1>1, EntryTypes DEF Entries
<1>9. Entries' = [Entries EXCEPT ![r].steps[p] = mark]
  <2>1. \A s \in DOMAIN program_runs : program_runs[s] \in Rows
    BY <1>1, ElementOfSeq, LenProperties
  <2>2. program_runs' = [program_runs EXCEPT ![r].steps[p] = mark]
    BY <1>0 DEF Updated
  <2>3. /\ DOMAIN program_runs' = DOMAIN program_runs
        /\ \A s \in DOMAIN program_runs : s # r => program_runs'[s] = program_runs[s]
        /\ program_runs'[r] = [row EXCEPT !.steps = [row.steps EXCEPT ![p] = mark]]
    BY <1>1, <2>2
  <2>4. Entry(program_runs'[r]) = [Entry(row) EXCEPT !.steps = [row.steps EXCEPT ![p] = mark]]
    <3> DEFINE steps == [row.steps EXCEPT ![p] = mark]
               new == program_runs'[r]
    <3>1. row \in Rows /\ new = [row EXCEPT !.steps = steps]
      BY <1>1, <2>3
    <3> HIDE DEF steps, new, row
    <3>2. /\ new.program = row.program /\ new.at = row.at /\ new.status = row.status /\ new.steps = steps
      BY <3>1 DEF Rows
    <3>3. Entry(new) = [Entry(row) EXCEPT !.steps = steps]
      BY <3>2 DEF Entry
    <3> QED BY <3>3 DEF steps, new
  <2>5. Entries' = [s \in DOMAIN program_runs |-> Entry(program_runs'[s])]
    BY <2>3 DEF Entries, EntriesOf, Entry
  <2>6. Entries = [s \in DOMAIN program_runs |-> Entry(program_runs[s])] /\ Entry(row).steps = row.steps
    BY DEF Entries, EntriesOf, Entry
  <2> HIDE DEF row, p, mark, Entries
  <2> QED BY <1>1, <2>3, <2>4, <2>5, <2>6 DEF row
<1> HIDE DEF row, p, mark
<1>10. Entry(row).steps = row.steps /\ Entry(row).status = row.status
  BY DEF Entry
<1>11. /\ r \in OpenRows /\ Entries[r].status = "running"
       /\ p \in DOMAIN Entries[r].steps /\ mark \in Ledger!After[Entries[r].steps[p]]
       /\ \A j \in 1 .. (p - 1) : Entries[r].steps[j] \in Ledger!Passed
       /\ \A j \in (p + 1) .. Len(Entries[r].steps) : Entries[r].steps[j] = "pending"
       /\ Entries' = [Entries EXCEPT ![r].steps[p] = mark]
       /\ OpenRows' \in {OpenRows, OpenRows \ {r}} /\ r \in DOMAIN Entries
  BY <1>0, <1>1, <1>2, <1>4, <1>5, <1>6, <1>7, <1>8, <1>9, <1>10
<1>12. r \in DOMAIN Entries /\ Ledger!Advance(r)
  <2>1. \E i \in DOMAIN Entries[r].steps : \E m \in Ledger!After[Entries[r].steps[i]] :
          /\ \A j \in 1 .. (i - 1) : Entries[r].steps[j] \in Ledger!Passed
          /\ \A j \in (i + 1) .. Len(Entries[r].steps) : Entries[r].steps[j] = "pending"
          /\ Entries' = [Entries EXCEPT ![r].steps[i] = m]
    BY <1>11
  <2> QED BY <1>11, <2>1 DEF Ledger!Advance, Ledger!Stays, Entries, EntriesOf, OpenRows
<1> QED BY <1>12 DEF Ledger!Next, Entries, EntriesOf

\* A run closes its row as its steps ended, or as its handler calls for.
LEMMA LedgerCloses ==
  ASSUME TypeInd, HistoryInd, NEW t \in Slots, tasks[t].pc \in FinishPcs, program_runs' = Updated(tasks[t]),
         OpenRows' \in {OpenRows, OpenRows \ {tasks[t].row}}
  PROVE  Ledger!Next
PROOF
<1> DEFINE k == tasks[t]
<1>0. PICK r, status : r = k.row /\ status = k.status
  OBVIOUS
<1> DEFINE row == program_runs[r]
<1>1. /\ k \in Tasks /\ r \in DOMAIN program_runs /\ r \in OpenRows /\ program_runs \in Seq(Rows) /\ row \in Rows
      /\ SameRun(k, row) /\ SameMarks(k, row) /\ SameStage(k, row)
  BY <1>0, SavesOwnRow DEF Fits
<1>2. /\ k.pc = "finish" /\ status = Summarize(k.outcomes) /\ row.status = "running" /\ Len(k.outcomes) = Len(k.steps)
      \/ status \in {"cancelled", "failed"}
  BY <1>0, <1>1 DEF SameStage, FinishPcs, RunPcs
<1>3. status \in {"completed", "partial", "failed", "cancelled"}
  BY <1>2 DEF Summarize
<1>4. status \in {"completed", "partial"} =>
        /\ row.status = "running"
        /\ \A i \in DOMAIN row.steps : row.steps[i] \in Ledger!Passed
        /\ status = "partial" <=> \E i \in DOMAIN row.steps : row.steps[i] = "failed"
  <2> SUFFICES ASSUME status \in {"completed", "partial"}
               PROVE  /\ row.status = "running"
                      /\ \A i \in DOMAIN row.steps : row.steps[i] \in Ledger!Passed
                      /\ status = "partial" <=> \E i \in DOMAIN row.steps : row.steps[i] = "failed"
    OBVIOUS
  <2>1. /\ status = Summarize(k.outcomes) /\ row.status = "running" /\ Len(k.outcomes) = Len(k.steps)
    BY <1>2
  <2>2. /\ DOMAIN row.steps = DOMAIN k.outcomes
        /\ \A i \in DOMAIN k.outcomes : row.steps[i] = k.outcomes[i] /\ k.outcomes[i] \in Outcomes
    <3>1. /\ k.outcomes \in Seq(Outcomes) /\ row.steps \in Seq(Marks)
          /\ Len(row.steps) = Len(k.outcomes)
      BY <1>1, <2>1 DEF SameRun, Tasks, Rows
    <3>2. DOMAIN row.steps = 1 .. Len(row.steps) /\ DOMAIN k.outcomes = 1 .. Len(k.outcomes)
      BY <3>1, LenProperties
    <3>3. \A i \in 1 .. Len(k.outcomes) : k.outcomes[i] \in Outcomes
      BY <3>1, ElementOfSeq
    <3> QED BY <1>1, <3>1, <3>2, <3>3 DEF SameMarks
  <2>3. \A i \in DOMAIN row.steps : row.steps[i] \in Ledger!Passed
    BY <2>2 DEF Outcomes, Ledger!Passed
  <2>4. status = "partial" <=> \E i \in DOMAIN k.outcomes : k.outcomes[i] = "failed"
    BY <2>1 DEF Summarize
  <2> QED BY <2>1, <2>2, <2>3, <2>4
<1>5. /\ DOMAIN Entries = DOMAIN program_runs /\ Entries[r] = Entry(row)
  BY <1>1, EntryTypes DEF Entries
<1>6. Entries' = [Entries EXCEPT ![r].status = status]
  <2>1. program_runs' = [program_runs EXCEPT ![r].status = status]
    BY <1>0 DEF Updated, FinishPcs, StepMark
  <2>2. /\ DOMAIN program_runs' = DOMAIN program_runs
        /\ \A s \in DOMAIN program_runs : s # r => program_runs'[s] = program_runs[s]
        /\ program_runs'[r] = [row EXCEPT !.status = status]
    BY <1>1, <2>1
  <2>3. Entry(program_runs'[r]) = [Entry(row) EXCEPT !.status = status]
    <3> DEFINE new == program_runs'[r]
    <3>1. row \in Rows /\ new = [row EXCEPT !.status = status]
      BY <1>1, <2>2
    <3> HIDE DEF new, row
    <3>2. /\ new.program = row.program /\ new.at = row.at /\ new.status = status /\ new.steps = row.steps
      BY <3>1 DEF Rows
    <3>3. Entry(new) = [Entry(row) EXCEPT !.status = status]
      BY <3>2 DEF Entry
    <3> QED BY <3>3 DEF new
  <2>4. Entries' = [s \in DOMAIN program_runs |-> Entry(program_runs'[s])]
    BY <2>2 DEF Entries, EntriesOf, Entry
  <2>5. Entries = [s \in DOMAIN program_runs |-> Entry(program_runs[s])]
    BY DEF Entries, EntriesOf, Entry
  <2> HIDE DEF row, Entries
  <2> QED BY <1>1, <2>2, <2>3, <2>4, <2>5 DEF row
<1> HIDE DEF row
<1>7. Entry(row).steps = row.steps /\ Entry(row).status = row.status
  BY DEF Entry
<1>8. /\ r \in OpenRows /\ r \in DOMAIN Entries
      /\ status \in {"completed", "partial"} =>
            /\ Entries[r].status = "running"
            /\ \A i \in DOMAIN Entries[r].steps : Entries[r].steps[i] \in Ledger!Passed
            /\ status = "partial" <=> \E i \in DOMAIN Entries[r].steps : Entries[r].steps[i] = "failed"
      /\ OpenRows' \in {OpenRows, OpenRows \ {r}}
  BY <1>0, <1>1, <1>4, <1>5, <1>7
<1>9. r \in DOMAIN Entries /\ Ledger!Close(r)
  <2>1. \E s \in {"completed", "partial", "failed", "cancelled"} :
          /\ s \in {"completed", "partial"} =>
               /\ Entries[r].status = "running"
               /\ \A i \in DOMAIN Entries[r].steps : Entries[r].steps[i] \in Ledger!Passed
               /\ s = "partial" <=> \E i \in DOMAIN Entries[r].steps : Entries[r].steps[i] = "failed"
          /\ Entries' = [Entries EXCEPT ![r].status = s]
    BY <1>3, <1>6, <1>8
  <2> QED BY <1>8, <2>1 DEF Ledger!Close, Ledger!Stays, Entries, EntriesOf, OpenRows
<1> QED BY <1>9 DEF Ledger!Next, Entries, EntriesOf

-----------------------------------------------------------------------------
(* The engine's steps.                                                     *)

\* The boot closes what no run will.
LEMMA LedgerFinalizes ==
  ASSUME TypeInd, HistoryInd, FinalizeOrphans \/ FinalizeFails PROVE [Ledger!Next]_(Ledger!vars)
PROOF
<1>1. program_runs \in Seq(Rows) /\ loop.pc = "finalize" /\ UNCHANGED tasks
  BY DEF TypeInd, TypeOK, RunsOK, FinalizeOrphans, FinalizeFails, Awaits, LoopUnchanged
<1>2. \A t \in Slots : tasks[t].pc = "idle"
  BY <1>1 DEF HistoryInd, BootOrder
<1>3. OpenRows = {} /\ OpenRows' = OpenRows
  <2>1. "idle" \notin OwnerPcs
    BY DEF OwnerPcs, RunPcs, HandlerPcs
  <2>2. \A t \in Slots : tasks[t].row = None
    BY <1>2, <2>1 DEF HistoryInd, OwnRows, Linked, Rowless
  <2> QED BY <1>1, <2>2 DEF OpenRows
<1>4. CASE UNCHANGED program_runs
  <2>1. UNCHANGED <<Entries, OpenRows>>
    BY <1>3, <1>4 DEF Entries, EntriesOf
  <2> QED BY <2>1, LedgerStays
<1>5. CASE program_runs' = [r \in DOMAIN program_runs |-> Finalized(program_runs[r])]
  <2> DEFINE Closed(row) ==
               IF row.status # "running" THEN row
               ELSE [row EXCEPT !.status = "cancelled",
                       !.steps = [i \in DOMAIN row.steps |-> IF row.steps[i] = "started" THEN "cancelled" ELSE row.steps[i]]]
  <2>1. /\ DOMAIN Entries = DOMAIN program_runs
        /\ \A r \in DOMAIN program_runs : program_runs[r] \in Rows /\ Entries[r] = Entry(program_runs[r])
    BY <1>1, EntryTypes DEF Entries
  <2>2. ASSUME NEW row \in Rows PROVE Entry(Finalized(row)) = Closed(Entry(row))
    BY DEF Entry, Finalized, Rows
  <2>3. Entries' = [r \in DOMAIN program_runs |-> Entry(Finalized(program_runs[r]))]
    BY <1>5 DEF Entries, EntriesOf, Entry
  <2>4. Entries' = [r \in DOMAIN Entries |-> Closed(Entries[r])]
    <3> HIDE DEF Entries, Closed
    <3> QED BY <2>1, <2>2, <2>3
  <2>5. Ledger!Finalize
    BY <1>3, <2>4 DEF Ledger!Finalize, Entries, EntriesOf, OpenRows
  <2> QED BY <2>5 DEF Ledger!Next
<1> QED BY <1>4, <1>5 DEF FinalizeOrphans, FinalizeFails

\* Deleting a program keeps its rows; the web app writes no other.
LEMMA LedgerForgets ==
  ASSUME TypeInd, WebStep \/ ClockTick \/ Notify PROVE [Ledger!Next]_(Ledger!vars)
PROOF
<1>1. program_runs \in Seq(Rows) /\ UNCHANGED tasks
  BY DEF TypeInd, TypeOK, RunsOK, WebStep, ClockTick, Notify, SaveProgram, ToggleProgram, DeleteProgram, ToggleZone,
         RunNow, QuickRun, Request, Edit, WebUnchanged
<1>2. OpenRows' = OpenRows
  BY <1>1 DEF OpenRows
<1>3. CASE UNCHANGED program_runs
  <2>1. UNCHANGED <<Entries, OpenRows>>
    BY <1>2, <1>3 DEF Entries, EntriesOf
  <2> QED BY <2>1, LedgerStays
<1>4. ASSUME NEW p \in Programs, DeleteProgram(p) PROVE Ledger!Next
  <2> DEFINE Kept(row) == IF row.program = p THEN [row EXCEPT !.program = NoProgram] ELSE row
  <2>1. /\ DOMAIN Entries = DOMAIN program_runs
        /\ \A r \in DOMAIN program_runs : program_runs[r] \in Rows /\ Entries[r] = Entry(program_runs[r])
    BY <1>1, EntryTypes DEF Entries
  <2>2. ASSUME NEW row \in Rows PROVE Entry(Kept(row)) = Kept(Entry(row))
    BY DEF Entry, Rows
  <2>3. program_runs' = [r \in DOMAIN program_runs |-> Kept(program_runs[r])]
    BY <1>4 DEF DeleteProgram
  <2>4. Entries' = [r \in DOMAIN program_runs |-> Entry(Kept(program_runs[r]))]
    BY <2>3 DEF Entries, EntriesOf, Entry
  <2>5. Entries' = [r \in DOMAIN Entries |-> Kept(Entries[r])]
    <3> HIDE DEF Entries, Kept
    <3> QED BY <2>1, <2>2, <2>4
  <2>6. Ledger!Forget(p)
    BY <1>2, <2>5 DEF Ledger!Forget, Entries, EntriesOf, OpenRows
  <2> QED BY <2>6 DEF Ledger!Next
<1>5. UNCHANGED program_runs \/ \E p \in Programs : DeleteProgram(p)
  BY DEF WebStep, ClockTick, Notify, SaveProgram, ToggleProgram, ToggleZone, RunNow, QuickRun, Request, db
<1> QED BY <1>3, <1>4, <1>5

\* An item recorded as missed, or cancelled in the queue.
LEMMA LedgerInserts ==
  ASSUME TypeInd, UNCHANGED tasks, NEW item \in Items, NEW status \in Statuses \ {"running"},
         \/ UNCHANGED program_runs
         \/ Inserts(item, status, <<>>) \/ InsertFails(item, status, <<>>)
  PROVE  [Ledger!Next]_(Ledger!vars)
PROOF
<1>1. OpenRows' = OpenRows
  BY DEF OpenRows
<1>2. CASE UNCHANGED program_runs
  <2>1. UNCHANGED <<Entries, OpenRows>>
    BY <1>1, <1>2 DEF Entries, EntriesOf
  <2> QED BY <2>1, LedgerStays
<1>3. CASE program_runs' = Append(program_runs, NewRow(item, status, <<>>))
  BY <1>1, <1>3, LedgerRecords
<1> QED BY <1>2, <1>3 DEF Inserts, InsertFails

\* The loop's other steps.
LEMMA LedgerLoops ==
  ASSUME TypeInd, HistoryInd, LoopStep PROVE [Ledger!Next]_(Ledger!vars)
PROOF
<1>1. CASE FinalizeOrphans \/ FinalizeFails
  BY <1>1, LedgerFinalizes
<1>2. ASSUME NEW req \in loop.reqs, InsertRequestMissed(req) PROVE [Ledger!Next]_(Ledger!vars)
  <2>1. req \in Items /\ "missed" \in Statuses \ {"running"} /\ UNCHANGED tasks
    BY <1>2 DEF TypeInd, TypeOK, QueueOK, Loops, Statuses, InsertRequestMissed, AdmitUnchanged, LoopUnchanged
  <2> QED BY <1>2, <2>1, LedgerInserts DEF InsertRequestMissed
<1>3. CASE InsertMissed
  <2>1. PICK occ \in loop.work : \/ Inserts(Item(loop.program, occ, 0, <<>>), "missed", <<>>)
                                 \/ InsertFails(Item(loop.program, occ, 0, <<>>), "missed", <<>>)
    BY <1>3 DEF InsertMissed
  <2>2. /\ loop.program \in Programs \cup {NoProgram} /\ occ \in Nat /\ UNCHANGED tasks
        /\ "missed" \in Statuses \ {"running"}
    BY <1>3 DEF TypeInd, TypeOK, QueueOK, Loops, Statuses, InsertMissed, EvaluateUnchanged, LoopUnchanged
  <2>3. <<>> \in Seq(Zones)
    OBVIOUS
  <2>4. Item(loop.program, occ, 0, <<>>) \in Items
    BY <2>2, <2>3 DEF Item, Items, Times
  <2> QED BY <2>1, <2>2, <2>4, LedgerInserts
<1>4. CASE PumpStarts
  <2>1. PICK t \in Slots : tasks[t].pc = "idle" /\ tasks' = [tasks EXCEPT ![t] = RunTask(Head(queue))]
    BY <1>4 DEF PumpStarts, FreeSlot
  <2>2. tasks \in [Slots -> Tasks] /\ UNCHANGED program_runs
    BY <1>4 DEF TypeInd, TypeOK, RunsOK, PumpStarts, PumpUnchanged, db
  <2>3. tasks[t].row = None /\ RunTask(Head(queue)).row = None
    <3>1. "idle" \notin OwnerPcs
      BY DEF OwnerPcs, RunPcs, HandlerPcs
    <3> QED BY <2>1, <3>1 DEF HistoryInd, OwnRows, Linked, Rowless, RunTask, IdleTask
  <2>4. OpenRows' = OpenRows
    <3>1. \A s \in Slots : tasks'[s].row = tasks[s].row
      BY <2>1, <2>2, <2>3
    <3> QED BY <3>1 DEF OpenRows
  <2>5. UNCHANGED <<Entries, OpenRows>>
    BY <2>2, <2>4 DEF Entries, EntriesOf
  <2> QED BY <2>5, LedgerStays
<1>5. CASE \/ TickBegins \/ FetchPrograms \/ FetchSteps \/ ReadRunKeys \/ ClaimRequests \/ RefreshFails \/ RefreshDone
           \/ (\E req \in loop.reqs : IgnoreRequest(req) \/ OverflowRequest(req) \/ AdmitRequest(req))
           \/ RequestsAdmitted \/ EvaluateProgram \/ SkipOccurrence \/ MissOccurrence \/ AdmitOccurrence
           \/ EvaluateDone \/ PumpIdle \/ PumpDrops
  <2>1. UNCHANGED <<program_runs, tasks>>
    BY <1>5 DEF TickBegins, FetchPrograms, FetchSteps, ReadRunKeys, ClaimRequests, RefreshFails, RefreshDone,
       IgnoreRequest, OverflowRequest, AdmitRequest, RequestsAdmitted, EvaluateProgram, SkipOccurrence, MissOccurrence,
       AdmitOccurrence, EvaluateDone, PumpIdle, PumpDrops, AdmitUnchanged, EvaluateUnchanged, PumpUnchanged,
       LoopUnchanged, db
  <2>2. UNCHANGED <<Entries, OpenRows>>
    BY <2>1 DEF Entries, EntriesOf, OpenRows
  <2> QED BY <2>2, LedgerStays
<1> QED BY <1>1, <1>2, <1>3, <1>4, <1>5 DEF LoopStep, AdmitStep

\* The process is gone, and its runs with it.
LEMMA LedgerRestarts == ASSUME Restart PROVE Ledger!Next
PROOF
<1>1. UNCHANGED program_runs /\ \A t \in Slots : tasks'[t].row = None
  BY DEF Restart, IdleTask, db
<1>2. OpenRows' = {}
  BY <1>1 DEF OpenRows
<1>3. UNCHANGED Entries /\ OpenRows' \subseteq OpenRows
  BY <1>1, <1>2 DEF Entries, EntriesOf
<1> QED BY <1>3, LedgerDies

\* The calls that cancel, clear and command.
LEMMA LedgerCalls ==
  ASSUME TypeInd, NEW c \in Calls, CallStep(c) PROVE [Ledger!Next]_(Ledger!vars)
PROOF
<1>1. tasks \in [Slots -> Tasks] /\ calls \in [Calls -> CallRecords]
  BY DEF TypeInd, TypeOK, RunsOK, CallsOK
<1>2. CASE ItemCleared(c)
  <2>1. calls[c].items \in Seq(Items) /\ calls[c].items # <<>> /\ UNCHANGED tasks
    BY <1>1, <1>2 DEF ItemCleared, TypeInd, CallShape, CallRecords
  <2>2. Head(calls[c].items) \in Items /\ "cancelled" \in Statuses \ {"running"}
    BY <2>1, HeadTailProperties DEF Statuses
  <2>3. \/ Inserts(Head(calls[c].items), "cancelled", <<>>)
        \/ InsertFails(Head(calls[c].items), "cancelled", <<>>)
    BY <1>2 DEF ItemCleared
  <2> QED BY <2>1, <2>2, <2>3, LedgerInserts
<1>3. CASE ShutdownEnds(c)
  BY <1>3, LedgerRestarts DEF ShutdownEnds
<1>4. CASE CancelActive(c) \/ StopClears(c) \/ ManualHolds(c) \/ Command(c) \/ ShutdownBegins(c)
  <2>1. UNCHANGED program_runs /\ (UNCHANGED tasks \/ tasks' = [tasks EXCEPT ![run_task].cancel = TRUE])
    BY <1>4 DEF CancelActive, StopClears, ManualHolds, Command, ShutdownBegins, db
  <2>2. \A t \in Slots : tasks'[t].row = tasks[t].row
    <3>1. CASE tasks' = [tasks EXCEPT ![run_task].cancel = TRUE]
      BY <1>1, <3>1 DEF Tasks
    <3> QED BY <2>1, <3>1
  <2>3. UNCHANGED <<Entries, OpenRows>>
    BY <2>1, <2>2 DEF Entries, EntriesOf, OpenRows
  <2> QED BY <2>3, LedgerStays
<1> QED BY <1>2, <1>3, <1>4 DEF CallStep

\* A run's row is its own: its step moves no other run's.
LEMMA OpenMoves ==
  ASSUME TypeInd, HistoryInd, NEW t \in Slots, NEW n, tasks' = [tasks EXCEPT ![t] = n]
  PROVE  OpenRows' = ((OpenRows \ {tasks[t].row}) \cup {n.row}) \ {None}
PROOF
<1>1. tasks'[t] = n /\ \A s \in Slots \ {t} : tasks'[s] = tasks[s]
  BY DEF TypeInd, TypeOK, RunsOK
<1>2. \A s \in Slots \ {t} : tasks[t].row # None => tasks[s].row # tasks[t].row
  BY DEF HistoryInd, OwnRows
<1>3. ASSUME NEW r PROVE r \in OpenRows' <=> r # None /\ (r = n.row \/ \E s \in Slots \ {t} : tasks[s].row = r)
  BY <1>1 DEF OpenRows
<1>4. ASSUME NEW r PROVE r \in OpenRows <=> r # None /\ (r = tasks[t].row \/ \E s \in Slots \ {t} : tasks[s].row = r)
  BY DEF OpenRows
<1>5. ASSUME NEW r
      PROVE  r \in OpenRows' <=> r \in ((OpenRows \ {tasks[t].row}) \cup {n.row}) \ {None}
  BY <1>2, <1>3, <1>4
<1> QED BY <1>5

\* Where a run's step takes its row: opened, kept, or let go with the run.
LEMMA RunOpens ==
  ASSUME TypeInd, HistoryInd, HistoryInd', NEW t \in Slots, RunTaskStep(t)
  PROVE  IF RunInserted(t) THEN OpenRows' = OpenRows \cup {Len(program_runs) + 1}
         ELSE OpenRows' \in {OpenRows, OpenRows \ {tasks[t].row}}
PROOF
<1> DEFINE k == tasks[t]
<1>1. PICK n : tasks' = [tasks EXCEPT ![t] = n] /\ (n.pc # "idle" => n.row = k.row \/ RunInserted(t))
  BY RunGoesOnAs
<1>2. /\ tasks'[t] = n /\ None \notin OpenRows /\ "idle" \notin OwnerPcs /\ "insert_running" \notin OwnerPcs
      /\ tasks \in [Slots -> Tasks]
  BY <1>1 DEF TypeInd, TypeOK, RunsOK, OpenRows, OwnerPcs, RunPcs, HandlerPcs
<1>3. OpenRows' = ((OpenRows \ {k.row}) \cup {n.row}) \ {None}
  BY <1>1, OpenMoves
<1>4. k.row = None \/ k.row \in OpenRows
  BY DEF OpenRows
<1>5. CASE RunInserted(t)
  <2>1. k.pc = "insert_running" /\ tasks' = [tasks EXCEPT ![t] = [k EXCEPT !.pc = "fetch_step_zones", !.row = Len(program_runs) + 1]]
    BY <1>5 DEF RunInserted, At, Becomes
  <2>2. k.row = None
    BY <1>2, <2>1 DEF HistoryInd, OwnRows, Linked, Rowless
  <2>3. n.row = Len(program_runs) + 1
    BY <1>2, <2>1 DEF Tasks
  <2>4. Len(program_runs) + 1 # None
    BY LenProperties DEF None, TypeInd, TypeOK, RunsOK
  <2> QED BY <1>2, <1>3, <1>5, <2>2, <2>3, <2>4
<1>6. CASE ~RunInserted(t)
  <2>1. n.row = k.row \/ n.row = None
    <3>1. CASE n.pc = "idle"
      <4>1. Linked(tasks[t])'
        BY DEF HistoryInd, OwnRows
      <4> QED BY <1>2, <3>1, <4>1 DEF Linked, Rowless
    <3> QED BY <1>1, <1>6, <3>1
  <2>2. OpenRows' \in {OpenRows, OpenRows \ {k.row}}
    BY <1>2, <1>3, <1>4, <2>1
  <2> QED BY <1>6, <2>2
<1> QED BY <1>5, <1>6

\* Every step of a run is a step of the ledger.
LEMMA LedgerRuns ==
  ASSUME TypeInd, HistoryInd, HistoryInd', OnceInd, NEW t \in Slots, RunTaskStep(t) PROVE Ledger!Next
PROOF
<1> DEFINE k == tasks[t]
<1>1. /\ k \in Tasks /\ k.item \in Items /\ TaskShape(k) /\ Linked(k) /\ program_runs \in Seq(Rows) /\ RunsOnce
  BY DEF TypeInd, TypeOK, RunsOK, Tasks, HistoryInd, OwnRows, OnceInd
<1>2. k.pc \in {"insert_running", "record_skip", "cancel_record"} => Rowless(k) /\ k.steps # <<>>
  BY <1>1 DEF Linked, OwnerPcs, RunPcs, HandlerPcs, HistoryInd, HasWork
<1>3. None \notin OpenRows
  BY DEF OpenRows
<1>4. CASE RunInserted(t)
  <2>1. /\ k.pc = "insert_running" /\ program_runs' = Append(program_runs, NewRow(k.item, "running", RowSteps(k)))
    BY <1>4 DEF RunInserted, At, Inserts
  <2>2. OpenRows' = OpenRows \cup {Len(program_runs) + 1} /\ k.row = None /\ k.steps # <<>>
    BY <1>2, <1>4, <2>1, RunOpens DEF Rowless
  <2> QED BY <1>1, <2>1, <2>2, LedgerOpens
<1>5. CASE ~RunInserted(t)
  <2>1. OpenRows' \in {OpenRows, OpenRows \ {k.row}} /\ OpenRows' \subseteq OpenRows
    BY <1>5, RunOpens
  <2>2. CASE UNCHANGED program_runs
    <3>1. UNCHANGED Entries
      BY <2>2 DEF Entries, EntriesOf
    <3> QED BY <2>1, <3>1, LedgerDies
  <2>3. CASE k.pc \in DOMAIN StepMark /\ program_runs' = Updated(k)
    BY <2>1, <2>3, LedgerAdvances
  <2>4. CASE k.pc \in FinishPcs /\ program_runs' = Updated(k)
    BY <2>1, <2>4, LedgerCloses
  <2>5. CASE /\ k.pc \in {"insert_running", "record_skip", "cancel_record"}
             /\ program_runs' = Append(program_runs, NewRow(k.item, RowStatus(k), RowSteps(k)))
    <3>1. k.row = None /\ k.steps # <<>> /\ OpenRows' = OpenRows
      BY <1>2, <1>3, <2>1, <2>5 DEF Rowless
    <3>2. CASE k.pc = "insert_running"
      <4>1. RowStatus(k) = "running"
        BY <3>2 DEF RowStatus
      <4> QED BY <1>1, <2>5, <3>1, <3>2, <4>1, LedgerOpens
    <3>3. CASE k.pc \in {"record_skip", "cancel_record"}
      <4>1. RowStatus(k) = k.status /\ RowSteps(k) = <<>>
        BY <3>3 DEF RowStatus, RowSteps
      <4>2. k.status \in Statuses \ {"running"}
        BY <1>2, <3>3 DEF Rowless, Skips, Statuses
      <4> QED BY <1>1, <2>5, <3>1, <4>1, <4>2, LedgerRecords
    <3> QED BY <2>5, <3>2, <3>3
  <2>6. CASE k.pc = "start" /\ program_runs' = [program_runs EXCEPT ![k.row].watered = TRUE]
    <3>1. \A r \in DOMAIN program_runs : program_runs[r] \in Rows
      BY <1>1, ElementOfSeq, LenProperties
    <3>2. /\ DOMAIN program_runs' = DOMAIN program_runs
          /\ \A r \in DOMAIN program_runs : /\ program_runs'[r].program = program_runs[r].program
                                            /\ program_runs'[r].at = program_runs[r].at
                                            /\ program_runs'[r].status = program_runs[r].status
                                            /\ program_runs'[r].steps = program_runs[r].steps
      BY <2>6, <3>1 DEF Rows
    <3>3. UNCHANGED Entries
      BY <3>2 DEF Entries, EntriesOf
    <3> QED BY <2>1, <3>3, LedgerDies
  <2>7. RunWrites(t)
    BY RunStepWrites
  <2> QED BY <2>2, <2>3, <2>4, <2>5, <2>6, <2>7 DEF RunWrites
<1> QED BY <1>4, <1>5

-----------------------------------------------------------------------------
(* The theorem.                                                            *)

\* Every step of the scheduler is a step of the ledger, or none.
LEMMA NextLedger ==
  TypeInd /\ HistoryInd /\ HistoryInd' /\ OnceInd /\ [Next]_vars => [Ledger!Next]_(Ledger!vars)
PROOF
<1> SUFFICES ASSUME TypeInd, HistoryInd, HistoryInd', OnceInd, [Next]_vars PROVE [Ledger!Next]_(Ledger!vars)
  OBVIOUS
<1>1. CASE UNCHANGED vars
  <2>1. UNCHANGED <<program_runs, tasks>>
    BY <1>1 DEF vars, db
  <2>2. UNCHANGED <<Entries, OpenRows>>
    BY <2>1 DEF Entries, EntriesOf, OpenRows
  <2> QED BY <2>2, LedgerStays
<1>2. CASE WebStep \/ ClockTick \/ Notify
  BY <1>2, LedgerForgets
<1>3. CASE LoopStep
  BY <1>3, LedgerLoops
<1>4. ASSUME NEW t \in Slots, RunTaskStep(t) PROVE [Ledger!Next]_(Ledger!vars)
  BY <1>4, LedgerRuns
<1>5. ASSUME NEW c \in Calls, CallStep(c) PROVE [Ledger!Next]_(Ledger!vars)
  BY <1>5, LedgerCalls
<1>6. CASE Crash
  BY <1>6, LedgerRestarts DEF Crash
<1> QED BY <1>1, <1>2, <1>3, <1>4, <1>5, <1>6 DEF Next

\* The engine's history is the ledger of RunLedger, for any programs, requests,
\* calls, edits, faults, cancellations, kills and shutdowns: a row is opened by
\* a run of an occurrence that never ran, written by that run alone and only
\* forward (_mark_step, _finalize_run, the handlers of _execute), and otherwise
\* closed by a boot (finalize_orphaned_runs).  As in WatersOnce, a run is set up
\* before the loop ticks again.
THEOREM KeepsLedger == ASSUME PromptSetup PROVE Spec => ImplementsLedger
PROOF
<1>1. Init => Ledger!Init
  BY InitLedger
<1>2. TypeInd /\ HistoryInd /\ HistoryInd' /\ OnceInd /\ [Next]_vars => [Ledger!Next]_(Ledger!vars)
  BY NextLedger
<1> QED BY OnceInvariant, <1>1, <1>2, PTL DEF Spec, ImplementsLedger, Ledger!Spec
==============================================================================
