------------------------ MODULE SchedulerRestartProofs ------------------------
(***************************************************************************)
(* No restart waters an occurrence again that an earlier life of the       *)
(* process recorded: the occurrences the scheduler looks at, the rows it   *)
(* has read, and the keys it remembers cover the history between them.     *)
(***************************************************************************)
EXTENDS SchedulerHistoryProofs

-----------------------------------------------------------------------------
(* The tick's window, and what the executor remembers.                     *)

\* An occurrence that is known stays known.
Remembers == \A p \in Programs \cup {NoProgram}, at \in Nat : Known(<<p, at>>) => Known(<<p, at>>)'
WindowOK == WindowInd' /\ Remembers /\ (Loaded' => Loaded)

\* The types the window is about.
LEMMA WindowTypes ==
  ASSUME TypeInd
  PROVE  /\ loop \in Loops /\ loop.now \in Nat /\ now \in Nat /\ Lookback \in Nat /\ Horizon \in Nat
         /\ loop.work \subseteq Nat /\ loop.pc \in LoopPcs /\ ready \in BOOLEAN
         /\ loop.program \in Programs \cup {NoProgram} /\ loop.todo \subseteq Programs /\ loop.reqs \subseteq Items
PROOF
<1>1. loop \in Loops /\ now \in Nat /\ ready \in BOOLEAN
  BY DEF TypeInd, TypeOK, QueueOK, EnvOK, ConfigOK
<1> QED BY <1>1, TimeAssumption DEF Loops, Horizon

\* It does when the keys and the horizon only grow.
LEMMA RemembersMore ==
  ASSUME TypeInd, Horizon' \in Nat, Horizon <= Horizon', fired \subseteq fired' PROVE Remembers
PROOF
<1>1. Horizon \in Nat /\ Lookback \in Nat
  BY WindowTypes
<1>2. \A early, late, at \in Nat : early <= late /\ at <= early - Lookback => at <= late - Lookback
  BY <1>1
<1> QED BY <1>1, <1>2 DEF Remembers, Known

\* A step that leaves the loop where it is, and forgets nothing.
LEMMA WindowStays ==
  ASSUME TypeInd, WindowInd, UNCHANGED <<loop, ready>>, now' \in Nat, now <= now', fired \subseteq fired'
  PROVE  WindowOK
PROOF
<1>1. WindowInd'
  <2>1. loop.pc \notin {"wait", "stopped"} => loop.now <= now'
    BY WindowTypes DEF WindowInd
  <2> QED BY <2>1 DEF WindowInd
<1>2. Horizon' \in Nat /\ Horizon <= Horizon'
  BY WindowTypes DEF Horizon
<1>3. Loaded' = Loaded
  BY DEF Loaded
<1> QED BY <1>1, <1>2, <1>3, RemembersMore DEF WindowOK

\* A step of the loop within its tick, or back to its wait.
LEMMA WindowMoves ==
  ASSUME TypeInd, WindowInd, UNCHANGED <<now, ready>>, fired \subseteq fired', loop' \in Loops,
         \/ loop'.now = loop.now /\ loop.pc \notin {"wait", "stopped"}
         \/ loop'.now = now /\ loop.pc \in {"wait", "stopped"}
         \/ loop'.pc \in {"wait", "stopped"},
         loop'.pc \in {"evaluate", "insert_missed"} => \A occ \in loop'.work : occ > loop'.now - Lookback,
         loop'.pc \notin {"evaluate", "insert_missed"} => loop'.work = {},
         loop'.pc \in {"evaluate", "insert_missed", "pump"} => ready,
         loop'.pc \in {"claim", "admit", "insert_request_missed", "weather_settings"}
           => loop.pc \in {"claim", "admit", "insert_request_missed", "weather_settings"}
  PROVE  WindowOK
PROOF
<1>1. loop'.now \in Nat /\ now \in Nat /\ loop.now \in Nat
  BY WindowTypes DEF Loops
<1>2. loop'.pc \notin {"wait", "stopped"} => loop'.now <= now
  BY <1>1 DEF WindowInd
<1>3. WindowInd'
  BY <1>2 DEF WindowInd
<1>4. Horizon' \in Nat /\ Horizon <= Horizon'
  BY <1>1, <1>2 DEF WindowInd, Horizon
<1>5. Loaded' => Loaded
  BY DEF Loaded
<1> QED BY <1>3, <1>4, <1>5, RemembersMore DEF WindowOK

\* The tick, its orphans and its refresh, but for the reading of the fired-set.
LEMMA TickWindow ==
  ASSUME TypeInd, TypeInd', WindowInd,
         \/ TickBegins \/ FinalizeOrphans \/ FinalizeFails \/ FetchPrograms \/ FetchSteps \/ ClaimRequests \/ RefreshFails
  PROVE  WindowOK
PROOF
<1>1. /\ loop \in Loops /\ loop.now \in Nat /\ now \in Nat /\ ready \in BOOLEAN /\ loop' \in Loops
      /\ UNCHANGED <<now, ready, fired>>
  BY WindowTypes DEF TypeInd, TypeOK, QueueOK, TickBegins, FinalizeOrphans, FinalizeFails, FetchPrograms, FetchSteps,
         ClaimRequests, RefreshFails, LoopUnchanged, config
<1>2. CASE TickBegins
  <2> DEFINE l == [loop EXCEPT !.now = now]
  <2>1. l \in Loops /\ l.now = now /\ l.work = loop.work
    BY <1>1 DEF Loops
  <2>2. loop' = IF orphans_finalized THEN Refreshing(l) ELSE [l EXCEPT !.pc = "finalize"]
    BY <1>2 DEF TickBegins
  <2>3. loop.pc = "wait"
    BY <1>2 DEF TickBegins, Awaits
  <2> HIDE DEF l
  <2>4. /\ loop'.now = now /\ loop'.work = loop.work /\ (loop'.pc = "evaluate" => ready)
        /\ loop'.pc \in {"fetch_programs", "evaluate", "wait", "finalize"}
    <3>1. [l EXCEPT !.pc = "finalize"].now = l.now /\ [l EXCEPT !.pc = "finalize"].work = l.work
          /\ [l EXCEPT !.pc = "finalize"].pc = "finalize"
      BY <2>1 DEF Loops
    <3> QED BY <2>1, <2>2, <3>1, TickFields
  <2>5. loop.work = {}
    BY <2>3 DEF WindowInd
  <2> QED BY <1>1, <2>3, <2>4, <2>5, WindowMoves
<1>3. CASE FinalizeOrphans \/ FinalizeFails
  <2>1. /\ loop'.work = loop.work /\ (loop'.pc = "evaluate" => ready) /\ loop'.now = loop.now
        /\ loop'.pc \in {"fetch_programs", "evaluate", "wait"}
    <3>1. CASE FinalizeOrphans
      BY <1>1, <3>1, TickFields DEF FinalizeOrphans
    <3>2. CASE FinalizeFails
      BY <1>1, <3>2 DEF FinalizeFails, Loops
    <3> QED BY <1>3, <3>1, <3>2
  <2>2. loop.pc = "finalize"
    BY <1>3 DEF FinalizeOrphans, FinalizeFails, Awaits
  <2>3. loop.work = {}
    BY <2>2 DEF WindowInd
  <2> QED BY <1>1, <2>1, <2>2, <2>3, WindowMoves
<1>4. CASE FetchPrograms \/ FetchSteps
  <2>1. /\ loop'.work = loop.work /\ loop'.now = loop.now /\ loop'.pc \in {"fetch_steps", "run_keys"}
        /\ loop.pc \in {"fetch_programs", "fetch_steps"}
    BY <1>1, <1>4 DEF FetchPrograms, FetchSteps, Awaits, Loops
  <2>2. loop.work = {}
    BY <2>1 DEF WindowInd
  <2> QED BY <1>1, <2>1, <2>2, WindowMoves
<1>5. CASE ClaimRequests
  <2>1. loop'.work = loop.work /\ loop'.now = loop.now /\ loop'.pc = "admit" /\ loop.pc = "claim"
    BY <1>1, <1>5 DEF ClaimRequests, Awaits, Loops
  <2>2. loop.work = {}
    BY <2>1 DEF WindowInd
  <2> QED BY <1>1, <2>1, <2>2, WindowMoves
<1>6. CASE RefreshFails
  <2> DEFINE l == [loop EXCEPT !.rows = InitialPrograms]
  <2>1. l \in Loops /\ l.now = loop.now /\ l.work = loop.work
    BY <1>1, DataAssumption DEF Loops
  <2>2. loop' = Evaluating(l, ready) /\ loop.pc \in {"fetch_programs", "fetch_steps", "run_keys", "claim"}
    BY <1>6 DEF RefreshFails, Awaits
  <2> HIDE DEF l
  <2>3. /\ loop'.now = loop.now /\ loop'.work = loop.work /\ (loop'.pc = "evaluate" => ready)
        /\ loop'.pc \in {"evaluate", "wait"}
    BY <1>1, <2>1, <2>2, TickFields
  <2>4. loop.work = {}
    BY <2>2 DEF WindowInd
  <2> QED BY <1>1, <2>2, <2>3, <2>4, WindowMoves
<1> QED BY <1>2, <1>3, <1>4, <1>5, <1>6

\* The fired-set is pruned and read again: it then covers the whole history.
LEMMA ReadWindow ==
  ASSUME TypeInd, WindowInd, ReadRunKeys
  PROVE  /\ WindowInd' /\ Remembers
         /\ \A r \in DOMAIN program_runs : Keyed(program_runs[r]) => Known(KeyOf(program_runs[r]))'
PROOF
<1> DEFINE since == loop.now - Lookback
<1>1. /\ loop \in Loops /\ loop.now \in Nat /\ now \in Nat /\ Lookback \in Nat /\ since \in Int
      /\ UNCHANGED <<now, ready, program_runs>> /\ loop.pc = "run_keys"
      /\ loop'.pc = "claim" /\ loop'.now = loop.now /\ loop'.work = loop.work
  BY WindowTypes DEF ReadRunKeys, LoopUnchanged, config, Awaits, Loops
<1>2. fired' = {k \in fired \cup RecentRunKeys(since) : k[2] >= since}
  BY DEF ReadRunKeys
<1>3. program_runs \in Seq(Rows)
  BY DEF TypeInd, TypeOK, RunsOK
<1> HIDE DEF since
<1>4. WindowInd'
  BY <1>1 DEF WindowInd
<1>5. Horizon' = loop.now /\ Horizon = loop.now
  BY <1>1 DEF Horizon
<1>6. Remembers
  <2> SUFFICES ASSUME NEW p \in Programs \cup {NoProgram}, NEW at \in Nat, Known(<<p, at>>) PROVE Known(<<p, at>>)'
    BY DEF Remembers
  <2>1. CASE <<p, at>> \in fired /\ at >= since
    BY <1>2, <2>1 DEF Known
  <2>2. CASE at <= loop.now - Lookback
    BY <1>5, <2>2 DEF Known
  <2>3. at >= since \/ at <= loop.now - Lookback
    BY <1>1 DEF since
  <2> QED BY <1>5, <2>1, <2>2, <2>3 DEF Known
<1>7. ASSUME NEW r \in DOMAIN program_runs, Keyed(program_runs[r]) PROVE Known(KeyOf(program_runs[r]))'
  <2> DEFINE row == program_runs[r]
  <2>1. row \in Rows
    BY <1>3, LenProperties, ElementOfSeq
  <2>2. row.at \in Nat /\ row.program # NoProgram /\ row.at # None
    BY <1>7, <2>1 DEF Rows, Times, Keyed
  <2>3. CASE row.at >= since
    <3>1. <<row.program, row.at>> \in RecentRunKeys(since)
      BY <2>2, <2>3 DEF RecentRunKeys
    <3>2. <<row.program, row.at>>[2] >= since
      BY <2>3
    <3>3. <<row.program, row.at>> \in fired'
      BY <1>2, <3>1, <3>2
    <3> QED BY <1>1, <3>3 DEF Known, KeyOf
  <2>4. CASE row.at < since
    <3>1. row.at <= loop.now - Lookback
      BY <1>1, <2>2, <2>4 DEF since
    <3> QED BY <1>1, <1>5, <3>1 DEF Known, KeyOf
  <2> QED BY <1>1, <2>2, <2>3, <2>4
<1> QED BY <1>4, <1>6, <1>7

\* The refresh is over: the watermark counts as loaded.
LEMMA RefreshedWindow == ASSUME TypeInd, TypeInd', WindowInd, RefreshDone PROVE WindowOK
PROOF
<1>1. /\ loop \in Loops /\ loop.pc = "weather_settings" /\ ready' = TRUE /\ UNCHANGED <<now, fired>>
      /\ loop'.pc = "evaluate" /\ loop'.now = loop.now /\ loop'.work = loop.work
  BY WindowTypes, TickFields DEF RefreshDone, LoopUnchanged, Awaits
<1>2. WindowInd'
  BY <1>1 DEF WindowInd
<1>3. Horizon' = Horizon /\ Horizon \in Nat
  BY <1>1, WindowTypes DEF Horizon
<1>4. Loaded
  BY <1>1 DEF Loaded
<1> QED BY <1>1, <1>2, <1>3, <1>4, RemembersMore DEF WindowOK

\* Requests are admitted within the tick.
LEMMA AdmitWindow == ASSUME TypeInd, TypeInd', WindowInd, AdmitStep \/ RequestsAdmitted PROVE WindowOK
PROOF
<1>1. /\ loop \in Loops /\ loop' \in Loops /\ UNCHANGED <<now, ready, fired>>
      /\ loop.pc \in {"admit", "insert_request_missed"}
  BY WindowTypes DEF TypeInd, TypeOK, QueueOK, AdmitStep, RequestsAdmitted, IgnoreRequest, OverflowRequest,
         AdmitRequest, InsertRequestMissed, AdmitUnchanged, LoopUnchanged, config, Awaits
<1>2. loop'.work = loop.work /\ loop'.now = loop.now /\ loop'.pc \in {"admit", "insert_request_missed", "weather_settings"}
  <2>1. \/ \E req : loop' = Handled(req)
        \/ \E pc \in {"insert_request_missed", "weather_settings"} : loop' = [loop EXCEPT !.pc = pc]
    BY DEF AdmitStep, RequestsAdmitted, IgnoreRequest, OverflowRequest, AdmitRequest, InsertRequestMissed
  <2> QED BY <1>1, <2>1 DEF Handled, Loops
<1>3. loop.work = {}
  BY <1>1 DEF WindowInd
<1> QED BY <1>1, <1>2, <1>3, WindowMoves

\* The occurrences looked at are those of the tick's window.
LEMMA EvaluateWindow ==
  ASSUME TypeInd, TypeInd', WindowInd,
         EvaluateProgram \/ SkipOccurrence \/ MissOccurrence \/ AdmitOccurrence \/ InsertMissed \/ EvaluateDone
  PROVE  WindowOK
PROOF
<1>1. /\ loop \in Loops /\ loop' \in Loops /\ UNCHANGED <<now, ready>> /\ fired \subseteq fired'
      /\ loop.pc \in {"evaluate", "insert_missed"} /\ loop.now \in Nat /\ Lookback \in Nat
  BY WindowTypes DEF TypeInd, TypeOK, QueueOK, EvaluateProgram, SkipOccurrence, MissOccurrence, AdmitOccurrence,
         InsertMissed, EvaluateDone, EvaluateUnchanged, LoopUnchanged, config, Awaits
<1>2. ready /\ \A occ \in loop.work : occ > loop.now - Lookback
  BY <1>1 DEF WindowInd
<1>3. CASE EvaluateProgram
  <2>1. PICK p \in loop.todo :
          loop' = [loop EXCEPT !.todo = @ \ {p}, !.program = p,
                               !.work = Occurrences(p, loop.now - Lookback, loop.now)]
    BY <1>3 DEF EvaluateProgram
  <2>2. /\ loop'.work = Occurrences(p, loop.now - Lookback, loop.now) /\ loop'.now = loop.now
        /\ loop'.pc = loop.pc /\ loop.pc = "evaluate"
    BY <1>1, <1>3, <2>1 DEF Loops, EvaluateProgram
  <2>3. loop'.work \subseteq Nat
    BY <1>1 DEF Loops
  <2>4. \A occ \in loop'.work : occ > loop'.now - Lookback
    BY <1>1, <2>2, <2>3 DEF Occurrences
  <2> QED BY <1>1, <1>2, <2>2, <2>4, WindowMoves
<1>4. CASE SkipOccurrence \/ AdmitOccurrence \/ InsertMissed
  <2>1. PICK occ \in loop.work : loop' = Examined(occ)
    BY <1>4 DEF SkipOccurrence, AdmitOccurrence, InsertMissed
  <2>2. loop'.work \subseteq loop.work /\ loop'.now = loop.now /\ loop'.pc = "evaluate"
    BY <1>1, <2>1 DEF Examined, Loops
  <2> QED BY <1>1, <1>2, <2>2, WindowMoves
<1>5. CASE MissOccurrence
  <2>1. loop'.work = loop.work /\ loop'.now = loop.now /\ loop'.pc = "insert_missed"
    BY <1>1, <1>5 DEF MissOccurrence, Loops
  <2> QED BY <1>1, <1>2, <2>1, WindowMoves
<1>6. CASE EvaluateDone
  <2>1. loop'.work = {} /\ loop'.now = loop.now /\ loop'.pc = "pump"
    BY <1>1, <1>6 DEF EvaluateDone, Loops
  <2> QED BY <1>1, <1>2, <2>1, WindowMoves
<1> QED BY <1>3, <1>4, <1>5, <1>6

\* The pump ends the tick, or goes on.
LEMMA PumpWindow == ASSUME TypeInd, TypeInd', WindowInd, PumpIdle \/ PumpDrops \/ PumpStarts PROVE WindowOK
PROOF
<1>1. /\ loop \in Loops /\ loop' \in Loops /\ UNCHANGED <<now, ready, fired>> /\ loop.pc = "pump"
      /\ loop' \in {loop, TickEnds}
  BY WindowTypes DEF TypeInd, TypeOK, QueueOK, PumpIdle, PumpDrops, PumpStarts, PumpUnchanged, config, env
<1>2. TickEnds.pc = "wait" /\ TickEnds.work = loop.work
  BY <1>1 DEF TickEnds, Loops
<1>3. loop.work = {} /\ ready
  BY <1>1 DEF WindowInd
<1> QED BY <1>1, <1>2, <1>3, WindowMoves

\* Whatever the rest of the executor and the web app do, the loop stays.
LEMMA OthersWindow ==
  ASSUME TypeInd, TypeInd', WindowInd,
         \/ WebStep \/ ClockTick \/ Notify \/ (\E t \in Slots : RunTaskStep(t))
         \/ \E c \in Calls : CancelActive(c) \/ StopClears(c) \/ ItemCleared(c) \/ ManualHolds(c) \/ Command(c)
  PROVE  WindowOK
PROOF
<1>1. now \in Nat /\ now' \in Nat
  BY DEF TypeInd, TypeOK, EnvOK
<1>2. UNCHANGED <<loop, ready>> /\ now' \in {now, now + 1}
  <2>1. CASE WebStep \/ ClockTick \/ Notify
    BY <2>1 DEF WebStep, ClockTick, Notify, SaveProgram, ToggleProgram, DeleteProgram, ToggleZone, RunNow, QuickRun,
         Request, Edit, WebUnchanged, config
  <2>2. ASSUME NEW t \in Slots, RunTaskStep(t) PROVE UNCHANGED <<loop, ready, now>>
    BY <2>2, RunStepIsBusy DEF TaskUnchanged, config
  <2>3. ASSUME NEW c \in Calls, CancelActive(c) \/ StopClears(c) \/ ItemCleared(c) \/ ManualHolds(c) \/ Command(c)
        PROVE  UNCHANGED <<loop, ready, now>>
    BY <2>3 DEF CancelActive, StopClears, ItemCleared, ManualHolds, Command, CallUnchanged, config
  <2> QED BY <2>1, <2>2, <2>3
<1>3. fired \subseteq fired'
  <2>1. CASE WebStep \/ ClockTick \/ Notify
    BY <2>1 DEF WebStep, ClockTick, Notify, SaveProgram, ToggleProgram, DeleteProgram, ToggleZone, RunNow, QuickRun,
         Request, Edit, WebUnchanged
  <2>2. ASSUME NEW t \in Slots, RunTaskStep(t) PROVE fired \subseteq fired'
    BY <2>2 DEF RunTaskStep, RunBegins, RainDelayRead, WeatherDecided, TerminalRecorded, ZonesFetched, RunInserted,
         SetupFails, StepZonesFetched, ZoneStarts, StartFails, StartReplies, StartRepliesUntracked, StepStarted,
         StepSlept, StepEnds, RunStops, RunFinished, RunCrashes, InFlightCancelled, HandlerFails,
         CancelUnstarted, CancelSetup, CancelRun, CancelHandler
  <2>3. ASSUME NEW c \in Calls, CancelActive(c) \/ StopClears(c) \/ ItemCleared(c) \/ ManualHolds(c) \/ Command(c)
        PROVE  fired \subseteq fired'
    BY <2>3 DEF CancelActive, StopClears, ItemCleared, ManualHolds, Command, ClearRest
  <2> QED BY <2>1, <2>2, <2>3
<1> QED BY <1>1, <1>2, <1>3, WindowStays

\* A shutdown's beginning stops the loop.
LEMMA ShutdownWindow == ASSUME TypeInd, TypeInd', WindowInd, NEW c \in Calls, ShutdownBegins(c) PROVE WindowOK
PROOF
<1>1. /\ loop'.pc = "stopped" /\ loop'.work = {} /\ loop' \in Loops /\ UNCHANGED <<now, ready, fired>>
  BY DEF ShutdownBegins, IdleLoop, config, env, TypeInd, TypeOK, QueueOK
<1> QED BY <1>1, WindowMoves

\* A process that starts again has read nothing and is between two ticks.
LEMMA RestartWindow == ASSUME Restart PROVE WindowInd' /\ ~Loaded'
PROOF
<1>1. loop'.pc = "wait" /\ loop'.work = {} /\ ready' = FALSE
  BY DEF Restart, IdleLoop
<1> QED BY <1>1 DEF WindowInd, Loaded

-----------------------------------------------------------------------------
(* What a step does to the history.                                        *)

\* Rows keep their key, but for a program deleted, and a new one is of this item.
RowsFrom(item) ==
  \A r \in DOMAIN program_runs' :
    IF r \in DOMAIN program_runs
    THEN /\ program_runs'[r].program \in {program_runs[r].program, NoProgram}
         /\ program_runs'[r].at = program_runs[r].at /\ program_runs'[r].boot = program_runs[r].boot
    ELSE program_runs'[r].program = item.program /\ program_runs'[r].at = item.at /\ program_runs'[r].boot = boot

\* A history that stays.
LEMMA SameRows == ASSUME NEW item, UNCHANGED program_runs PROVE RowsFrom(item)
  BY DEF RowsFrom

\* A row appended.
LEMMA AppendedRow ==
  ASSUME TypeInd, NEW item \in Items, NEW status \in Statuses, NEW steps \in Seq(Marks),
         program_runs' = Append(program_runs, NewRow(item, status, steps))
  PROVE  /\ RowsFrom(item) /\ DOMAIN program_runs = 1 .. Len(program_runs) /\ Len(program_runs) \in Nat
         /\ DOMAIN program_runs' = 1 .. Len(program_runs) + 1
         /\ \A r \in DOMAIN program_runs : program_runs'[r] = program_runs[r]
         /\ program_runs'[Len(program_runs) + 1] = NewRow(item, status, steps)
PROOF
<1> DEFINE row == NewRow(item, status, steps)
<1>1. program_runs \in Seq(Rows) /\ boot \in Nat
  BY DEF TypeInd, TypeOK, RunsOK, EnvOK
<1>2. row \in Rows /\ row.program = item.program /\ row.at = item.at /\ row.boot = boot
  BY <1>1 DEF NewRow, Rows, Items
<1> HIDE DEF row
<1>3. /\ program_runs' \in Seq(Rows) /\ Len(program_runs') = Len(program_runs) + 1
      /\ \A r \in 1 .. Len(program_runs) : program_runs'[r] = program_runs[r]
      /\ program_runs'[Len(program_runs) + 1] = row
  <2>1. program_runs' = Append(program_runs, row)
    BY DEF row
  <2> QED BY <1>1, <1>2, <2>1, AppendProperties
<1>4. /\ DOMAIN program_runs = 1 .. Len(program_runs) /\ DOMAIN program_runs' = 1 .. Len(program_runs) + 1
      /\ Len(program_runs) \in Nat
  BY <1>1, <1>3, LenProperties
<1>5. RowsFrom(item)
  BY <1>2, <1>3, <1>4 DEF RowsFrom
<1> QED BY <1>3, <1>4, <1>5 DEF row

\* An INSERT, whether it fails or not.
LEMMA InsertedRow ==
  ASSUME TypeInd, NEW item \in Items, NEW status \in Statuses, NEW steps \in Seq(Marks),
         Inserts(item, status, steps) \/ InsertFails(item, status, steps)
  PROVE  RowsFrom(item)
PROOF
<1>1. UNCHANGED program_runs \/ program_runs' = Append(program_runs, NewRow(item, status, steps))
  BY DEF Inserts, InsertFails
<1> QED BY <1>1, AppendedRow, SameRows

\* An UPDATE of a run.
LEMMA UpdatedRows ==
  ASSUME TypeInd, NEW k, NEW item, program_runs' = Updated(k) PROVE RowsFrom(item)
PROOF
<1>1. \A r \in DOMAIN program_runs : program_runs[r] \in Rows
  BY LenProperties, ElementOfSeq DEF TypeInd, TypeOK, RunsOK
<1>2. \/ program_runs' = [program_runs EXCEPT ![k.row].steps[Position(k)] = StepMark[k.pc]]
      \/ program_runs' = [program_runs EXCEPT ![k.row].status = k.status]
  BY DEF Updated
<1>3. DOMAIN program_runs' = DOMAIN program_runs
  BY <1>2
<1>4. ASSUME NEW r \in DOMAIN program_runs
      PROVE  /\ program_runs'[r].program = program_runs[r].program /\ program_runs'[r].at = program_runs[r].at
             /\ program_runs'[r].boot = program_runs[r].boot
  <2>1. program_runs[r] \in Rows
    BY <1>1
  <2> QED BY <1>2, <2>1 DEF Rows
<1> QED BY <1>3, <1>4 DEF RowsFrom

\* A store call abandoned by a run.
LEMMA AbandonedRows ==
  ASSUME TypeInd, NEW t \in Slots, program_runs' \in Abandoned(tasks[t])
  PROVE  RowsFrom(tasks[t].item)
PROOF
<1> DEFINE k == tasks[t]
<1>1. k \in Tasks /\ TaskShape(k)
  BY DEF TypeInd, TypeOK, RunsOK
<1>2. \/ UNCHANGED program_runs
      \/ program_runs' = Updated(k)
      \/ /\ k.pc \in {"insert_running", "record_skip", "cancel_record"}
         /\ program_runs' = Append(program_runs, NewRow(k.item, RowStatus(k), RowSteps(k)))
  BY DEF Abandoned
<1> HIDE DEF k
<1>3. CASE /\ k.pc \in {"insert_running", "record_skip", "cancel_record"}
           /\ program_runs' = Append(program_runs, NewRow(k.item, RowStatus(k), RowSteps(k)))
  <2>1. k.item \in Items /\ RowStatus(k) \in Statuses /\ RowSteps(k) \in Seq(Marks)
    BY <1>1, <1>3, RowOfTask
  <2> QED BY <1>3, <2>1, AppendedRow DEF k
<1> QED BY <1>2, <1>3, SameRows, UpdatedRows DEF k

\* Any step of a run.
LEMMA RunRows == ASSUME TypeInd, NEW t \in Slots, RunTaskStep(t) PROVE RowsFrom(tasks[t].item)
PROOF
<1> DEFINE k == tasks[t]
<1>1. k \in Tasks /\ TaskShape(k) /\ k.item \in Items /\ <<>> \in Seq(Marks) /\ "cancelled" \in Statuses
  BY DEF TypeInd, TypeOK, RunsOK, Tasks, Statuses
<1>2. k.pc \in {"insert_running", "record_skip", "cancel_record"} =>
        RowStatus(k) \in Statuses /\ RowSteps(k) \in Seq(Marks)
  BY <1>1, RowOfTask
<1>3. \A r \in DOMAIN program_runs : program_runs[r] \in Rows
  BY LenProperties, ElementOfSeq DEF TypeInd, TypeOK, RunsOK
<1>4. CASE \/ RunBegins(t) \/ RainDelayRead(t) \/ WeatherDecided(t) \/ ZonesFetched(t) \/ StepZonesFetched(t)
           \/ StartFails(t) \/ StartReplies(t) \/ StartRepliesUntracked(t) \/ StepSlept(t) \/ RunStops(t)
           \/ CancelUnstarted(t)
  <2>1. UNCHANGED program_runs
    BY <1>4 DEF RunBegins, RainDelayRead, WeatherDecided, ZonesFetched, StepZonesFetched, StartFails,
         StartReplies, StartRepliesUntracked, StepSlept, RunStops, CancelUnstarted
  <2> QED BY <2>1, SameRows
<1>5. CASE StepStarted(t) \/ StepEnds(t) \/ RunFinished(t) \/ InFlightCancelled(t)
  <2>1. program_runs' = Updated(k)
    BY <1>5 DEF StepStarted, StepEnds, RunFinished, InFlightCancelled
  <2> QED BY <2>1, UpdatedRows
<1>6. CASE RunCrashes(t) \/ CancelSetup(t) \/ CancelRun(t) \/ CancelHandler(t)
  <2>1. program_runs' \in Abandoned(k)
    BY <1>6 DEF RunCrashes, CancelSetup, CancelRun, CancelHandler
  <2> QED BY <2>1, AbandonedRows
<1>7. CASE ZoneStarts(t)
  <2>1. program_runs' = [program_runs EXCEPT ![k.row].watered = TRUE]
    BY <1>7 DEF ZoneStarts
  <2>2. DOMAIN program_runs' = DOMAIN program_runs
    BY <2>1
  <2>3. ASSUME NEW r \in DOMAIN program_runs
        PROVE  /\ program_runs'[r].program = program_runs[r].program /\ program_runs'[r].at = program_runs[r].at
               /\ program_runs'[r].boot = program_runs[r].boot
    <3>1. program_runs[r] \in Rows
      BY <1>3
    <3> QED BY <2>1, <3>1 DEF Rows
  <2> QED BY <2>2, <2>3 DEF RowsFrom
<1>8. CASE TerminalRecorded(t)
  <2>1. Inserts(k.item, k.status, <<>>) /\ k.status \in Statuses
    BY <1>1, <1>8 DEF TerminalRecorded, At, TaskShape
  <2> QED BY <1>1, <2>1, InsertedRow
<1>9. CASE RunInserted(t)
  <2>1. Inserts(k.item, "running", RowSteps(k)) /\ k.pc = "insert_running"
    BY <1>9 DEF RunInserted, At
  <2> QED BY <1>1, <1>2, <2>1, InsertedRow DEF Statuses
<1>10. CASE SetupFails(t)
  <2>1. \/ UNCHANGED program_runs
        \/ /\ k.pc \in {"record_skip", "insert_running"}
           /\ InsertFails(k.item, RowStatus(k), RowSteps(k))
    BY <1>10 DEF SetupFails, At
  <2> QED BY <1>1, <1>2, <2>1, SameRows, InsertedRow
<1>11. CASE HandlerFails(t)
  <2>1. program_runs' \in Abandoned(k) \/ InsertFails(k.item, "cancelled", <<>>)
    BY <1>11 DEF HandlerFails
  <2> QED BY <1>1, <2>1, AbandonedRows, InsertedRow
<1> QED BY <1>4, <1>5, <1>6, <1>7, <1>8, <1>9, <1>10, <1>11 DEF RunTaskStep

\* Finalizing the orphans, and deleting a program.
LEMMA RewrittenRows ==
  ASSUME TypeInd, NEW item,
         \/ FinalizeOrphans \/ FinalizeFails
         \/ WebStep \/ ClockTick \/ Notify
  PROVE  RowsFrom(item) /\ DOMAIN program_runs' = DOMAIN program_runs
PROOF
<1>1. \A r \in DOMAIN program_runs : program_runs[r] \in Rows
  BY LenProperties, ElementOfSeq DEF TypeInd, TypeOK, RunsOK
<1>2. \/ UNCHANGED program_runs
      \/ program_runs' = [r \in DOMAIN program_runs |-> Finalized(program_runs[r])]
      \/ \E p \in Programs : program_runs' =
           [r \in DOMAIN program_runs |->
              IF program_runs[r].program = p THEN [program_runs[r] EXCEPT !.program = NoProgram] ELSE program_runs[r]]
  BY DEF FinalizeOrphans, FinalizeFails, WebStep, ClockTick, Notify, SaveProgram, ToggleProgram, DeleteProgram,
         ToggleZone, RunNow, QuickRun, Request, db
<1>3. DOMAIN program_runs' = DOMAIN program_runs
  BY <1>2
<1>4. ASSUME NEW r \in DOMAIN program_runs
      PROVE  /\ program_runs'[r].program \in {program_runs[r].program, NoProgram}
             /\ program_runs'[r].at = program_runs[r].at /\ program_runs'[r].boot = program_runs[r].boot
  <2>1. program_runs[r] \in Rows
    BY <1>1
  <2>2. /\ Finalized(program_runs[r]).program = program_runs[r].program
        /\ Finalized(program_runs[r]).at = program_runs[r].at
        /\ Finalized(program_runs[r]).boot = program_runs[r].boot
    BY <2>1 DEF Finalized, Rows
  <2> QED BY <1>2, <2>1, <2>2 DEF Rows
<1> QED BY <1>3, <1>4 DEF RowsFrom

-----------------------------------------------------------------------------
(* The invariant, step by step.                                            *)

\* Keys of rows are of the types the window is about.
LEMMA KeyTypes ==
  ASSUME TypeInd, NEW r \in DOMAIN program_runs, Keyed(program_runs[r])
  PROVE  /\ program_runs[r] \in Rows /\ program_runs[r].program \in Programs /\ program_runs[r].at \in Nat
         /\ program_runs[r].program # NoProgram
PROOF
<1>1. program_runs[r] \in Rows
  BY LenProperties, ElementOfSeq DEF TypeInd, TypeOK, RunsOK
<1> QED BY <1>1 DEF Rows, Times, Keyed

\* Whatever is recorded is recorded in this life, and what an earlier one
\* recorded stays known.
LEMMA RecordsFresh ==
  ASSUME TypeInd, RestartInd, WindowOK, NEW item, RowsFrom(item), boot' = boot,
         DOMAIN program_runs' = DOMAIN program_runs \/ Fresh(Key(item))
  PROVE  PastKnown' /\ RestartNeverRefires' /\ \A key : Fresh(key) => Fresh(key)'
PROOF
<1>1. ASSUME NEW r \in DOMAIN program_runs, r \in DOMAIN program_runs', Keyed(program_runs[r])'
      PROVE  /\ Keyed(program_runs[r]) /\ KeyOf(program_runs'[r]) = KeyOf(program_runs[r])
             /\ program_runs'[r].program = program_runs[r].program /\ program_runs'[r].at = program_runs[r].at
             /\ program_runs'[r].boot = program_runs[r].boot
  BY <1>1 DEF RowsFrom, Keyed, KeyOf
<1>2. ASSUME NEW r \in DOMAIN program_runs', r \notin DOMAIN program_runs
      PROVE  /\ program_runs'[r].boot = boot /\ KeyOf(program_runs'[r]) = Key(item) /\ Fresh(Key(item))
             /\ program_runs'[r].program = item.program /\ program_runs'[r].at = item.at
  BY <1>2 DEF RowsFrom, KeyOf, Key
<1>3. PastKnown'
  <2> SUFFICES ASSUME Loaded', NEW r \in DOMAIN program_runs', Keyed(program_runs[r])', program_runs'[r].boot # boot
               PROVE  Known(KeyOf(program_runs[r]))'
    BY DEF PastKnown
  <2>1. r \in DOMAIN program_runs
    BY <1>2
  <2>2. /\ Keyed(program_runs[r]) /\ KeyOf(program_runs'[r]) = KeyOf(program_runs[r])
        /\ program_runs[r].boot # boot
    BY <1>1, <2>1
  <2>3. Known(KeyOf(program_runs[r]))
    BY <2>1, <2>2 DEF RestartInd, PastKnown, WindowOK
  <2>4. PICK p \in Programs, at \in Nat : KeyOf(program_runs[r]) = <<p, at>>
    BY <2>1, <2>2, KeyTypes DEF KeyOf
  <2>5. Known(<<p, at>>)'
    BY <2>3, <2>4 DEF WindowOK, Remembers
  <2>6. KeyOf(program_runs[r])' = <<p, at>>
    BY <2>2, <2>4 DEF KeyOf
  <2> QED BY <2>5, <2>6 DEF Known
<1>4. ASSUME NEW key, Fresh(key) PROVE Fresh(key)'
  BY <1>1, <1>2, <1>4 DEF Fresh
<1>5. RestartNeverRefires'
  <2> SUFFICES ASSUME NEW r \in DOMAIN program_runs', NEW s \in DOMAIN program_runs',
                      program_runs'[r].at # None, program_runs'[r].at = program_runs'[s].at,
                      program_runs'[r].program = program_runs'[s].program, program_runs'[r].program # NoProgram
               PROVE  program_runs'[r].boot = program_runs'[s].boot
    BY DEF RestartNeverRefires
  <2>1. Keyed(program_runs[r])' /\ Keyed(program_runs[s])' /\ KeyOf(program_runs'[r]) = KeyOf(program_runs'[s])
    BY DEF Keyed, KeyOf
  <2>2. CASE r \in DOMAIN program_runs /\ s \in DOMAIN program_runs
    BY <1>1, <2>1, <2>2 DEF RestartInd, RestartNeverRefires, Keyed
  <2>3. CASE r \notin DOMAIN program_runs /\ s \notin DOMAIN program_runs
    BY <1>2, <2>3
  <2>4. CASE r \in DOMAIN program_runs /\ s \notin DOMAIN program_runs
    <3>1. Keyed(program_runs[r]) /\ KeyOf(program_runs[r]) = Key(item) /\ Fresh(Key(item))
      BY <1>1, <1>2, <2>1, <2>4
    <3>2. program_runs[r].boot = boot
      BY <2>4, <3>1 DEF Fresh
    <3> QED BY <1>1, <1>2, <2>1, <2>4, <3>2
  <2>5. CASE r \notin DOMAIN program_runs /\ s \in DOMAIN program_runs
    <3>1. Keyed(program_runs[s]) /\ KeyOf(program_runs[s]) = Key(item) /\ Fresh(Key(item))
      BY <1>1, <1>2, <2>1, <2>5
    <3>2. program_runs[s].boot = boot
      BY <2>5, <3>1 DEF Fresh
    <3> QED BY <1>1, <1>2, <2>1, <2>5, <3>2
  <2> QED BY <2>2, <2>3, <2>4, <2>5
<1> QED BY <1>3, <1>4, <1>5

\* A request belongs to no occurrence.
LEMMA UnscheduledFresh == ASSUME NEW item, item.at = None PROVE Fresh(Key(item))
  BY DEF Fresh, Keyed, KeyOf, Key

\* An occurrence nobody knows was recorded, if at all, in this life.
LEMMA UnknownFresh == ASSUME RestartInd, Loaded, NEW key, ~Known(key) PROVE Fresh(key)
  BY DEF RestartInd, PastKnown, Fresh

\* An occurrence that is not skipped is not known.
LEMMA EvaluatedUnknown ==
  ASSUME TypeInd, WindowInd, loop.pc = "evaluate", NEW occ \in loop.work, ~Skipped(loop.program, occ)
  PROVE  Loaded /\ ~Known(<<loop.program, occ>>) /\ occ \in Nat
PROOF
<1>1. occ \in Nat /\ loop.now \in Nat /\ Lookback \in Nat /\ Horizon = loop.now
  BY WindowTypes DEF Horizon
<1>2. occ > loop.now - Lookback /\ Loaded
  BY DEF WindowInd, Loaded
<1>3. <<loop.program, occ>> \notin fired
  BY DEF Skipped
<1> QED BY <1>1, <1>2, <1>3 DEF Known

\* A step of the loop that starts no run keeps the invariant, if what it queues
\* and what it is about to record are fresh.
LEMMA LoopFresh ==
  ASSUME TypeInd, RestartInd, WindowOK, NEW item, RowsFrom(item), boot' = boot,
         DOMAIN program_runs' = DOMAIN program_runs \/ Fresh(Key(item)),
         UNCHANGED <<tasks, calls>>, loop.pc # "stopped",
         \A i \in DOMAIN queue' : Fresh(Key(queue'[i])),
         loop'.pc = "insert_missed" => \A occ \in loop'.work : IsNext(occ)' => Fresh(<<loop'.program, occ>>)
  PROVE  RestartInd'
PROOF
<1>1. PastKnown' /\ RestartNeverRefires' /\ \A key : Fresh(key) => Fresh(key)'
  BY RecordsFresh
<1>2. /\ \A t \in Slots : tasks[t].pc # "idle" => Fresh(Key(tasks[t].item))
      /\ \A c \in Calls : calls[c].pc = "clearing" => \A i \in DOMAIN calls[c].items : Fresh(Key(calls[c].items[i]))
      /\ \A c \in ShutdownCalls : ~InCall(c)
  BY DEF RestartInd, OnTheWayFresh, ShutdownAlone
<1>3. OnTheWayFresh'
  <2>1. \A i \in DOMAIN queue' : Fresh(Key(queue[i]))'
    <3> SUFFICES ASSUME NEW i \in DOMAIN queue' PROVE Fresh(Key(queue[i]))'
      OBVIOUS
    <3>1. Fresh(Key(queue'[i]))
      OBVIOUS
    <3> QED BY <1>1, <3>1 DEF Fresh, Key
  <2>2. \A t \in Slots : tasks'[t].pc # "idle" => Fresh(Key(tasks[t].item))'
    BY <1>1, <1>2 DEF Fresh, Key
  <2>3. \A c \in Calls : calls'[c].pc = "clearing" =>
          \A i \in DOMAIN calls'[c].items : Fresh(Key(calls[c].items[i]))'
    BY <1>1, <1>2 DEF Fresh, Key
  <2>4. loop'.pc = "insert_missed" => \A occ \in loop'.work : IsNext(occ)' => Fresh(<<loop.program, occ>>)'
    BY <1>1 DEF Fresh
  <2> QED BY <2>1, <2>2, <2>3, <2>4 DEF OnTheWayFresh
<1>4. ShutdownAlone'
  BY <1>2 DEF ShutdownAlone, InCall
<1> QED BY <1>1, <1>3, <1>4 DEF RestartInd, WindowOK

\* The tick, its orphans and its refresh.
LEMMA TickFresh ==
  ASSUME TypeInd, TypeInd', RestartInd,
         \/ TickBegins \/ FinalizeOrphans \/ FinalizeFails \/ FetchPrograms \/ FetchSteps \/ ClaimRequests \/ RefreshFails
         \/ RefreshDone
  PROVE  RestartInd'
PROOF
<1>1. UNCHANGED <<tasks, calls, queue, boot>>
  BY DEF TickBegins, FinalizeOrphans, FinalizeFails, FetchPrograms, FetchSteps, ClaimRequests, RefreshFails, RefreshDone,
         LoopUnchanged
<1>2. loop \in Loops /\ loop.pc \notin {"stopped", "evaluate", "insert_missed"} /\ loop.now \in Nat
  BY WindowTypes DEF TickBegins, FinalizeOrphans, FinalizeFails, FetchPrograms, FetchSteps, ClaimRequests, RefreshFails,
         RefreshDone, Awaits
<1>3. WindowOK
  BY TickWindow, RefreshedWindow DEF RestartInd
<1>4. loop'.pc # "insert_missed"
  <2>1. CASE TickBegins
    <3>1. [loop EXCEPT !.now = now] \in Loops /\ [loop EXCEPT !.now = now, !.pc = "finalize"].pc = "finalize"
      BY <1>2, WindowTypes DEF Loops
    <3>2. \/ loop' = Refreshing([loop EXCEPT !.now = now])
          \/ loop' = [[loop EXCEPT !.now = now] EXCEPT !.pc = "finalize"]
      BY <2>1 DEF TickBegins
    <3>3. [[loop EXCEPT !.now = now] EXCEPT !.pc = "finalize"].pc = "finalize"
      BY <3>1 DEF Loops
    <3>4. CASE loop' = Refreshing([loop EXCEPT !.now = now])
      BY <3>1, <3>4, TickFields
    <3> QED BY <3>2, <3>3, <3>4
  <2>2. CASE FinalizeOrphans \/ RefreshDone
    BY <1>2, <2>2, TickFields DEF FinalizeOrphans, RefreshDone
  <2>3. CASE FinalizeFails \/ FetchPrograms \/ FetchSteps \/ ClaimRequests
    BY <1>2, <2>3 DEF FinalizeFails, FetchPrograms, FetchSteps, ClaimRequests, Loops
  <2>4. CASE RefreshFails
    <3>1. [loop EXCEPT !.rows = InitialPrograms] \in Loops
      BY <1>2, DataAssumption DEF Loops
    <3>2. loop' = Evaluating([loop EXCEPT !.rows = InitialPrograms], ready) /\ ready \in BOOLEAN
      BY <2>4, WindowTypes DEF RefreshFails
    <3> QED BY <3>1, <3>2, TickFields
  <2> QED BY <2>1, <2>2, <2>3, <2>4
<1>5. RowsFrom(NoItem) /\ DOMAIN program_runs' = DOMAIN program_runs
  <2>1. CASE FinalizeOrphans \/ FinalizeFails
    BY <2>1, RewrittenRows
  <2>2. CASE TickBegins \/ FetchPrograms \/ FetchSteps \/ ClaimRequests \/ RefreshFails \/ RefreshDone
    <3>1. UNCHANGED program_runs
      BY <2>2 DEF TickBegins, FetchPrograms, FetchSteps, ClaimRequests, RefreshFails, RefreshDone
    <3> QED BY <3>1, SameRows
  <2> QED BY <2>1, <2>2
<1>6. \A i \in DOMAIN queue' : Fresh(Key(queue'[i]))
  BY <1>1 DEF RestartInd, OnTheWayFresh
<1> QED BY <1>1, <1>2, <1>3, <1>4, <1>5, <1>6, LoopFresh

\* The fired-set read again.
LEMMA ReadFresh == ASSUME TypeInd, RestartInd, ReadRunKeys PROVE RestartInd'
PROOF
<1>1. /\ UNCHANGED <<tasks, calls, queue, boot, program_runs>> /\ loop.pc = "run_keys" /\ loop'.pc = "claim"
  BY WindowTypes DEF ReadRunKeys, LoopUnchanged, Awaits, Loops
<1>2. WindowInd' /\ \A r \in DOMAIN program_runs : Keyed(program_runs[r]) => Known(KeyOf(program_runs[r]))'
  BY ReadWindow DEF RestartInd
<1>3. PastKnown'
  BY <1>1, <1>2 DEF PastKnown
<1>4. OnTheWayFresh'
  BY <1>1 DEF RestartInd, OnTheWayFresh, Fresh, Key
<1>5. ShutdownAlone' /\ RestartNeverRefires'
  BY <1>1 DEF RestartInd, ShutdownAlone, InCall, RestartNeverRefires
<1> QED BY <1>2, <1>3, <1>4, <1>5 DEF RestartInd

\* Requests belong to no occurrence.
LEMMA AdmitFresh ==
  ASSUME TypeInd, TypeInd', QueueInd, RestartInd, AdmitStep \/ RequestsAdmitted PROVE RestartInd'
PROOF
<1>1. UNCHANGED <<tasks, calls, boot>> /\ loop.pc \in {"admit", "insert_request_missed"} /\ loop \in Loops
  BY WindowTypes DEF AdmitStep, RequestsAdmitted, IgnoreRequest, OverflowRequest, AdmitRequest, InsertRequestMissed,
         AdmitUnchanged, LoopUnchanged, Awaits
<1>2. WindowOK
  BY AdmitWindow DEF RestartInd
<1>3. loop'.pc # "insert_missed"
  <2>1. \/ \E req : loop' = Handled(req)
        \/ \E pc \in {"insert_request_missed", "weather_settings"} : loop' = [loop EXCEPT !.pc = pc]
    BY DEF AdmitStep, RequestsAdmitted, IgnoreRequest, OverflowRequest, AdmitRequest, InsertRequestMissed
  <2> QED BY <1>1, <2>1 DEF Handled, Loops
<1>4. \A req \in loop.reqs : req.at = None /\ req \in Items
  BY WindowTypes DEF QueueInd, RequestsOrdered
<1>5. \A i \in DOMAIN queue : Fresh(Key(queue[i]))
  BY DEF RestartInd, OnTheWayFresh
<1>6. CASE UNCHANGED <<program_runs, queue>>
  <2>1. RowsFrom(NoItem)
    BY <1>6, SameRows
  <2> QED BY <1>1, <1>2, <1>3, <1>5, <1>6, <2>1, LoopFresh
<1>7. ASSUME NEW req \in loop.reqs, InsertRequestMissed(req) PROVE RestartInd'
  <2>1. UNCHANGED queue /\ (Inserts(req, "missed", <<>>) \/ InsertFails(req, "missed", <<>>))
    BY <1>7 DEF InsertRequestMissed
  <2>2. RowsFrom(req)
    <3>1. req \in Items /\ <<>> \in Seq(Marks) /\ "missed" \in Statuses
      BY <1>4 DEF Statuses
    <3> QED BY <2>1, <3>1, InsertedRow
  <2>3. Fresh(Key(req))
    BY <1>4, UnscheduledFresh
  <2> QED BY <1>1, <1>2, <1>3, <1>5, <2>1, <2>2, <2>3, LoopFresh
<1>8. ASSUME NEW req \in loop.reqs, AdmitRequest(req) PROVE RestartInd'
  <2>1. queue \in Seq(Items)
    BY DEF TypeInd, TypeOK, QueueOK
  <2>2. PICK i \in 1 .. Len(queue) + 1 : queue' = InsertAt(queue, i, req)
    BY <1>8 DEF AdmitRequest
  <2>3. \A j \in DOMAIN queue' : queue'[j] = req \/ \E m \in DOMAIN queue : queue'[j] = queue[m]
    <3>1. req \in Items
      BY <1>4
    <3> QED BY <2>1, <2>2, <3>1, Inserted
  <2>4. Fresh(Key(req))
    BY <1>4, UnscheduledFresh
  <2>5. \A j \in DOMAIN queue' : Fresh(Key(queue'[j]))
    BY <1>5, <2>3, <2>4
  <2>6. UNCHANGED program_runs
    BY <1>8 DEF AdmitRequest
  <2>7. RowsFrom(NoItem)
    BY <2>6, SameRows
  <2> QED BY <1>1, <1>2, <1>3, <2>5, <2>6, <2>7, LoopFresh
<1>9. CASE RequestsAdmitted \/ \E req \in loop.reqs : IgnoreRequest(req) \/ OverflowRequest(req)
  BY <1>6, <1>9 DEF RequestsAdmitted, IgnoreRequest, OverflowRequest
<1> QED BY <1>7, <1>8, <1>9 DEF AdmitStep

\* An occurrence queued or recorded as missed was known to nobody.
LEMMA EvaluateFresh ==
  ASSUME TypeInd, TypeInd', RestartInd,
         EvaluateProgram \/ SkipOccurrence \/ MissOccurrence \/ AdmitOccurrence \/ InsertMissed \/ EvaluateDone
  PROVE  RestartInd'
PROOF
<1>1. /\ UNCHANGED <<tasks, calls, boot>> /\ loop.pc \in {"evaluate", "insert_missed"}
      /\ loop \in Loops /\ loop.work \subseteq Nat /\ loop.program \in Programs \cup {NoProgram}
  BY WindowTypes DEF EvaluateProgram, SkipOccurrence, MissOccurrence, AdmitOccurrence, InsertMissed, EvaluateDone,
         EvaluateUnchanged, LoopUnchanged, Awaits
<1>2. WindowOK
  BY EvaluateWindow DEF RestartInd
<1>3. \A i \in DOMAIN queue : Fresh(Key(queue[i]))
  BY DEF RestartInd, OnTheWayFresh
<1>4. UNCHANGED program_runs => RowsFrom(NoItem)
  BY SameRows
<1>5. \A occ \in loop.work : loop.pc = "evaluate" /\ ~Skipped(loop.program, occ) => Fresh(<<loop.program, occ>>)
  BY EvaluatedUnknown, UnknownFresh DEF RestartInd
<1>6. \A occ : Examined(occ).pc = "evaluate"
  BY <1>1 DEF Examined, Loops
<1>7. CASE EvaluateProgram
  <2>1. UNCHANGED <<program_runs, queue>> /\ loop'.pc = "evaluate"
    BY <1>1, <1>7 DEF EvaluateProgram, Loops
  <2> QED BY <1>1, <1>2, <1>3, <1>4, <2>1, LoopFresh
<1>8. CASE SkipOccurrence
  <2>1. UNCHANGED <<program_runs, queue>> /\ loop'.pc = "evaluate"
    BY <1>6, <1>8 DEF SkipOccurrence
  <2> QED BY <1>1, <1>2, <1>3, <1>4, <2>1, LoopFresh
<1>9. CASE EvaluateDone
  <2>1. UNCHANGED <<program_runs, queue>> /\ loop'.pc = "pump"
    BY <1>1, <1>9 DEF EvaluateDone, Loops
  <2> QED BY <1>1, <1>2, <1>3, <1>4, <2>1, LoopFresh
<1>10. CASE MissOccurrence
  <2>1. /\ UNCHANGED <<program_runs, queue>> /\ loop'.program = loop.program /\ loop'.work = loop.work
        /\ loop.pc = "evaluate"
    BY <1>1, <1>10 DEF MissOccurrence, Loops
  <2>2. PICK occ \in loop.work : IsNext(occ) /\ ~Skipped(loop.program, occ)
    BY <1>10 DEF MissOccurrence
  <2>3. \A o \in loop.work : (\A m \in loop.work : o <= m) => o = occ
    BY <1>1, <2>2 DEF IsNext
  <2>4. \A o \in loop'.work : IsNext(o)' => Fresh(<<loop'.program, o>>)
    BY <1>5, <2>1, <2>2, <2>3 DEF IsNext
  <2> QED BY <1>1, <1>2, <1>3, <1>4, <2>1, <2>4, LoopFresh
<1>11. CASE AdmitOccurrence
  <2>1. PICK occ \in loop.work : /\ ~Skipped(loop.program, occ)
                                 /\ queue' = Append(queue, Item(loop.program, occ, 0, <<>>))
                                 /\ loop' = Examined(occ)
    BY <1>11 DEF AdmitOccurrence
  <2> DEFINE item == Item(loop.program, occ, 0, <<>>)
  <2>2. item \in Items /\ Key(item) = <<loop.program, occ>>
    BY <1>1 DEF Item, Items, Times, Key
  <2> HIDE DEF item
  <2>3. queue \in Seq(Items) /\ queue' = Append(queue, item)
    BY <2>1 DEF item, TypeInd, TypeOK, QueueOK
  <2>4. /\ queue' \in Seq(Items) /\ Len(queue') = Len(queue) + 1 /\ queue'[Len(queue) + 1] = item
        /\ \A i \in 1 .. Len(queue) : queue'[i] = queue[i]
    BY <2>2, <2>3, AppendProperties
  <2>5. Len(queue) \in Nat /\ DOMAIN queue = 1 .. Len(queue) /\ DOMAIN queue' = 1 .. Len(queue) + 1
    BY <2>3, <2>4, LenProperties
  <2>6. UNCHANGED program_runs /\ loop.pc = "evaluate"
    BY <1>11 DEF AdmitOccurrence
  <2>7. \A i \in DOMAIN queue' : Fresh(Key(queue'[i]))
    BY <1>3, <1>5, <2>1, <2>2, <2>4, <2>5, <2>6
  <2> QED BY <1>1, <1>2, <1>4, <1>6, <2>1, <2>6, <2>7, LoopFresh
<1>12. CASE InsertMissed
  <2>1. PICK occ \in loop.work :
          /\ IsNext(occ) /\ loop' = Examined(occ)
          /\ \/ Inserts(Item(loop.program, occ, 0, <<>>), "missed", <<>>)
             \/ InsertFails(Item(loop.program, occ, 0, <<>>), "missed", <<>>)
    BY <1>12 DEF InsertMissed
  <2> DEFINE item == Item(loop.program, occ, 0, <<>>)
  <2>2. item \in Items /\ Key(item) = <<loop.program, occ>>
    BY <1>1 DEF Item, Items, Times, Key
  <2>3. RowsFrom(item)
    <3>1. Inserts(item, "missed", <<>>) \/ InsertFails(item, "missed", <<>>)
      BY <2>1
    <3> HIDE DEF item
    <3>2. <<>> \in Seq(Marks) /\ "missed" \in Statuses
      BY DEF Statuses
    <3> QED BY <2>2, <3>1, <3>2, InsertedRow
  <2>4. UNCHANGED queue /\ loop.pc = "insert_missed"
    BY <1>12 DEF InsertMissed, Awaits
  <2>5. Fresh(Key(item))
    BY <2>1, <2>2, <2>4 DEF RestartInd, OnTheWayFresh
  <2> HIDE DEF item
  <2> QED BY <1>1, <1>2, <1>3, <1>6, <2>1, <2>3, <2>4, <2>5, LoopFresh
<1> QED BY <1>7, <1>8, <1>9, <1>10, <1>11, <1>12

\* A run that goes on goes on with its item and its row, into its steps only from
\* its setup or by the insert that gives it the row.
LEMMA RunGoesOnAs ==
  ASSUME TypeInd, NEW t \in Slots, RunTaskStep(t)
  PROVE  \E n : /\ tasks' = [tasks EXCEPT ![t] = n]
                /\ n.pc # "idle" => /\ n.item = tasks[t].item
                                    /\ n.row = tasks[t].row \/ RunInserted(t)
                                    /\ n.pc \in SetupPcs => tasks[t].pc \in SetupPcs
                                    /\ n.pc \in OwnerPcs => tasks[t].pc \in OwnerPcs \/ RunInserted(t)
PROOF
<1> DEFINE k == tasks[t]
<1>1. k \in Tasks
  BY DEF TypeInd, TypeOK, RunsOK
<1>2. IdleTask.pc = "idle"
  BY DEF IdleTask
<1> HIDE DEF k
<1>3. CASE \/ TerminalRecorded(t) \/ SetupFails(t) \/ RunFinished(t) \/ HandlerFails(t)
           \/ CancelUnstarted(t) \/ CancelHandler(t)
  BY <1>2, <1>3 DEF TerminalRecorded, SetupFails, RunFinished, HandlerFails, CancelUnstarted, CancelHandler, Exits, Becomes
<1>4. ASSUME NEW pc \in TaskPcs, Goes(t, pc), pc \in SetupPcs => k.pc \in SetupPcs, pc \in OwnerPcs => k.pc \in OwnerPcs
      PROVE  \E n : /\ tasks' = [tasks EXCEPT ![t] = n]
                    /\ n.item = k.item /\ n.row = k.row
                    /\ n.pc \in SetupPcs => k.pc \in SetupPcs
                    /\ n.pc \in OwnerPcs => k.pc \in OwnerPcs
  <2>1. /\ [k EXCEPT !.pc = pc].pc = pc /\ [k EXCEPT !.pc = pc].item = k.item
        /\ [k EXCEPT !.pc = pc].row = k.row
    BY <1>1 DEF Tasks
  <2>2. tasks' = [tasks EXCEPT ![t] = [k EXCEPT !.pc = pc]]
    BY <1>4 DEF Goes, Becomes, k
  <2> QED BY <1>4, <2>1, <2>2
<1>5. ASSUME NEW pc \in TaskPcs, NEW status, Ends(t, pc, status), pc \in SetupPcs => k.pc \in SetupPcs,
             pc \in OwnerPcs => k.pc \in OwnerPcs
      PROVE  \E n : /\ tasks' = [tasks EXCEPT ![t] = n]
                    /\ n.item = k.item /\ n.row = k.row
                    /\ n.pc \in SetupPcs => k.pc \in SetupPcs
                    /\ n.pc \in OwnerPcs => k.pc \in OwnerPcs
  <2> DEFINE n == [k EXCEPT !.pc = pc, !.status = status, !.cancel = FALSE]
  <2>1. n.pc = pc /\ n.item = k.item /\ n.row = k.row
    BY <1>1 DEF Tasks
  <2>2. tasks' = [tasks EXCEPT ![t] = n]
    BY <1>5 DEF Ends, Becomes, k
  <2> HIDE DEF n
  <2> QED BY <1>5, <2>1, <2>2
<1>6. CASE RunBegins(t) \/ RainDelayRead(t) \/ WeatherDecided(t) \/ ZonesFetched(t)
  <2>1. k.pc \in SetupPcs
    BY <1>6 DEF RunBegins, RainDelayRead, WeatherDecided, ZonesFetched, At, SetupPcs, k
  <2>2. \/ \E pc \in SetupPcs : Goes(t, pc) \/ \E status : Ends(t, pc, status)
        \/ tasks' = [tasks EXCEPT ![t] = [tasks[t] EXCEPT !.pc = "insert_running", !.zones = enabled_zones]]
    BY <1>6 DEF RunBegins, RainDelayRead, WeatherDecided, ZonesFetched, Becomes, SetupPcs
  <2>3. \A pc \in SetupPcs : pc \in TaskPcs /\ pc \notin OwnerPcs
    BY DEF TaskPcs, SetupPcs, OwnerPcs, RunPcs, HandlerPcs
  <2>4. CASE tasks' = [tasks EXCEPT ![t] = [tasks[t] EXCEPT !.pc = "insert_running", !.zones = enabled_zones]]
    <3>1. /\ [tasks[t] EXCEPT !.pc = "insert_running", !.zones = enabled_zones].pc = "insert_running"
          /\ [tasks[t] EXCEPT !.pc = "insert_running", !.zones = enabled_zones].item = tasks[t].item
          /\ [tasks[t] EXCEPT !.pc = "insert_running", !.zones = enabled_zones].row = tasks[t].row
      BY <1>1 DEF Tasks, k
    <3>2. "insert_running" \notin OwnerPcs
      BY DEF OwnerPcs, RunPcs, HandlerPcs
    <3> QED BY <2>1, <2>4, <3>1, <3>2 DEF k
  <2> QED BY <1>4, <1>5, <2>1, <2>2, <2>3, <2>4 DEF k
<1>7. CASE RunInserted(t)
  <2>1. tasks' = [tasks EXCEPT ![t] = [tasks[t] EXCEPT !.pc = "fetch_step_zones", !.row = Len(program_runs) + 1]]
    BY <1>7 DEF RunInserted, Becomes
  <2>2. /\ [tasks[t] EXCEPT !.pc = "fetch_step_zones", !.row = Len(program_runs) + 1].pc = "fetch_step_zones"
        /\ [tasks[t] EXCEPT !.pc = "fetch_step_zones", !.row = Len(program_runs) + 1].item = tasks[t].item
        /\ "fetch_step_zones" \notin SetupPcs
    BY <1>1 DEF Tasks, SetupPcs, k
  <2> QED BY <1>7, <2>1, <2>2
<1>8. CASE StepZonesFetched(t)
  <2>1. k.pc \in OwnerPcs
    BY <1>8 DEF StepZonesFetched, At, OwnerPcs, RunPcs, HandlerPcs, k
  <2>2. PICK zones : tasks' = [tasks EXCEPT ![t] = [k EXCEPT !.zones = zones,
                                 !.pc = IF k.steps[Position(k)] \in zones THEN "start" ELSE "mark_skipped"]]
    BY <1>8 DEF StepZonesFetched, Becomes, k
  <2> DEFINE pc == IF k.steps[Position(k)] \in zones THEN "start" ELSE "mark_skipped"
             n == [k EXCEPT !.zones = zones, !.pc = pc]
  <2>3. n.pc = pc /\ pc \in {"start", "mark_skipped"} /\ pc \notin SetupPcs /\ n.item = k.item /\ n.row = k.row
    BY <1>1 DEF Tasks, SetupPcs
  <2>4. tasks' = [tasks EXCEPT ![t] = n]
    BY <2>2
  <2> HIDE DEF n
  <2> QED BY <2>1, <2>3, <2>4 DEF k
<1>9. CASE StartFails(t) \/ StepStarted(t)
  <2>1. k.pc \in OwnerPcs
    BY <1>9 DEF StartFails, StepStarted, At, OwnerPcs, RunPcs, HandlerPcs, k
  <2>2. \/ \E pc \in {"start", "mark_failed"} : tasks' = [tasks EXCEPT ![t] = [k EXCEPT !.attempt = 2, !.pc = pc]]
        \/ tasks' = [tasks EXCEPT ![t] = [k EXCEPT !.pc = "sleep", !.wake = now + StepMinutes]]
    BY <1>9 DEF StartFails, StepStarted, Becomes, k
  <2>3. \A pc \in {"start", "mark_failed"} :
          /\ [k EXCEPT !.attempt = 2, !.pc = pc].pc = pc /\ pc \notin SetupPcs
          /\ [k EXCEPT !.attempt = 2, !.pc = pc].item = k.item /\ [k EXCEPT !.attempt = 2, !.pc = pc].row = k.row
    BY <1>1 DEF Tasks, SetupPcs
  <2>4. /\ [k EXCEPT !.pc = "sleep", !.wake = now + StepMinutes].pc = "sleep" /\ "sleep" \notin SetupPcs
        /\ [k EXCEPT !.pc = "sleep", !.wake = now + StepMinutes].item = k.item
        /\ [k EXCEPT !.pc = "sleep", !.wake = now + StepMinutes].row = k.row
    BY <1>1 DEF Tasks, SetupPcs
  <2> QED BY <2>1, <2>2, <2>3, <2>4 DEF k
<1>10. CASE StepEnds(t)
  <2>1. k.pc \in OwnerPcs /\ StepMark[k.pc] \in Outcomes
    BY <1>10 DEF StepEnds, At, OwnerPcs, RunPcs, HandlerPcs, StepMark, Outcomes, k
  <2>2. PICK n : n = AfterStep(k, StepMark[k.pc]) /\ tasks' = [tasks EXCEPT ![t] = n]
    BY <1>10 DEF StepEnds, Becomes, k
  <2>3. n.item = k.item /\ n.row = k.row /\ n.pc \in {"fetch_step_zones", "stop", "finish"}
    BY <1>1, <2>1, <2>2, AfterStepFields
  <2> QED BY <2>1, <2>2, <2>3 DEF SetupPcs, k
<1>11. CASE \/ ZoneStarts(t) \/ StartReplies(t) \/ StartRepliesUntracked(t) \/ StepSlept(t) \/ RunStops(t)
            \/ RunCrashes(t) \/ InFlightCancelled(t) \/ CancelRun(t)
  <2>1. k.pc \in OwnerPcs
    BY <1>11 DEF ZoneStarts, StartReplies, StartRepliesUntracked, StepSlept, RunStops, RunCrashes, InFlightCancelled,
         CancelRun, At, Cancelling, OwnerPcs, RunPcs, HandlerPcs, k
  <2>2. \E pc \in OwnerPcs : Goes(t, pc) \/ \E status : Ends(t, pc, status)
    BY <1>11 DEF ZoneStarts, StartReplies, StartRepliesUntracked, StepSlept, RunStops, RunCrashes, InFlightCancelled,
         CancelRun, OwnerPcs, RunPcs, HandlerPcs
  <2>3. \A pc \in OwnerPcs : pc \in TaskPcs /\ pc \notin SetupPcs
    BY DEF TaskPcs, SetupPcs, OwnerPcs, RunPcs, HandlerPcs
  <2> QED BY <1>4, <1>5, <2>1, <2>2, <2>3 DEF k
<1>12. CASE CancelSetup(t)
  <2>1. k.pc \in SetupPcs
    BY <1>12 DEF CancelSetup, Cancelling, k
  <2>2. Ends(t, "cancel_record", "cancelled") \/ tasks' = [tasks EXCEPT ![t] = IdleTask]
    BY <1>12 DEF CancelSetup, Exits, Becomes
  <2>3. "cancel_record" \in TaskPcs /\ "cancel_record" \notin OwnerPcs
    BY DEF TaskPcs, SetupPcs, OwnerPcs
  <2> QED BY <1>2, <1>5, <2>1, <2>2, <2>3 DEF k
<1> QED BY <1>3, <1>6, <1>7, <1>8, <1>9, <1>10, <1>11, <1>12 DEF RunTaskStep

\* Any other step keeps the invariant if what it queues, runs and clears is fresh.
LEMMA OtherFresh ==
  ASSUME TypeInd, RestartInd, WindowOK, NEW item, RowsFrom(item), boot' = boot,
         DOMAIN program_runs' = DOMAIN program_runs \/ Fresh(Key(item)),
         \A i \in DOMAIN queue' : Fresh(Key(queue'[i])),
         \A t \in Slots : tasks'[t].pc # "idle" => Fresh(Key(tasks'[t].item)),
         \A c \in Calls : calls'[c].pc = "clearing" => \A i \in DOMAIN calls'[c].items : Fresh(Key(calls'[c].items[i])),
         loop'.pc # "insert_missed" \/ UNCHANGED loop, ShutdownAlone'
  PROVE  RestartInd'
PROOF
<1>1. PastKnown' /\ RestartNeverRefires' /\ \A key : Fresh(key) => Fresh(key)'
  BY RecordsFresh
<1>2. OnTheWayFresh'
  <2>1. \A i \in DOMAIN queue' : Fresh(Key(queue[i]))'
    <3> SUFFICES ASSUME NEW i \in DOMAIN queue' PROVE Fresh(Key(queue[i]))'
      OBVIOUS
    <3>1. Fresh(Key(queue'[i]))
      OBVIOUS
    <3> QED BY <1>1, <3>1 DEF Fresh, Key
  <2>2. \A t \in Slots : tasks'[t].pc # "idle" => Fresh(Key(tasks[t].item))'
    <3> SUFFICES ASSUME NEW t \in Slots, tasks'[t].pc # "idle" PROVE Fresh(Key(tasks[t].item))'
      OBVIOUS
    <3>1. Fresh(Key(tasks'[t].item))
      OBVIOUS
    <3> QED BY <1>1, <3>1 DEF Fresh, Key
  <2>3. \A c \in Calls : calls'[c].pc = "clearing" =>
          \A i \in DOMAIN calls'[c].items : Fresh(Key(calls[c].items[i]))'
    <3> SUFFICES ASSUME NEW c \in Calls, calls'[c].pc = "clearing", NEW i \in DOMAIN calls'[c].items
                 PROVE  Fresh(Key(calls[c].items[i]))'
      OBVIOUS
    <3>1. Fresh(Key(calls'[c].items[i]))
      OBVIOUS
    <3> QED BY <1>1, <3>1 DEF Fresh, Key
  <2>4. loop'.pc = "insert_missed" => \A occ \in loop'.work : IsNext(occ)' => Fresh(<<loop.program, occ>>)'
    BY <1>1 DEF RestartInd, OnTheWayFresh, IsNext, Fresh
  <2> QED BY <2>1, <2>2, <2>3, <2>4 DEF OnTheWayFresh
<1> QED BY <1>1, <1>2 DEF RestartInd, WindowOK

\* A step of a run.
LEMMA RunFresh == ASSUME TypeInd, TypeInd', RestartInd, NEW t \in Slots, RunTaskStep(t) PROVE RestartInd'
PROOF
<1>1. TaskUnchanged /\ tasks[t].pc # "idle"
  BY RunStepIsBusy
<1>2. UNCHANGED <<queue, calls, loop, boot>>
  BY <1>1 DEF TaskUnchanged
<1>3. WindowOK
  BY OthersWindow DEF RestartInd
<1>4. RowsFrom(tasks[t].item)
  BY RunRows
<1>5. Fresh(Key(tasks[t].item))
  BY <1>1 DEF RestartInd, OnTheWayFresh
<1>6. PICK n : tasks' = [tasks EXCEPT ![t] = n] /\ (n.pc # "idle" => n.item = tasks[t].item)
  BY RunGoesOnAs
<1>7. tasks \in [Slots -> Tasks]
  BY DEF TypeInd, TypeOK, RunsOK
<1>8. \A s \in Slots : tasks'[s] = IF s = t THEN n ELSE tasks[s]
  BY <1>6, <1>7
<1>9. \A s \in Slots : tasks'[s].pc # "idle" => Fresh(Key(tasks'[s].item))
  BY <1>5, <1>6, <1>8 DEF RestartInd, OnTheWayFresh
<1>10. /\ \A i \in DOMAIN queue : Fresh(Key(queue[i]))
       /\ \A c \in Calls : calls[c].pc = "clearing" => \A i \in DOMAIN calls[c].items : Fresh(Key(calls[c].items[i]))
  BY DEF RestartInd, OnTheWayFresh
<1>11. ShutdownAlone'
  BY <1>2 DEF RestartInd, ShutdownAlone, InCall
<1> QED BY <1>2, <1>3, <1>4, <1>5, <1>9, <1>10, <1>11, OtherFresh

\* The web app and the clock.
LEMMA WebFresh == ASSUME TypeInd, TypeInd', RestartInd, WebStep \/ ClockTick \/ Notify PROVE RestartInd'
PROOF
<1>1. UNCHANGED <<queue, calls, loop, boot, tasks>>
  BY DEF WebStep, ClockTick, Notify, SaveProgram, ToggleProgram, DeleteProgram, ToggleZone, RunNow, QuickRun,
         Request, Edit, WebUnchanged
<1>2. WindowOK
  BY OthersWindow DEF RestartInd
<1>3. RowsFrom(NoItem) /\ DOMAIN program_runs' = DOMAIN program_runs
  BY RewrittenRows
<1>4. OnTheWayFresh
  BY DEF RestartInd
<1>5. ShutdownAlone'
  BY <1>1 DEF RestartInd, ShutdownAlone, InCall
<1> QED BY <1>1, <1>2, <1>3, <1>4, <1>5, OtherFresh DEF OnTheWayFresh

\* The pump takes its item from the queue.
LEMMA PumpFresh == ASSUME TypeInd, TypeInd', RestartInd, PumpIdle \/ PumpDrops \/ PumpStarts PROVE RestartInd'
PROOF
<1>1. /\ loop \in Loops /\ queue \in Seq(Items) /\ tasks \in [Slots -> Tasks]
      /\ UNCHANGED <<program_runs, calls, boot>> /\ loop.pc = "pump"
  BY DEF TypeInd, TypeOK, QueueOK, RunsOK, PumpIdle, PumpDrops, PumpStarts, PumpUnchanged, db, env
<1>2. loop'.pc # "insert_missed"
  <2>1. loop' \in {loop, TickEnds} /\ TickEnds.pc = "wait"
    BY <1>1 DEF PumpIdle, PumpDrops, PumpStarts, TickEnds, Loops
  <2> QED BY <1>1, <2>1
<1>3. WindowOK
  BY PumpWindow DEF RestartInd
<1>4. RowsFrom(NoItem)
  BY <1>1, SameRows
<1>5. /\ \A i \in DOMAIN queue : Fresh(Key(queue[i]))
      /\ \A c \in Calls : calls[c].pc = "clearing" => \A i \in DOMAIN calls[c].items : Fresh(Key(calls[c].items[i]))
      /\ \A s \in Slots : tasks[s].pc # "idle" => Fresh(Key(tasks[s].item))
  BY DEF RestartInd, OnTheWayFresh
<1>6. ShutdownAlone'
  <2>1. \A c \in ShutdownCalls : ~InCall(c)
    BY <1>1 DEF RestartInd, ShutdownAlone
  <2> QED BY <1>1, <2>1 DEF ShutdownAlone, InCall
<1>7. \A i \in DOMAIN queue' : Fresh(Key(queue'[i]))
  <2>1. CASE queue' = queue
    BY <1>5, <2>1
  <2>2. CASE queue # <<>> /\ queue' = Tail(queue)
    <3>1. /\ Len(queue) \in Nat /\ DOMAIN queue = 1 .. Len(queue) /\ Len(queue') = Len(queue) - 1
          /\ \A i \in 1 .. (Len(queue) - 1) : queue'[i] = queue[i + 1]
          /\ queue' \in Seq(Items)
      BY <1>1, <2>2, HeadTailProperties, LenProperties
    <3>2. DOMAIN queue' = 1 .. (Len(queue) - 1)
      BY <3>1, LenProperties
    <3> QED BY <1>5, <3>1, <3>2
  <2> QED BY <2>1, <2>2 DEF PumpIdle, PumpDrops, PumpStarts
<1>8. \A s \in Slots : tasks'[s].pc # "idle" => Fresh(Key(tasks'[s].item))
  <2>1. CASE UNCHANGED tasks
    BY <1>5, <2>1
  <2>2. CASE PumpStarts
    <3>1. PICK t \in Slots : tasks' = [tasks EXCEPT ![t] = RunTask(Head(queue))]
      BY <2>2 DEF PumpStarts
    <3>2. RunTask(Head(queue)).item = Head(queue)
      BY DEF RunTask, IdleTask
    <3>3. Head(queue) = queue[1] /\ 1 \in DOMAIN queue
      BY <1>1, <2>2, LenProperties, HeadTailProperties, EmptySeq DEF PumpStarts
    <3> QED BY <1>1, <1>5, <3>1, <3>2, <3>3
  <2> QED BY <2>1, <2>2 DEF PumpIdle, PumpDrops
<1> QED BY <1>1, <1>2, <1>3, <1>4, <1>6, <1>7, <1>8, <1>5, OtherFresh

\* A call that is not a shutdown has no shutdown beside it.
LEMMA AloneKept ==
  ASSUME ShutdownAlone, NEW c \in Calls, NEW r, calls' = [calls EXCEPT ![c] = r], UNCHANGED loop,
         calls \in [Calls -> CallRecords], InCall(c) \/ (c \notin ShutdownCalls /\ loop.pc # "stopped")
  PROVE  ShutdownAlone'
PROOF
<1>1. \A d \in Calls \ {c} : InCall(d)' = InCall(d)
  BY DEF InCall
<1>2. \A d \in ShutdownCalls : d \in Calls
  BY DEF Calls
<1>3. CASE InCall(c)
  <2>1. \A d \in ShutdownCalls \ {c} : ~InCall(d)
    BY <1>2, <1>3 DEF ShutdownAlone
  <2>2. c \in ShutdownCalls => loop.pc = "stopped" /\ \A d \in Calls \ {c} : ~InCall(d)
    BY <1>3 DEF ShutdownAlone
  <2> QED BY <1>1, <1>2, <2>1, <2>2 DEF ShutdownAlone
<1>4. CASE c \notin ShutdownCalls /\ loop.pc # "stopped"
  BY <1>1, <1>2, <1>4 DEF ShutdownAlone
<1> QED BY <1>3, <1>4

\* What a call still has to clear was queued or is what is left of it.
LEMMA ClearedRest ==
  ASSUME TypeInd, NEW c \in Calls, NEW items \in Seq(Items), ClearRest(c, items),
         \A i \in DOMAIN items : Fresh(Key(items[i])),
         \A d \in Calls : calls[d].pc = "clearing" => \A i \in DOMAIN calls[d].items : Fresh(Key(calls[d].items[i]))
  PROVE  /\ \E r : calls' = [calls EXCEPT ![c] = r]
         /\ \A d \in Calls : calls'[d].pc = "clearing" =>
              \A i \in DOMAIN calls'[d].items : Fresh(Key(calls'[d].items[i]))
PROOF
<1>1. calls \in [Calls -> CallRecords] /\ Arrived(c) \in CallRecords
  BY ArrivedTypes DEF TypeInd, TypeOK, CallsOK
<1>2. CASE calls' = [calls EXCEPT ![c] = [Arrived(c) EXCEPT !.pc = "command", !.task = None, !.items = <<>>]]
  <2>1. [Arrived(c) EXCEPT !.pc = "command", !.task = None, !.items = <<>>].pc = "command"
    BY <1>1 DEF CallRecords
  <2> QED BY <1>1, <1>2, <2>1
<1>3. CASE calls' = [calls EXCEPT ![c] = [Arrived(c) EXCEPT !.pc = "clearing", !.task = None, !.items = items]]
  <2>1. [Arrived(c) EXCEPT !.pc = "clearing", !.task = None, !.items = items].items = items
    BY <1>1 DEF CallRecords
  <2> QED BY <1>1, <1>3, <2>1
<1> QED BY <1>2, <1>3 DEF ClearRest, CallBecomes

\* The calls, but for a shutdown.
LEMMA CallFresh ==
  ASSUME TypeInd, TypeInd', RestartInd, NEW c \in Calls,
         CancelActive(c) \/ StopClears(c) \/ ItemCleared(c) \/ ManualHolds(c) \/ Command(c)
  PROVE  RestartInd'
PROOF
<1>1. /\ calls \in [Calls -> CallRecords] /\ tasks \in [Slots -> Tasks] /\ queue \in Seq(Items)
      /\ Arrived(c) \in CallRecords /\ UNCHANGED <<loop, boot>>
  BY ArrivedTypes DEF TypeInd, TypeOK, CallsOK, RunsOK, QueueOK, CancelActive, StopClears, ItemCleared, ManualHolds,
         Command, CallUnchanged
<1>2. WindowOK
  BY OthersWindow DEF RestartInd
<1>3. /\ \A i \in DOMAIN queue : Fresh(Key(queue[i]))
      /\ \A d \in Calls : calls[d].pc = "clearing" => \A i \in DOMAIN calls[d].items : Fresh(Key(calls[d].items[i]))
      /\ \A s \in Slots : tasks[s].pc # "idle" => Fresh(Key(tasks[s].item))
  BY DEF RestartInd, OnTheWayFresh
<1>4. InCall(c) \/ (c \notin ShutdownCalls /\ loop.pc # "stopped")
  BY DEF CancelActive, StopClears, ItemCleared, ManualHolds, Command, LetsGo, Arrives, Resumes, InCall
<1>5. UNCHANGED program_runs => RowsFrom(NoItem) /\ DOMAIN program_runs' = DOMAIN program_runs
  BY SameRows
<1>6. CASE CancelActive(c)
  <2>1. /\ tasks' = [tasks EXCEPT ![run_task].cancel = TRUE] /\ UNCHANGED <<queue, program_runs>>
        /\ calls' = [calls EXCEPT ![c] = [Arrived(c) EXCEPT !.pc = "cancelling", !.task = run_task]]
    BY <1>6 DEF CancelActive, CallBecomes
  <2>2. \A s \in Slots : tasks'[s].pc = tasks[s].pc /\ tasks'[s].item = tasks[s].item
    BY <1>1, <2>1 DEF Tasks
  <2>3. [Arrived(c) EXCEPT !.pc = "cancelling", !.task = run_task].pc = "cancelling"
    BY <1>1 DEF CallRecords
  <2>4. \A d \in Calls : calls'[d].pc = "clearing" => \A i \in DOMAIN calls'[d].items : Fresh(Key(calls'[d].items[i]))
    BY <1>1, <1>3, <2>1, <2>3
  <2>5. ShutdownAlone'
    BY <1>1, <1>4, <2>1, AloneKept DEF RestartInd
  <2> QED BY <1>1, <1>2, <1>3, <1>5, <2>1, <2>2, <2>4, <2>5, OtherFresh
<1>7. CASE StopClears(c)
  <2>1. queue' = <<>> /\ ClearRest(c, queue) /\ UNCHANGED <<tasks, program_runs>>
    BY <1>7 DEF StopClears
  <2>2. /\ \E r : calls' = [calls EXCEPT ![c] = r]
        /\ \A d \in Calls : calls'[d].pc = "clearing" =>
             \A i \in DOMAIN calls'[d].items : Fresh(Key(calls'[d].items[i]))
    BY <1>1, <1>3, <2>1, ClearedRest
  <2>3. ShutdownAlone'
    BY <1>1, <1>4, <2>2, AloneKept DEF RestartInd
  <2>4. \A i \in DOMAIN queue' : Fresh(Key(queue'[i]))
    BY <2>1
  <2> QED BY <1>1, <1>2, <1>3, <1>5, <2>1, <2>2, <2>3, <2>4, OtherFresh
<1>8. CASE ItemCleared(c)
  <2> DEFINE items == calls[c].items
  <2>1. items \in Seq(Items) /\ items # <<>> /\ calls[c].pc = "clearing"
    BY <1>1, <1>8 DEF ItemCleared, TypeInd, CallShape, CallRecords
  <2>2. /\ Inserts(Head(items), "cancelled", <<>>) \/ InsertFails(Head(items), "cancelled", <<>>)
        /\ ClearRest(c, Tail(items)) /\ UNCHANGED <<queue, tasks>>
    BY <1>8 DEF ItemCleared
  <2>3. \A i \in DOMAIN items : Fresh(Key(items[i]))
    BY <1>3, <2>1
  <2> HIDE DEF items
  <2>4. /\ Head(items) \in Items /\ Head(items) = items[1] /\ Tail(items) \in Seq(Items)
        /\ Len(items) \in Nat \ {0} /\ DOMAIN items = 1 .. Len(items) /\ Len(Tail(items)) = Len(items) - 1
        /\ \A i \in 1 .. (Len(items) - 1) : Tail(items)[i] = items[i + 1]
    BY <2>1, HeadTailProperties, LenProperties, EmptySeq
  <2>5. DOMAIN Tail(items) = 1 .. (Len(items) - 1)
    BY <2>4, LenProperties
  <2>6. \A i \in DOMAIN Tail(items) : Fresh(Key(Tail(items)[i]))
    BY <2>3, <2>4, <2>5
  <2>7. Fresh(Key(Head(items)))
    BY <2>3, <2>4
  <2>8. RowsFrom(Head(items))
    <3>1. <<>> \in Seq(Marks) /\ "cancelled" \in Statuses /\ Head(items) \in Items
      BY <2>4 DEF Statuses
    <3> QED BY <2>2, <3>1, InsertedRow
  <2>9. /\ \E r : calls' = [calls EXCEPT ![c] = r]
        /\ \A d \in Calls : calls'[d].pc = "clearing" =>
             \A i \in DOMAIN calls'[d].items : Fresh(Key(calls'[d].items[i]))
    BY <1>3, <2>2, <2>4, <2>6, ClearedRest
  <2>10. ShutdownAlone'
    BY <1>1, <1>4, <2>9, AloneKept DEF RestartInd
  <2> QED BY <1>1, <1>2, <1>3, <2>2, <2>7, <2>8, <2>9, <2>10, OtherFresh
<1>9. CASE ManualHolds(c) \/ Command(c)
  <2>1. /\ UNCHANGED <<tasks, queue, program_runs>>
        /\ \/ calls' = [calls EXCEPT ![c] = [Arrived(c) EXCEPT !.pc = "command", !.task = None]]
           \/ \E pc \in {"done", "failed"} : calls' = [calls EXCEPT ![c] = [calls[c] EXCEPT !.pc = pc]]
    BY <1>9 DEF ManualHolds, Command, CallBecomes
  <2>2. [Arrived(c) EXCEPT !.pc = "command", !.task = None].pc = "command"
    BY <1>1 DEF CallRecords
  <2>3. \A pc \in {"done", "failed"} : [calls[c] EXCEPT !.pc = pc].pc # "clearing"
    BY <1>1 DEF CallRecords
  <2>4. \A d \in Calls : calls'[d].pc = "clearing" => \A i \in DOMAIN calls'[d].items : Fresh(Key(calls'[d].items[i]))
    BY <1>1, <1>3, <2>1, <2>2, <2>3
  <2>5. ShutdownAlone'
    BY <1>1, <1>4, <2>1, AloneKept DEF RestartInd
  <2> QED BY <1>1, <1>2, <1>3, <1>5, <2>1, <2>4, <2>5, OtherFresh
<1> QED BY <1>6, <1>7, <1>8, <1>9

\* A shutdown comes alone, and stops the loop.
LEMMA ShutdownFresh == ASSUME TypeInd, TypeInd', RestartInd, NEW c \in Calls, ShutdownBegins(c) PROVE RestartInd'
PROOF
<1>1. /\ calls \in [Calls -> CallRecords] /\ Arrived(c) \in CallRecords /\ loop'.pc = "stopped"
      /\ UNCHANGED <<tasks, queue, program_runs, boot>> /\ \A d \in Calls : ~InCall(d)
      /\ calls' = [calls EXCEPT ![c] = [Arrived(c) EXCEPT !.pc = "stopping"]]
  BY ArrivedTypes DEF TypeInd, TypeOK, CallsOK, ShutdownBegins, IdleLoop, db, env, CallBecomes
<1>2. [Arrived(c) EXCEPT !.pc = "stopping"].pc = "stopping"
  BY <1>1 DEF CallRecords
<1>3. ShutdownAlone'
  <2>1. \A d \in Calls \ {c} : ~InCall(d)'
    BY <1>1 DEF InCall
  <2> QED BY <1>1, <2>1 DEF ShutdownAlone, Calls
<1>4. \A d \in Calls : calls'[d].pc = "clearing" => \A i \in DOMAIN calls'[d].items : Fresh(Key(calls'[d].items[i]))
  BY <1>1, <1>2 DEF RestartInd, OnTheWayFresh
<1>5. WindowOK /\ RowsFrom(NoItem)
  BY <1>1, ShutdownWindow, SameRows DEF RestartInd
<1> QED BY <1>1, <1>3, <1>4, <1>5, OtherFresh DEF RestartInd, OnTheWayFresh

\* A process that starts again has nothing on its way and has read nothing yet.
LEMMA RestartFresh ==
  ASSUME TypeInd, RestartInd, Restart, \A c \in Calls : ~InCall(c)' PROVE RestartInd'
PROOF
<1>1. /\ UNCHANGED program_runs /\ queue' = <<>> /\ loop'.pc = "wait" /\ \A t \in Slots : tasks'[t].pc = "idle"
  BY DEF Restart, IdleLoop, IdleTask, db
<1>2. WindowInd' /\ ~Loaded'
  BY RestartWindow
<1>3. PastKnown'
  BY <1>2 DEF PastKnown
<1>4. OnTheWayFresh'
  <2>1. \A c \in Calls : calls'[c].pc # "clearing"
    BY DEF InCall
  <2> QED BY <1>1, <2>1 DEF OnTheWayFresh
<1>5. ShutdownAlone' /\ RestartNeverRefires'
  BY <1>1 DEF ShutdownAlone, Calls, RestartInd, RestartNeverRefires
<1> QED BY <1>2, <1>3, <1>4, <1>5 DEF RestartInd

\* A kill ends every call; a shutdown had none beside it.
LEMMA EndFresh ==
  ASSUME TypeInd, RestartInd, Crash \/ \E c \in Calls : ShutdownEnds(c) PROVE RestartInd'
PROOF
<1>1. calls \in [Calls -> CallRecords]
  BY DEF TypeInd, TypeOK, CallsOK
<1>2. CASE Crash
  <2>1. \A c \in Calls : calls'[c] = IF InCall(c) THEN [calls[c] EXCEPT !.pc = "failed"] ELSE calls[c]
    BY <1>2 DEF Crash
  <2>2. \A c \in Calls : [calls[c] EXCEPT !.pc = "failed"].pc = "failed"
    BY <1>1 DEF CallRecords
  <2>3. \A c \in Calls : ~InCall(c)'
    BY <2>1, <2>2 DEF InCall
  <2> QED BY <1>2, <2>3, RestartFresh DEF Crash
<1>3. ASSUME NEW c \in Calls, ShutdownEnds(c) PROVE RestartInd'
  <2>1. /\ c \in ShutdownCalls /\ InCall(c)
        /\ calls' = [calls EXCEPT ![c] = [calls[c] EXCEPT !.pc = "done", !.task = None]]
    BY <1>3 DEF ShutdownEnds, LetsGo, Arrives, Resumes, InCall, CallBecomes
  <2>2. [calls[c] EXCEPT !.pc = "done", !.task = None].pc = "done"
    BY <1>1 DEF CallRecords
  <2>3. \A d \in Calls \ {c} : ~InCall(d)
    BY <2>1 DEF RestartInd, ShutdownAlone
  <2>4. \A d \in Calls : ~InCall(d)'
    BY <1>1, <2>1, <2>2, <2>3 DEF InCall
  <2> QED BY <1>3, <2>4, RestartFresh DEF ShutdownEnds
<1> QED BY <1>2, <1>3

-----------------------------------------------------------------------------
(* The theorem.                                                            *)

\* The scheduler starts with no history and no occurrence on its way.
LEMMA InitRestart == Init => RestartInd
PROOF
<1> SUFFICES ASSUME Init PROVE RestartInd
  OBVIOUS
<1>1. /\ program_runs = <<>> /\ queue = <<>> /\ loop = IdleLoop /\ ready = FALSE
      /\ \A t \in Slots : tasks[t] = IdleTask
      /\ \A c \in Calls : calls[c] = ReadyCall
  BY DEF Init
<1>2. IdleTask.pc = "idle" /\ IdleLoop.pc = "wait" /\ IdleLoop.work = {} /\ ReadyCall.pc = "ready"
  BY DEF IdleTask, IdleLoop, ReadyCall
<1>3. WindowInd /\ PastKnown
  BY <1>1, <1>2 DEF WindowInd, PastKnown, Loaded
<1>4. OnTheWayFresh /\ RestartNeverRefires
  BY <1>1, <1>2 DEF OnTheWayFresh, RestartNeverRefires
<1>5. ShutdownAlone
  BY <1>1, <1>2 DEF ShutdownAlone, InCall, Calls
<1> QED BY <1>3, <1>4, <1>5 DEF RestartInd

\* A step that changes nothing.
LEMMA StutterRestart == ASSUME RestartInd, UNCHANGED vars PROVE RestartInd'
PROOF
<1>1. UNCHANGED <<program_runs, queue, loop, ready, tasks, calls, now, fired, boot>>
  BY DEF vars, db, env
<1>2. WindowInd' /\ PastKnown'
  BY <1>1 DEF RestartInd, WindowInd, PastKnown, Loaded, Known, Horizon
<1>3. OnTheWayFresh' /\ RestartNeverRefires'
  BY <1>1 DEF RestartInd, OnTheWayFresh, RestartNeverRefires, Fresh, IsNext
<1>4. ShutdownAlone'
  BY <1>1 DEF RestartInd, ShutdownAlone, InCall
<1> QED BY <1>2, <1>3, <1>4 DEF RestartInd

\* RestartInd is inductive.
LEMMA NextRestart == TypeInd /\ TypeInd' /\ QueueInd /\ RestartInd /\ [Next]_vars => RestartInd'
PROOF
<1> SUFFICES ASSUME TypeInd, TypeInd', QueueInd, RestartInd, [Next]_vars PROVE RestartInd'
  OBVIOUS
<1>1. CASE UNCHANGED vars
  BY <1>1, StutterRestart
<1>2. CASE WebStep \/ ClockTick \/ Notify
  BY <1>2, WebFresh
<1>3. CASE LoopStep
  BY <1>3, TickFresh, ReadFresh, AdmitFresh, EvaluateFresh, PumpFresh DEF LoopStep
<1>4. ASSUME NEW t \in Slots, RunTaskStep(t) PROVE RestartInd'
  BY <1>4, RunFresh
<1>5. ASSUME NEW c \in Calls, CallStep(c) PROVE RestartInd'
  BY <1>5, CallFresh, ShutdownFresh, EndFresh DEF CallStep
<1>6. CASE Crash
  BY <1>6, EndFresh
<1> QED BY <1>1, <1>2, <1>3, <1>4, <1>5, <1>6 DEF Next

\* What the invariants together give at every step of every behaviour.
LEMMA RestartInvariant == Spec => [](TypeInd /\ QueueInd /\ HistoryInd /\ RestartInd)
  BY HistoryInvariant, InitTypes, InitQueue, InitRestart, NextTypes, NextRestart, PTL DEF Spec

\* M2.E9, for any programs, calls, faults, kills and shutdowns, however late a
\* store call commits: two rows of one occurrence were written in one life of the
\* process, so no restart runs, skips or misses again what an earlier life
\* recorded (recent_run_keys and the watermark, _evaluate, _pending).
THEOREM NoRefire == Spec => []RestartNeverRefires
PROOF
<1>1. RestartInd => RestartNeverRefires
  BY DEF RestartInd
<1> QED BY RestartInvariant, <1>1, PTL

=============================================================================
