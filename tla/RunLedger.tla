------------------------------ MODULE RunLedger ------------------------------
(***************************************************************************)
(* What the run history promises, whatever the executor is doing: rows are *)
(* only added, an occurrence runs once, the steps of a run go forward *)
(* and in order, a row belongs to the run that opened it until that run is *)
(* over, and afterwards only a boot closes what was left running.          *)
(***************************************************************************)
EXTENDS Integers, Sequences

CONSTANTS
  Programs,     \* ids of programs
  NoProgram,    \* the program of a Quick Run, and of a row whose program is gone
  Unscheduled   \* the occurrence of a run somebody asked for

VARIABLES
  rows,   \* the history: program, occurrence, status, steps
  open    \* the rows whose run is alive
vars == <<rows, open>>

Final == {"completed", "partial", "failed", "cancelled", "missed", "skipped_rain_delay", "skipped_weather"}

\* Where a step can go: its start and its end may both be lost to a
\* cancellation, and a completion being saved may be overtaken by one.
After == [pending |-> {"started", "skipped_disabled", "failed", "cancelled"},
          started |-> {"completed", "cancelled"}, completed |-> {"cancelled"},
          skipped_disabled |-> {}, failed |-> {}, cancelled |-> {}]
Passed == {"completed", "skipped_disabled", "failed"}

Init == rows = <<>> /\ open = {}

\* The occurrence has a row of which a step was reached.
Ran(program, at) ==
  /\ program # NoProgram /\ at # Unscheduled
  /\ \E r \in DOMAIN rows : /\ rows[r].program = program /\ rows[r].at = at
                          /\ \E i \in DOMAIN rows[r].steps : rows[r].steps[i] # "pending"

\* An occurrence or a request that does not run: missed, skipped, cancelled.
Record ==
  /\ \E p \in Programs \cup {NoProgram}, status \in Final :
       LET row == rows'[Len(rows')] IN
         /\ Len(rows') = Len(rows) + 1 /\ SubSeq(rows', 1, Len(rows)) = rows
         /\ row.program = p /\ row.status = status /\ row.steps = <<>>
  /\ UNCHANGED open

\* A run opens its row, all steps ahead of it, for an occurrence that never ran.
\* If it dies at that moment the row has no run.
Open ==
  /\ LET row == rows'[Len(rows')] IN
       /\ Len(rows') = Len(rows) + 1 /\ SubSeq(rows', 1, Len(rows)) = rows
       /\ row.program \in Programs \cup {NoProgram} /\ row.status = "running"
       /\ row.steps # <<>> /\ \A i \in DOMAIN row.steps : row.steps[i] = "pending"
       /\ ~Ran(row.program, row.at)
  /\ open' \in {open, open \cup {Len(rows')}}

\* The run may be over with the step it takes.
Stays(r) == open' \in {open, open \ {r}}

Advance(r) ==
  /\ r \in open /\ rows[r].status = "running"
  /\ \E i \in DOMAIN rows[r].steps : \E mark \in After[rows[r].steps[i]] :
       /\ \A j \in 1 .. (i - 1) : rows[r].steps[j] \in Passed
       /\ \A j \in (i + 1) .. Len(rows[r].steps) : rows[r].steps[j] = "pending"
       /\ rows' = [rows EXCEPT ![r].steps[i] = mark]
  /\ Stays(r)

\* A run ends as its steps did.  One cancelled, or failing, while its closing
\* is under way may still turn the closed row into a cancelled or failed one.
Close(r) ==
  /\ r \in open
  /\ \E status \in {"completed", "partial", "failed", "cancelled"} :
       /\ status \in {"completed", "partial"} =>
            /\ rows[r].status = "running"
            /\ \A i \in DOMAIN rows[r].steps : rows[r].steps[i] \in Passed
            /\ status = "partial" <=> \E i \in DOMAIN rows[r].steps : rows[r].steps[i] = "failed"
       /\ rows' = [rows EXCEPT ![r].status = status]
  /\ Stays(r)

\* The executor dies, or a run can write no more.
Die == UNCHANGED rows /\ open' \in SUBSET open

\* The boot closes what no run will close.
Finalize ==
  /\ open = {}
  /\ rows' = [r \in DOMAIN rows |->
       IF rows[r].status # "running" THEN rows[r]
       ELSE [rows[r] EXCEPT !.status = "cancelled",
               !.steps = [i \in DOMAIN rows[r].steps |->
                            IF rows[r].steps[i] = "started" THEN "cancelled" ELSE rows[r].steps[i]]]]
  /\ UNCHANGED open

\* Deleting a program keeps its rows.
Forget(p) ==
  /\ rows' = [r \in DOMAIN rows |-> IF rows[r].program = p THEN [rows[r] EXCEPT !.program = NoProgram] ELSE rows[r]]
  /\ UNCHANGED open

Next ==
  \/ Record \/ Open \/ Die \/ Finalize
  \/ \E r \in DOMAIN rows : Advance(r) \/ Close(r)
  \/ \E p \in Programs : Forget(p)

Spec == Init /\ [][Next]_vars
=============================================================================
