----------------------------- MODULE ProgramEditor -----------------------------
(***************************************************************************)
(* The editor of a watering program in one admin's browser: read from the  *)
(* database in three queries, edited as a draft, validated, sent whole and *)
(* validated again by the route, while other admins switch, save or delete *)
(* the program and disable zones.                                          *)
(*                                                                         *)
(* A start time is a number, NoTime an empty field; a name is its length   *)
(* without the outer blanks; a starting date is its year, 0 for none.  The *)
(* rain-delay switch, copied like the name, is left out.                   *)
(***************************************************************************)
EXTENDS Integers, Sequences, SequencesExt

CONSTANTS Zones, None,
          Times, Minutes, Intervals, Years,  \* what the fields may say, in range or not
          MaxEdits                           \* bound: edits of the draft, and writes of the others
ProgramEditorAssumption ==
  Zones # {} /\ None \notin Zones /\ Times \subseteq 0..23 /\ Minutes \cup Intervals \cup Years \subseteq Nat /\ MaxEdits \in Nat
NoTime == -1

VARIABLES program,  \* the stored program: exists, enabled, and what the form edits
          enabled,  \* the zones enabled in the database
          page,     \* the program as the page read it, the zones it offers, whether others switched it since
          draft, pc, request, edits
vars == <<program, enabled, page, draft, pc, request, edits>>

Step(z, m) == [zone |-> z, minutes |-> m]
NewForm == [name |-> 0, rule |-> "days_of_week", days |-> {}, interval |-> 2, anchor |-> 0,
          times |-> <<6>>, steps |-> <<Step(None, 15)>>]
Stored == [NewForm EXCEPT !.name = 60, !.days = {0}, !.steps = <<Step(CHOOSE z \in Zones : TRUE, 240)>>]
Init ==
  /\ \E on \in BOOLEAN : program = [exists |-> TRUE, enabled |-> on, form |-> Stored]
  /\ enabled \in SUBSET Zones
  /\ page = [editing |-> TRUE, row |-> program, offered |-> {}, switched |-> FALSE]
  /\ draft = NewForm /\ pc = "closed" /\ request = NewForm /\ edits = 0

-----------------------------------------------------------------------------
(* The page is read: the program's row, its steps, the enabled zones.      *)

\* The form of a new program starts from its defaults, enabled.
New ==
  /\ pc = "closed" /\ pc' = "steps" /\ draft' = NewForm
  /\ page' = [page EXCEPT !.editing = FALSE, !.row.enabled = TRUE, !.switched = FALSE]
  /\ UNCHANGED <<program, enabled, request, edits>>
ReadRow ==
  /\ pc = "closed" /\ program.exists /\ pc' = "row"
  /\ page' = [page EXCEPT !.editing = TRUE, !.row = program, !.switched = FALSE]
  /\ UNCHANGED <<program, enabled, draft, request, edits>>
\* The steps of a program deleted since went with it.
ReadSteps ==
  /\ pc = "row" /\ pc' = "steps"
  /\ draft' = [page.row.form EXCEPT !.steps = IF program.exists THEN program.form.steps ELSE <<>>]
  /\ UNCHANGED <<program, enabled, page, request, edits>>
ReadZones ==
  /\ pc = "steps" /\ pc' = "open" /\ page' = [page EXCEPT !.offered = enabled]
  /\ UNCHANGED <<program, enabled, draft, request, edits>>

-----------------------------------------------------------------------------
(* The draft.                                                              *)

Swapped(s, i) == [s EXCEPT ![i] = s[i + 1], ![i + 1] = s[i]]
EditedTimes ==
  {Append(draft.times, NoTime)}
    \cup {[draft.times EXCEPT ![i] = t] : i \in DOMAIN draft.times, t \in Times \cup {NoTime}}
    \cup {RemoveAt(draft.times, i) : i \in {j \in DOMAIN draft.times : Len(draft.times) > 1}}
EditedSteps ==
  {Append(draft.steps, Step(None, 15))}
    \cup {[draft.steps EXCEPT ![i].zone = z] : i \in DOMAIN draft.steps, z \in page.offered}
    \cup {[draft.steps EXCEPT ![i].minutes = m] : i \in DOMAIN draft.steps, m \in Minutes}
    \cup {Swapped(draft.steps, i) : i \in 1..(Len(draft.steps) - 1)}
    \cup {RemoveAt(draft.steps, i) : i \in {j \in DOMAIN draft.steps : Len(draft.steps) > 1 \/ draft.steps[j].zone # None}}
Edits ==
  {[draft EXCEPT !.name = n] : n \in {0, 60}}
    \cup {[draft EXCEPT !.rule = r] : r \in {"days_of_week", "interval"}}
    \cup {[draft EXCEPT !.days = d] : d \in SUBSET {0}}
    \cup {[draft EXCEPT !.interval = n] : n \in Intervals}
    \cup {[draft EXCEPT !.anchor = a] : a \in Years}
    \cup {[draft EXCEPT !.times = t] : t \in EditedTimes}
    \cup {[draft EXCEPT !.steps = s] : s \in EditedSteps}
Edit ==
  /\ pc = "open" /\ edits < MaxEdits /\ edits' = edits + 1
  /\ draft' \in Edits \ {draft}
  /\ UNCHANGED <<program, enabled, page, pc, request>>

\* Mutant: the field takes three digits, and any of them pass.
AnyMinutes(m) == m >= 1
MinutesValid(m) == m >= 1 /\ m <= 240
Valid ==
  /\ draft.name > 0
  /\ IF draft.rule = "days_of_week" THEN draft.days # {} ELSE draft.interval >= 1 /\ draft.anchor # 0
  /\ NoTime \notin ToSet(draft.times) /\ IsInjective(draft.times)
  /\ draft.steps # <<>>
  /\ \A s \in ToSet(draft.steps) : s.zone \in page.offered /\ MinutesValid(s.minutes)

\* Times, all distinct, in the order of the clock.
Sorted(times) ==
  CHOOSE s \in [DOMAIN times -> ToSet(times)] : ToSet(s) = ToSet(times) /\ \A i, j \in DOMAIN s : i < j => s[i] < s[j]
\* The other day rule's fields are sent as null, and read back as the defaults.
Input ==
  [draft EXCEPT !.times = Sorted(draft.times),
                !.days = IF draft.rule = "days_of_week" THEN @ ELSE {},
                !.interval = IF draft.rule = "interval" THEN @ ELSE NewForm.interval,
                !.anchor = IF draft.rule = "interval" THEN @ ELSE 0]
Save ==
  /\ pc = "open" /\ Valid /\ pc' = "sent" /\ request' = Input
  /\ UNCHANGED <<program, enabled, page, draft, edits>>

-----------------------------------------------------------------------------
(* The route.                                                              *)

\* The date's text has four digits of a year, and Date takes years below 100 for
\* others.
DateValid(year) == year \in 100..9999
InputValid(form) ==
  /\ form.name \in 1..60
  /\ form.times # <<>> /\ \A t \in ToSet(form.times) : t \in 0..23
  /\ IsInjective(form.times)
  /\ form.rule = "days_of_week" => form.days # {} /\ form.days \subseteq 0..6
  /\ form.rule = "interval" => form.interval >= 1 /\ DateValid(form.anchor)
  /\ form.steps # <<>> /\ \A s \in ToSet(form.steps) : s.minutes \in 1..240
ZonesValid(form) == \A s \in ToSet(form.steps) : s.zone \in enabled
Check ==
  /\ pc = "sent" /\ InputValid(request) /\ ZonesValid(request) /\ pc' = "checked"
  /\ UNCHANGED <<program, enabled, page, draft, request, edits>>
\* Refused: invalid, no longer an admin, or nothing was reached at all.
Refuse ==
  /\ pc = "sent" \/ (pc = "checked" /\ page.editing /\ ~program.exists)
  /\ pc' = "open" /\ UNCHANGED <<program, enabled, page, draft, request, edits>>
\* Mutant: a saved program is on.
SwitchedOn == TRUE
\* The whole program is written, its switch as the page read it.
Switch == page.row.enabled
\* One transaction replaces the row and the steps; a new program is the one that
\* is looked at from then on.  When its answer is lost the form stays open.
Commit ==
  /\ pc = "checked" /\ (page.editing => program.exists)
  /\ program' = [exists |-> TRUE, enabled |-> Switch, form |-> request] /\ pc' \in {"closed", "open"}
  /\ UNCHANGED <<enabled, page, draft, request, edits>>

-----------------------------------------------------------------------------
(* The other admins.                                                       *)

Others(p, e) ==
  /\ edits < MaxEdits /\ edits' = edits + 1 /\ program' = p /\ enabled' = e
  /\ page' = [page EXCEPT !.switched = @ \/ p.enabled # program.enabled]
  /\ UNCHANGED <<draft, pc, request>>
OthersWrite ==
  \/ program.exists /\ Others([program EXCEPT !.enabled = ~@], enabled)
  \/ program.exists /\ Others([program EXCEPT !.exists = FALSE], enabled)
  \/ \E z \in enabled :
       program.exists /\ Others([program EXCEPT !.form.steps = <<Step(z, 1)>>], enabled)
  \/ \E z \in Zones : Others(program, IF z \in enabled THEN enabled \ {z} ELSE enabled \cup {z})

Next ==
  \/ New \/ ReadRow \/ ReadSteps \/ ReadZones \/ Edit \/ Save
  \/ Check \/ Refuse \/ Commit \/ OthersWrite
Spec == Init /\ [][Next]_vars

-----------------------------------------------------------------------------
(* What the editor promises.                                               *)

\* Client validation mirrors the server's: a draft that passes it is refused only
\* for a zone that was disabled since the page was read.  The exception is a date: a
\* year typed with two digits is a year of the first century to a date field, which
\* passes the form and not the route.
ValidIsAccepted ==
  pc = "sent" =>
    /\ InputValid(request) \/ (request.rule = "interval" /\ ~DateValid(request.anchor))
    /\ ZonesValid(request) \/ ~(page.offered \subseteq enabled)

\* An edit never switches a program on or off: a save changes the switch only when
\* somebody else has changed it since the page was read.
SaveKeepsSwitch ==
  pc = "checked" /\ pc' # "checked" /\ page.editing /\ ~page.switched => program'.enabled = program.enabled
SwitchKept == [][SaveKeepsSwitch]_vars
==============================================================================
