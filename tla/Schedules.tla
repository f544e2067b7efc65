------------------------------- MODULE Schedules -------------------------------
(***************************************************************************)
(* The list of watering programs: switch, run now, delete, each a request  *)
(* whose answer updates the list, with one slot that says which program is *)
(* busy.  Other admins switch and delete programs too.                     *)
(***************************************************************************)
EXTENDS Naturals

CONSTANTS Programs, None, Requests,
          MaxMoves    \* bound: requests, and changes by others
SchedulesAssumption == None \notin Programs /\ MaxMoves \in Nat

VARIABLES programs,  \* the database: gone, or switched on or off
          shown,     \* the list: the same, as last answered, or null
          busy, confirm,
          requests,  \* what each asks, and how far it is
          moves
vars == <<programs, shown, busy, confirm, requests, moves>>

Switches == {"on", "off"}
Idle == [pc |-> "idle", kind |-> None, program |-> None, answer |-> None]
Init ==
  /\ programs \in [Programs -> Switches] /\ shown = programs
  /\ busy = None /\ confirm = None
  /\ requests = [r \in Requests |-> Idle] /\ moves = 0

-----------------------------------------------------------------------------
(* The page.                                                               *)

Rendered == \A p \in Programs : shown[p] # "null"
Send(r, p, kind) ==
  /\ Rendered /\ shown[p] \in Switches /\ busy # p /\ requests[r] = Idle /\ moves < MaxMoves
  /\ requests' = [requests EXCEPT ![r] = [Idle EXCEPT !.pc = "sent", !.kind = kind, !.program = p]]
  /\ busy' = p /\ moves' = moves + 1
  /\ UNCHANGED <<programs, shown, confirm>>
ToggleEnabled(r, p) == Send(r, p, IF shown[p] = "on" THEN "off" ELSE "on")
RunNow(r, p) == shown[p] = "on" /\ Send(r, p, "run")
Remove(r, p) == confirm = p /\ Send(r, p, "delete")
Confirm(p) ==
  /\ Rendered /\ shown[p] \in Switches /\ busy # p /\ confirm' \in {p, None} \ {confirm}
  /\ UNCHANGED <<programs, shown, busy, requests, moves>>

\* Mutant: the answered program is put into the list, there or not.
PutIn(p, answer) == [shown EXCEPT ![p] = answer]
\* setPrograms maps or filters what the list holds by now; a null in it makes the
\* next rendering throw, and the page is lost.
Merged(p, answer) == IF shown[p] = "gone" THEN shown ELSE [shown EXCEPT ![p] = answer]
\* finally: no program is busy, whichever was; a removal also closes the question,
\* whichever program it asks about.
Land(r) ==
  /\ requests[r].pc = "answered"
  /\ LET p == requests[r].program
         a == requests[r].answer
     IN /\ shown' = IF a = None THEN shown ELSE Merged(p, a)
        /\ confirm' = IF requests[r].kind = "delete" THEN None ELSE confirm
  /\ busy' = None /\ requests' = [requests EXCEPT ![r] = Idle]
  /\ UNCHANGED <<programs, moves>>

-----------------------------------------------------------------------------
(* The routes.                                                             *)

Answer(r, a) == [requests EXCEPT ![r].pc = "answered", ![r].answer = a]
\* PATCH: the row, or 404; the answer is read again after the write.
Patch(r) ==
  /\ requests[r].pc = "sent" /\ requests[r].kind \in Switches
  /\ LET p == requests[r].program
     IN IF programs[p] = "gone"
        THEN requests' = Answer(r, None) /\ UNCHANGED programs
        ELSE /\ programs' = [programs EXCEPT ![p] = requests[r].kind]
             /\ requests' = [requests EXCEPT ![r].pc = "written"]
  /\ UNCHANGED <<shown, busy, confirm, moves>>
\* getProgram is null for a program deleted since.
ReadAgain(r) ==
  /\ requests[r].pc = "written"
  /\ requests' = Answer(r, IF programs[requests[r].program] = "gone" THEN "null" ELSE programs[requests[r].program])
  /\ UNCHANGED <<programs, shown, busy, confirm, moves>>
Delete(r) ==
  /\ requests[r].pc = "sent" /\ requests[r].kind = "delete"
  /\ LET p == requests[r].program
     IN IF programs[p] = "gone"
        THEN requests' = Answer(r, None) /\ UNCHANGED programs
        ELSE programs' = [programs EXCEPT ![p] = "gone"] /\ requests' = Answer(r, "gone")
  /\ UNCHANGED <<shown, busy, confirm, moves>>
\* The run route changes no program; what it inserts is the scheduler's.
Run(r) ==
  /\ requests[r].pc = "sent" /\ requests[r].kind = "run" /\ requests' = Answer(r, None)
  /\ UNCHANGED <<programs, shown, busy, confirm, moves>>
\* Refused, or failed on the way: there, or back, when it has been written.
Fail(r) ==
  /\ requests[r].pc # "idle" /\ requests' = Answer(r, None)
  /\ UNCHANGED <<programs, shown, busy, confirm, moves>>
Others ==
  /\ moves < MaxMoves /\ moves' = moves + 1
  /\ \E p \in Programs : programs[p] \in Switches /\ \E s \in Switches \cup {"gone"} : programs' = [programs EXCEPT ![p] = s]
  /\ UNCHANGED <<shown, busy, confirm, requests>>

Next ==
  \/ \E r \in Requests, p \in Programs : ToggleEnabled(r, p) \/ RunNow(r, p) \/ Remove(r, p)
  \/ \E p \in Programs : Confirm(p)
  \/ \E r \in Requests : Patch(r) \/ ReadAgain(r) \/ Delete(r) \/ Run(r) \/ Fail(r) \/ Land(r)
  \/ Others
Spec == Init /\ [][Next]_vars

-----------------------------------------------------------------------------
\* What the user has deleted stays off the list: a late answer about it does not
\* bring it back.
GoneStays == \A p \in Programs : shown[p] = "gone" => shown'[p] = "gone"
DeletedStaysGone == [][GoneStays]_vars
==============================================================================
