-------------------------------- MODULE QuickRun --------------------------------
(***************************************************************************)
(* The quick-run dialog: zones to tick, one number of minutes, a request.  *)
(* The zones it offers are those of the last status shown behind it, so    *)
(* they change under the dialog; it can be closed and opened again while   *)
(* its request is under way.                                               *)
(***************************************************************************)
EXTENDS Integers, FiniteSets

CONSTANTS Zones,
          Minutes,   \* what may be typed, in range or not
          MaxMoves   \* bound: zones switched on or off
QuickRunAssumption == IsFiniteSet(Zones) /\ Minutes \subseteq Nat /\ MaxMoves \in Nat

VARIABLES enabled,   \* the zones enabled in the database
          zones,     \* the zones offered, as the page shows them
          dialog,    \* open, selected, minutes
          submitting,
          request,   \* the zones and minutes sent; none of them: nothing is under way
          moves
vars == <<enabled, zones, dialog, submitting, request, moves>>

Fresh(open) == [open |-> open, selected |-> {}, minutes |-> 10]
NoRequest == [pc |-> "none", zones |-> {}, minutes |-> 0]
Init ==
  /\ enabled = Zones /\ zones = enabled /\ dialog = Fresh(FALSE) /\ submitting = FALSE
  /\ request = NoRequest /\ moves = 0

-----------------------------------------------------------------------------
\* onOpenChange: opening resets the fields.
Open ==
  /\ ~dialog.open /\ zones # {} /\ dialog' = Fresh(TRUE)
  /\ UNCHANGED <<enabled, zones, submitting, request, moves>>
\* Cancel waits for the request; the Escape key does not.
Close ==
  /\ dialog.open /\ dialog' = [dialog EXCEPT !.open = FALSE]
  /\ UNCHANGED <<enabled, zones, submitting, request, moves>>
Check(s) ==
  /\ dialog.open /\ dialog' = [dialog EXCEPT !.selected = s]
  /\ UNCHANGED <<enabled, zones, submitting, request, moves>>
ToggleZone(z) == z \in zones /\ Check(IF z \in dialog.selected THEN dialog.selected \ {z} ELSE dialog.selected \cup {z})
\* The box for all is ticked when as many are selected as are offered; a selected
\* zone that is offered no more still counts.
AllSelected == zones # {} /\ Cardinality(dialog.selected) = Cardinality(zones)
ToggleAll == Check(IF AllSelected THEN {} ELSE zones)
SetMinutes ==
  /\ dialog.open /\ \E m \in Minutes : dialog' = [dialog EXCEPT !.minutes = m]
  /\ UNCHANGED <<enabled, zones, submitting, request, moves>>

MinutesValid == dialog.minutes >= 1 /\ dialog.minutes <= 240
\* Mutant: every selected zone is sent.
AllSent == dialog.selected
\* Only what is still offered is sent, in the order of the zones.
Sent == {z \in zones : z \in dialog.selected}
Submit ==
  /\ dialog.open /\ ~submitting /\ dialog.selected # {} /\ MinutesValid
  /\ submitting' = TRUE /\ request' = [pc |-> "sent", zones |-> Sent, minutes |-> dialog.minutes]
  /\ UNCHANGED <<enabled, zones, dialog, moves>>

\* The route: the payload, then the zones, then one insert.
Accepted ==
  request.zones # {} /\ Cardinality(request.zones) <= 20 /\ request.minutes \in 1..240 /\ request.zones \subseteq enabled
Insert ==
  /\ request.pc = "sent" /\ Accepted /\ request' = [request EXCEPT !.pc = "inserted"]
  /\ UNCHANGED <<enabled, zones, dialog, submitting, moves>>
\* Refused, or failed on the way: there, or back, when the run has been inserted.
Refuse ==
  /\ request.pc \in {"sent", "inserted"} /\ request' = NoRequest /\ submitting' = FALSE
  /\ UNCHANGED <<enabled, zones, dialog, moves>>
\* Success closes the dialog and resets it, also one that was opened again meanwhile.
Land ==
  /\ request.pc = "inserted" /\ request' = NoRequest /\ submitting' = FALSE /\ dialog' = Fresh(FALSE)
  /\ UNCHANGED <<enabled, zones, moves>>

\* An admin switches a zone; a poll of the page behind the dialog lands.
ZoneSwitched(z) ==
  /\ moves < MaxMoves /\ moves' = moves + 1
  /\ enabled' = IF z \in enabled THEN enabled \ {z} ELSE enabled \cup {z}
  /\ UNCHANGED <<zones, dialog, submitting, request>>
Polled ==
  /\ zones # enabled /\ zones' = enabled
  /\ UNCHANGED <<enabled, dialog, submitting, request, moves>>

Next ==
  \/ Open \/ Close \/ ToggleAll \/ SetMinutes \/ Submit \/ Insert \/ Refuse \/ Land \/ Polled
  \/ \E z \in Zones : ToggleZone(z) \/ ZoneSwitched(z)
Spec == Init /\ [][Next]_vars

-----------------------------------------------------------------------------
\* A quick run the dialog submits is one the route accepts, as long as the dialog
\* shows the zones as they are: a zone that was ticked and has left the list since
\* does not cost the others their run.  When no ticked zone is left the dialog
\* submits all the same, and only the route says that one must be selected.
SubmitsAccepted == Submit /\ zones = enabled => Accepted' \/ request'.zones = {}
ShownIsAccepted == [][SubmitsAccepted]_vars
==============================================================================
