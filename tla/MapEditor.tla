------------------------------- MODULE MapEditor -------------------------------
(***************************************************************************)
(* The map's edit mode: an admin selects a zone, places a pin or draws a   *)
(* polygon, and saves the draft while the zone list, the tools and the     *)
(* home marker stay usable.  A draft is abstracted to the zone it was      *)
(* drawn for and, of a polygon, the number of its vertices.                *)
(***************************************************************************)
EXTENDS Naturals

CONSTANTS Zones, None,
          MinVertices, MaxVertices,  \* 3 and 100
          Patches,                   \* zone updates under way
          MaxHomes                   \* bound: moves of the home under way at once
MapEditorAssumption == None \notin Zones \cup {"pin", "polygon", "home"} /\ MinVertices \in 1..MaxVertices /\ {MaxVertices, MaxHomes} \subseteq Nat

VARIABLES placed,      \* the page's own zones: the geometry of each
          stored,      \* the zones table
          editing, selected, tool, pin, polygon,
          saving,      \* the controls wait
          patches,     \* the zone updates under way, each with what it writes
          home,        \* how many moves of the home location are under way
          crossed      \* updates have overlapped or one was applied without an answer
vars == <<placed, stored, editing, selected, tool, pin, polygon, saving, patches, home, crossed>>

NoShape == [kind |-> "none", of |-> None, n |-> 0]
Pin(z) == [kind |-> "pin", of |-> z, n |-> 1]
Polygon(z, n) == [kind |-> "polygon", of |-> z, n |-> n]
NoPatch == [pc |-> "none", zone |-> None, shape |-> NoShape]
Init ==
  /\ \E some \in SUBSET Zones : placed = [z \in Zones |-> IF z \in some THEN Pin(z) ELSE NoShape]
  /\ stored = placed /\ editing = FALSE /\ selected = None /\ tool = None
  /\ pin = NoShape /\ polygon = NoShape /\ saving = FALSE
  /\ patches = [p \in Patches |-> NoPatch] /\ home = 0 /\ crossed = FALSE
Data == <<placed, stored, saving, patches, home, crossed>>
Draft == <<pin, polygon>>

Drop == pin' = NoShape /\ polygon' = NoShape
ToggleEditMode ==
  /\ editing' = ~editing /\ selected' = None /\ tool' = None /\ Drop
  /\ UNCHANGED Data

\* The geometry of a zone as the draft of a pin and of a polygon.
As(kind, z) == IF placed[z].kind = kind THEN placed[z] ELSE NoShape
\* Mutant: selecting a zone that is not placed yet keeps the draft.
LoadPlaced(z) ==
  IF placed[z] = NoShape THEN UNCHANGED Draft ELSE pin' = As("pin", z) /\ polygon' = As("polygon", z)
Load(z) == pin' = As("pin", z) /\ polygon' = As("polygon", z)
SelectZone(z) ==
  /\ editing
  /\ selected' = z /\ tool' = None /\ Load(z)
  /\ UNCHANGED <<editing, Data>>
ArmPin ==
  /\ selected # None /\ tool = None /\ ~saving
  /\ tool' = "pin" /\ polygon' = NoShape
  /\ UNCHANGED <<editing, selected, pin, Data>>
\* Mutant: the pin stays.
PinKept(z) == pin
PinDropped(z) == NoShape
ArmPolygon ==
  /\ selected # None /\ tool = None /\ ~saving
  /\ tool' = "polygon" /\ polygon' = NoShape /\ pin' = PinDropped(selected)
  /\ UNCHANGED <<editing, selected, Data>>
ToggleHome ==
  /\ editing /\ ~saving
  /\ selected' = None /\ Drop /\ tool' = (IF tool = "home" THEN None ELSE "home")
  /\ UNCHANGED <<editing, Data>>

\* handleMapClick, while a tool is armed.
PlacePin ==
  /\ tool = "pin" /\ pin' = Pin(selected)
  /\ UNCHANGED <<editing, selected, tool, polygon, Data>>
AddVertex ==
  /\ tool = "polygon"
  /\ polygon' = IF polygon.n >= MaxVertices THEN polygon ELSE Polygon(selected, polygon.n + 1)
  /\ UNCHANGED <<editing, selected, tool, pin, Data>>
UndoLastPoint ==
  /\ tool = "polygon" /\ polygon.n > 0
  /\ polygon' = IF polygon.n = 1 THEN NoShape ELSE Polygon(selected, polygon.n - 1)
  /\ UNCHANGED <<editing, selected, tool, pin, Data>>
FinishPolygon ==
  /\ tool = "polygon" /\ polygon.n >= MinVertices /\ tool' = None
  /\ UNCHANGED <<editing, selected, Draft, Data>>
\* Back to the saved placement, as this page knows it.
CancelDraft ==
  /\ tool \in {"pin", "polygon"} /\ tool' = None /\ Load(selected)
  /\ UNCHANGED <<editing, selected, Data>>

\* saveHome: a click with the home tool, or the marker dragged, which asks nobody,
\* not even another move that is under way.
MoveHome ==
  /\ home < MaxHomes /\ home' = home + 1 /\ saving' = TRUE
  /\ \/ tool = "home" /\ tool' = None
     \/ editing /\ UNCHANGED tool
  /\ UNCHANGED <<placed, stored, editing, selected, Draft, patches, crossed>>
\* Its end frees the controls, also those a zone's update or another move holds.
HomeSaved ==
  /\ home > 0 /\ home' = home - 1 /\ saving' = FALSE
  /\ UNCHANGED <<placed, stored, editing, selected, tool, Draft, patches, crossed>>

-----------------------------------------------------------------------------
(* Save and Clear, and PATCH /api/zones/[id].                              *)

HasDraft == pin # NoShape \/ polygon.n >= MinVertices
Patch(p, shape) ==
  /\ selected # None /\ ~saving /\ patches[p].pc = "none"
  /\ patches' = [patches EXCEPT ![p] = [pc |-> "sent", zone |-> selected, shape |-> shape]]
  /\ saving' = TRUE /\ crossed' = (crossed \/ \E q \in Patches : patches[q].pc # "none")
  /\ UNCHANGED <<placed, stored, editing, selected, tool, Draft, home>>
Save(p) == HasDraft /\ Patch(p, IF pin # NoShape THEN pin ELSE polygon)
Clear(p) == selected # None /\ (placed[selected] # NoShape \/ HasDraft) /\ Patch(p, NoShape)

\* validateZoneGeometry; a ring is counted without its closing point.
Valid(shape) == shape.kind = "polygon" => shape.n \in MinVertices..MaxVertices
Apply(p) ==
  /\ patches[p].pc = "sent" /\ Valid(patches[p].shape)
  /\ stored' = [stored EXCEPT ![patches[p].zone] = patches[p].shape] /\ patches' = [patches EXCEPT ![p].pc = "applied"]
  /\ UNCHANGED <<placed, editing, selected, tool, Draft, saving, home, crossed>>
\* Mutant: the reply is merged into the zone selected by then.
SelectedByThen(p) == selected
SentFor(p) == patches[p].zone
\* The closure still names the zone it was called for; clearing empties whatever
\* draft there is by now.
Reply(p) ==
  /\ patches[p].pc = "applied"
  /\ placed' = [z \in Zones |-> IF z = SentFor(p) THEN patches[p].shape ELSE placed[z]]
  /\ tool' = None /\ saving' = FALSE /\ patches' = [patches EXCEPT ![p] = NoPatch]
  /\ IF patches[p].shape = NoShape THEN Drop ELSE UNCHANGED Draft
  /\ UNCHANGED <<stored, editing, selected, home, crossed>>
Fail(p) ==
  /\ patches[p].pc # "none"
  /\ saving' = FALSE /\ patches' = [patches EXCEPT ![p] = NoPatch]
  /\ crossed' = (crossed \/ patches[p].pc = "applied")
  /\ UNCHANGED <<placed, stored, editing, selected, tool, Draft, home>>

Next ==
  \/ ToggleEditMode \/ ArmPin \/ ArmPolygon \/ ToggleHome \/ PlacePin \/ AddVertex \/ UndoLastPoint
  \/ FinishPolygon \/ CancelDraft \/ MoveHome \/ HomeSaved
  \/ \E z \in Zones : SelectZone(z)
  \/ \E p \in Patches : Save(p) \/ Clear(p) \/ Apply(p) \/ Reply(p) \/ Fail(p)
Spec == Init /\ [][Next]_vars

-----------------------------------------------------------------------------
(* What the editor promises.                                               *)

\* A pin and a polygon are never drafted together, whichever replies arrive
\* while drawing: Save, which prefers the pin, saves what is on the map.
OneDraft == pin = NoShape \/ polygon = NoShape

\* A zone is never given a placement that was drawn for another.
DrawnForZone == \A z \in Zones : stored[z].of \in {None, z}

\* Updates answered one at a time leave the page showing what is stored, whatever
\* is selected when the answer arrives.  A home move frees the controls of a zone
\* update under way; two updates of a zone can then be applied in either order.
ShownIsStored == (~crossed /\ \A p \in Patches : patches[p].pc # "applied") => placed = stored
==============================================================================
