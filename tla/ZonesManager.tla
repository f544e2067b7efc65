------------------------------ MODULE ZonesManager ------------------------------
(***************************************************************************)
(* The admin's list of zones: one name at a time can be edited, any zone   *)
(* can be switched, each change is a request of its own, and one slot says *)
(* which zone is busy.                                                     *)
(***************************************************************************)
EXTENDS Naturals

CONSTANTS Zones, None,
          Names,      \* what the name field may say, trimmed
          Blank,      \* of which this is nothing
          Requests,
          MaxWrites   \* bound: updates sent, by the page and by other admins
ZonesManagerAssumption == None \notin Zones /\ Blank \in Names /\ Names # {Blank} /\ MaxWrites \in Nat

VARIABLES zones,      \* the zones table: name, enabled
          rows,       \* the same, as the page shows it
          editing, draft, busy,
          requests,   \* the updates under way: zone, field and value
          unsure,     \* zones and fields of which the page cannot know what is stored
          writes
vars == <<zones, rows, editing, draft, busy, requests, unsure, writes>>

Idle == [pc |-> "idle", zone |-> None, field |-> "name", value |-> Blank]
Init ==
  /\ zones = [z \in Zones |-> [name |-> CHOOSE n \in Names : n # Blank, enabled |-> TRUE]]
  /\ rows = zones /\ editing = None /\ draft = Blank /\ busy = None
  /\ requests = [r \in Requests |-> Idle] /\ unsure = {} /\ writes = 0

-----------------------------------------------------------------------------
(* The page.                                                               *)

\* The pencil of another row takes the field over, with what was typed in it.
StartEdit(z) ==
  /\ editing # z /\ editing' = z /\ draft' = rows[z].name
  /\ UNCHANGED <<zones, rows, busy, requests, unsure, writes>>
Type(n) ==
  /\ editing # None /\ busy # editing /\ draft' = n
  /\ UNCHANGED <<zones, rows, editing, busy, requests, unsure, writes>>
CancelEdit ==
  /\ editing # None /\ busy # editing /\ editing' = None
  /\ UNCHANGED <<zones, rows, draft, busy, requests, unsure, writes>>

UnderWay(z, field) == \E r \in Requests : requests[r].pc # "idle" /\ requests[r].zone = z /\ requests[r].field = field
\* The slot belongs to the last request; the zones of the others are free again.
Mutate(r, z, field, value) ==
  /\ requests[r].pc = "idle" /\ writes < MaxWrites /\ writes' = writes + 1
  /\ requests' = [requests EXCEPT ![r] = [pc |-> "sent", zone |-> z, field |-> field, value |-> value]]
  /\ busy' = z /\ unsure' = unsure \cup {<<z, field>> : x \in {y \in {z} : UnderWay(z, field)}}
  /\ UNCHANGED <<zones, rows, editing, draft>>
SaveName(r) ==
  /\ editing # None /\ busy # editing /\ draft \notin {Blank, rows[editing].name}
  /\ Mutate(r, editing, "name", draft)
\* A name that is blank or has not changed is not sent.
SaveNothing ==
  /\ editing # None /\ busy # editing /\ draft \in {Blank, rows[editing].name}
  /\ editing' = None
  /\ UNCHANGED <<zones, rows, draft, busy, requests, unsure, writes>>
Switch(r, z) == busy # z /\ editing # z /\ Mutate(r, z, "enabled", ~rows[z].enabled)

\* Mutant: the row takes the name that is in the field when the answer comes.
TypedByNow(q) == IF q.field = "name" THEN [rows[q.zone] EXCEPT !.name = draft] ELSE [rows[q.zone] EXCEPT !.enabled = q.value]
\* { ...r, ...patch }: what was sent, over the row as it is by then.
Patched(q) == IF q.field = "name" THEN [rows[q.zone] EXCEPT !.name = q.value] ELSE [rows[q.zone] EXCEPT !.enabled = q.value]
\* A name that was saved closes the field, whichever row it is in by then.
Reply(r) ==
  /\ requests[r].pc = "applied"
  /\ rows' = [rows EXCEPT ![requests[r].zone] = Patched(requests[r])]
  /\ editing' = IF requests[r].field = "name" THEN None ELSE editing
  /\ busy' = None /\ requests' = [requests EXCEPT ![r] = Idle]
  /\ UNCHANGED <<zones, draft, unsure, writes>>
\* Refused, or its answer is lost.
Fail(r) ==
  /\ requests[r].pc # "idle" /\ busy' = None /\ requests' = [requests EXCEPT ![r] = Idle]
  /\ unsure' = IF requests[r].pc = "applied" THEN unsure \cup {<<requests[r].zone, requests[r].field>>} ELSE unsure
  /\ UNCHANGED <<zones, rows, editing, draft, writes>>

-----------------------------------------------------------------------------
\* PATCH /api/zones/[id] writes the fields it is given.
Apply(r) ==
  /\ requests[r].pc = "sent"
  /\ LET q == requests[r]
     IN zones' = IF q.field = "name" THEN [zones EXCEPT ![q.zone].name = q.value] ELSE [zones EXCEPT ![q.zone].enabled = q.value]
  /\ requests' = [requests EXCEPT ![r].pc = "applied"]
  /\ UNCHANGED <<rows, editing, draft, busy, unsure, writes>>
\* Another admin switches or renames a zone.
OthersWrite(z, field) ==
  /\ writes < MaxWrites /\ writes' = writes + 1
  /\ \/ field = "enabled" /\ zones' = [zones EXCEPT ![z].enabled = ~@]
     \/ field = "name" /\ \E n \in Names \ {Blank} : zones' = [zones EXCEPT ![z].name = n]
  /\ unsure' = unsure \cup {<<z, field>>}
  /\ UNCHANGED <<rows, editing, draft, busy, requests>>

Next ==
  \/ CancelEdit \/ SaveNothing
  \/ \E z \in Zones : StartEdit(z) \/ OthersWrite(z, "enabled") \/ OthersWrite(z, "name")
  \/ \E n \in Names : Type(n)
  \/ \E r \in Requests : SaveName(r) \/ Reply(r) \/ Fail(r) \/ Apply(r)
  \/ \E r \in Requests, z \in Zones : Switch(r, z)
Spec == Init /\ [][Next]_vars

-----------------------------------------------------------------------------
\* Renaming and switching a zone at once loses neither: every field of the list is
\* what is stored, unless updates of that very field have overlapped, an answer was
\* lost, or somebody else has written it.
ListAgrees ==
  \A z \in Zones :
    /\ ~UnderWay(z, "name") /\ <<z, "name">> \notin unsure => rows[z].name = zones[z].name
    /\ ~UnderWay(z, "enabled") /\ <<z, "enabled">> \notin unsure => rows[z].enabled = zones[z].enabled
==============================================================================
