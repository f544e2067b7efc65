------------------------------- MODULE LegacyApp -------------------------------
(***************************************************************************)
(* The first web app (apps/web): one page over the executor's API, polled, *)
(* with a card for each zone (start, stop, rename) and a panel for the     *)
(* rain delay.  Every command is followed by a refetch.                    *)
(*                                                                         *)
(* The house is what the executor would answer: the zone that waters, the  *)
(* zones' names and the rain delay.  Every change of it has the next       *)
(* number.                                                                 *)
(***************************************************************************)
EXTENDS Integers

CONSTANTS Zones, None,
          Names, Blank,  \* what the name field may say, trimmed; of which this is nothing
          MaxDays,       \* of rain delay
          Polls, Commands, RunTime,
          MaxMoves       \* bound: commands, changes around the page, faults, hidings, edits
LegacyAssumption ==
  None \notin Zones /\ Blank \in Names /\ Names # {Blank} /\ {MaxDays, RunTime, MaxMoves} \subseteq Nat

VARIABLES house,
          requests,  \* status requests: the interval's, and each command's refetch
          live,      \* status, failed (fetchFailed), elapsed (now - fetchedAt)
          tab,       \* whether it is visible and whether the interval runs
          commands, busy,
          expanded,  \* the zone whose picker is open
          field,     \* the name field: its zone and its text
          panel,     \* the rain delay: open, draft
          moves
vars == <<house, requests, live, tab, commands, busy, expanded, field, panel, moves>>
World == <<house, requests, live, tab>>
Forms == <<expanded, field, panel>>

NoStatus == [reachable |-> FALSE, house |-> [change |-> -1]]
Idle == [pc |-> "idle", answer |-> NoStatus]
Ready == [pc |-> "ready", op |-> "none", zone |-> None, value |-> 0, change |-> 0]
NoField == [zone |-> None, draft |-> Blank]
Init ==
  /\ house = [zone |-> None, known |-> FALSE, left |-> 0, change |-> 0, delay |-> 0,
              names |-> [z \in Zones |-> CHOOSE n \in Names : n # Blank]]
  /\ requests = [r \in Polls \cup Commands |-> Idle] /\ tab = [visible |-> TRUE, polling |-> TRUE]
  /\ live = [status |-> NoStatus, failed |-> FALSE, elapsed |-> 0]
  /\ commands = [c \in Commands |-> Ready] /\ busy = FALSE
  /\ expanded = None /\ field = NoField /\ panel = [open |-> FALSE, draft |-> 0] /\ moves = 0

Loaded == live.status # NoStatus
Offline == live.failed \/ (Loaded /\ ~live.status.reachable)
Shown == live.status.house
\* Frozen while offline, else ticked down between the polls.
Remaining ==
  LET elapsed == IF Offline THEN 0 ELSE live.elapsed
  IN IF Shown.left > elapsed THEN Shown.left - elapsed ELSE 0

-----------------------------------------------------------------------------
(* The status: an interval, the tab's visibility, answers that land.       *)

Asked == [Idle EXCEPT !.pc = "asked"]
Poll(p) ==
  /\ tab.polling /\ requests[p].pc = "idle" /\ requests' = [requests EXCEPT ![p] = Asked]
  /\ UNCHANGED <<house, live, tab, commands, busy, Forms, moves>>
Hide ==
  /\ tab.visible /\ moves < MaxMoves
  /\ tab' = [visible |-> FALSE, polling |-> FALSE] /\ moves' = moves + 1
  /\ UNCHANGED <<house, requests, live, commands, busy, Forms>>
Show ==
  /\ ~tab.visible /\ tab' = [visible |-> TRUE, polling |-> TRUE]
  /\ \E p \in Polls : requests[p].pc = "idle" /\ requests' = [requests EXCEPT ![p] = Asked]
  /\ UNCHANGED <<house, live, commands, busy, Forms, moves>>
Answer(r) ==
  /\ requests[r].pc = "asked"
  /\ requests' = [requests EXCEPT ![r] = [pc |-> "answered", answer |-> [reachable |-> TRUE, house |-> house]]]
  /\ UNCHANGED <<house, live, tab, commands, busy, Forms, moves>>
AnswerFails(r) ==
  /\ requests[r].pc = "asked" /\ moves < MaxMoves /\ moves' = moves + 1
  /\ \E a \in {NoStatus, [reachable |-> FALSE, house |-> house]} :
       requests' = [requests EXCEPT ![r] = [pc |-> "answered", answer |-> a]]
  /\ UNCHANGED <<house, live, tab, commands, busy, Forms>>
\* The refetch of a command that succeeded ends it: a start closes whatever picker
\* is open by then, a new rain delay its panel.
Land(r) ==
  /\ requests[r].pc = "answered" /\ requests' = [requests EXCEPT ![r] = Idle]
  /\ live' = IF requests[r].answer = NoStatus THEN [live EXCEPT !.failed = TRUE]
             ELSE [status |-> requests[r].answer, failed |-> FALSE, elapsed |-> 0]
  /\ IF r \in Commands /\ commands[r].pc = "verifying"
     THEN /\ commands' = [commands EXCEPT ![r] = Ready] /\ busy' = FALSE
          /\ expanded' = IF commands[r].op = "start" THEN None ELSE expanded
          /\ panel' = IF commands[r].op = "delay" THEN [panel EXCEPT !.open = FALSE] ELSE panel
     ELSE UNCHANGED <<commands, busy, expanded, panel>>
  /\ UNCHANGED <<house, tab, field, moves>>

-----------------------------------------------------------------------------
(* The user.                                                               *)

ToggleExpand(z) ==
  /\ Loaded /\ Shown.zone # z /\ ~busy /\ ~Offline
  /\ expanded' = IF expanded = z THEN None ELSE z
  /\ UNCHANGED <<World, commands, busy, field, panel, moves>>
TogglePanel ==
  /\ Loaded /\ ~Offline /\ panel' = [open |-> ~panel.open, draft |-> Shown.delay]
  /\ UNCHANGED <<World, commands, busy, expanded, field, moves>>
StepDays ==
  /\ panel.open /\ moves < MaxMoves /\ moves' = moves + 1
  /\ panel' \in {[panel EXCEPT !.draft = d] : d \in {panel.draft - 1, panel.draft + 1} \cap 0..MaxDays}
  /\ UNCHANGED <<World, commands, busy, expanded, field>>
OpenField(z) ==
  /\ Loaded /\ field = NoField /\ field' = [zone |-> z, draft |-> Shown.names[z]]
  /\ UNCHANGED <<World, commands, busy, expanded, panel, moves>>
Type(n) ==
  /\ field # NoField /\ moves < MaxMoves /\ moves' = moves + 1 /\ field' = [field EXCEPT !.draft = n]
  /\ UNCHANGED <<World, commands, busy, expanded, panel>>
\* Escape, or the field is left blank or as the card has it by now.
CloseField ==
  /\ field # NoField /\ field' = NoField
  /\ UNCHANGED <<World, commands, busy, expanded, panel, moves>>

Send(c, op, zone, value) ==
  /\ commands[c].pc = "ready" /\ requests[c].pc = "idle" /\ moves < MaxMoves /\ moves' = moves + 1
  /\ commands' = [commands EXCEPT ![c] = [pc |-> "sent", op |-> op, zone |-> zone, value |-> value, change |-> 0]]
  /\ busy' = TRUE /\ UNCHANGED World
Start(c) == expanded # None /\ Shown.zone # expanded /\ ~busy /\ Send(c, "start", expanded, 0) /\ UNCHANGED Forms
\* The card's button; the page's own is hidden while it is offline.
Stop(c) == Loaded /\ Shown.zone # None /\ ~busy /\ Send(c, "stop", None, 0) /\ UNCHANGED Forms
\* Leaving the field sends the name, a command under way or not.
Rename(c) ==
  /\ field # NoField /\ field.draft \notin {Blank, Shown.names[field.zone]}
  /\ Send(c, "rename", field.zone, field.draft) /\ field' = NoField /\ UNCHANGED <<expanded, panel>>
SetDelay(c) ==
  /\ panel.open /\ ~busy
  /\ \E d \in {panel.draft, 0} : d # Shown.delay /\ Send(c, "delay", None, d)
  /\ UNCHANGED Forms

-----------------------------------------------------------------------------
(* A command at the executor.                                              *)

Watering(z, known) ==
  [house EXCEPT !.zone = z, !.known = known, !.left = IF z = None THEN 0 ELSE RunTime, !.change = @ + 1]
Effect(c) ==
  LET q == commands[c]
  IN CASE q.op = "rename" -> [house EXCEPT !.names[q.zone] = q.value, !.change = @ + 1]
       [] q.op = "delay" -> [house EXCEPT !.delay = q.value, !.change = @ + 1]
       [] OTHER -> Watering(q.zone, q.op = "start")
Apply(c) ==
  /\ commands[c].pc = "sent" /\ house' = Effect(c)
  /\ commands' = [commands EXCEPT ![c].pc = "applied", ![c].change = house'.change]
  /\ UNCHANGED <<requests, live, tab, busy, Forms, moves>>
Reply(c) ==
  /\ commands[c].pc = "applied"
  /\ commands' = [commands EXCEPT ![c].pc = "verifying"] /\ requests' = [requests EXCEPT ![c] = Asked]
  /\ UNCHANGED <<house, live, tab, busy, Forms, moves>>
\* Refused, or the network gave up on what the executor may still do.
Fail(c) ==
  /\ commands[c].pc = "sent" /\ busy' = FALSE /\ requests' = [requests EXCEPT ![c] = Asked]
  /\ \E k \in {Ready, [commands[c] EXCEPT !.pc = "late"]} : commands' = [commands EXCEPT ![c] = k]
  /\ UNCHANGED <<house, live, tab, Forms, moves>>
ApplyLate(c) ==
  /\ commands[c].pc = "late" /\ house' = Effect(c) /\ commands' = [commands EXCEPT ![c] = Ready]
  /\ UNCHANGED <<requests, live, tab, busy, Forms, moves>>
\* The dial, another page, the end of a run.
Others ==
  /\ moves < MaxMoves /\ moves' = moves + 1
  /\ \/ \E z \in Zones \cup {None}, known \in BOOLEAN : house' = Watering(z, known /\ z # None)
     \/ \E z \in Zones, n \in Names \ {Blank} : house' = [house EXCEPT !.names[z] = n, !.change = @ + 1]
     \/ \E d \in 0..MaxDays : house' = [house EXCEPT !.delay = d, !.change = @ + 1]
  /\ UNCHANGED <<requests, live, tab, commands, busy, Forms>>
Tick ==
  /\ house.zone # None \/ (Loaded /\ Shown.zone # None /\ live.elapsed < RunTime)
  /\ house' = IF house.zone = None THEN house
              ELSE IF house.left > 1 THEN [house EXCEPT !.left = @ - 1] ELSE Watering(None, FALSE)
  /\ live' = IF Loaded /\ Shown.zone # None /\ live.elapsed < RunTime THEN [live EXCEPT !.elapsed = @ + 1] ELSE live
  /\ UNCHANGED <<requests, tab, commands, busy, Forms, moves>>

Next ==
  \/ Hide \/ Show \/ TogglePanel \/ StepDays \/ CloseField \/ Others \/ Tick
  \/ \E p \in Polls : Poll(p)
  \/ \E r \in Polls \cup Commands : Answer(r) \/ AnswerFails(r) \/ Land(r)
  \/ \E z \in Zones : ToggleExpand(z) \/ OpenField(z)
  \/ \E n \in Names : Type(n)
  \/ \E c \in Commands : Start(c) \/ Stop(c) \/ Rename(c) \/ SetDelay(c) \/ Apply(c) \/ Reply(c) \/ Fail(c) \/ ApplyLate(c)
Spec == Init /\ [][Next]_vars

-----------------------------------------------------------------------------
\* The countdown of a run never ends before the run.
NeverShownShort == (Loaded /\ Shown.change = house.change /\ house.known) => Remaining >= house.left

\* "Run a command, then refetch status promptly to verify" (App.tsx:81): a command
\* succeeds only with its effect, or the outage, on the page.
ReturnsVerified ==
  \A c \in Commands :
    commands[c].pc \in {"applied", "verifying"} /\ commands'[c].pc = "ready"
      => live'.failed \/ live'.status.house.change >= commands[c].change
==============================================================================
