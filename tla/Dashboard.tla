------------------------------- MODULE Dashboard -------------------------------
(***************************************************************************)
(* The dashboard page of the web app and the live status it is drawn from: *)
(* polls that overlap and answer out of order, a countdown between them,   *)
(* and commands that travel through the proxy routes to the executor and   *)
(* are verified by a refetch.                                              *)
(*                                                                         *)
(* The yard is what the executor knows of the zones: which one waters, and *)
(* for how long still.  Every change of it has the next number.            *)
(***************************************************************************)
EXTENDS Integers

CONSTANTS Zones,     \* the enabled zones, a row each
          None,
          Polls,     \* the interval has at most so many requests under way
          Commands,  \* and the user so many commands
          RunTime,   \* how long a run lasts
          MaxMoves   \* bound: commands, steps of the world around the page, faults, hidings of the tab
DashboardAssumption == None \notin Zones /\ {RunTime, MaxMoves} \subseteq Nat

VARIABLES yard,      \* the zone that waters, if its end is known, the time left, the change's number
          requests,  \* status requests: the interval's, and each command's refetch
          live,      \* the hook: status, failed (fetchFailed), elapsed (now - fetchedAt)
          tab,       \* whether it is visible and whether the interval runs
          commands, busy, selected,
          chosen,    \* the zone in whose row the minutes were picked; None: the default of 10
          moves
vars == <<yard, requests, live, tab, commands, busy, selected, chosen, moves>>

NoStatus == [reachable |-> FALSE, zone |-> None, known |-> FALSE, left |-> 0, change |-> -1]
Idle == [pc |-> "idle", answer |-> NoStatus]
Ready == [pc |-> "ready", zone |-> None, chosen |-> None, change |-> 0]
Init ==
  /\ yard = [zone |-> None, known |-> FALSE, left |-> 0, change |-> 0]
  /\ requests = [r \in Polls \cup Commands |-> Idle] /\ tab = [visible |-> TRUE, polling |-> TRUE]
  /\ live = [status |-> NoStatus, failed |-> FALSE, elapsed |-> 0]
  /\ commands = [c \in Commands |-> Ready] /\ busy = FALSE
  /\ selected = None /\ chosen = None /\ moves = 0

-----------------------------------------------------------------------------
(* What the page draws.                                                    *)

Loaded == live.status # NoStatus
Offline == live.failed \/ (Loaded /\ ~live.status.reachable)
\* getRunningZone: the executor tells no remaining time of a run whose start it
\* has not seen (the controller's own dial, a run older than the process).
Running == IF Loaded /\ ~Offline /\ live.status.known THEN live.status.zone ELSE None
\* Frozen while offline, else ticked down between the polls.
Remaining ==
  LET elapsed == IF Offline THEN 0 ELSE live.elapsed
  IN IF live.status.left > elapsed THEN live.status.left - elapsed ELSE 0

-----------------------------------------------------------------------------
(* The hook: an interval, the tab's visibility, and answers that land.     *)

Asked == [Idle EXCEPT !.pc = "asked"]
Poll(p) ==
  /\ tab.polling /\ requests[p].pc = "idle"
  /\ requests' = [requests EXCEPT ![p] = Asked]
  /\ UNCHANGED <<yard, live, tab, commands, busy, selected, chosen, moves>>

Hide ==
  /\ tab.visible /\ moves < MaxMoves
  /\ tab' = [visible |-> FALSE, polling |-> FALSE] /\ moves' = moves + 1
  /\ UNCHANGED <<yard, requests, live, commands, busy, selected, chosen>>
\* Mutant: coming back refetches once and does not poll again.
RefetchedOnly == FALSE
\* Coming back restarts the interval, whose first request is at once.
Restarted == TRUE
Show ==
  /\ ~tab.visible /\ tab' = [visible |-> TRUE, polling |-> Restarted]
  /\ \E p \in Polls : requests[p].pc = "idle" /\ requests' = [requests EXCEPT ![p] = Asked]
  /\ UNCHANGED <<yard, live, commands, busy, selected, chosen, moves>>

\* The proxy merges the executor's live state with the zones' rows.  A cached
\* status of an unreachable controller is an answer with reachable FALSE; that
\* it may be older than the yard is covered by answers that land late.
Status(reachable) ==
  [reachable |-> reachable, zone |-> yard.zone, known |-> yard.known, change |-> yard.change,
   left |-> IF yard.known THEN yard.left ELSE 0]
Answer(r) ==
  /\ requests[r].pc = "asked"
  /\ requests' = [requests EXCEPT ![r] = [pc |-> "answered", answer |-> Status(TRUE)]]
  /\ UNCHANGED <<yard, live, tab, commands, busy, selected, chosen, moves>>
\* The controller is unreachable, or the executor or the network is: 503 and status 0.
AnswerFails(r) ==
  /\ requests[r].pc = "asked" /\ moves < MaxMoves /\ moves' = moves + 1
  /\ \E a \in {NoStatus, Status(FALSE)} : requests' = [requests EXCEPT ![r] = [pc |-> "answered", answer |-> a]]
  /\ UNCHANGED <<yard, live, tab, commands, busy, selected, chosen>>

\* Mutant: fetchedAt is not set again.
CountedOn(r) == live.elapsed
CountedFrom(r) == 0
\* refresh, after its await: whatever answer lands is shown, in the order of landing.
Landed(r) ==
  IF requests[r].answer = NoStatus THEN [live EXCEPT !.failed = TRUE]
  ELSE [status |-> requests[r].answer, failed |-> FALSE, elapsed |-> CountedFrom(r)]
\* The refetch of a command that succeeded ends it: the controls come back, and a
\* start deselects whatever zone is selected by now.
Land(r) ==
  /\ requests[r].pc = "answered"
  /\ live' = Landed(r) /\ requests' = [requests EXCEPT ![r] = Idle]
  /\ IF r \in Commands /\ commands[r].pc = "verifying"
     THEN /\ commands' = [commands EXCEPT ![r] = Ready] /\ busy' = FALSE
          /\ selected' = IF commands[r].zone = None THEN selected ELSE None
     ELSE UNCHANGED <<commands, busy, selected>>
  /\ UNCHANGED <<yard, tab, chosen, moves>>

-----------------------------------------------------------------------------
(* The user.                                                               *)

\* Mutant: the choice survives the selection.
KeepChoice(z) == chosen
\* selectZone, from a row or from the map: both fields return to their defaults.
Reset(z) == None
Select(z) ==
  /\ Loaded
  /\ selected' = (IF selected = z THEN None ELSE z) /\ chosen' = Reset(z)
  /\ UNCHANGED <<yard, requests, live, tab, commands, busy, moves>>
PickMinutes ==
  /\ selected \notin {None, Running} /\ chosen' = selected
  /\ UNCHANGED <<yard, requests, live, tab, commands, busy, selected, moves>>

Send(c, zone, minutes) ==
  /\ commands[c].pc = "ready" /\ requests[c].pc = "idle" /\ moves < MaxMoves
  /\ commands' = [commands EXCEPT ![c] = [pc |-> "sent", zone |-> zone, chosen |-> minutes, change |-> 0]]
  /\ busy' = TRUE /\ moves' = moves + 1
  /\ UNCHANGED <<yard, requests, live, tab, selected, chosen>>
\* The selected row's Start button waits for the controls; the form of a custom
\* duration does not, so it can start a zone while a command is under way.
Start(c) ==
  /\ selected \notin {None, Running}
  /\ (~busy /\ ~Offline) \/ chosen = selected
  /\ Send(c, selected, chosen)
\* The banner's, the running row's and the column's button.
StopOffered == ~busy /\ ~Offline /\ Running # None
Stop(c) == StopOffered /\ Send(c, None, None)

-----------------------------------------------------------------------------
(* A command at the proxy and the executor.                                *)

Changed(zone, known) ==
  [zone |-> zone, known |-> known, left |-> IF zone = None THEN 0 ELSE RunTime, change |-> yard.change + 1]
Effect(c) == Changed(commands[c].zone, commands[c].zone # None)
Apply(c) ==
  /\ commands[c].pc = "sent"
  /\ yard' = Effect(c) /\ commands' = [commands EXCEPT ![c].pc = "applied", ![c].change = yard'.change]
  /\ UNCHANGED <<requests, live, tab, busy, selected, chosen, moves>>
\* Mutant: the refetch is not awaited.
Unverified(c) == Ready
\* await fn(); await refresh(): a command returns once a status read after it is shown.
Verified(c) == [commands[c] EXCEPT !.pc = "verifying"]
Reply(c) ==
  /\ commands[c].pc = "applied"
  /\ commands' = [commands EXCEPT ![c] = Verified(c)] /\ requests' = [requests EXCEPT ![c] = Asked]
  /\ UNCHANGED <<yard, live, tab, busy, selected, chosen, moves>>
\* A refusal (403, 404, 422, 503) or the proxy's timeout of five seconds: the
\* page says "command not sent" and refetches; after a timeout the executor may
\* still do it.
Fail(c) ==
  /\ commands[c].pc = "sent"
  /\ \E k \in {Ready, [commands[c] EXCEPT !.pc = "late"]} : commands' = [commands EXCEPT ![c] = k]
  /\ busy' = FALSE /\ requests' = [requests EXCEPT ![c] = Asked]
  /\ UNCHANGED <<yard, live, tab, selected, chosen, moves>>
ApplyLate(c) ==
  /\ commands[c].pc = "late"
  /\ yard' = Effect(c) /\ commands' = [commands EXCEPT ![c] = Ready]
  /\ UNCHANGED <<requests, live, tab, busy, selected, chosen, moves>>

\* The dial, the scheduler or another user waters, or stops.
Others ==
  /\ moves < MaxMoves /\ moves' = moves + 1
  /\ \/ \E z \in Zones, known \in BOOLEAN : yard' = Changed(z, known)
     \/ yard.zone # None /\ yard' = Changed(None, FALSE)
  /\ UNCHANGED <<requests, live, tab, commands, busy, selected, chosen>>
\* A unit of time: the run goes on or ends, and a shown countdown follows the
\* client's clock.
Tick ==
  /\ yard.zone # None \/ (Running # None /\ live.elapsed < RunTime)
  /\ yard' = IF yard.zone = None THEN yard
             ELSE IF yard.left > 1 THEN [yard EXCEPT !.left = @ - 1] ELSE Changed(None, FALSE)
  /\ live' = IF Running # None /\ live.elapsed < RunTime THEN [live EXCEPT !.elapsed = @ + 1] ELSE live
  /\ UNCHANGED <<requests, tab, commands, busy, selected, chosen, moves>>

Next ==
  \/ (\E p \in Polls : Poll(p)) \/ Hide \/ Show \/ PickMinutes \/ Others \/ Tick
  \/ \E r \in Polls \cup Commands : Answer(r) \/ AnswerFails(r) \/ Land(r)
  \/ \E z \in Zones : Select(z)
  \/ \E c \in Commands : Start(c) \/ Stop(c) \/ Apply(c) \/ Reply(c) \/ Fail(c) \/ ApplyLate(c)

-----------------------------------------------------------------------------
(* What the page promises.                                                 *)

\* The countdown of a run never ends before the run, however late its answer
\* landed: every answer is counted down from its own arrival.
NeverShownShort == (Loaded /\ live.status.change = yard.change /\ yard.known) => Remaining >= yard.left

\* runCommand returns success only when the page shows the yard as it was after
\* the command or later, or says that it is offline.
ReturnsVerified ==
  \A c \in Commands :
    commands[c].pc \in {"applied", "verifying"} /\ commands'[c].pc = "ready"
      => live'.failed \/ live'.status.change >= commands[c].change
VerifiedAtReturn == [][ReturnsVerified]_vars

\* A zone starts with minutes picked in its own row or with the default: a
\* choice made for another zone never carries over.
StartedAsChosen == \A c \in Commands : commands[c].chosen \in {None, commands[c].zone}

\* Answers may land out of order and commands may take effect after the page gave
\* them up: once nothing changes, a visible page shows the yard as it is.
ShownAsItIs == ~tab.visible \/ (Loaded /\ ~Offline /\ live.status.change = yard.change)
ShownSettles == <>[]ShownAsItIs

\* Whatever waters can be stopped: Stop is offered whenever the page has read that
\* a zone waters (docs/PRODUCT.md, F2.3).
StopWhenWatering == (Loaded /\ ~Offline /\ ~busy /\ live.status.zone # None) => StopOffered

-----------------------------------------------------------------------------
\* The browser runs the interval, and every request ends: the proxy waits five
\* seconds for the executor.
Fairness ==
  /\ \A p \in Polls : WF_vars(Poll(p))
  /\ \A r \in Polls \cup Commands : WF_vars(Answer(r) \/ AnswerFails(r)) /\ WF_vars(Land(r))
Spec == Init /\ [][Next]_vars /\ Fairness
==============================================================================
