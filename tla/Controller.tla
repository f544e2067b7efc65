------------------------------ MODULE Controller ------------------------------
(***************************************************************************)
(* The executor's service for the controller (rainbird.py): one call at a  *)
(* time over a first-come lock, and a countdown of its own for the run it  *)
(* started, since the controller tells which zone waters and not how long. *)
(* The controller also has a dial, reports a zone it has been told to      *)
(* water a moment late, and may do what it is told without an answer.      *)
(***************************************************************************)
EXTENDS Naturals, Sequences

CONSTANTS Zones, None,
          Clients,            \* requests to the service under way at once
          Minutes,            \* of a start, and of the dial
          Lag,                \* the controller reports a zone at most so late
          StartupGrace, HardExpirySlack,
          MaxMoves            \* bound: requests, and turns of the dial
ControllerAssumption ==
  None \notin Zones /\ Minutes \subseteq Nat \ {0} /\ {Lag, StartupGrace, HardExpirySlack, MaxMoves} \subseteq Nat /\ Lag < StartupGrace

VARIABLES device,    \* the zone that waters, the time left, how long it goes unreported (age)
          static,    \* model and stations have been read
          run,       \* the run the service tracks: zone, age, duration_seconds, observed_active
          cache,     \* the active zone and the countdown of the last status
          clients,   \* each request: its operation, its next call, what it has read
          lock,      \* the requests waiting for their call, first come first
          ours,      \* the zone waters on the last start that was answered
          missed,    \* since then a status has applied states that no longer held
          moves
vars == <<device, static, run, cache, clients, lock, ours, missed, moves>>

Off == [zone |-> None, left |-> 0, age |-> 0, reported |-> FALSE]
NoRun == [zone |-> None, age |-> 0, duration |-> 0, observed |-> FALSE]
Done == [op |-> "none", call |-> "none", zone |-> None, minutes |-> 0, read |-> None]
Init ==
  /\ device = Off /\ static = FALSE /\ run = NoRun /\ cache = <<>>
  /\ clients = [c \in Clients |-> Done] /\ lock = <<>>
  /\ ours = FALSE /\ missed = FALSE /\ moves = 0

-----------------------------------------------------------------------------
(* The controller.                                                         *)

Reported == IF device.reported THEN device.zone ELSE None
\* Time passes; a zone that waters is reported by the end of the lag.
Tick ==
  /\ device.zone # None \/ run # NoRun
  /\ \E reported \in {device.reported, TRUE} :
       /\ device.age >= Lag => reported
       /\ device' = IF device.left <= 1 THEN Off ELSE [device EXCEPT !.left = @ - 1, !.age = @ + 1, !.reported = reported]
  /\ run' = IF run.age > run.duration + HardExpirySlack THEN run ELSE [run EXCEPT !.age = IF run = NoRun THEN 0 ELSE @ + 1]
  /\ UNCHANGED <<static, cache, clients, lock, ours, missed, moves>>
Dial ==
  /\ moves < MaxMoves /\ moves' = moves + 1 /\ ours' = FALSE
  /\ device' \in {Off} \cup {[zone |-> z, left |-> n, age |-> 0, reported |-> TRUE] : z \in Zones, n \in Minutes}
  /\ UNCHANGED <<static, run, cache, clients, lock, missed>>
Irrigated(z, n) == [zone |-> z, left |-> n, age |-> 0, reported |-> FALSE]

-----------------------------------------------------------------------------
(* What a poll makes of the run.                                           *)

Expired == run.age > run.duration + HardExpirySlack
\* Mutant: a run the controller does not report is over.
PrunedAtOnce(active) == IF active = run.zone THEN [run EXCEPT !.observed = TRUE] ELSE NoRun
Pruned(active) ==
  IF run = NoRun THEN NoRun
  ELSE IF active = run.zone
       THEN IF Expired /\ ~run.observed THEN NoRun ELSE [run EXCEPT !.observed = TRUE]
       ELSE IF run.observed \/ active # None \/ run.age >= StartupGrace \/ Expired THEN NoRun ELSE run
Remaining(r, z) == IF r.zone = z /\ r.duration > r.age THEN r.duration - r.age ELSE 0

-----------------------------------------------------------------------------
(* Requests: each is a sequence of calls, and waits for its turn again     *)
(* before every one of them.                                               *)

First(op) == CASE op = "status" -> IF static THEN "states" ELSE "static"
               [] op = "start" -> IF static THEN "irrigate" ELSE "static"
               [] op = "rename" -> IF static THEN "states" ELSE "static"
               [] op = "stop" -> "stop"
Ask(c, op, z, n) ==
  /\ clients[c] = Done /\ moves < MaxMoves /\ moves' = moves + 1
  /\ clients' = [clients EXCEPT ![c] = [Done EXCEPT !.op = op, !.call = First(op), !.zone = z, !.minutes = n]]
  /\ lock' = Append(lock, c)
  /\ UNCHANGED <<device, static, run, cache, ours, missed>>
Turn(c, call) == lock # <<>> /\ Head(lock) = c /\ clients[c].call = call
Then(c, call) ==
  /\ clients' = [clients EXCEPT ![c].call = call]
  /\ lock' = Append(Tail(lock), c)
Finish(c) == clients' = [clients EXCEPT ![c] = Done] /\ lock' = Tail(lock)

ReadStatic(c) ==
  /\ Turn(c, "static") /\ static' = TRUE
  /\ Then(c, IF clients[c].op = "start" THEN "irrigate" ELSE "states")
  /\ UNCHANGED <<device, run, cache, ours, missed, moves>>
Irrigate(c) ==
  /\ Turn(c, "irrigate") /\ device' = Irrigated(clients[c].zone, clients[c].minutes)
  /\ run' = [zone |-> clients[c].zone, age |-> 0, duration |-> clients[c].minutes, observed |-> FALSE]
  /\ ours' = TRUE /\ missed' = FALSE
  /\ Then(c, "states")
  /\ UNCHANGED <<static, cache, moves>>
StopIrrigation(c) ==
  /\ Turn(c, "stop") /\ device' = Off /\ run' = NoRun /\ ours' = FALSE /\ Then(c, "states")
  /\ UNCHANGED <<static, cache, missed, moves>>
\* A status goes on to the rain sensor; the others make the states theirs at once.
ReadStates(c) ==
  /\ Turn(c, "states")
  /\ IF clients[c].op = "status"
     THEN /\ clients' = [clients EXCEPT ![c] = [@ EXCEPT !.call = "rain sensor", !.read = Reported]]
          /\ lock' = Append(Tail(lock), c) /\ UNCHANGED run
     ELSE run' = Pruned(Reported) /\ Finish(c)
  /\ UNCHANGED <<device, static, cache, ours, missed, moves>>
ReadSensor(c) == Turn(c, "rain sensor") /\ Then(c, "rain delay") /\ UNCHANGED <<device, static, run, cache, ours, missed, moves>>
ReadDelay(c) ==
  /\ Turn(c, "rain delay") /\ run' = Pruned(clients[c].read) /\ Finish(c)
  /\ cache' = <<clients[c].read, Remaining(run', clients[c].read)>>
  /\ missed' = (missed \/ clients[c].read # Reported)
  /\ UNCHANGED <<device, static, ours, moves>>
\* No answer: the command may have taken effect.  A status falls back on the last
\* one, a rename on what that says of the zone, the others report the failure.
CallFails(c) ==
  /\ lock # <<>> /\ Head(lock) = c /\ Finish(c)
  /\ \/ UNCHANGED <<device, ours>>
     \/ clients[c].call = "irrigate" /\ device' = Irrigated(clients[c].zone, clients[c].minutes) /\ ours' = FALSE
     \/ clients[c].call = "stop" /\ device' = Off /\ ours' = FALSE
  /\ UNCHANGED <<static, run, cache, missed, moves>>

Next ==
  \/ Tick \/ Dial
  \/ \E c \in Clients : Ask(c, "status", None, 0) \/ Ask(c, "stop", None, 0)
  \/ \E c \in Clients, z \in Zones : Ask(c, "rename", z, 0) \/ \E n \in Minutes : Ask(c, "start", z, n)
  \/ \E c \in Clients : ReadStatic(c) \/ Irrigate(c) \/ StopIrrigation(c) \/ ReadStates(c) \/ ReadSensor(c) \/ ReadDelay(c) \/ CallFails(c)
Spec == Init /\ [][Next]_vars

-----------------------------------------------------------------------------
\* A zone that the service has started counts down as the controller does, from the
\* start to the end, through the lag and through other requests' polls.  The
\* exceptions: the dial, a command whose answer was lost, and a status that read the
\* zones two calls earlier and applies what no longer holds.
CountdownIsTrue ==
  (device.zone # None /\ ours /\ ~missed) => run.zone = device.zone /\ Remaining(run, device.zone) = device.left
==============================================================================
