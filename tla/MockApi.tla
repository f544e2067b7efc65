--------------------------------- MODULE MockApi ---------------------------------
(***************************************************************************)
(* The in-browser mock of the legacy web app: the same API, over one       *)
(* running zone and a switch that makes the module unreachable.  A request *)
(* looks at the state after its latency, all at once.  Names are left out. *)
(***************************************************************************)
EXTENDS Integers, Sequences

CONSTANTS Zones, None, Minutes, Days,
          MaxTime   \* bound on the clock
MockAssumption == None \notin Zones /\ Minutes \cup Days \subseteq Nat /\ MaxTime \in Nat

VARIABLES running,    \* the zone and its end; None: null
          unreachable, cached, rainDelayDays, now, answered
vars == <<running, unreachable, cached, rainDelayDays, now, answered>>

NotRunning == [id |-> None, endsAt |-> 0]
Answer(kind, live, zones, days) ==
  [kind |-> kind, reachable |-> live, delay |-> days,
   zone |-> IF zones = <<>> THEN None ELSE zones[1].zone, left |-> IF zones = <<>> THEN 0 ELSE zones[1].left]
Unavailable == Answer("503", FALSE, <<>>, 0)
Init ==
  /\ running = [id |-> CHOOSE z \in Zones : TRUE, endsAt |-> 2] /\ unreachable = FALSE
  /\ cached = <<>> /\ rainDelayDays = 0 /\ now = 0 /\ answered = Unavailable

\* zones() forgets a run that is over, then lists what is left.
Expired == IF running.endsAt <= now THEN NotRunning ELSE running
Listed == IF Expired = NotRunning THEN <<>> ELSE <<[zone |-> running.id, left |-> running.endsAt - now]>>
\* Mutant: the zones go on counting down in a status that claims to be cached.
ServedLive == Listed
Served == IF unreachable THEN cached ELSE Listed
GetStatus ==
  /\ answered' = Answer("status", ~unreachable, Served, rainDelayDays)
  /\ running' = IF unreachable THEN running ELSE Expired
  /\ UNCHANGED <<unreachable, cached, rainDelayDays, now>>
GetRainDelay ==
  /\ answered' = IF unreachable THEN Unavailable ELSE Answer("delay", TRUE, <<>>, rainDelayDays)
  /\ UNCHANGED <<running, unreachable, cached, rainDelayDays, now>>
StartZone ==
  /\ ~unreachable
  /\ \E z \in Zones, m \in Minutes : running' = [id |-> z, endsAt |-> now + m]
  /\ UNCHANGED <<unreachable, cached, rainDelayDays, now, answered>>
StopAll ==
  /\ ~unreachable /\ running' = NotRunning
  /\ UNCHANGED <<unreachable, cached, rainDelayDays, now, answered>>
SetRainDelay ==
  /\ ~unreachable /\ rainDelayDays' \in Days
  /\ UNCHANGED <<running, unreachable, cached, now, answered>>
\* The badge: going unreachable keeps a copy of the zones.
Toggle ==
  /\ unreachable' = ~unreachable
  /\ IF unreachable THEN cached' = <<>> /\ UNCHANGED running
     ELSE cached' = Listed /\ running' = Expired
  /\ UNCHANGED <<rainDelayDays, now, answered>>
Tick ==
  /\ now < MaxTime /\ now' = now + 1
  /\ UNCHANGED <<running, unreachable, cached, rainDelayDays, answered>>

Next == GetStatus \/ GetRainDelay \/ StartZone \/ StopAll \/ SetRainDelay \/ Toggle \/ Tick
Spec == Init /\ [][Next]_vars

-----------------------------------------------------------------------------
Api == INSTANCE ExecutorApi WITH
         plan <- Listed, reachable <- ~unreachable, delay <- rainDelayDays, answer <- answered,
         Durations <- Minutes, Programs <- {}, Delays <- Days
\* The mock keeps the promises of the executor's API, those of an unreachable
\* controller too: the status it answers then is the one of the moment it went.
ImplementsApi == Api!Init /\ [][Api!Next]_(Api!vars)
==============================================================================
