------------------------------ MODULE StubExecutor ------------------------------
(***************************************************************************)
(* The stand-in for the executor that the web app is developed against.    *)
(* Nothing in it ever counts down: what waters is worked out from the      *)
(* clock whenever somebody asks, and a finished program run is noticed     *)
(* and forgotten then.  Names and the canned weather and forecast answers  *)
(* do not matter to what waters and are left out.                          *)
(***************************************************************************)
EXTENDS Integers, Sequences, FiniteSetsExt

CONSTANTS Zones, None, Minutes, Runs, Days,
          MaxTime   \* bound on the clock
\* start_program_run refuses steps of no seconds, and a run of no steps.
Steps == [zone : Zones, left : Nat \ {0}]
StubAssumption ==
  /\ None \notin Zones /\ Minutes \subseteq Nat /\ Days \subseteq Nat /\ MaxTime \in Nat
  /\ Runs \subseteq Seq(Steps) \ {<<>>}
NoRun == <<>>

VARIABLES endsAt,       \* of each zone; -1 for null
          programRun,   \* its steps, zone and seconds, or NoRun
          startedAt, reachable, rainDelay, now,
          answered      \* the last answer to a GET
vars == <<endsAt, programRun, startedAt, reachable, rainDelay, now, answered>>

AllOff == [z \in Zones |-> -1]
Answer(kind, live, zones, days) ==
  [kind |-> kind, reachable |-> live, delay |-> days,
   zone |-> IF zones = <<>> THEN None ELSE zones[1].zone, left |-> IF zones = <<>> THEN 0 ELSE zones[1].left]
Unavailable == Answer("503", FALSE, <<>>, 0)
Init ==
  /\ endsAt = AllOff /\ programRun = NoRun /\ startedAt = 0
  /\ reachable = TRUE /\ rainDelay = 0 /\ now = 0 /\ answered = Unavailable

-----------------------------------------------------------------------------
(* programRunStatus and zoneStatus.                                        *)

\* When each step ends, the run's start the first.
Ends[i \in 0..Len(programRun)] == IF i = 0 THEN startedAt ELSE Ends[i - 1] + programRun[i].left
EndOf(i) == Ends[i]
StepsLeft == {i \in DOMAIN programRun : now < EndOf(i)}
RunStatus == IF StepsLeft = {} THEN NoRun
             ELSE LET i == Min(StepsLeft) IN <<[zone |-> programRun[i].zone, left |-> EndOf(i) - now]>>
                    \o SubSeq(programRun, i + 1, Len(programRun))
\* run finished: cleared by whoever asks.
Swept == IF RunStatus = NoRun THEN NoRun ELSE programRun
Active == {z \in Zones : endsAt[z] > now}
\* The program's step first, then whatever zone is still to end.
Watering ==
  IF RunStatus # NoRun THEN RunStatus
  ELSE IF Active = {} THEN <<>> ELSE LET z == CHOOSE z \in Active : TRUE IN <<[zone |-> z, left |-> endsAt[z] - now]>>

-----------------------------------------------------------------------------
(* Requests.                                                               *)

\* Zones and rain delay as they are, reachable or not.
GetStatus ==
  /\ answered' = Answer("status", reachable, Watering, rainDelay)
  /\ programRun' = Swept
  /\ UNCHANGED <<endsAt, startedAt, reachable, rainDelay, now>>
GetRainDelay ==
  /\ answered' = Answer("delay", TRUE, <<>>, rainDelay)
  /\ UNCHANGED <<endsAt, programRun, startedAt, reachable, rainDelay, now>>
\* Mutant: a manual start leaves the simulated run to itself.
RunKept == programRun
\* Manual always wins.
RunCancelled == NoRun
Start ==
  /\ reachable
  /\ \E z \in Zones, m \in Minutes : endsAt' = [AllOff EXCEPT ![z] = now + m]
  /\ programRun' = RunCancelled
  /\ UNCHANGED <<startedAt, reachable, rainDelay, now, answered>>
StopAll ==
  /\ reachable /\ endsAt' = AllOff /\ programRun' = NoRun
  /\ UNCHANGED <<startedAt, reachable, rainDelay, now, answered>>
SetRainDelay ==
  /\ reachable /\ rainDelay' \in Days
  /\ UNCHANGED <<endsAt, programRun, startedAt, reachable, now, answered>>
\* POST /__control, of which every answer asks for the run.
ControlReachable ==
  /\ reachable' \in BOOLEAN /\ programRun' = Swept
  /\ UNCHANGED <<endsAt, startedAt, rainDelay, now, answered>>
ControlCancelRun ==
  /\ programRun' = NoRun /\ UNCHANGED <<endsAt, startedAt, reachable, rainDelay, now, answered>>
ControlStartRun ==
  /\ programRun' \in Runs /\ startedAt' = now /\ endsAt' = AllOff
  /\ UNCHANGED <<reachable, rainDelay, now, answered>>
Tick ==
  /\ now < MaxTime /\ now' = now + 1
  /\ UNCHANGED <<endsAt, programRun, startedAt, reachable, rainDelay, answered>>

Next ==
  \/ GetStatus \/ GetRainDelay \/ Start \/ StopAll \/ SetRainDelay
  \/ ControlReachable \/ ControlCancelRun \/ ControlStartRun \/ Tick
Spec == Init /\ [][Next]_vars

-----------------------------------------------------------------------------
Api == INSTANCE ExecutorApi WITH
         plan <- Watering, delay <- rainDelay, cached <- <<>>, answer <- answered,
         Durations <- Minutes, Programs <- Runs, Delays <- Days
\* What the stub waters is what the API lets water, although it keeps no countdown:
\* what a manual start ends stays ended, and the steps of a program follow each other
\* without a gap or an overlap.  What it answers is as promised while it is reachable;
\* it has no cache, so that an unreachable status tells the zones as they are now, not
\* "as of cached_at" (docs/API.md), and GET /api/rain-delay is not refused.
ImplementsApi == Api!Init /\ [][Api!NextUncached]_(Api!vars)
==============================================================================
