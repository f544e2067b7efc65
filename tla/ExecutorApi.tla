------------------------------ MODULE ExecutorApi ------------------------------
(***************************************************************************)
(* What the executor's API promises its clients: one zone waters at a      *)
(* time, for as long as it was asked to or as its program's step says; a   *)
(* manual start ends whatever else waters; an unreachable controller takes *)
(* no command and tells no rain delay, and the status answered then is     *)
(* that of the last-known cache, as of the moment it was taken.            *)
(***************************************************************************)
EXTENDS Naturals, Sequences

CONSTANTS Zones, None,
          Durations,   \* of a manual start
          Programs,    \* step sequences a program run may have
          Delays       \* days of rain delay

VARIABLES plan,      \* what waters now and what follows it: zones, and the time they have left
          reachable,
          delay,
          cached,    \* what watered when the controller was last reached; <<>> while it is
          answer     \* the last answer to a GET
vars == <<plan, reachable, delay, cached, answer>>

Step(z, n) == [zone |-> z, left |-> n]
Answer(kind, live, zones, days) ==
  [kind |-> kind, reachable |-> live, delay |-> days,
   zone |-> IF zones = <<>> THEN None ELSE zones[1].zone, left |-> IF zones = <<>> THEN 0 ELSE zones[1].left]
Status(live, zones) == Answer("status", live, zones, delay)
RainDelay == Answer("delay", TRUE, <<>>, delay)
Unavailable == Answer("503", FALSE, <<>>, 0)
Init ==
  /\ Len(plan) <= 1 /\ reachable = TRUE /\ delay = 0 /\ cached = <<>> /\ answer = Unavailable

Start ==
  /\ reachable /\ \E z \in Zones, n \in Durations : plan' = <<Step(z, n)>>
  /\ UNCHANGED <<reachable, delay, answer>>
StopAll == reachable /\ plan' = <<>> /\ UNCHANGED <<reachable, delay, answer>>
RunProgram == plan' \in Programs /\ UNCHANGED <<reachable, delay, answer>>
EndProgram == plan' = <<>> /\ UNCHANGED <<reachable, delay, answer>>
SetRainDelay == reachable /\ delay' \in Delays /\ UNCHANGED <<plan, reachable, answer>>
\* A moment passes; the next step follows without a gap.
Tick ==
  /\ plan # <<>>
  /\ plan' = IF plan[1].left > 1 THEN [plan EXCEPT ![1].left = @ - 1] ELSE Tail(plan)
  /\ UNCHANGED <<reachable, delay, answer>>
Reachability == reachable' \in BOOLEAN /\ UNCHANGED <<plan, delay, answer>>
LiveRead ==
  /\ reachable /\ answer' \in {Status(TRUE, plan), RainDelay}
  /\ UNCHANGED <<plan, reachable, delay>>
CachedRead ==
  /\ ~reachable /\ answer' \in {Status(FALSE, cached), Unavailable}
  /\ UNCHANGED <<plan, reachable, delay>>
\* Half of that: a status says that it is not live, whatever it tells.
AnyRead ==
  /\ ~reachable /\ (answer'.kind = "status" => ~answer'.reachable)
  /\ UNCHANGED <<plan, reachable, delay>>

\* The cache is taken when the controller is lost and kept until it is back.
Reading == IF plan = <<>> THEN <<>> ELSE <<plan[1]>>
Cached == cached' = IF reachable' THEN <<>> ELSE IF reachable THEN Reading ELSE cached

Move == Start \/ StopAll \/ RunProgram \/ EndProgram \/ SetRainDelay \/ Tick \/ Reachability \/ LiveRead
Next == (Move \/ CachedRead) /\ Cached
\* An executor without a cache.
NextUncached == Move \/ AnyRead
==============================================================================
