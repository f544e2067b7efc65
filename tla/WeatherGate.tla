------------------------------ MODULE WeatherGate ------------------------------
(***************************************************************************)
(* The executor's weather (weather.py, forecast.py): the mirror of the     *)
(* settings row, one cached snapshot, a warm-up in the scheduler's loop, a *)
(* decision in the task of each run, and the forecast's predictions.  The  *)
(* weather turns out as it is forecast.                                    *)
(***************************************************************************)
EXTENDS Integers, FiniteSets

CONSTANTS Places, None,
          Skies,                \* of each place: the hours in which it rains, and those that freeze
          Limits,               \* millimetres that make a run be skipped
          Cache, Stale, Retry,  \* how long a snapshot is used without a fetch, and at all; after a failure
          Lookback, Lookahead,  \* of the rain's sums
          LastTime, MaxSaves    \* bounds
WeatherGateAssumption == None \notin Places /\ {Cache, Stale, Retry, Lookback, Lookahead, LastTime, MaxSaves} \subseteq Nat

VARIABLES sky, now,
          stored,     \* the row of weather_settings
          settings,   \* its mirror
          snapshot,   \* the place and time it is of; the sky tells the rest
          failedAt,   \* _refresh_failed_at
          warming,    \* the loop's fetch
          run,        \* the run's fetch, with the settings and the snapshot it began with
          decision,   \* the last
          prediction, \* for one occurrence
          saves
vars == <<sky, now, stored, settings, snapshot, failedAt, warming, run, decision, prediction, saves>>

\* What an admin may save, the save's number standing for updated_at.
Rows(n) == [enabled : BOOLEAN, place : Places \cup {None}, limit : Limits, updated : {n}]
NoSnapshot == [place |-> None, at |-> -1]
NoFetch == [on |-> FALSE, place |-> None]
NoRow == [enabled |-> FALSE, place |-> None, limit |-> 0, updated |-> -1]
NotRunning == [on |-> FALSE, settings |-> NoRow, snapshot |-> NoSnapshot]
NoVerdict == [at |-> -1, verdict |-> "none", settings |-> NoRow, snapshot |-> NoSnapshot]
Init ==
  /\ sky \in Skies /\ now = 0 /\ stored \in Rows(0) /\ settings = stored
  /\ snapshot = NoSnapshot /\ failedAt = -1 /\ warming = NoFetch /\ run = NotRunning
  /\ decision = NoVerdict /\ prediction = NoVerdict /\ saves = 0

-----------------------------------------------------------------------------
(* What the weather says.                                                  *)

WetHours(p, hours) == Cardinality(sky[p].rain \cap hours)
\* parse_open_meteo: the sums over (now - lookback, now] and (now, now + lookahead].
Parsed(p, t) == [past |-> WetHours(p, (t - Lookback + 1)..t), next |-> WetHours(p, (t + 1)..(t + Lookahead)), freezing |-> t \in sky[p].freeze]
\* Mutant: both ends of the window count.
ClosedWindow(p, start, end) == WetHours(p, start..end)
\* forecast.py sums the hourly buckets itself, at the occurrence.
SumWindow(p, start, end) == WetHours(p, (start + 1)..end)
AtOccurrence(p, t) == [past |-> SumWindow(p, t - Lookback, t), next |-> SumWindow(p, t, t + Lookahead), freezing |-> t \in sky[p].freeze]
\* The first rule that applies names the skip.
Decide(row, w) ==
  IF w.past >= row.limit THEN "rain" ELSE IF w.next >= row.limit THEN "forecast" ELSE IF w.freezing THEN "freeze" ELSE "water"

Wanted(row) == row.enabled /\ row.place # None
Younger(s, limit) == s # NoSnapshot /\ now - s.at < limit
Usable(s) == s # NoSnapshot /\ now - s.at <= Stale

-----------------------------------------------------------------------------
(* The loop and the web app.                                               *)

\* PUT /api/settings/weather.
Save ==
  /\ saves < MaxSaves /\ saves' = saves + 1 /\ stored' \in Rows(saves')
  /\ UNCHANGED <<sky, now, settings, snapshot, failedAt, warming, run, decision, prediction>>
\* A fetch ends long before the weather changes.
Tick ==
  /\ now < LastTime /\ ~warming.on /\ ~run.on /\ now' = now + 1
  /\ UNCHANGED <<sky, stored, settings, snapshot, failedAt, warming, run, decision, prediction, saves>>
\* A refresh of the scheduler: update_settings forgets the snapshot when the row has
\* changed, and refresh fetches if there is none, or an old one.
Refresh ==
  LET kept == IF stored = settings THEN snapshot ELSE NoSnapshot
  IN /\ ~warming.on /\ settings' = stored /\ snapshot' = kept
     /\ warming' = IF Wanted(stored) /\ ~Younger(kept, Cache) /\ (failedAt = -1 \/ now - failedAt >= Retry)
                   THEN [on |-> TRUE, place |-> stored.place] ELSE warming
     /\ UNCHANGED <<sky, now, stored, failedAt, run, decision, prediction, saves>>
Warmed ==
  /\ warming.on /\ warming' = NoFetch /\ snapshot' = [place |-> warming.place, at |-> now] /\ failedAt' = -1
  /\ UNCHANGED <<sky, now, stored, settings, run, decision, prediction, saves>>
WarmingFails ==
  /\ warming.on /\ warming' = NoFetch /\ failedAt' = now
  /\ UNCHANGED <<sky, now, stored, settings, snapshot, run, decision, prediction, saves>>

-----------------------------------------------------------------------------
(* Runs and predictions.                                                   *)

\* No weather, or old weather: the run waters.
Verdict(row, s) ==
  [at |-> now, settings |-> row, snapshot |-> s,
   verdict |-> IF ~Wanted(row) \/ ~Usable(s) THEN "water" ELSE Decide(row, Parsed(s.place, s.at))]
Evaluate ==
  /\ ~run.on
  /\ IF Wanted(settings) /\ ~Younger(snapshot, Cache)
     THEN run' = [on |-> TRUE, settings |-> settings, snapshot |-> snapshot] /\ UNCHANGED decision
     ELSE decision' = Verdict(settings, snapshot) /\ UNCHANGED run
  /\ UNCHANGED <<sky, now, stored, settings, snapshot, failedAt, warming, prediction, saves>>
\* The snapshot is of the place the run began with, whatever update_settings has
\* forgotten in the meantime.
Fetched ==
  LET s == [place |-> run.settings.place, at |-> now]
  IN /\ run.on /\ snapshot' = s /\ decision' = Verdict(run.settings, s) /\ run' = NotRunning
     /\ UNCHANGED <<sky, now, stored, settings, failedAt, warming, prediction, saves>>
FetchFails ==
  /\ run.on /\ decision' = Verdict(run.settings, run.snapshot) /\ run' = NotRunning
  /\ UNCHANGED <<sky, now, stored, settings, snapshot, failedAt, warming, prediction, saves>>
\* GET /api/forecast: one of the occurrences ahead.
Predict ==
  /\ Wanted(settings) /\ Usable(snapshot)
  /\ \E t \in now..LastTime :
       prediction' = [at |-> t, settings |-> settings, snapshot |-> snapshot,
                      verdict |-> Decide(settings, AtOccurrence(snapshot.place, t))]
  /\ UNCHANGED <<sky, now, stored, settings, snapshot, failedAt, warming, run, decision, saves>>

Next ==
  \/ Save \/ Tick \/ Refresh \/ Warmed \/ WarmingFails
  \/ Evaluate \/ Fetched \/ FetchFails \/ Predict
Spec == Init /\ [][Next]_vars

-----------------------------------------------------------------------------
\* What the forecast predicts for an occurrence is what its run decides, when the run
\* comes to fetch the weather and the settings have not changed: the two modules sum
\* the same hours, one around now and the other around the occurrence.
PredictionComesTrue ==
  (decision.at = prediction.at /\ decision.snapshot = [place |-> prediction.snapshot.place, at |-> decision.at]
    /\ decision.settings = prediction.settings) => decision.verdict = prediction.verdict

\* "Any change [of the settings] invalidates the snapshot so the next evaluation
\* refetches" (weather.py:216-217, M3.E5): no run is skipped for the weather of a place
\* other than the one it reads in the settings.
SkippedForPlace == decision.verdict \in {"rain", "forecast", "freeze"} => decision.snapshot.place = decision.settings.place
==============================================================================
