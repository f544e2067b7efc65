-------------------------------- MODULE Preview --------------------------------
(***************************************************************************)
(* When a program runs next: as the list of schedules previews it, with    *)
(* the browser's dates, and as the executor works it out, from the         *)
(* occurrences between two instants.  Both are in one time zone, whose     *)
(* clocks may jump forward or back once.                                   *)
(*                                                                         *)
(* Time is in units of half an hour, of which a jump has two and a day,    *)
(* shortened, DayLength; day 0 is the first of a week of Week days.        *)
(***************************************************************************)
EXTENDS Integers, FiniteSetsExt

CONSTANTS DayLength, Week,
          Horizon,     \* how many calendar days the preview looks at
          StartTimes,  \* a program's start times, as sets
          Jumps,       \* kind, day and unit of the day of the zone's jump
          LastTime
\* A day is more than twice as long as a jump, and a jump within one day.
PreviewAssumption ==
  /\ {DayLength, Week, Horizon, LastTime} \subseteq Nat /\ DayLength > 4 /\ Week > 0 /\ Horizon > 0
  /\ \A s \in StartTimes : s # {} /\ s \subseteq 0..(DayLength - 1)
  /\ \A j \in Jumps : j.kind \in {"forward", "back", "none"} /\ j.day \in Nat /\ j.unit \in 0..(DayLength - 2)

VARIABLES program,  \* day_type, days_of_week or interval_days and anchor_date, start_times
          jump, now
vars == <<program, jump, now>>

AllPrograms ==
  [type : {"days_of_week"}, days : SUBSET (0..(Week - 1)) \ {{}}, times : StartTimes]
    \cup [type : {"interval"}, interval : 1..Week, anchor : 0..Week, times : StartTimes]
Init == program \in AllPrograms /\ jump \in Jumps /\ now = 0
Tick == now < LastTime /\ now' = now + 1 /\ UNCHANGED <<program, jump>>
Spec == Init /\ [][Tick]_vars

-----------------------------------------------------------------------------
(* The calendar, of which Date and zoneinfo have the same idea: a time     *)
(* that does not exist is read with the offset before the jump, and of a   *)
(* time that comes twice the first is meant.                               *)

Jumped(day, unit) == day > jump.day \/ (day = jump.day /\ unit >= jump.unit + 2)
Instant(day, unit) ==
  DayLength * day + unit
    + CASE ~Jumped(day, unit) -> 0
        [] Jumped(day, unit) /\ jump.kind = "forward" -> -2
        [] Jumped(day, unit) /\ jump.kind = "back" -> 2
        [] Jumped(day, unit) /\ jump.kind = "none" -> 0
Day(instant) == Max({d \in 0..(LastTime + Horizon + 1) : Instant(d, 0) <= instant})

-----------------------------------------------------------------------------
(* The executor.                                                           *)

MatchesDay(day) ==
  IF program.type = "days_of_week" THEN day % Week \in program.days
  ELSE day >= program.anchor /\ (day - program.anchor) % program.interval = 0
OccurrencesBetween(start, end) ==
  {t \in {Instant(d, w) : d \in {d \in (Day(start) - 1)..(Day(end) + 1) : MatchesDay(d)}, w \in program.times} :
     start < t /\ t <= end}

-----------------------------------------------------------------------------
(* The preview.                                                            *)

\* Mutant: whole days between two midnights, rounded down.
FloorDays(n) == n \div DayLength
RoundDays(n) == (2 * n + DayLength) \div (2 * DayLength)
RuleMatchesDay(day) ==
  IF program.type = "days_of_week" THEN day % Week \in program.days
  ELSE LET diffDays == RoundDays(Instant(day, 0) - Instant(program.anchor, 0))
       IN diffDays >= 0 /\ diffDays % program.interval = 0
\* setMinutes counts from the hour that a day without a midnight begins with.
At(day, unit) ==
  IF jump = [kind |-> "forward", day |-> day, unit |-> 0] THEN Instant(day, unit + 2) ELSE Instant(day, unit)
Never == -1
\* The first day that has a later start time, and of its start times in the order of
\* the clock the first that is later.
NextOccurrence ==
  LET later(d) == {w \in program.times : At(d, w) > now}
      days == {d \in Day(now)..(Day(now) + Horizon - 1) : RuleMatchesDay(d) /\ later(d) # {}}
  IN IF days = {} THEN Never ELSE At(Min(days), Min(later(Min(days))))

-----------------------------------------------------------------------------
\* The preview names the occurrence that the executor will fire next, or none when
\* there is none in its horizon, also over a day that is shorter or longer than
\* others.  The exceptions are on the day the clocks jump forward: a start time that
\* does not exist comes after later ones of the same day, and at midnight the
\* browser's arithmetic itself is an hour late.
PreviewAgrees ==
  LET soon == OccurrencesBetween(now, Instant(Day(now) + Horizon, 0) - 1)
      skipped == jump.kind = "forward" /\ (jump.unit = 0 \/ \E w \in program.times : w \in jump.unit..(jump.unit + 1))
  IN skipped \/ NextOccurrence = IF soon = {} THEN Never ELSE Min(soon)
==============================================================================
