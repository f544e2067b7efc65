------------------------------ MODULE WeatherForm ------------------------------
(***************************************************************************)
(* A threshold of the weather settings in the admin's form: stored metric, *)
(* shown and edited in the user's unit, which can flip while the form is   *)
(* open; saved whole, while another admin, or a move of the home marker,   *)
(* may write the same row; then read again by a refresh of the page.       *)
(*                                                                         *)
(* Rain is in hundredths of a millimetre or an inch; the freeze guard in   *)
(* hundredths of a degree Celsius, shown in tenths of either scale.  A     *)
(* text is the number it spells; floating-point noise is left out, and so  *)
(* are metric rain of more decimals, which mmToField rounds, and the empty *)
(* text, which a flip leaves alone.                                        *)
(***************************************************************************)
EXTENDS Integers

CONSTANTS Rain, Freeze,             \* stored values, of the two kinds of threshold
          RainTexts, FreezeTexts    \* what the admin may type
Units == {"metric", "imperial"}
LimitsOf(f) == IF f = "rain" THEN 0..10000 ELSE -3000..1000
WeatherFormAssumption ==
  Rain \subseteq LimitsOf("rain") /\ Freeze \subseteq LimitsOf("freeze") /\ RainTexts \cup FreezeTexts \subseteq Int

VARIABLES field,    \* which threshold this is
          stored,   \* the row of weather_settings
          initial,  \* initialSettings: the row as the page last read it
          units, text, touched,
          sent,     \* the save under way: its value, and whether the admin had edited the field
          refresh,  \* the page is about to read the row again
          others    \* somebody else has written the row since the page was opened
vars == <<field, stored, initial, units, text, touched, sent, refresh, others>>

-----------------------------------------------------------------------------
(* Conversions: Math.round of a quotient.                                  *)

Round(n, d) == (2 * n + d) \div (2 * d)
ToField(v, u) ==
  CASE field = "rain"   /\ u = "metric"   -> v
    [] field = "rain"   /\ u = "imperial" -> Round(10 * v, 254)
    [] field = "freeze" /\ u = "metric"   -> Round(v, 10)
    [] field = "freeze" /\ u = "imperial" -> Round(9 * v + 16000, 50)
Parsed(t, u) ==
  CASE field = "rain"   /\ u = "metric"   -> t
    [] field = "rain"   /\ u = "imperial" -> Round(254 * t, 10)
    [] field = "freeze" /\ u = "metric"   -> 10 * t
    [] field = "freeze" /\ u = "imperial" -> Round(50 * t - 16000, 9)
\* 3.94, -22 and 50: the bounds in the form's wording.
Advertised(t, u) ==
  IF field = "rain" THEN t \in 0..(IF u = "metric" THEN 10000 ELSE 394)
  ELSE t \in (IF u = "metric" THEN -300..100 ELSE -220..500)
\* Mutant: the largest value in inches is converted as any other.
Unclamped(v, t, u) == v
Clamped(v, t, u) == IF field = "rain" /\ u = "imperial" /\ v > 10000 /\ t <= 394 THEN 10000 ELSE v
\* Mutant: a text is always converted.
Converted(t, u) == Clamped(Parsed(t, u), t, u)
\* A text that still equals the stored value as it is rendered stands for it exactly.
FieldToMetric(t, u) == IF t = ToField(initial, u) THEN initial ELSE Clamped(Parsed(t, u), t, u)

-----------------------------------------------------------------------------
NotSent == [on |-> FALSE, value |-> 0, touched |-> FALSE]
Init ==
  /\ \/ field = "rain" /\ stored \in Rain
     \/ field = "freeze" /\ stored \in Freeze
  /\ initial = stored /\ units \in Units /\ text = ToField(stored, units) /\ touched = FALSE
  /\ sent = NotSent /\ refresh = FALSE /\ others = FALSE

Type ==
  /\ text' \in (IF field = "rain" THEN RainTexts ELSE FreezeTexts) /\ touched' = TRUE
  /\ UNCHANGED <<field, stored, initial, units, sent, refresh, others>>
\* The preference flips, here or in the menu: the text is expressed anew.
FlipUnits ==
  /\ \E u \in Units \ {units} : units' = u /\ text' = ToField(FieldToMetric(text, units), u)
  /\ UNCHANGED <<field, stored, initial, touched, sent, refresh, others>>
\* validate and validateWeatherSettingsInput have the same limits.
Save ==
  /\ ~sent.on /\ FieldToMetric(text, units) \in LimitsOf(field)
  /\ sent' = [on |-> TRUE, value |-> FieldToMetric(text, units), touched |-> touched]
  /\ UNCHANGED <<field, stored, initial, units, text, touched, refresh, others>>
Saved ==
  /\ sent.on /\ stored' = sent.value /\ sent' = NotSent /\ refresh' = TRUE
  /\ UNCHANGED <<field, initial, units, text, touched, others>>
SaveFails ==
  /\ sent.on /\ sent' = NotSent
  /\ UNCHANGED <<field, stored, initial, units, text, touched, refresh, others>>
\* router.refresh: new initial settings, under the fields as they are.
Refresh ==
  /\ refresh /\ refresh' = FALSE /\ initial' = stored
  /\ touched' = (touched /\ (sent.on \/ text # ToField(stored, units)))
  /\ UNCHANGED <<field, stored, units, text, sent, others>>
\* Another admin's form, or saveHome, which writes back what it read a moment ago.
OtherWrites ==
  /\ stored' \in (IF field = "rain" THEN Rain ELSE Freeze) \ {stored} /\ others' = TRUE
  /\ UNCHANGED <<field, initial, units, text, touched, sent, refresh>>

Next == Type \/ FlipUnits \/ Save \/ Saved \/ SaveFails \/ Refresh \/ OtherWrites
Spec == Init /\ [][Next]_vars

-----------------------------------------------------------------------------
(* What the form promises.                                                 *)

\* "Display rounding can't drift what gets saved": a field the admin did not edit
\* is saved as it is stored, however often the unit has flipped.  Another writer
\* breaks it: the form saves what it last read, over the other's value.
UntouchedStaysExact == (sent.on /\ ~sent.touched /\ ~others) => sent.value = stored

\* Whatever lies in the advertised range can be saved: the form's bounds in inches
\* and degrees Fahrenheit, rounded for display, pass the metric limits.
AdvertisedAccepted == Advertised(text, units) => FieldToMetric(text, units) \in LimitsOf(field)
==============================================================================
