------------------------------ MODULE PageProofs ------------------------------
(***************************************************************************)
(* The pages of the web apps, for any instance: the search box, the        *)
(* weather form, the program editor, the dashboard, the map's editor, the  *)
(* zone list, the schedules and their preview, the quick-run dialog, the   *)
(* first web app and the history.  The invariants and lemmas are of one    *)
(* component each; the theorems are of the composition that the runs       *)
(* check.                                                                  *)
(***************************************************************************)
EXTENDS Parts, FiniteSetTheorems, WellFoundedInduction, TLAPS

-----------------------------------------------------------------------------
(* Sets of numbers.  What has to be shown of every number is shown of the  *)
(* least for which it would fail.                                          *)

\* Some numbers have a least one.
LEMMA Least == ASSUME NEW T \in SUBSET Nat, T # {} PROVE \E x \in T : \A y \in T : x <= y
PROOF
<1> DEFINE Less == {ss \in Nat \X Nat : ss[1] < ss[2]}
<1>1. IsWellFoundedOn(Less, Nat)
  BY NatLessThanWellFounded DEF OpToRel
<1>2. \A x, y \in Nat : <<y, x>> \notin Less => x <= y
  OBVIOUS
<1> HIDE DEF Less
<1>3. PICK x \in T : \A y \in T : ~(<<y, x>> \in Less)
  BY <1>1, WFMin
<1> QED BY <1>2, <1>3

\* Finitely many have a greatest one.
LEMMA GreatestOf == ASSUME NEW S \in SUBSET Nat, IsFiniteSet(S), S # {} PROVE \E m \in S : \A y \in S : y <= m
PROOF
<1> DEFINE T == {n \in Nat : \E R \in SUBSET Nat : IsFiniteSet(R) /\ Cardinality(R) = n /\ R # {} /\ \A m \in R : \E y \in R : y > m}
<1>1. SUFFICES T = {}
  <2>1. Cardinality(S) \in Nat
    BY FS_CardinalityType
  <2>2. Cardinality(S) \notin T
    BY <1>1
  <2>3. ~(\A m \in S : \E y \in S : y > m)
    BY <2>1, <2>2
  <2> QED BY <2>3
<1>2. SUFFICES ASSUME T # {} PROVE FALSE
  OBVIOUS
<1>3. PICK n \in T : \A k \in T : n <= k
  <2>1. T \in SUBSET Nat
    OBVIOUS
  <2> HIDE DEF T
  <2> QED BY <1>2, <2>1, Least
<1>4. PICK R \in SUBSET Nat : IsFiniteSet(R) /\ Cardinality(R) = n /\ R # {} /\ \A m \in R : \E y \in R : y > m
  BY <1>3
<1>5. PICK r \in R : TRUE
  BY <1>4
<1> DEFINE Q == R \ {r}
<1>6. IsFiniteSet(Q) /\ Cardinality(Q) = n - 1 /\ n \in Nat
  BY <1>3, <1>4, FS_RemoveElement
<1>7. Q # {} /\ Q \in SUBSET Nat
  BY <1>4
<1>8. \A m \in Q : \E y \in Q : y > m
  <2> TAKE m \in Q
  <2>1. PICK y \in R : y > m
    BY <1>4
  <2>2. PICK z \in R : z > y
    BY <1>4
  <2>3. y # r \/ (z # r /\ z > m)
    BY <1>4, <2>1, <2>2
  <2> QED BY <2>1, <2>2, <2>3
<1>9. n - 1 \in Nat
  BY <1>6, FS_CardinalityType
<1> QED BY <1>3, <1>6, <1>7, <1>8, <1>9

\* They can be put in order.
Increasing(f, n, S) == f \in [1..n -> S] /\ (\A x \in S : \E i \in 1..n : f[i] = x) /\ \A i, j \in 1..n : i < j => f[i] < f[j]
LEMMA InOrder == ASSUME NEW S \in SUBSET Nat, IsFiniteSet(S) PROVE \E f : Increasing(f, Cardinality(S), S)
PROOF
<1> DEFINE T == {n \in Nat : \E R \in SUBSET Nat : IsFiniteSet(R) /\ Cardinality(R) = n /\ ~\E f : Increasing(f, n, R)}
<1>1. SUFFICES ASSUME T # {} PROVE FALSE
  BY FS_CardinalityType
<1>2. PICK n \in T : \A k \in T : n <= k
  <2>1. T \in SUBSET Nat
    OBVIOUS
  <2> HIDE DEF T
  <2> QED BY <1>1, <2>1, Least
<1>3. PICK R \in SUBSET Nat : IsFiniteSet(R) /\ Cardinality(R) = n /\ ~\E f : Increasing(f, n, R)
  BY <1>2
<1>4. R # {}
  <2> SUFFICES ASSUME R = {} PROVE FALSE
    OBVIOUS
  <2>1. n = 0
    BY <1>3, FS_EmptySet
  <2>2. Increasing([i \in 1..0 |-> i], 0, {})
    BY DEF Increasing
  <2> QED BY <1>3, <2>1, <2>2
<1>5. PICK m \in R : \A y \in R : y <= m
  BY <1>3, <1>4, GreatestOf
<1> DEFINE Q == R \ {m}
<1>6. IsFiniteSet(Q) /\ Cardinality(Q) = n - 1 /\ n - 1 \in Nat /\ Q \in SUBSET Nat
  <2>1. IsFiniteSet(Q) /\ Cardinality(Q) = n - 1
    BY <1>3, FS_RemoveElement
  <2> QED BY <1>3, <2>1, FS_CardinalityType
<1>7. n - 1 \notin T
  BY <1>2, <1>6
<1>8. PICK f : Increasing(f, n - 1, Q)
  BY <1>6, <1>7
<1> DEFINE g == [i \in 1..n |-> IF i = n THEN m ELSE f[i]]
<1>9. Increasing(g, n, R)
  <2>1. n \in Nat /\ \A i \in 1..n : i = n \/ i \in 1..(n - 1)
    BY <1>2
  <2>2. \A i \in 1..(n - 1) : f[i] \in R /\ f[i] # m /\ f[i] < m
    <3>1. \A i \in 1..(n - 1) : f[i] \in R /\ f[i] # m
      BY <1>8 DEF Increasing
    <3>2. \A y \in R : y <= m /\ y \in Nat /\ m \in Nat
      BY <1>5
    <3>3. \A y \in R : y # m => y < m
      <4> HIDE DEF Q, T
      <4> QED BY <3>2
    <3> QED BY <3>1, <3>3
  <2>3. g \in [1..n -> R]
    BY <2>1, <2>2
  <2>4. \A x \in R : \E i \in 1..n : g[i] = x
    BY <1>6, <1>8, <2>1 DEF Increasing
  <2>5. \A i, j \in 1..n : i < j => g[i] < g[j]
    BY <1>8, <2>1, <2>2 DEF Increasing
  <2> QED BY <2>3, <2>4, <2>5 DEF Increasing
<1> QED BY <1>3, <1>9

-----------------------------------------------------------------------------
(* The search box.                                                         *)

SearchTypes ==
  /\ {texts, timer, found} \subseteq Nat
  /\ fetches \in [Fetches -> [pc : {"none", "sent", "found", "failed"}, text : Nat, aborted : BOOLEAN]]
\* A request whose answer would still be shown.
Awaited(f) == fetches[f].pc # "none" /\ ~fetches[f].aborted
\* It is the one that the next keystroke aborts, and of no older text than what was
\* found; while a timer is pending there is none.
NewestAwaited ==
  /\ found <= texts /\ (timer # 0 => timer = texts /\ \A f \in Fetches : ~Awaited(f))
  /\ \A f \in Fetches : Awaited(f) => f = current /\ fetches[f].text \in found..texts
SearchInd == SearchTypes /\ NewestAwaited

\* A keystroke, or closing, leaves nothing awaited.
LEMMA AllAborted ==
  ASSUME SearchInd, fetches' = [f \in Fetches |-> Search!Aborted(f)]
  PROVE  /\ fetches' \in [Fetches -> [pc : {"none", "sent", "found", "failed"}, text : Nat, aborted : BOOLEAN]]
         /\ \A f \in Fetches : ~Awaited(f)'
PROOF
<1> SUFFICES ASSUME NEW f \in Fetches
             PROVE  /\ fetches'[f] \in [pc : {"none", "sent", "found", "failed"}, text : Nat, aborted : BOOLEAN]
                    /\ ~(fetches'[f].pc # "none" /\ ~fetches'[f].aborted)
  BY DEF Awaited
<1>1. fetches[f] \in [pc : {"none", "sent", "found", "failed"}, text : Nat, aborted : BOOLEAN]
      /\ (fetches[f].pc # "none" /\ ~fetches[f].aborted => f = current)
  BY DEF SearchInd, SearchTypes, NewestAwaited, Awaited
<1>2. fetches'[f] = IF f = current /\ fetches[f].pc # "none" THEN [fetches[f] EXCEPT !.aborted = TRUE] ELSE fetches[f]
  BY DEF Search!Aborted
<1> QED BY <1>1, <1>2

\* Every step keeps the newest request the only one awaited, and finds nothing older.
LEMMA SearchStep == ASSUME SearchInd, Search!Next PROVE SearchInd' /\ found' >= found
PROOF
<1> DEFINE R == [pc : {"none", "sent", "found", "failed"}, text : Nat, aborted : BOOLEAN]
<1>1. /\ texts \in Nat /\ timer \in Nat /\ found \in Nat /\ found <= texts /\ fetches \in [Fetches -> R]
      /\ (timer # 0 => timer = texts /\ \A f \in Fetches : ~Awaited(f))
      /\ \A f \in Fetches : Awaited(f) => f = current /\ fetches[f].text \in found..texts
  BY DEF SearchInd, SearchTypes, NewestAwaited
<1>2. CASE Search!Open
  BY <1>1, <1>2 DEF Search!Open, SearchInd, SearchTypes, NewestAwaited, Awaited
<1>3. CASE (\E long \in BOOLEAN : Search!Type(long)) \/ Search!Close \/ Search!Choose
  <2>1. fetches' = [f \in Fetches |-> Search!Aborted(f)] /\ found' = found
    BY <1>3 DEF Search!Type, Search!Close, Search!Choose
  <2>2. (timer' = 0 /\ texts' = texts) \/ (texts' = texts + 1 /\ timer' \in {0, texts + 1})
    BY <1>3 DEF Search!Type, Search!Close, Search!Choose, Search!Nothing, Search!TimerCleared
  <2>3. fetches' \in [Fetches -> R] /\ \A f \in Fetches : ~Awaited(f)'
    BY <2>1, AllAborted
  <2> QED BY <1>1, <2>1, <2>2, <2>3 DEF SearchInd, SearchTypes, NewestAwaited
<1>4. CASE Search!TimerFires
  <2>1. PICK f \in Fetches : fetches[f].pc = "none" /\ current' = f
                             /\ fetches' = [fetches EXCEPT ![f] = [pc |-> "sent", text |-> timer, aborted |-> FALSE]]
    BY <1>4 DEF Search!TimerFires
  <2>2. timer # 0 /\ timer' = 0 /\ UNCHANGED <<found, texts>>
    BY <1>4 DEF Search!TimerFires, Search!Nothing
  <2>3. fetches' \in [Fetches -> R] /\ fetches'[f].text = texts /\ \A g \in Fetches \ {f} : fetches'[g] = fetches[g]
    BY <1>1, <2>1, <2>2
  <2>4. \A g \in Fetches : Awaited(g)' => g = f
    BY <1>1, <2>2, <2>3 DEF Awaited
  <2> QED BY <1>1, <2>1, <2>2, <2>3, <2>4 DEF SearchInd, SearchTypes, NewestAwaited
<1>5. ASSUME NEW f \in Fetches, Search!Answer(f) PROVE SearchInd' /\ found' >= found
  <2>1. PICK p \in {"found", "failed"} : fetches' = [fetches EXCEPT ![f].pc = p]
    BY <1>5 DEF Search!Answer
  <2>2. fetches[f].pc = "sent" /\ UNCHANGED <<timer, current, found, texts>>
    BY <1>5 DEF Search!Answer
  <2>3. fetches' \in [Fetches -> R] /\ \A g \in Fetches : fetches'[g].text = fetches[g].text /\ (Awaited(g)' <=> Awaited(g))
    BY <1>1, <2>1, <2>2 DEF Awaited
  <2> QED BY <1>1, <2>2, <2>3 DEF SearchInd, SearchTypes, NewestAwaited
<1>6. ASSUME NEW f \in Fetches, Search!Land(f) PROVE SearchInd' /\ found' >= found
  <2>1. fetches[f].pc # "none" /\ fetches' = [fetches EXCEPT ![f] = Search!NoFetch] /\ UNCHANGED <<timer, current, texts>>
    BY <1>6 DEF Search!Land
  <2>2. found' = IF fetches[f].aborted THEN found ELSE fetches[f].text
    BY <1>6 DEF Search!Land
  <2>3. fetches' \in [Fetches -> R] /\ ~Awaited(f)' /\ \A g \in Fetches \ {f} : fetches'[g] = fetches[g]
    BY <1>1, <2>1 DEF Search!NoFetch, Search!Nothing, Awaited
  <2>4. CASE Awaited(f)
    <3>1. found' \in found..texts /\ \A g \in Fetches : ~Awaited(g)'
      BY <1>1, <2>1, <2>2, <2>3, <2>4 DEF Awaited
    <3> QED BY <1>1, <2>1, <2>3, <3>1 DEF SearchInd, SearchTypes, NewestAwaited
  <2>5. CASE ~Awaited(f)
    <3>1. found' = found
      BY <1>1, <2>1, <2>2, <2>5 DEF Awaited
    <3>2. \A g \in Fetches : Awaited(g)' => Awaited(g) /\ fetches'[g] = fetches[g]
      BY <2>3 DEF Awaited
    <3> QED BY <1>1, <2>1, <2>3, <3>1, <3>2 DEF SearchInd, SearchTypes, NewestAwaited
  <2> QED BY <2>4, <2>5
<1> QED BY <1>2, <1>3, <1>4, <1>5, <1>6 DEF Search!Next

\* "Never resolves out of order" (search-control.tsx): the results of an older text never
\* replace a newer one's, for any number of requests under way and texts typed.
LEMMA NewestResultsStay == ASSUME Search!SearchAssumption PROVE Search!Spec => Search!NeverOutOfOrder
PROOF
<1>1. Search!Init => SearchInd
  BY DEF Search!Init, Search!NoFetch, Search!Nothing, SearchInd, SearchTypes, NewestAwaited, Awaited
<1>2. SearchInd /\ [Search!Next]_(Search!vars) => SearchInd'
  BY SearchStep DEF Search!vars, SearchInd, SearchTypes, NewestAwaited, Awaited
<1>3. SearchInd /\ [Search!Next]_(Search!vars) => [Search!FoundGrows]_(Search!vars)
  BY SearchStep DEF Search!FoundGrows
<1> QED BY <1>1, <1>2, <1>3, PTL DEF Search!Spec, Search!NeverOutOfOrder

-----------------------------------------------------------------------------
(* The weather form.                                                       *)

\* What is stored, was read and is sent lies within the limits.
InLimits ==
  /\ field \in {"rain", "freeze"} /\ units \in WeatherForm!Units
  /\ stored \in WeatherForm!LimitsOf(field) /\ initial \in WeatherForm!LimitsOf(field) /\ (sent.on => sent.value \in WeatherForm!LimitsOf(field))
\* Unless somebody else writes, an untouched field spells what the page has read, and
\* that is stored; a save of one sends it.
Untouched ==
  /\ touched \in BOOLEAN
  /\ ~touched => (~others => initial = stored /\ text = WeatherForm!ToField(initial, units)) /\ (sent.on => ~sent.touched)
  /\ (sent.on /\ ~sent.touched /\ ~others) => sent.value = stored
FormInd == InLimits /\ Untouched

\* Every step of the form keeps both.
LEMMA FormStep == ASSUME WeatherForm!WeatherFormAssumption, FormInd, WeatherForm!Next PROVE FormInd'
PROOF
<1>1. /\ field \in {"rain", "freeze"} /\ units \in WeatherForm!Units /\ touched \in BOOLEAN
      /\ stored \in WeatherForm!LimitsOf(field) /\ initial \in WeatherForm!LimitsOf(field)
      /\ Rain \subseteq WeatherForm!LimitsOf("rain") /\ Freeze \subseteq WeatherForm!LimitsOf("freeze")
  BY DEF FormInd, InLimits, Untouched, WeatherForm!WeatherFormAssumption
<1>2. field' = field
  BY DEF WeatherForm!Next, WeatherForm!Type, WeatherForm!FlipUnits, WeatherForm!Save, WeatherForm!Saved, WeatherForm!SaveFails, WeatherForm!Refresh, WeatherForm!OtherWrites
<1>3. WeatherForm!LimitsOf(field)' = WeatherForm!LimitsOf(field)
  BY <1>2 DEF WeatherForm!LimitsOf
<1>4. ~touched /\ ~others => WeatherForm!FieldToMetric(text, units) = initial
  BY DEF FormInd, Untouched, WeatherForm!FieldToMetric
<1>5. CASE WeatherForm!Type
  <2>1. touched' = TRUE /\ UNCHANGED <<field, stored, initial, units, sent, refresh, others>>
    BY <1>5 DEF WeatherForm!Type
  <2>2. InLimits'
    BY <1>3, <2>1 DEF FormInd, InLimits
  <2>3. Untouched'
    BY <2>1 DEF FormInd, Untouched
  <2> QED BY <2>2, <2>3 DEF FormInd
<1>6. CASE WeatherForm!FlipUnits
  <2>1. units' \in WeatherForm!Units /\ text' = WeatherForm!ToField(WeatherForm!FieldToMetric(text, units), units')
        /\ UNCHANGED <<field, stored, initial, touched, sent, refresh, others>>
    BY <1>6 DEF WeatherForm!FlipUnits
  <2>2. InLimits'
    BY <1>3, <2>1 DEF FormInd, InLimits
  <2>3. WeatherForm!ToField(initial, units)' = WeatherForm!ToField(initial, units')
    BY <2>1 DEF WeatherForm!ToField
  <2>4. Untouched'
    BY <1>4, <2>1, <2>3 DEF FormInd, Untouched
  <2> QED BY <2>2, <2>4 DEF FormInd
<1>7. CASE WeatherForm!Save
  <2>1. ~sent.on /\ sent' = [on |-> TRUE, value |-> WeatherForm!FieldToMetric(text, units), touched |-> touched]
        /\ WeatherForm!FieldToMetric(text, units) \in WeatherForm!LimitsOf(field)
        /\ UNCHANGED <<field, stored, initial, units, text, touched, refresh, others>>
    BY <1>7 DEF WeatherForm!Save
  <2>2. sent'.on /\ sent'.value = WeatherForm!FieldToMetric(text, units) /\ (sent'.touched <=> touched)
    BY <2>1
  <2>3. InLimits'
    BY <1>3, <2>1, <2>2 DEF FormInd, InLimits
  <2>4. WeatherForm!ToField(initial, units)' = WeatherForm!ToField(initial, units)
    BY <2>1 DEF WeatherForm!ToField
  <2>5. Untouched'
    BY <1>4, <2>1, <2>2, <2>4 DEF FormInd, Untouched
  <2> QED BY <2>3, <2>5 DEF FormInd
<1>8. CASE WeatherForm!Saved \/ WeatherForm!SaveFails
  <2>1. ~sent'.on /\ UNCHANGED <<field, initial, units, text, touched, others>>
    BY <1>8 DEF WeatherForm!Saved, WeatherForm!SaveFails, WeatherForm!NotSent
  <2>2. stored' = stored \/ (sent.on /\ stored' = sent.value)
    BY <1>8 DEF WeatherForm!Saved, WeatherForm!SaveFails
  <2>3. InLimits'
    BY <1>3, <2>1, <2>2 DEF FormInd, InLimits
  <2>4. WeatherForm!ToField(initial, units)' = WeatherForm!ToField(initial, units)
    BY <2>1 DEF WeatherForm!ToField
  <2>5. Untouched'
    <3>1. ~touched => (~others => stored' = stored)
      BY <2>2 DEF FormInd, Untouched
    <3> QED BY <2>1, <2>4, <3>1 DEF FormInd, Untouched
  <2> QED BY <2>3, <2>5 DEF FormInd
<1>9. CASE WeatherForm!Refresh
  <2>1. initial' = stored /\ UNCHANGED <<field, stored, units, text, sent, others>>
        /\ touched' = (touched /\ (sent.on \/ text # WeatherForm!ToField(stored, units)))
    BY <1>9 DEF WeatherForm!Refresh
  <2>2. InLimits'
    BY <1>3, <2>1 DEF FormInd, InLimits
  <2>3. WeatherForm!ToField(initial, units)' = WeatherForm!ToField(stored, units)
    BY <2>1 DEF WeatherForm!ToField
  <2>4. Untouched'
    BY <2>1, <2>3 DEF FormInd, Untouched
  <2> QED BY <2>2, <2>4 DEF FormInd
<1>10. CASE WeatherForm!OtherWrites
  <2>1. stored' \in (IF field = "rain" THEN Rain ELSE Freeze) /\ others' = TRUE
        /\ UNCHANGED <<field, initial, units, text, touched, sent>>
    BY <1>10 DEF WeatherForm!OtherWrites
  <2>2. stored' \in WeatherForm!LimitsOf(field)
    BY <1>1, <2>1
  <2>3. InLimits'
    BY <1>3, <2>1, <2>2 DEF FormInd, InLimits
  <2>4. WeatherForm!ToField(initial, units)' = WeatherForm!ToField(initial, units)
    BY <2>1 DEF WeatherForm!ToField
  <2>5. Untouched'
    BY <2>1, <2>4 DEF FormInd, Untouched
  <2> QED BY <2>3, <2>5 DEF FormInd
<1> QED BY <1>5, <1>6, <1>7, <1>8, <1>9, <1>10 DEF WeatherForm!Next

\* They hold throughout.
LEMMA FormInvariant == ASSUME WeatherForm!WeatherFormAssumption PROVE WeatherForm!Spec => []FormInd
PROOF
<1>1. WeatherForm!Init => FormInd
  <2> SUFFICES ASSUME WeatherForm!Init PROVE FormInd
    OBVIOUS
  <2>1. ~sent.on /\ initial = stored /\ touched = FALSE /\ text = WeatherForm!ToField(stored, units) /\ units \in WeatherForm!Units
    BY DEF WeatherForm!Init, WeatherForm!NotSent
  <2>2. field \in {"rain", "freeze"} /\ stored \in WeatherForm!LimitsOf(field)
    BY DEF WeatherForm!Init, WeatherForm!WeatherFormAssumption
  <2>3. InLimits
    BY <2>1, <2>2 DEF InLimits
  <2>4. Untouched
    BY <2>1 DEF Untouched
  <2> QED BY <2>3, <2>4 DEF FormInd
<1>2. FormInd /\ [WeatherForm!Next]_(WeatherForm!vars) => FormInd'
  <2>1. ASSUME FormInd, UNCHANGED WeatherForm!vars PROVE FormInd'
    <3>1. WeatherForm!LimitsOf(field)' = WeatherForm!LimitsOf(field) /\ WeatherForm!ToField(initial, units)' = WeatherForm!ToField(initial, units)
      BY <2>1 DEF WeatherForm!vars, WeatherForm!ToField, WeatherForm!LimitsOf
    <3> QED BY <2>1, <3>1 DEF WeatherForm!vars, FormInd, InLimits, Untouched
  <2> QED BY <2>1, FormStep
<1> QED BY <1>1, <1>2, PTL DEF WeatherForm!Spec

\* "Display rounding can't drift what gets saved" (weather-settings.tsx): a field that the
\* admin did not edit is saved as it is stored, however often the unit has flipped
\* and whichever saves and refreshes have come and gone, for any values and texts.
LEMMA RoundingNeverSaved == ASSUME WeatherForm!WeatherFormAssumption PROVE WeatherForm!Spec => []WeatherForm!UntouchedStaysExact
PROOF
<1>1. FormInd => WeatherForm!UntouchedStaysExact
  BY DEF FormInd, Untouched, WeatherForm!UntouchedStaysExact
<1> QED BY <1>1, FormInvariant, PTL

\* A text within the bounds of the form's wording is a value within the limits: 3.94 in
\* is clamped to 100 mm, and no other rounding goes over.
LEMMA BoundsConverted ==
  ASSUME InLimits, NEW t \in Int, WeatherForm!Advertised(t, units)
  PROVE  WeatherForm!Clamped(WeatherForm!Parsed(t, units), t, units) \in WeatherForm!LimitsOf(field)
PROOF
<1> DEFINE value == WeatherForm!Clamped(WeatherForm!Parsed(t, units), t, units)
           top == 10000
           low == -3000
           high == 1000
<1> HIDE DEF value
<1>0. top \in Int /\ low \in Int /\ high \in Int
  OBVIOUS
<1>1. ASSUME NEW x \in Int, 0 <= x, x <= top, field = "rain" PROVE x \in WeatherForm!LimitsOf(field)
  <2>1. WeatherForm!LimitsOf(field) = IF field = "rain" THEN 0..top ELSE low..high
    BY DEF WeatherForm!LimitsOf
  <2> HIDE DEF top, low, high
  <2> QED BY <1>0, <1>1, <2>1
<1>2. ASSUME NEW x \in Int, low <= x, x <= high, field = "freeze" PROVE x \in WeatherForm!LimitsOf(field)
  <2>1. WeatherForm!LimitsOf(field) = IF field = "rain" THEN 0..top ELSE low..high
    BY DEF WeatherForm!LimitsOf
  <2> HIDE DEF top, low, high
  <2> QED BY <1>0, <1>2, <2>1
<1>3. CASE field = "rain" /\ units = "metric"
  <2>1. value = t
    BY <1>3 DEF value, WeatherForm!Clamped, WeatherForm!Parsed
  <2>2. t \in 0..(IF units = "metric" THEN top ELSE 394)
    <3>1. t \in IF field = "rain" THEN 0..(IF units = "metric" THEN top ELSE 394)
                ELSE IF units = "metric" THEN -300..100 ELSE -220..500
      BY DEF WeatherForm!Advertised
    <3> HIDE DEF top
    <3> QED BY <1>3, <3>1
  <2> HIDE DEF top
  <2> QED BY <1>0, <1>1, <1>3, <2>1, <2>2 DEF value
<1>4. CASE field = "rain" /\ units = "imperial"
  <2>1. t \in 0..394 /\ WeatherForm!Parsed(t, units) = WeatherForm!Round(254 * t, 10)
    BY <1>4 DEF WeatherForm!Parsed, WeatherForm!Advertised
  <2>2. PICK mm \in Nat : mm = WeatherForm!Round(254 * t, 10)
    BY <2>1 DEF WeatherForm!Round
  <2>3. value = IF mm > top THEN top ELSE mm
    BY <1>4, <2>1, <2>2 DEF value, WeatherForm!Clamped
  <2>4. top \in Nat
    OBVIOUS
  <2> HIDE DEF top
  <2>5. value \in Int /\ 0 <= value /\ value <= top
    BY <2>3, <2>4
  <2> QED BY <1>1, <1>4, <2>5 DEF value
<1>5. CASE field = "freeze" /\ units = "metric"
  <2>1. value = 10 * t /\ -300 <= t /\ t <= 100
    BY <1>5 DEF value, WeatherForm!Clamped, WeatherForm!Parsed, WeatherForm!Advertised
  <2>2. value \in Int /\ low <= value /\ value <= high
    BY <2>1
  <2> HIDE DEF low, high
  <2> QED BY <1>2, <1>5, <2>2 DEF value
<1>6. CASE field = "freeze" /\ units = "imperial"
  <2> DEFINE n == 2 * (50 * t - 16000) + 9
             c == n \div 18
  <2>1. value = c
    BY <1>6 DEF value, WeatherForm!Clamped, WeatherForm!Parsed, WeatherForm!Round
  <2>2. t \in Int /\ -220 <= t /\ t <= 500
    BY <1>6 DEF WeatherForm!Advertised
  <2>3. n \in Int /\ -53991 <= n /\ n <= 18009
    BY <2>2
  <2> HIDE DEF n
  <2>4. c \in Int /\ 18 * c <= n /\ n < 18 * c + 18
    BY <2>3
  <2> HIDE DEF c
  <2>5. low <= c /\ c <= high
    BY <2>3, <2>4
  <2> HIDE DEF low, high
  <2> QED BY <1>2, <1>6, <2>1, <2>4, <2>5 DEF value
<1> QED BY <1>3, <1>4, <1>5, <1>6 DEF InLimits, WeatherForm!Units

\* The form's bounds in inches and degrees Fahrenheit, rounded for display, pass the
\* metric limits of validateWeatherSettingsInput, for any values and texts.
LEMMA AdvertisedSaved == ASSUME WeatherForm!WeatherFormAssumption PROVE WeatherForm!Spec => []WeatherForm!AdvertisedAccepted
PROOF
<1>1. FormInd => WeatherForm!AdvertisedAccepted
  <2> SUFFICES ASSUME FormInd, WeatherForm!Advertised(text, units) PROVE WeatherForm!FieldToMetric(text, units) \in WeatherForm!LimitsOf(field)
    BY DEF WeatherForm!AdvertisedAccepted
  <2>1. text \in Int
    BY DEF WeatherForm!Advertised
  <2> QED BY <2>1, BoundsConverted DEF FormInd, InLimits, WeatherForm!FieldToMetric
<1> QED BY <1>1, FormInvariant, PTL

-----------------------------------------------------------------------------
(* The program editor.                                                     *)

\* The fields the proof writes are there.
EditorRecords ==
  /\ "enabled" \in DOMAIN program /\ {"editing", "row", "switched"} \subseteq DOMAIN page /\ "enabled" \in DOMAIN page.row
\* While a program is open, its switch is as the page read it, or somebody switched it.
SwitchKnown == pc # "closed" /\ page.editing /\ ~page.switched => page.row.enabled = program.enabled
SwitchInd == EditorRecords /\ SwitchKnown

\* Every step of the editor keeps the switch known.
LEMMA EditorStep == ASSUME SwitchInd, ProgramEditor!Next PROVE SwitchInd'
PROOF
<1>1. CASE ProgramEditor!New
  BY <1>1 DEF ProgramEditor!New, SwitchInd, EditorRecords, SwitchKnown
<1>2. CASE ProgramEditor!ReadRow
  BY <1>2 DEF ProgramEditor!ReadRow, SwitchInd, EditorRecords, SwitchKnown
<1>3. CASE ProgramEditor!ReadSteps \/ ProgramEditor!Edit \/ ProgramEditor!Save \/ ProgramEditor!Check \/ ProgramEditor!Refuse
  <2>1. UNCHANGED <<program, page>> /\ pc # "closed"
    BY <1>3 DEF ProgramEditor!ReadSteps, ProgramEditor!Edit, ProgramEditor!Save, ProgramEditor!Check, ProgramEditor!Refuse
  <2> QED BY <2>1 DEF SwitchInd, EditorRecords, SwitchKnown
<1>4. CASE ProgramEditor!ReadZones
  BY <1>4 DEF ProgramEditor!ReadZones, SwitchInd, EditorRecords, SwitchKnown
<1>5. CASE ProgramEditor!Commit
  <2>1. program'.enabled = page.row.enabled /\ "enabled" \in DOMAIN program' /\ page' = page
    BY <1>5 DEF ProgramEditor!Commit, ProgramEditor!Switch
  <2> QED BY <2>1 DEF SwitchInd, EditorRecords, SwitchKnown
<1>6. ASSUME NEW p, NEW e, ProgramEditor!Others(p, e), "enabled" \in DOMAIN p PROVE SwitchInd'
  <2>1. program' = p /\ page' = [page EXCEPT !.switched = page.switched \/ p.enabled # program.enabled] /\ pc' = pc
    BY <1>6 DEF ProgramEditor!Others
  <2>2. /\ page'.editing = page.editing /\ page'.row = page.row /\ DOMAIN page' = DOMAIN page
        /\ page'.switched = (page.switched \/ p.enabled # program.enabled)
    BY <2>1 DEF SwitchInd, EditorRecords
  <2> QED BY <1>6, <2>1, <2>2 DEF SwitchInd, EditorRecords, SwitchKnown
<1>7. CASE ProgramEditor!OthersWrite
  <2>1. \A x : "enabled" \in DOMAIN [program EXCEPT !.enabled = x] /\ "enabled" \in DOMAIN [program EXCEPT !.exists = x]
              /\ "enabled" \in DOMAIN [program EXCEPT !.form.steps = x] /\ "enabled" \in DOMAIN program
    BY DEF SwitchInd, EditorRecords
  <2>2. CASE ProgramEditor!Others([program EXCEPT !.enabled = ~program.enabled], enabled)
    BY <1>6, <2>1, <2>2
  <2>3. CASE ProgramEditor!Others([program EXCEPT !.exists = FALSE], enabled)
    BY <1>6, <2>1, <2>3
  <2>4. ASSUME NEW z \in enabled, ProgramEditor!Others([program EXCEPT !.form.steps = <<ProgramEditor!Step(z, 1)>>], enabled) PROVE SwitchInd'
    BY <1>6, <2>1, <2>4
  <2>5. ASSUME NEW z \in Zones, ProgramEditor!Others(program, IF z \in enabled THEN enabled \ {z} ELSE enabled \cup {z}) PROVE SwitchInd'
    BY <1>6, <2>1, <2>5
  <2> QED BY <1>7, <2>2, <2>3, <2>4, <2>5 DEF ProgramEditor!OthersWrite
<1> QED BY <1>1, <1>2, <1>3, <1>4, <1>5, <1>7 DEF ProgramEditor!Next

\* An edit never switches a program on or off (program-editor.tsx sends the switch as the
\* page read it): a save changes the switch only when somebody else has changed it
\* since, whatever is edited and whatever the others write in the meantime.
LEMMA EditKeepsSwitch == ProgramEditor!Spec => ProgramEditor!SwitchKept
PROOF
<1>1. ProgramEditor!Init => SwitchInd
  BY DEF ProgramEditor!Init, SwitchInd, EditorRecords, SwitchKnown
<1>2. SwitchInd /\ [ProgramEditor!Next]_(ProgramEditor!vars) => SwitchInd'
  BY EditorStep DEF ProgramEditor!vars, SwitchInd, EditorRecords, SwitchKnown
<1>3. SwitchInd /\ [ProgramEditor!Next]_(ProgramEditor!vars) => [ProgramEditor!SaveKeepsSwitch]_(ProgramEditor!vars)
  <2> SUFFICES ASSUME SwitchInd, ProgramEditor!Next, pc = "checked", pc' # "checked", page.editing, ~page.switched
               PROVE  program'.enabled = program.enabled
    BY DEF ProgramEditor!SaveKeepsSwitch
  <2>1. ProgramEditor!Refuse \/ ProgramEditor!Commit
    BY DEF ProgramEditor!Next, ProgramEditor!New, ProgramEditor!ReadRow, ProgramEditor!ReadSteps, ProgramEditor!ReadZones, ProgramEditor!Edit, ProgramEditor!Save, ProgramEditor!Check,
           ProgramEditor!OthersWrite, ProgramEditor!Others
  <2>2. CASE ProgramEditor!Refuse
    BY <2>2 DEF ProgramEditor!Refuse
  <2>3. CASE ProgramEditor!Commit
    BY <2>3 DEF ProgramEditor!Commit, ProgramEditor!Switch, SwitchInd, SwitchKnown
  <2> QED BY <2>1, <2>2, <2>3
<1> QED BY <1>1, <1>2, <1>3, PTL DEF ProgramEditor!Spec, ProgramEditor!SwitchKept

-----------------------------------------------------------------------------
(* The dashboard.                                                          *)

Answers == [reachable : BOOLEAN, zone : Zones \cup {None}, known : BOOLEAN, left : Nat, change : Int]
StatusRequests == [pc : {"idle", "asked", "answered"}, answer : Answers]
PageCommands == [pc : {"ready", "sent", "applied", "verifying", "late"}, zone : Zones \cup {None}, chosen : Zones \cup {None}, change : Nat]
PageTypes ==
  /\ yard \in [zone : Zones \cup {None}, known : BOOLEAN, left : Nat, change : Nat] /\ (yard.known => yard.zone # None)
  /\ requests \in [Polls \cup Commands -> StatusRequests] /\ live \in [status : Answers, failed : BOOLEAN, elapsed : Nat]
  /\ commands \in [Commands -> PageCommands] /\ {selected, chosen} \subseteq Zones \cup {None}

\* An answer is of the yard as it is or was before; one of the yard as it is tells, after
\* so long, at least the time that is left.
Seen(a, elapsed) ==
  /\ a.change <= yard.change
  /\ a.change = yard.change => a.zone = yard.zone /\ a.known = yard.known /\ (yard.known => a.left >= yard.left + elapsed)
AllSeen == Seen(live.status, live.elapsed) /\ \A r \in Polls \cup Commands : Seen(requests[r].answer, 0)
\* A command that is being verified has been asked about after it took effect.
AskedAfter ==
  \A c \in Commands :
    /\ commands[c].change <= yard.change
    /\ commands[c].pc = "verifying" /\ requests[c].pc = "answered" =>
         requests[c].answer = Dashboard!NoStatus \/ requests[c].answer.change >= commands[c].change
\* The minutes picked are of the zone that is selected, in the page and in what it sent.
OwnMinutes ==
  /\ selected # None => chosen \in {None, selected}
  /\ \A c \in Commands : commands[c].chosen \in {None, commands[c].zone}
PageInd == PageTypes /\ AllSeen /\ AskedAfter /\ OwnMinutes

\* Values that the page starts from.
LEMMA PageValues ==
  /\ Dashboard!NoStatus \in Answers /\ Dashboard!NoStatus.change = -1
  /\ Dashboard!Idle \in StatusRequests /\ Dashboard!Idle.pc = "idle" /\ Dashboard!Idle.answer = Dashboard!NoStatus
  /\ Dashboard!Asked \in StatusRequests /\ Dashboard!Asked.pc = "asked" /\ Dashboard!Asked.answer = Dashboard!NoStatus
  /\ Dashboard!Ready \in PageCommands /\ Dashboard!Ready.pc = "ready" /\ Dashboard!Ready.chosen = None /\ Dashboard!Ready.change = 0
PROOF
<1>1. Dashboard!NoStatus \in Answers /\ Dashboard!NoStatus.change = -1
  BY DEF Dashboard!NoStatus, Answers
<1>2. Dashboard!Idle \in StatusRequests /\ Dashboard!Idle.pc = "idle" /\ Dashboard!Idle.answer = Dashboard!NoStatus
  BY <1>1 DEF Dashboard!Idle, StatusRequests
<1>3. Dashboard!Asked \in StatusRequests /\ Dashboard!Asked.pc = "asked" /\ Dashboard!Asked.answer = Dashboard!NoStatus
  BY <1>2 DEF Dashboard!Asked, StatusRequests
<1>4. Dashboard!Ready \in PageCommands /\ Dashboard!Ready.pc = "ready" /\ Dashboard!Ready.chosen = None /\ Dashboard!Ready.change = 0
  BY DEF Dashboard!Ready, PageCommands
<1> QED BY <1>1, <1>2, <1>3, <1>4

\* What the executor answers of the yard now.
LEMMA StatusSeen ==
  ASSUME PageInd, NEW ok \in BOOLEAN
  PROVE  Dashboard!Status(ok) \in Answers /\ Seen(Dashboard!Status(ok), 0) /\ Dashboard!Status(ok).change = yard.change
PROOF
<1>1. yard.left \in Nat /\ yard.change \in Nat /\ yard.zone \in Zones \cup {None} /\ yard.known \in BOOLEAN
  BY DEF PageInd, PageTypes
<1>2. (IF yard.known THEN yard.left ELSE 0) \in Nat
  BY <1>1
<1>3. Dashboard!Status(ok) \in Answers
  BY <1>1, <1>2 DEF Dashboard!Status, Answers
<1> QED BY <1>1, <1>3 DEF Dashboard!Status, Seen

\* A request is sent or answered.
LEMMA OneRequest ==
  ASSUME PageInd, NEW r \in Polls \cup Commands, NEW n \in StatusRequests, requests' = [requests EXCEPT ![r] = n],
         Seen(n.answer, 0), n.pc = "answered" => n.answer = Dashboard!NoStatus \/ n.answer.change = yard.change,
         UNCHANGED <<yard, live, commands, selected, chosen>>
  PROVE  PageInd'
PROOF
<1>1. requests' \in [Polls \cup Commands -> StatusRequests] /\ requests'[r] = n
      /\ \A q \in (Polls \cup Commands) \ {r} : requests'[q] = requests[q]
  BY DEF PageInd, PageTypes
<1>2. PageTypes'
  BY <1>1 DEF PageInd, PageTypes
<1>3. AllSeen'
  BY <1>1 DEF PageInd, AllSeen, Seen
<1>4. AskedAfter'
  BY <1>1 DEF PageInd, AskedAfter
<1>5. OwnMinutes'
  BY DEF PageInd, OwnMinutes
<1> QED BY <1>2, <1>3, <1>4, <1>5 DEF PageInd

\* Polls, the tab, and answers on their way.
LEMMA HookStep ==
  ASSUME PageInd,
         \/ (\E p \in Polls : Dashboard!Poll(p)) \/ Dashboard!Hide \/ Dashboard!Show
         \/ \E r \in Polls \cup Commands : Dashboard!Answer(r) \/ Dashboard!AnswerFails(r)
  PROVE  PageInd'
PROOF
<1>1. Seen(Dashboard!NoStatus, 0) /\ Seen(Dashboard!Asked.answer, 0)
  BY PageValues DEF PageInd, PageTypes, Seen
<1>2. CASE Dashboard!Hide
  BY <1>2 DEF Dashboard!Hide, PageInd, PageTypes, AllSeen, Seen, AskedAfter, OwnMinutes
<1>3. CASE (\E p \in Polls : Dashboard!Poll(p)) \/ Dashboard!Show
  <2>1. PICK p \in Polls : requests' = [requests EXCEPT ![p] = Dashboard!Asked]
    BY <1>3 DEF Dashboard!Poll, Dashboard!Show
  <2>2. UNCHANGED <<yard, live, commands, selected, chosen>>
    BY <1>3 DEF Dashboard!Poll, Dashboard!Show
  <2> QED BY <1>1, <2>1, <2>2, PageValues, OneRequest
<1>4. ASSUME NEW r \in Polls \cup Commands, Dashboard!Answer(r) \/ Dashboard!AnswerFails(r) PROVE PageInd'
  <2>1. PICK a \in {Dashboard!NoStatus, Dashboard!Status(TRUE), Dashboard!Status(FALSE)} :
          requests' = [requests EXCEPT ![r] = [pc |-> "answered", answer |-> a]]
    BY <1>4 DEF Dashboard!Answer, Dashboard!AnswerFails
  <2>2. UNCHANGED <<yard, live, commands, selected, chosen>>
    BY <1>4 DEF Dashboard!Answer, Dashboard!AnswerFails
  <2>3. a \in Answers /\ Seen(a, 0) /\ (a = Dashboard!NoStatus \/ a.change = yard.change)
    BY <1>1, <2>1, StatusSeen, PageValues
  <2> DEFINE n == [pc |-> "answered", answer |-> a]
  <2>4. n \in StatusRequests /\ n.answer = a
    BY <2>3 DEF StatusRequests
  <2> HIDE DEF n
  <2>5. requests' = [requests EXCEPT ![r] = n]
    BY <2>1 DEF n
  <2> QED BY <2>2, <2>3, <2>4, <2>5, OneRequest
<1> QED BY <1>2, <1>3, <1>4

\* An answer lands, and may end its command.
LEMMA LandStep == ASSUME PageInd, NEW r \in Polls \cup Commands, Dashboard!Land(r) PROVE PageInd'
PROOF
<1>1. requests' = [requests EXCEPT ![r] = Dashboard!Idle] /\ live' = Dashboard!Landed(r) /\ UNCHANGED <<yard, chosen>>
  BY DEF Dashboard!Land
<1>2. /\ selected' \in {selected, None}
      /\ commands' = commands \/ (r \in Commands /\ commands' = [commands EXCEPT ![r] = Dashboard!Ready])
  BY DEF Dashboard!Land
<1>3. /\ requests' \in [Polls \cup Commands -> StatusRequests] /\ requests'[r] = Dashboard!Idle
      /\ \A q \in (Polls \cup Commands) \ {r} : requests'[q] = requests[q]
  BY <1>1, PageValues DEF PageInd, PageTypes
<1>4. /\ commands' \in [Commands -> PageCommands]
      /\ \A c \in Commands : commands'[c] = commands[c] \/ (c = r /\ commands'[c] = Dashboard!Ready)
  BY <1>2, PageValues DEF PageInd, PageTypes
<1>5. live' \in [status : Answers, failed : BOOLEAN, elapsed : Nat] /\ Seen(live'.status, live'.elapsed)
  <2>1. /\ requests[r].answer \in Answers /\ live \in [status : Answers, failed : BOOLEAN, elapsed : Nat]
        /\ Seen(requests[r].answer, 0) /\ Seen(live.status, live.elapsed)
    BY DEF PageInd, PageTypes, AllSeen, StatusRequests
  <2>2. CASE live' = [live EXCEPT !.failed = TRUE]
    <3>1. live'.status = live.status /\ live'.elapsed = live.elapsed
      BY <2>1, <2>2
    <3> QED BY <2>1, <2>2, <3>1
  <2>3. CASE live' = [status |-> requests[r].answer, failed |-> FALSE, elapsed |-> 0]
    <3>1. live'.status = requests[r].answer /\ live'.elapsed = 0
      BY <2>3
    <3> QED BY <2>1, <2>3, <3>1
  <2> QED BY <1>1, <2>2, <2>3 DEF Dashboard!Landed, Dashboard!CountedFrom
<1>6. PageTypes'
  BY <1>1, <1>2, <1>3, <1>4, <1>5 DEF PageInd, PageTypes
<1>7. AllSeen'
  <2>1. yard' = yard /\ Seen(Dashboard!NoStatus, 0)
    BY <1>1, PageValues DEF PageInd, PageTypes, Seen
  <2>2. \A q \in Polls \cup Commands : Seen(requests'[q].answer, 0)
    BY <1>3, <2>1, PageValues DEF PageInd, AllSeen
  <2> QED BY <1>5, <2>1, <2>2 DEF AllSeen, Seen
<1>8. AskedAfter'
  BY <1>1, <1>3, <1>4, PageValues DEF PageInd, PageTypes, AskedAfter
<1>9. OwnMinutes'
  BY <1>1, <1>2, <1>4, PageValues DEF PageInd, OwnMinutes
<1> QED BY <1>6, <1>7, <1>8, <1>9 DEF PageInd

\* A change of the yard is one that no answer is of.
LEMMA YardMoves ==
  ASSUME PageInd, RunTime \in Nat, NEW zone \in Zones \cup {None}, NEW known \in BOOLEAN, known => zone # None,
         yard' = Dashboard!Changed(zone, known)
  PROVE  /\ yard' \in [zone : Zones \cup {None}, known : BOOLEAN, left : Nat, change : Nat] /\ (yard'.known => yard'.zone # None)
         /\ yard'.change = yard.change + 1 /\ yard.change \in Nat
         /\ \A a \in Answers, n \in Nat : Seen(a, n) => a.change <= yard'.change /\ a.change # yard'.change
PROOF
<1>1. yard.change \in Nat /\ (IF zone = None THEN 0 ELSE RunTime) \in Nat
  BY DEF PageInd, PageTypes
<1>2. /\ yard' \in [zone : Zones \cup {None}, known : BOOLEAN, left : Nat, change : Nat] /\ (yard'.known => yard'.zone # None)
      /\ yard'.change = yard.change + 1
  BY <1>1 DEF Dashboard!Changed
<1>3. \A a \in Answers : a.change \in Int
  BY DEF Answers
<1> QED BY <1>1, <1>2, <1>3 DEF Seen

\* Everything that was seen is then older.
LEMMA AllOlder ==
  ASSUME PageInd, RunTime \in Nat, NEW zone \in Zones \cup {None}, NEW known \in BOOLEAN, known => zone # None,
         yard' = Dashboard!Changed(zone, known), requests' = requests, live'.status = live.status
  PROVE  AllSeen'
PROOF
<1>1. \A a \in Answers, n \in Nat : Seen(a, n) => a.change <= yard'.change /\ a.change # yard'.change
  BY YardMoves
<1>2. live.status \in Answers /\ live.elapsed \in Nat /\ 0 \in Nat /\ \A r \in Polls \cup Commands : requests[r].answer \in Answers
  BY DEF PageInd, PageTypes, StatusRequests
<1>3. live.status.change <= yard'.change /\ live.status.change # yard'.change
  BY <1>1, <1>2 DEF PageInd, AllSeen
<1>4. \A r \in Polls \cup Commands : requests[r].answer.change <= yard'.change /\ requests[r].answer.change # yard'.change
  BY <1>1, <1>2 DEF PageInd, AllSeen
<1> QED BY <1>3, <1>4 DEF AllSeen, Seen

\* The yard changes, or time passes.
LEMMA YardStep == ASSUME Dashboard!DashboardAssumption, PageInd, Dashboard!Others \/ Dashboard!Tick PROVE PageInd'
PROOF
<1>1. RunTime \in Nat /\ None \notin Zones
  BY DEF Dashboard!DashboardAssumption
<1>2. /\ yard.left \in Nat /\ yard.change \in Nat /\ live.elapsed \in Nat
      /\ yard \in [zone : Zones \cup {None}, known : BOOLEAN, left : Nat, change : Nat] /\ (yard.known => yard.zone # None)
      /\ live \in [status : Answers, failed : BOOLEAN, elapsed : Nat]
  BY DEF PageInd, PageTypes
<1>3. UNCHANGED <<requests, commands, selected, chosen>>
  BY DEF Dashboard!Others, Dashboard!Tick
<1>4. /\ live' \in [status : Answers, failed : BOOLEAN, elapsed : Nat] /\ live'.status = live.status
      /\ live'.elapsed \in {live.elapsed, live.elapsed + 1}
  <2>1. live' = live \/ live' = [live EXCEPT !.elapsed = live.elapsed + 1]
    BY DEF Dashboard!Others, Dashboard!Tick
  <2>2. live.elapsed + 1 \in Nat
    BY <1>2
  <2> QED BY <1>2, <2>1, <2>2
<1>5. OwnMinutes'
  BY <1>3 DEF PageInd, OwnMinutes
<1>6. ASSUME NEW zone \in Zones \cup {None}, NEW known \in BOOLEAN, known => zone # None, yard' = Dashboard!Changed(zone, known)
      PROVE  PageInd'
  <2>1. /\ yard' \in [zone : Zones \cup {None}, known : BOOLEAN, left : Nat, change : Nat] /\ (yard'.known => yard'.zone # None)
        /\ yard'.change = yard.change + 1
    BY <1>1, <1>6, YardMoves
  <2>2. PageTypes'
    BY <1>3, <1>4, <2>1 DEF PageInd, PageTypes
  <2>3. AllSeen'
    BY <1>1, <1>3, <1>4, <1>6, AllOlder
  <2>4. \A c \in Commands : commands[c].change \in Nat /\ commands[c].change <= yard.change
    BY DEF PageInd, PageTypes, PageCommands, AskedAfter
  <2>5. AskedAfter'
    BY <1>2, <1>3, <2>1, <2>4 DEF PageInd, AskedAfter
  <2> QED BY <1>5, <2>2, <2>3, <2>5 DEF PageInd
<1>7. CASE Dashboard!Others
  BY <1>1, <1>6, <1>7 DEF Dashboard!Others
<1>8. CASE Dashboard!Tick /\ yard.zone # None /\ ~(yard.left > 1)
  BY <1>6, <1>8 DEF Dashboard!Tick
<1>9. CASE Dashboard!Tick /\ ~(yard.zone # None /\ ~(yard.left > 1))
  <2>1. yard' = yard \/ (yard.left > 1 /\ yard' = [yard EXCEPT !.left = yard.left - 1])
    BY <1>9 DEF Dashboard!Tick
  <2>2. yard' = yard => ~yard.known
    <3>1. CASE yard.zone = None
      BY <1>2, <3>1
    <3>2. CASE yard.zone # None
      <4>1. yard' = [yard EXCEPT !.left = yard.left - 1] /\ yard.left > 1
        BY <1>9, <3>2 DEF Dashboard!Tick
      <4>2. yard'.left = yard.left - 1
        BY <1>2, <4>1
      <4> QED BY <1>2, <4>2
    <3> QED BY <3>1, <3>2
  <2>3. /\ yard' \in [zone : Zones \cup {None}, known : BOOLEAN, left : Nat, change : Nat]
        /\ yard'.zone = yard.zone /\ yard'.known = yard.known /\ yard'.change = yard.change
    <3>1. yard.left > 1 => yard.left - 1 \in Nat
      BY <1>2
    <3> QED BY <1>2, <2>1, <3>1
  <2>4. yard'.left <= yard.left /\ (yard.known => yard'.left + live'.elapsed <= yard.left + live.elapsed)
    <3>1. CASE yard' = yard
      BY <1>2, <2>2, <3>1
    <3>2. CASE yard.left > 1 /\ yard' = [yard EXCEPT !.left = yard.left - 1]
      <4>1. yard'.left = yard.left - 1
        BY <1>2, <3>2
      <4> QED BY <1>2, <1>4, <4>1
    <3> QED BY <2>1, <3>1, <3>2
  <2>5. PageTypes'
    BY <1>2, <1>3, <1>4, <2>3 DEF PageInd, PageTypes
  <2>6. AllSeen'
    <3>1. yard'.left \in Nat /\ live'.elapsed \in Nat /\ \A a \in Answers : a.left \in Nat /\ a.change \in Int
      BY <1>4, <2>3 DEF Answers
    <3>2. live.status \in Answers /\ \A r \in Polls \cup Commands : requests[r].answer \in Answers
      BY DEF PageInd, PageTypes, StatusRequests
    <3> DEFINE NowSeen(a, elapsed) ==
                 /\ a.change <= yard'.change
                 /\ a.change = yard'.change => a.zone = yard'.zone /\ a.known = yard'.known /\ (yard'.known => a.left >= yard'.left + elapsed)
    <3>3. NowSeen(live.status, live'.elapsed)
      BY <1>2, <2>3, <2>4, <3>1, <3>2 DEF PageInd, AllSeen, Seen
    <3>4. \A r \in Polls \cup Commands : NowSeen(requests[r].answer, 0)
      BY <1>2, <2>3, <2>4, <3>1, <3>2 DEF PageInd, AllSeen, Seen
    <3> QED BY <1>3, <1>4, <3>3, <3>4 DEF AllSeen, Seen
  <2>7. AskedAfter'
    BY <1>3, <2>3 DEF PageInd, AskedAfter
  <2> QED BY <1>5, <2>5, <2>6, <2>7 DEF PageInd
<1> QED BY <1>7, <1>8, <1>9

\* A command goes on without touching the yard; what asks is not answered yet.
LEMMA OneCommand ==
  ASSUME PageInd, NEW c \in Commands, NEW n \in PageCommands, commands' = [commands EXCEPT ![c] = n],
         n.change <= yard.change, n.chosen \in {None, n.zone},
         \/ requests' = [requests EXCEPT ![c] = Dashboard!Asked]
         \/ requests' = requests /\ n.pc # "verifying",
         UNCHANGED <<yard, live, selected, chosen>>
  PROVE  PageInd'
PROOF
<1>1. commands' \in [Commands -> PageCommands] /\ commands'[c] = n /\ \A d \in Commands \ {c} : commands'[d] = commands[d]
  BY DEF PageInd, PageTypes
<1>2. /\ requests' \in [Polls \cup Commands -> StatusRequests]
      /\ \A r \in (Polls \cup Commands) \ {c} : requests'[r] = requests[r]
      /\ (requests'[c] = requests[c] /\ n.pc # "verifying") \/ requests'[c] = Dashboard!Asked
  BY PageValues DEF PageInd, PageTypes
<1>3. PageTypes'
  BY <1>1, <1>2 DEF PageInd, PageTypes
<1>4. AllSeen'
  <2>1. Seen(Dashboard!NoStatus, 0)
    BY PageValues DEF PageInd, PageTypes, Seen
  <2>2. Seen(live.status, live.elapsed) /\ \A r \in Polls \cup Commands : Seen(requests'[r].answer, 0)
    BY <1>2, <2>1, PageValues DEF PageInd, AllSeen
  <2> QED BY <2>2 DEF AllSeen, Seen
<1>5. AskedAfter'
  BY <1>1, <1>2, PageValues DEF PageInd, AskedAfter
<1>6. OwnMinutes'
  BY <1>1 DEF PageInd, OwnMinutes
<1> QED BY <1>3, <1>4, <1>5, <1>6 DEF PageInd

\* A command takes effect, in time or late.
LEMMA ApplyStep ==
  ASSUME Dashboard!DashboardAssumption, PageInd, NEW c \in Commands, Dashboard!Apply(c) \/ Dashboard!ApplyLate(c) PROVE PageInd'
PROOF
<1> DEFINE k == commands[c]
<1>1. RunTime \in Nat /\ k \in PageCommands
  BY DEF Dashboard!DashboardAssumption, PageInd, PageTypes
<1>2. k.zone \in Zones \cup {None} /\ (k.zone # None) \in BOOLEAN
  BY <1>1 DEF PageCommands
<1>3. yard' = Dashboard!Changed(k.zone, k.zone # None) /\ UNCHANGED <<requests, live, selected, chosen>>
  BY DEF Dashboard!Apply, Dashboard!ApplyLate, Dashboard!Effect
<1>4. /\ yard' \in [zone : Zones \cup {None}, known : BOOLEAN, left : Nat, change : Nat] /\ (yard'.known => yard'.zone # None)
      /\ yard'.change = yard.change + 1 /\ yard.change \in Nat
  BY <1>1, <1>2, <1>3, YardMoves
<1>5. AllSeen'
  BY <1>1, <1>2, <1>3, AllOlder
<1>6. PICK n \in {[k EXCEPT !.pc = "applied", !.change = yard'.change], Dashboard!Ready} : commands' = [commands EXCEPT ![c] = n]
  BY DEF Dashboard!Apply, Dashboard!ApplyLate
<1>7. n \in PageCommands /\ n.chosen \in {None, n.zone} /\ n.change <= yard'.change /\ n.pc # "verifying"
  <2>1. CASE n = Dashboard!Ready
    <3>1. n \in PageCommands /\ n.chosen = None /\ n.pc = "ready" /\ n.change = 0
      BY <2>1, PageValues
    <3>2. 0 <= yard'.change
      BY <1>4
    <3>3. n.change <= yard'.change
      BY <3>1, <3>2
    <3>4. n.chosen \in {None, n.zone} /\ n.pc # "verifying"
      BY <3>1
    <3> HIDE DEF k
    <3> QED BY <3>1, <3>3, <3>4
  <2>2. CASE n = [k EXCEPT !.pc = "applied", !.change = yard'.change]
    <3>1. yard'.change \in Nat
      BY <1>4
    <3>2. k.chosen \in {None, k.zone}
      BY DEF PageInd, OwnMinutes
    <3> HIDE DEF k
    <3>3. PICK y \in Nat : y = yard'.change /\ n = [k EXCEPT !.pc = "applied", !.change = y]
      BY <2>2, <3>1
    <3>4. /\ n.pc = "applied" /\ n.zone = k.zone /\ n.chosen = k.chosen /\ n.change = y
          /\ n \in PageCommands
      BY <1>1, <3>3 DEF PageCommands
    <3>5. n.change <= yard'.change
      BY <3>3, <3>4
    <3> QED BY <3>2, <3>4, <3>5
  <2> QED BY <1>6, <2>1, <2>2
<1> HIDE DEF k
<1>8. commands' \in [Commands -> PageCommands] /\ commands'[c] = n /\ \A d \in Commands \ {c} : commands'[d] = commands[d]
  BY <1>6, <1>7 DEF PageInd, PageTypes
<1>9. PageTypes'
  BY <1>3, <1>4, <1>8 DEF PageInd, PageTypes
<1>10. AskedAfter'
  <2>1. \A d \in Commands : commands[d].change \in Nat /\ commands[d].change <= yard.change
    BY DEF PageInd, PageTypes, PageCommands, AskedAfter
  <2>2. \A d \in Commands : commands'[d].change <= yard'.change
    BY <1>4, <1>7, <1>8, <2>1
  <2> QED BY <1>3, <1>7, <1>8, <2>2 DEF PageInd, AskedAfter
<1>11. OwnMinutes'
  BY <1>3, <1>7, <1>8 DEF PageInd, OwnMinutes
<1> QED BY <1>5, <1>9, <1>10, <1>11 DEF PageInd

\* The user selects, picks, starts and stops; a command is answered or fails.
LEMMA UserStep ==
  ASSUME Dashboard!DashboardAssumption, PageInd,
         \/ Dashboard!PickMinutes \/ \E z \in Zones : Dashboard!Select(z)
         \/ \E c \in Commands : Dashboard!Start(c) \/ Dashboard!Stop(c) \/ Dashboard!Reply(c) \/ Dashboard!Fail(c)
  PROVE  PageInd'
PROOF
<1>1. selected \in Zones \cup {None} /\ chosen \in Zones \cup {None} /\ None \notin Zones /\ yard.change \in Nat
  BY DEF Dashboard!DashboardAssumption, PageInd, PageTypes
<1>2. CASE Dashboard!PickMinutes \/ \E z \in Zones : Dashboard!Select(z)
  <2>1. UNCHANGED <<yard, requests, live, commands>> /\ selected' \in Zones \cup {None} /\ chosen' \in {None, selected'}
    BY <1>1, <1>2 DEF Dashboard!PickMinutes, Dashboard!Select, Dashboard!Reset
  <2>2. PageTypes'
    BY <2>1 DEF PageInd, PageTypes
  <2>3. AllSeen' /\ AskedAfter' /\ OwnMinutes'
    BY <2>1 DEF PageInd, AllSeen, Seen, AskedAfter, OwnMinutes
  <2> QED BY <2>2, <2>3 DEF PageInd
<1>3. ASSUME NEW c \in Commands, Dashboard!Start(c) \/ Dashboard!Stop(c) PROVE PageInd'
  <2>1. PICK z \in {selected, None}, m \in {chosen, None} :
          m \in {None, z} /\ commands' = [commands EXCEPT ![c] = [pc |-> "sent", zone |-> z, chosen |-> m, change |-> 0]]
    BY <1>3 DEF Dashboard!Start, Dashboard!Stop, Dashboard!Send, PageInd, OwnMinutes
  <2> DEFINE n == [pc |-> "sent", zone |-> z, chosen |-> m, change |-> 0]
  <2>2. n \in PageCommands /\ n.change = 0 /\ n.chosen \in {None, n.zone} /\ n.pc # "verifying"
    BY <1>1, <2>1 DEF PageCommands
  <2>3. commands' = [commands EXCEPT ![c] = n] /\ UNCHANGED <<yard, requests, live, selected, chosen>>
    BY <1>3, <2>1 DEF Dashboard!Start, Dashboard!Stop, Dashboard!Send
  <2> HIDE DEF n
  <2>4. n.change <= yard.change
    BY <1>1, <2>2
  <2> QED BY <2>2, <2>3, <2>4, OneCommand
<1>4. ASSUME NEW c \in Commands, Dashboard!Reply(c) \/ Dashboard!Fail(c) PROVE PageInd'
  <2>1. requests' = [requests EXCEPT ![c] = Dashboard!Asked] /\ UNCHANGED <<yard, live, selected, chosen>>
    BY <1>4 DEF Dashboard!Reply, Dashboard!Fail
  <2>2. PICK n \in {[commands[c] EXCEPT !.pc = "verifying"], Dashboard!Ready, [commands[c] EXCEPT !.pc = "late"]} :
          commands' = [commands EXCEPT ![c] = n]
    BY <1>4 DEF Dashboard!Reply, Dashboard!Fail, Dashboard!Verified
  <2>3. commands[c] \in PageCommands /\ commands[c].change <= yard.change /\ commands[c].chosen \in {None, commands[c].zone}
    BY DEF PageInd, PageTypes, AskedAfter, OwnMinutes
  <2>4. n \in PageCommands /\ n.change <= yard.change /\ n.chosen \in {None, n.zone}
    <3>1. CASE n = Dashboard!Ready
      BY <1>1, <3>1, PageValues
    <3>2. CASE n # Dashboard!Ready
      BY <2>2, <2>3, <3>2 DEF PageCommands
    <3> QED BY <3>1, <3>2
  <2> QED BY <2>1, <2>2, <2>4, OneCommand
<1> QED BY <1>2, <1>3, <1>4

\* The page's invariant holds throughout, fair or not.
DashboardSteps == Dashboard!Init /\ [][Dashboard!Next]_(Dashboard!vars)
LEMMA PageInvariant == ASSUME Dashboard!DashboardAssumption PROVE DashboardSteps => []PageInd
PROOF
<1>1. Dashboard!Init => PageInd
  <2> SUFFICES ASSUME Dashboard!Init PROVE PageInd
    OBVIOUS
  <2>1. /\ yard = [zone |-> None, known |-> FALSE, left |-> 0, change |-> 0] /\ selected = None /\ chosen = None
        /\ requests = [r \in Polls \cup Commands |-> Dashboard!Idle] /\ commands = [c \in Commands |-> Dashboard!Ready]
        /\ live = [status |-> Dashboard!NoStatus, failed |-> FALSE, elapsed |-> 0]
    BY DEF Dashboard!Init
  <2>2. PageTypes
    BY <2>1, PageValues DEF PageTypes
  <2>3. AllSeen
    <3>1. yard.change = 0 /\ live.status = Dashboard!NoStatus /\ \A r \in Polls \cup Commands : requests[r].answer = Dashboard!NoStatus
      BY <2>1, PageValues
    <3> QED BY <3>1, PageValues DEF AllSeen, Seen
  <2>4. AskedAfter /\ OwnMinutes
    <3>1. yard.change = 0 /\ \A c \in Commands : commands[c] = Dashboard!Ready
      BY <2>1
    <3> QED BY <2>1, <3>1, PageValues DEF AskedAfter, OwnMinutes
  <2> QED BY <2>2, <2>3, <2>4 DEF PageInd
<1>2. PageInd /\ [Dashboard!Next]_(Dashboard!vars) => PageInd'
  <2> SUFFICES ASSUME PageInd, [Dashboard!Next]_(Dashboard!vars) PROVE PageInd'
    OBVIOUS
  <2>1. CASE UNCHANGED Dashboard!vars
    BY <2>1 DEF Dashboard!vars, PageInd, PageTypes, AllSeen, Seen, AskedAfter, OwnMinutes
  <2>2. CASE \/ (\E p \in Polls : Dashboard!Poll(p)) \/ Dashboard!Hide \/ Dashboard!Show
             \/ \E r \in Polls \cup Commands : Dashboard!Answer(r) \/ Dashboard!AnswerFails(r)
    BY <2>2, HookStep
  <2>3. CASE \E r \in Polls \cup Commands : Dashboard!Land(r)
    BY <2>3, LandStep
  <2>4. CASE Dashboard!Others \/ Dashboard!Tick
    BY <2>4, YardStep
  <2>5. CASE \E c \in Commands : Dashboard!Apply(c) \/ Dashboard!ApplyLate(c)
    BY <2>5, ApplyStep
  <2>6. CASE \/ Dashboard!PickMinutes \/ \E z \in Zones : Dashboard!Select(z)
             \/ \E c \in Commands : Dashboard!Start(c) \/ Dashboard!Stop(c) \/ Dashboard!Reply(c) \/ Dashboard!Fail(c)
    BY <2>6, UserStep
  <2> QED BY <2>1, <2>2, <2>3, <2>4, <2>5, <2>6 DEF Dashboard!Next
<1> QED BY <1>1, <1>2, PTL DEF DashboardSteps

\* The countdown of a run never ends before the run, however late its answer landed
\* (use-live-status.ts counts every answer down from its own arrival), for any polls,
\* commands, other users and durations.
LEMMA NotShownShort == ASSUME Dashboard!DashboardAssumption PROVE DashboardSteps => []Dashboard!NeverShownShort
PROOF
<1>1. PageInd => Dashboard!NeverShownShort
  <2> SUFFICES ASSUME PageInd, live.status.change = yard.change, yard.known PROVE Dashboard!Remaining >= yard.left
    BY DEF Dashboard!NeverShownShort
  <2>1. /\ live.status.left \in Nat /\ live.elapsed \in Nat /\ yard.left \in Nat
        /\ live.status.left >= yard.left + live.elapsed
    BY DEF PageInd, PageTypes, AllSeen, Seen, Answers
  <2>2. \E e \in {0, live.elapsed} : Dashboard!Remaining = IF live.status.left > e THEN live.status.left - e ELSE 0
    BY DEF Dashboard!Remaining
  <2> QED BY <2>1, <2>2
<1> QED BY <1>1, PageInvariant, PTL

\* A zone starts with minutes picked in its own row or with the default (selectZone,
\* dashboard.tsx): a choice made for another zone never carries over, whatever is
\* selected while commands and their refetches are under way.
LEMMA OwnMinutesStart == ASSUME Dashboard!DashboardAssumption PROVE DashboardSteps => []Dashboard!StartedAsChosen
PROOF
<1>1. PageInd => Dashboard!StartedAsChosen
  BY DEF PageInd, OwnMinutes, Dashboard!StartedAsChosen
<1> QED BY <1>1, PageInvariant, PTL

\* runCommand (use-live-status.ts) returns success only when the page shows the yard as it was
\* after the command or later, or says that it is offline, whichever polls land
\* meanwhile.
LEMMA CommandsVerified == ASSUME Dashboard!DashboardAssumption PROVE DashboardSteps => Dashboard!VerifiedAtReturn
PROOF
<1>1. PageInd /\ [Dashboard!Next]_(Dashboard!vars) => [Dashboard!ReturnsVerified]_(Dashboard!vars)
  <2> SUFFICES ASSUME PageInd, Dashboard!Next, NEW c \in Commands, commands[c].pc \in {"applied", "verifying"}, commands'[c].pc = "ready"
               PROVE  live'.failed \/ live'.status.change >= commands[c].change
    BY DEF Dashboard!ReturnsVerified
  <2>1. commands \in [Commands -> PageCommands]
    BY DEF PageInd, PageTypes
  <2>2. ASSUME NEW d \in Commands, NEW n, commands' = [commands EXCEPT ![d] = n], commands[d].pc \notin {"applied", "verifying"} \/ n.pc # "ready"
        PROVE  FALSE
    BY <2>1, <2>2
  <2>3. PICK r \in Polls \cup Commands : Dashboard!Land(r)
    <3>1. commands' # commands
      OBVIOUS
    <3>2. \A d \in Commands : ~Dashboard!Start(d) /\ ~Dashboard!Stop(d)
      BY <2>2 DEF Dashboard!Start, Dashboard!Stop, Dashboard!Send
    <3>3. \A d \in Commands : ~Dashboard!Apply(d) /\ ~Dashboard!ApplyLate(d) /\ ~Dashboard!Fail(d)
      BY <2>2 DEF Dashboard!Apply, Dashboard!ApplyLate, Dashboard!Fail
    <3>4. \A d \in Commands : ~Dashboard!Reply(d)
      BY <2>1, <2>2 DEF Dashboard!Reply, Dashboard!Verified, PageCommands
    <3> QED BY <3>1, <3>2, <3>3, <3>4 DEF Dashboard!Next, Dashboard!Poll, Dashboard!Hide, Dashboard!Show, Dashboard!PickMinutes, Dashboard!Others,
              Dashboard!Tick, Dashboard!Answer, Dashboard!AnswerFails, Dashboard!Select
  <2>4. r = c /\ commands[c].pc = "verifying" /\ requests[c].pc = "answered" /\ live' = Dashboard!Landed(c)
    BY <2>1, <2>3 DEF Dashboard!Land
  <2>5. requests[c].answer = Dashboard!NoStatus \/ requests[c].answer.change >= commands[c].change
    BY <2>4 DEF PageInd, AskedAfter
  <2> QED BY <2>4, <2>5 DEF PageInd, PageTypes, Dashboard!Landed
<1> QED BY <1>1, PageInvariant, PTL DEF DashboardSteps, Dashboard!VerifiedAtReturn
-----------------------------------------------------------------------------
(* The map's editor.                                                       *)

Shapes == [kind : {"none", "pin", "polygon"}, of : Zones \cup {None}, n : Nat]
Updates == [pc : {"none", "sent", "applied"}, zone : Zones \cup {None}, shape : Shapes]
EditorTypes ==
  /\ placed \in [Zones -> Shapes] /\ stored \in [Zones -> Shapes] /\ patches \in [Patches -> Updates]
  /\ {pin, polygon} \subseteq Shapes /\ selected \in Zones \cup {None} /\ tool \in {None, "pin", "polygon", "home"}
\* What is on the map was drawn for the zone it is on.
Owned ==
  /\ \A z \in Zones : placed[z].of \in {None, z} /\ stored[z].of \in {None, z}
  /\ pin.of \in {None, selected} /\ polygon.of \in {None, selected}
  /\ \A p \in Patches : patches[p].pc # "none" => patches[p].zone \in Zones /\ patches[p].shape.of \in {None, patches[p].zone}
\* A tool that draws has a zone to draw for, and no draft of the other kind.
Drawing ==
  /\ MapEditor!OneDraft
  /\ tool \in {"pin", "polygon"} => selected \in Zones
  /\ (tool = "pin" => polygon = MapEditor!NoShape) /\ (tool = "polygon" => pin = MapEditor!NoShape)
\* Until updates overlap or an answer is lost, there is one update at most, and the
\* page is behind by what it has written.
OneBehind ==
  ~crossed =>
    /\ \A p, q \in Patches : patches[p].pc # "none" /\ patches[q].pc # "none" => p = q
    /\ \A p \in Patches : patches[p].pc = "applied" => stored = [placed EXCEPT ![patches[p].zone] = patches[p].shape]
    /\ (\A p \in Patches : patches[p].pc # "applied") => placed = stored
MapInd == EditorTypes /\ Owned /\ Drawing /\ OneBehind

\* The empty shapes and updates are of their types.
LEMMA MapValues ==
  /\ MapEditor!NoShape \in Shapes /\ MapEditor!NoShape.of = None /\ MapEditor!NoShape.kind = "none"
  /\ MapEditor!NoPatch \in Updates /\ MapEditor!NoPatch.pc = "none"
  /\ \A z \in Zones : MapEditor!Pin(z) \in Shapes /\ MapEditor!Pin(z).of = z /\ MapEditor!Pin(z).kind = "pin"
  /\ \A z \in Zones, n \in Nat : MapEditor!Polygon(z, n) \in Shapes /\ MapEditor!Polygon(z, n).of = z
PROOF BY DEF Shapes, Updates, MapEditor!NoShape, MapEditor!NoPatch, MapEditor!Pin, MapEditor!Polygon

\* What a page shows of a zone is a draft of one kind, of that zone.
LEMMA Loaded ==
  ASSUME MapInd, NEW z \in Zones, MapEditor!Load(z)
  PROVE  {pin', polygon'} \subseteq Shapes /\ pin'.of \in {None, z} /\ polygon'.of \in {None, z}
         /\ (pin' = MapEditor!NoShape \/ polygon' = MapEditor!NoShape)
PROOF
<1>1. placed[z] \in Shapes /\ placed[z].of \in {None, z}
  BY DEF MapInd, EditorTypes, Owned
<1>2. pin' = (IF placed[z].kind = "pin" THEN placed[z] ELSE MapEditor!NoShape)
      /\ polygon' = (IF placed[z].kind = "polygon" THEN placed[z] ELSE MapEditor!NoShape)
  BY DEF MapEditor!Load, MapEditor!As
<1> HIDE DEF MapEditor!NoShape
<1> QED BY <1>1, <1>2, MapValues

\* The page draws, selects and arms, and asks nothing of the server.
LEMMA DrawStep ==
  ASSUME MapEditor!MapEditorAssumption, MapInd,
         \/ MapEditor!ToggleEditMode \/ MapEditor!ArmPin \/ MapEditor!ArmPolygon \/ MapEditor!ToggleHome \/ MapEditor!PlacePin
         \/ MapEditor!AddVertex \/ MapEditor!UndoLastPoint \/ MapEditor!FinishPolygon \/ MapEditor!CancelDraft \/ MapEditor!MoveHome
         \/ MapEditor!HomeSaved \/ \E z \in Zones : MapEditor!SelectZone(z)
  PROVE  MapInd'
PROOF
<1>1. UNCHANGED <<placed, stored, patches, crossed>>
  BY DEF MapEditor!ToggleEditMode, MapEditor!ArmPin, MapEditor!ArmPolygon, MapEditor!ToggleHome, MapEditor!PlacePin, MapEditor!AddVertex,
         MapEditor!UndoLastPoint, MapEditor!FinishPolygon, MapEditor!CancelDraft, MapEditor!MoveHome, MapEditor!HomeSaved,
         MapEditor!SelectZone, MapEditor!Data
<1>2. /\ {pin, polygon} \subseteq Shapes /\ selected \in Zones \cup {None} /\ tool \in {None, "pin", "polygon", "home"}
      /\ pin.of \in {None, selected} /\ polygon.of \in {None, selected}
      /\ (tool \in {"pin", "polygon"} => selected \in Zones) /\ None \notin Zones \cup {"pin", "polygon", "home"}
      /\ (tool = "pin" => polygon = MapEditor!NoShape) /\ (tool = "polygon" => pin = MapEditor!NoShape)
      /\ (pin = MapEditor!NoShape \/ polygon = MapEditor!NoShape)
  BY DEF MapEditor!MapEditorAssumption, MapInd, EditorTypes, Owned, Drawing, MapEditor!OneDraft
<1> DEFINE Kept == /\ {pin', polygon'} \subseteq Shapes /\ selected' \in Zones \cup {None} /\ tool' \in {None, "pin", "polygon", "home"}
                   /\ pin'.of \in {None, selected'} /\ polygon'.of \in {None, selected'}
                   /\ (tool' \in {"pin", "polygon"} => selected' \in Zones)
                   /\ (tool' = "pin" => polygon' = MapEditor!NoShape) /\ (tool' = "polygon" => pin' = MapEditor!NoShape)
                   /\ (pin' = MapEditor!NoShape \/ polygon' = MapEditor!NoShape)
<1>3. Kept
  <2>1. CASE MapEditor!ToggleEditMode \/ MapEditor!ToggleHome
    <3>1. pin' = MapEditor!NoShape /\ polygon' = MapEditor!NoShape /\ selected' = None /\ tool' \in {None, "home"}
      BY <2>1 DEF MapEditor!ToggleEditMode, MapEditor!ToggleHome, MapEditor!Drop
    <3> HIDE DEF MapEditor!NoShape
    <3> QED BY <1>2, <3>1, MapValues
  <2>2. CASE MapEditor!ArmPin \/ MapEditor!ArmPolygon
    <3>1. /\ selected # None /\ selected' = selected
          /\ \/ tool' = "pin" /\ polygon' = MapEditor!NoShape /\ pin' = pin
             \/ tool' = "polygon" /\ polygon' = MapEditor!NoShape /\ pin' = MapEditor!NoShape
      BY <2>2 DEF MapEditor!ArmPin, MapEditor!ArmPolygon, MapEditor!PinDropped
    <3> HIDE DEF MapEditor!NoShape
    <3> QED BY <1>2, <3>1, MapValues
  <2>3. CASE MapEditor!PlacePin
    <3>1. tool = "pin" /\ pin' = MapEditor!Pin(selected) /\ UNCHANGED <<selected, tool, polygon>>
      BY <2>3 DEF MapEditor!PlacePin
    <3> HIDE DEF MapEditor!NoShape, MapEditor!Pin
    <3> QED BY <1>2, <3>1, MapValues
  <2>4. CASE MapEditor!AddVertex \/ MapEditor!UndoLastPoint
    <3>1. tool = "polygon" /\ UNCHANGED <<selected, tool, pin>>
      BY <2>4 DEF MapEditor!AddVertex, MapEditor!UndoLastPoint
    <3>2. polygon.n \in Nat
      BY <1>2 DEF Shapes
    <3>3. \/ polygon' \in {polygon, MapEditor!NoShape} \/ polygon' = MapEditor!Polygon(selected, polygon.n + 1)
          \/ (polygon.n > 0 /\ polygon' = MapEditor!Polygon(selected, polygon.n - 1))
      BY <2>4 DEF MapEditor!AddVertex, MapEditor!UndoLastPoint
    <3>4. polygon' \in {polygon, MapEditor!NoShape} \/ \E n \in Nat : polygon' = MapEditor!Polygon(selected, n)
      BY <3>2, <3>3
    <3> HIDE DEF MapEditor!NoShape, MapEditor!Polygon
    <3> QED BY <1>2, <3>1, <3>4, MapValues
  <2>5. CASE MapEditor!FinishPolygon \/ MapEditor!MoveHome \/ MapEditor!HomeSaved
    <3>1. UNCHANGED <<selected, pin, polygon>> /\ tool' \in {None, tool}
      BY <2>5 DEF MapEditor!FinishPolygon, MapEditor!MoveHome, MapEditor!HomeSaved, MapEditor!Draft
    <3> HIDE DEF MapEditor!NoShape
    <3> QED BY <1>2, <3>1
  <2>6. CASE MapEditor!CancelDraft \/ \E z \in Zones : MapEditor!SelectZone(z)
    <3>1. PICK z \in Zones : selected' = z /\ tool' = None /\ MapEditor!Load(z)
      BY <1>2, <2>6 DEF MapEditor!CancelDraft, MapEditor!SelectZone
    <3>2. {pin', polygon'} \subseteq Shapes /\ pin'.of \in {None, z} /\ polygon'.of \in {None, z}
          /\ (pin' = MapEditor!NoShape \/ polygon' = MapEditor!NoShape)
      BY <3>1, Loaded
    <3> HIDE DEF MapEditor!NoShape
    <3> QED BY <1>2, <3>1, <3>2
  <2> QED BY <2>1, <2>2, <2>3, <2>4, <2>5, <2>6
<1>4. EditorTypes'
  BY <1>1, <1>3 DEF MapInd, EditorTypes
<1>5. Owned'
  BY <1>1, <1>3 DEF MapInd, Owned
<1>6. Drawing'
  BY <1>3 DEF Drawing, MapEditor!OneDraft
<1>7. OneBehind'
  BY <1>1 DEF MapInd, OneBehind
<1> QED BY <1>4, <1>5, <1>6, <1>7 DEF MapInd

\* A zone's update is sent, applied, answered, or lost.
LEMMA UpdateStep ==
  ASSUME MapEditor!MapEditorAssumption, MapInd, NEW p \in Patches,
         MapEditor!Save(p) \/ MapEditor!Clear(p) \/ MapEditor!Apply(p) \/ MapEditor!Reply(p) \/ MapEditor!Fail(p)
  PROVE  MapInd'
PROOF
<1> DEFINE u == patches[p]
<1>1. /\ placed \in [Zones -> Shapes] /\ stored \in [Zones -> Shapes] /\ patches \in [Patches -> Updates] /\ u \in Updates
      /\ {pin, polygon} \subseteq Shapes /\ selected \in Zones \cup {None} /\ None \notin Zones
      /\ (u.pc # "none" => u.zone \in Zones /\ u.shape \in Shapes /\ u.shape.of \in {None, u.zone})
  BY DEF MapInd, EditorTypes, Owned, Updates, MapEditor!MapEditorAssumption
<1>2. CASE MapEditor!Save(p) \/ MapEditor!Clear(p)
  <2>1. PICK shape \in {pin, polygon, MapEditor!NoShape} : MapEditor!Patch(p, shape)
    BY <1>2 DEF MapEditor!Save, MapEditor!Clear
  <2> DEFINE v == [pc |-> "sent", zone |-> selected, shape |-> shape]
  <2>2. /\ selected \in Zones /\ u.pc = "none" /\ patches' = [patches EXCEPT ![p] = v]
        /\ UNCHANGED <<placed, stored, selected, tool, pin, polygon>>
        /\ (~crossed' => ~crossed /\ \A q \in Patches : patches[q].pc = "none")
    BY <1>1, <2>1 DEF MapEditor!Patch, MapEditor!Draft
  <2>3. shape \in Shapes /\ shape.of \in {None, selected}
    BY <1>1, <2>1, MapValues DEF MapInd, Owned
  <2>4. v \in Updates /\ v.pc = "sent" /\ v.zone = selected /\ v.shape = shape
    BY <2>2, <2>3 DEF Updates
  <2> HIDE DEF v
  <2>5. patches' \in [Patches -> Updates] /\ patches'[p] = v /\ \A q \in Patches \ {p} : patches'[q] = patches[q]
    BY <1>1, <2>2, <2>4
  <2>6. EditorTypes'
    BY <2>2, <2>5 DEF MapInd, EditorTypes
  <2>7. Owned'
    BY <2>2, <2>3, <2>4, <2>5 DEF MapInd, Owned
  <2>8. Drawing'
    BY <2>2 DEF MapInd, Drawing, MapEditor!OneDraft
  <2>9. OneBehind'
    BY <2>2, <2>4, <2>5 DEF MapInd, OneBehind
  <2> QED BY <2>6, <2>7, <2>8, <2>9 DEF MapInd
<1>3. CASE MapEditor!Apply(p)
  <2>1. /\ u.pc = "sent" /\ stored' = [stored EXCEPT ![u.zone] = u.shape] /\ patches' = [patches EXCEPT ![p].pc = "applied"]
        /\ UNCHANGED <<placed, selected, tool, pin, polygon, crossed>>
    BY <1>3 DEF MapEditor!Apply, MapEditor!Draft
  <2>2. /\ patches' \in [Patches -> Updates] /\ \A q \in Patches \ {p} : patches'[q] = patches[q]
        /\ patches'[p].pc = "applied" /\ patches'[p].zone = u.zone /\ patches'[p].shape = u.shape
    BY <1>1, <2>1 DEF Updates
  <2> HIDE DEF u
  <2>3. stored' \in [Zones -> Shapes] /\ \A z \in Zones : stored'[z] = IF z = u.zone THEN u.shape ELSE stored[z]
    BY <1>1, <2>1
  <2>4. EditorTypes'
    BY <2>1, <2>2, <2>3 DEF MapInd, EditorTypes
  <2>5. Owned'
    BY <1>1, <2>1, <2>2, <2>3 DEF MapInd, Owned
  <2>6. Drawing'
    BY <2>1 DEF MapInd, Drawing, MapEditor!OneDraft
  <2>7. OneBehind'
    <3>1. SUFFICES ASSUME ~crossed
                   PROVE  /\ \A q \in Patches : patches'[q].pc # "none" => q = p
                          /\ stored' = [placed EXCEPT ![u.zone] = u.shape]
      BY <2>1, <2>2 DEF OneBehind
    <3>2. \A q \in Patches : patches[q].pc # "none" => q = p
      BY <2>1, <3>1 DEF MapInd, OneBehind, u
    <3>3. placed = stored
      BY <2>1, <3>1, <3>2 DEF MapInd, OneBehind, u
    <3> QED BY <2>1, <2>2, <3>2, <3>3
  <2> QED BY <2>4, <2>5, <2>6, <2>7 DEF MapInd
<1>4. CASE MapEditor!Reply(p)
  <2>1. /\ u.pc = "applied" /\ placed' = [z \in Zones |-> IF z = u.zone THEN u.shape ELSE placed[z]]
        /\ patches' = [patches EXCEPT ![p] = MapEditor!NoPatch] /\ tool' = None /\ UNCHANGED <<stored, selected, crossed>>
        /\ \/ pin' = MapEditor!NoShape /\ polygon' = MapEditor!NoShape
           \/ pin' = pin /\ polygon' = polygon
    BY <1>4 DEF MapEditor!Reply, MapEditor!SentFor, MapEditor!Drop, MapEditor!Draft
  <2> HIDE DEF u, MapEditor!NoPatch, MapEditor!NoShape
  <2>2. patches' \in [Patches -> Updates] /\ patches'[p].pc = "none" /\ \A q \in Patches \ {p} : patches'[q] = patches[q]
    BY <1>1, <2>1, MapValues
  <2>3. placed' \in [Zones -> Shapes] /\ \A z \in Zones : placed'[z] = IF z = u.zone THEN u.shape ELSE placed[z]
    BY <1>1, <2>1
  <2>4. EditorTypes'
    BY <1>1, <2>1, <2>2, <2>3, MapValues DEF MapInd, EditorTypes
  <2>5. Owned'
    BY <1>1, <2>1, <2>2, <2>3, MapValues DEF MapInd, Owned
  <2>6. Drawing'
    BY <2>1 DEF MapInd, Drawing, MapEditor!OneDraft, MapEditor!MapEditorAssumption
  <2>7. OneBehind'
    <3>1. SUFFICES ASSUME ~crossed
                   PROVE  placed' = stored /\ \A q \in Patches : patches'[q].pc = "none"
      BY <2>1, <2>2 DEF OneBehind
    <3>2. /\ \A q \in Patches : patches[q].pc # "none" => q = p
          /\ stored = [placed EXCEPT ![u.zone] = u.shape]
      BY <2>1, <3>1 DEF MapInd, OneBehind, u
    <3> QED BY <1>1, <2>1, <2>2, <3>2
  <2> QED BY <2>4, <2>5, <2>6, <2>7 DEF MapInd
<1>5. CASE MapEditor!Fail(p)
  <2>1. /\ u.pc # "none" /\ patches' = [patches EXCEPT ![p] = MapEditor!NoPatch]
        /\ (~crossed' => ~crossed /\ u.pc # "applied") /\ UNCHANGED <<placed, stored, selected, tool, pin, polygon>>
    BY <1>5 DEF MapEditor!Fail, MapEditor!Draft
  <2>2. patches' \in [Patches -> Updates] /\ patches'[p].pc = "none" /\ \A q \in Patches \ {p} : patches'[q] = patches[q]
    BY <1>1, <2>1, MapValues
  <2>3. EditorTypes'
    BY <2>1, <2>2 DEF MapInd, EditorTypes
  <2>4. Owned'
    BY <2>1, <2>2 DEF MapInd, Owned
  <2>5. Drawing'
    BY <2>1 DEF MapInd, Drawing, MapEditor!OneDraft
  <2>6. OneBehind'
    BY <2>1, <2>2 DEF MapInd, OneBehind
  <2> QED BY <2>3, <2>4, <2>5, <2>6 DEF MapInd
<1> QED BY <1>2, <1>3, <1>4, <1>5

\* The editor's invariant holds throughout.
LEMMA MapInvariant == ASSUME MapEditor!MapEditorAssumption PROVE MapEditor!Spec => []MapInd
PROOF
<1>1. MapEditor!Init => MapInd
  <2> SUFFICES ASSUME MapEditor!Init PROVE MapInd
    OBVIOUS
  <2>1. /\ stored = placed /\ selected = None /\ tool = None /\ pin = MapEditor!NoShape /\ polygon = MapEditor!NoShape
        /\ \A p \in Patches : patches[p] = MapEditor!NoPatch
        /\ patches = [p \in Patches |-> MapEditor!NoPatch]
    BY DEF MapEditor!Init
  <2>2. PICK some \in SUBSET Zones : placed = [z \in Zones |-> IF z \in some THEN MapEditor!Pin(z) ELSE MapEditor!NoShape]
    BY DEF MapEditor!Init
  <2> HIDE DEF MapEditor!NoShape, MapEditor!NoPatch, MapEditor!Pin
  <2>3. placed \in [Zones -> Shapes] /\ \A z \in Zones : placed[z].of \in {None, z}
    BY <2>2, MapValues
  <2>4. EditorTypes
    BY <2>1, <2>3, MapValues DEF EditorTypes
  <2>5. Owned
    BY <2>1, <2>3, MapValues DEF Owned
  <2>6. Drawing /\ OneBehind
    BY <2>1, MapValues DEF Drawing, MapEditor!OneDraft, OneBehind, MapEditor!MapEditorAssumption
  <2> QED BY <2>4, <2>5, <2>6 DEF MapInd
<1>2. MapInd /\ [MapEditor!Next]_(MapEditor!vars) => MapInd'
  <2>1. MapInd /\ UNCHANGED MapEditor!vars => MapInd'
    BY DEF MapEditor!vars, MapInd, EditorTypes, Owned, Drawing, OneBehind, MapEditor!OneDraft
  <2> QED BY <2>1, DrawStep, UpdateStep DEF MapEditor!Next
<1> QED BY <1>1, <1>2, PTL DEF MapEditor!Spec

\* Save, which prefers the pin, saves what is on the map (map-page-client.tsx): a pin and a
\* polygon are never drafted together, whichever answers arrive while drawing, for
\* any zones and updates under way.
LEMMA OneDraftOnly == ASSUME MapEditor!MapEditorAssumption PROVE MapEditor!Spec => []MapEditor!OneDraft
PROOF BY MapInvariant, PTL DEF MapInd, Drawing

\* No zone is ever stored with a placement drawn for another (save,
\* map-page-client.tsx), whatever is selected when it is sent, applied or answered.
LEMMA PlacedWhereDrawn == ASSUME MapEditor!MapEditorAssumption PROVE MapEditor!Spec => []MapEditor!DrawnForZone
PROOF
<1>1. MapInd => MapEditor!DrawnForZone
  BY DEF MapInd, Owned, MapEditor!DrawnForZone
<1> QED BY <1>1, MapInvariant, PTL

\* Updates answered one at a time leave the page showing what is stored
\* (save and clearGeometry, map-page-client.tsx), also when another zone is selected by then.
LEMMA MapShowsStored == ASSUME MapEditor!MapEditorAssumption PROVE MapEditor!Spec => []MapEditor!ShownIsStored
PROOF
<1>1. MapInd => MapEditor!ShownIsStored
  BY DEF MapInd, OneBehind, MapEditor!ShownIsStored
<1> QED BY <1>1, MapInvariant, PTL
-----------------------------------------------------------------------------
(* The list of zones.                                                      *)

Values == Names \cup BOOLEAN
ListRows == [name : Values, enabled : Values]
ListUpdates == [pc : {"idle", "sent", "applied"}, zone : Zones \cup {None}, field : {"name", "enabled"}, value : Values]
ListTypes ==
  /\ zones \in [Zones -> ListRows] /\ rows \in [Zones -> ListRows] /\ requests \in [Requests -> ListUpdates]
  /\ editing \in Zones \cup {None} /\ draft \in Values
  /\ \A r \in Requests : requests[r].pc # "idle" => requests[r].zone \in Zones
Cell(row, f) == IF f = "name" THEN row.name ELSE row.enabled
\* The request is under way and writes this cell.
Writing(r, z, f) == requests[r].pc # "idle" /\ requests[r].zone = z /\ requests[r].field = f
\* What the page knows of a cell: nobody else writes it, one request of its own at
\* most, and it is behind only by what that one has written.
CellKnown(z, f) ==
  /\ \A r, s \in Requests : Writing(r, z, f) /\ Writing(s, z, f) => r = s
  /\ \A r \in Requests : Writing(r, z, f) /\ requests[r].pc = "applied" => Cell(zones[z], f) = requests[r].value
  /\ (\A r \in Requests : Writing(r, z, f) => requests[r].pc # "applied") => Cell(rows[z], f) = Cell(zones[z], f)
ListInd == ListTypes /\ \A z \in Zones, f \in {"name", "enabled"} : <<z, f>> \notin unsure => CellKnown(z, f)

\* The switch of a row is turned to a truth value.
LEMMA BooleanValue == ASSUME NEW b PROVE (~b) \in Values
PROOF
<1>1. (~b) \in BOOLEAN
  BY Zenon
<1> QED BY <1>1 DEF Values

\* A row with one cell rewritten.
LEMMA CellWritten ==
  ASSUME NEW row \in ListRows, NEW f \in {"name", "enabled"}, NEW v \in Values, NEW new,
         new = IF f = "name" THEN [row EXCEPT !.name = v] ELSE [row EXCEPT !.enabled = v]
  PROVE  new \in ListRows /\ \A g \in {"name", "enabled"} : Cell(new, g) = IF g = f THEN v ELSE Cell(row, g)
PROOF
<1>1. CASE f = "name"
  BY <1>1 DEF ListRows, Cell
<1>2. CASE f = "enabled"
  BY <1>2 DEF ListRows, Cell
<1> QED BY <1>1, <1>2

\* A change is sent: if another of that cell is under way, the page no longer knows it.
LEMMA SendChange ==
  ASSUME ListInd, NEW r \in Requests, NEW z \in Zones, NEW f \in {"name", "enabled"}, NEW v \in Values, ZonesManager!Mutate(r, z, f, v)
  PROVE  ListInd'
PROOF
<1> DEFINE n == [pc |-> "sent", zone |-> z, field |-> f, value |-> v]
<1>1. /\ zones \in [Zones -> ListRows] /\ rows \in [Zones -> ListRows] /\ requests \in [Requests -> ListUpdates]
      /\ requests[r].pc = "idle" /\ requests' = [requests EXCEPT ![r] = n] /\ UNCHANGED <<zones, rows, editing, draft>>
  BY DEF ListInd, ListTypes, ZonesManager!Mutate
<1>2. n \in ListUpdates /\ n.pc = "sent" /\ n.zone = z /\ n.field = f
  BY DEF ListUpdates
<1> HIDE DEF n
<1>3. requests' \in [Requests -> ListUpdates] /\ requests'[r] = n /\ \A s \in Requests \ {r} : requests'[s] = requests[s]
  BY <1>1, <1>2
<1>4. ListTypes'
  BY <1>1, <1>2, <1>3 DEF ListInd, ListTypes
<1>5. ASSUME NEW y \in Zones, NEW g \in {"name", "enabled"}, <<y, g>> \notin unsure' PROVE CellKnown(y, g)'
  <2>1. <<y, g>> \notin unsure /\ (ZonesManager!UnderWay(z, f) => <<y, g>> # <<z, f>>)
    BY <1>5 DEF ZonesManager!Mutate
  <2>2. CellKnown(y, g)
    BY <2>1 DEF ListInd
  <2>3. CASE y = z /\ g = f
    <3>1. \A s \in Requests : ~Writing(s, y, g)
      BY <2>1, <2>3 DEF ZonesManager!UnderWay, Writing
    <3>2. \A s \in Requests : Writing(s, y, g)' => s = r
      BY <1>3, <3>1 DEF Writing
    <3>3. Cell(rows[y], g) = Cell(zones[y], g)
      BY <2>2, <3>1 DEF CellKnown
    <3> QED BY <1>1, <1>2, <1>3, <3>2, <3>3 DEF CellKnown, Cell
  <2>4. CASE ~(y = z /\ g = f)
    <3>1. \A s \in Requests : (Writing(s, y, g)' <=> Writing(s, y, g)) /\ (Writing(s, y, g) => requests'[s] = requests[s])
      BY <1>1, <1>2, <1>3, <2>4 DEF Writing
    <3> QED BY <1>1, <2>2, <3>1 DEF CellKnown, Cell
  <2> QED BY <2>3, <2>4
<1> QED BY <1>4, <1>5 DEF ListInd

\* Somebody else writes a cell, which is no longer known.
LEMMA OthersStep ==
  ASSUME ListInd, NEW z \in Zones, NEW f \in {"name", "enabled"}, ZonesManager!OthersWrite(z, f)
  PROVE  ListInd'
PROOF
<1>1. zones \in [Zones -> ListRows] /\ zones[z] \in ListRows
  BY DEF ListInd, ListTypes
<1>2. PICK v \in Values : zones' = [zones EXCEPT ![z] = IF f = "name" THEN [zones[z] EXCEPT !.name = v] ELSE [zones[z] EXCEPT !.enabled = v]]
  <2>1. CASE f = "enabled"
    <3>1. (~zones[z].enabled) \in Values
      BY BooleanValue
    <3>2. zones' = [zones EXCEPT ![z] = [zones[z] EXCEPT !.enabled = ~zones[z].enabled]]
      BY <1>1, <2>1 DEF ZonesManager!OthersWrite
    <3> QED BY <2>1, <3>1, <3>2
  <2>2. CASE f = "name"
    <3>1. PICK n \in Names : zones' = [zones EXCEPT ![z] = [zones[z] EXCEPT !.name = n]]
      BY <1>1, <2>2 DEF ZonesManager!OthersWrite
    <3> QED BY <2>2, <3>1 DEF Values
  <2> QED BY <2>1, <2>2
<1>3. unsure' = unsure \cup {<<z, f>>} /\ UNCHANGED <<rows, requests, editing, draft>>
  BY DEF ZonesManager!OthersWrite
<1> DEFINE new == IF f = "name" THEN [zones[z] EXCEPT !.name = v] ELSE [zones[z] EXCEPT !.enabled = v]
<1>4. new \in ListRows /\ \A g \in {"name", "enabled"} : Cell(new, g) = IF g = f THEN v ELSE Cell(zones[z], g)
  BY <1>1, CellWritten
<1>5. zones' = [zones EXCEPT ![z] = new]
  BY <1>2
<1> HIDE DEF new
<1>6. zones' \in [Zones -> ListRows] /\ zones'[z] = new /\ \A y \in Zones \ {z} : zones'[y] = zones[y]
  BY <1>1, <1>4, <1>5
<1>7. ListTypes'
  BY <1>3, <1>6 DEF ListInd, ListTypes
<1>8. ASSUME NEW y \in Zones, NEW g \in {"name", "enabled"}, <<y, g>> \notin unsure' PROVE CellKnown(y, g)'
  <2>1. CellKnown(y, g) /\ Cell(zones[y], g)' = Cell(zones[y], g)
    BY <1>3, <1>4, <1>6, <1>8 DEF ListInd, Cell
  <2> QED BY <1>3, <2>1 DEF CellKnown, Writing, Cell
<1> QED BY <1>7, <1>8 DEF ListInd

\* The page's own steps, and a write by somebody else.
LEMMA RowStep ==
  ASSUME ZonesManager!ZonesManagerAssumption, ListInd,
         \/ ZonesManager!CancelEdit \/ ZonesManager!SaveNothing \/ \E m \in Names : ZonesManager!Type(m)
         \/ \E z \in Zones : ZonesManager!StartEdit(z) \/ ZonesManager!OthersWrite(z, "enabled") \/ ZonesManager!OthersWrite(z, "name")
         \/ \E r \in Requests : ZonesManager!SaveName(r) \/ \E z \in Zones : ZonesManager!Switch(r, z)
  PROVE  ListInd'
PROOF
<1>1. /\ zones \in [Zones -> ListRows] /\ rows \in [Zones -> ListRows] /\ requests \in [Requests -> ListUpdates]
      /\ editing \in Zones \cup {None} /\ draft \in Values
  BY DEF ListInd, ListTypes
<1>2. CASE ZonesManager!CancelEdit \/ ZonesManager!SaveNothing \/ (\E m \in Names : ZonesManager!Type(m)) \/ \E z \in Zones : ZonesManager!StartEdit(z)
  <2>1. UNCHANGED <<zones, rows, requests, unsure>> /\ editing' \in Zones \cup {None}
    BY <1>1, <1>2 DEF ZonesManager!CancelEdit, ZonesManager!SaveNothing, ZonesManager!Type, ZonesManager!StartEdit
  <2>2. draft' \in Values
    BY <1>1, <1>2 DEF ZonesManager!CancelEdit, ZonesManager!SaveNothing, ZonesManager!Type, ZonesManager!StartEdit, Values, ListRows
  <2> QED BY <2>1, <2>2 DEF ListInd, ListTypes, CellKnown, Writing, Cell
<1>3. ASSUME NEW z \in Zones, ZonesManager!OthersWrite(z, "enabled") \/ ZonesManager!OthersWrite(z, "name") PROVE ListInd'
  BY <1>3, OthersStep
<1>4. ASSUME NEW r \in Requests, ZonesManager!SaveName(r) PROVE ListInd'
  BY <1>1, <1>4, SendChange DEF ZonesManager!SaveName, Values
<1>5. ASSUME NEW r \in Requests, NEW z \in Zones, ZonesManager!Switch(r, z) PROVE ListInd'
  <2>1. (~rows[z].enabled) \in Values
    BY BooleanValue
  <2>2. ZonesManager!Mutate(r, z, "enabled", ~rows[z].enabled)
    BY <1>5 DEF ZonesManager!Switch
  <2> QED BY <2>1, <2>2, SendChange
<1> QED BY <1>2, <1>3, <1>4, <1>5

\* A change is applied, answered, or lost.
LEMMA ChangeStep ==
  ASSUME ZonesManager!ZonesManagerAssumption, ListInd, NEW r \in Requests, ZonesManager!Apply(r) \/ ZonesManager!Reply(r) \/ ZonesManager!Fail(r)
  PROVE  ListInd'
PROOF
<1> DEFINE q == requests[r]
<1>1. /\ zones \in [Zones -> ListRows] /\ rows \in [Zones -> ListRows] /\ requests \in [Requests -> ListUpdates]
      /\ editing \in Zones \cup {None} /\ draft \in Values /\ q \in ListUpdates
      /\ q.pc # "idle" /\ q.zone \in Zones /\ q.field \in {"name", "enabled"} /\ q.value \in Values
  BY DEF ListInd, ListTypes, ListUpdates, ZonesManager!Apply, ZonesManager!Reply, ZonesManager!Fail
<1>2. ZonesManager!Idle \in ListUpdates /\ ZonesManager!Idle.pc = "idle"
  BY DEF ZonesManager!Idle, ListUpdates, Values, ZonesManager!ZonesManagerAssumption
<1>3. CASE ZonesManager!Apply(r)
  <2> DEFINE new == IF q.field = "name" THEN [zones[q.zone] EXCEPT !.name = q.value] ELSE [zones[q.zone] EXCEPT !.enabled = q.value]
  <2>1. /\ q.pc = "sent" /\ zones' = [zones EXCEPT ![q.zone] = new]
        /\ requests' = [requests EXCEPT ![r].pc = "applied"] /\ UNCHANGED <<rows, editing, draft, unsure>>
    BY <1>1, <1>3 DEF ZonesManager!Apply
  <2>2. new \in ListRows /\ \A g \in {"name", "enabled"} : Cell(new, g) = IF g = q.field THEN q.value ELSE Cell(zones[q.zone], g)
    BY <1>1, CellWritten
  <2>3. /\ requests' \in [Requests -> ListUpdates] /\ \A s \in Requests \ {r} : requests'[s] = requests[s]
        /\ requests'[r].pc = "applied" /\ requests'[r].zone = q.zone /\ requests'[r].field = q.field /\ requests'[r].value = q.value
    BY <1>1, <2>1 DEF ListUpdates
  <2> HIDE DEF new, q
  <2>4. zones' \in [Zones -> ListRows] /\ zones'[q.zone] = new /\ \A y \in Zones \ {q.zone} : zones'[y] = zones[y]
    BY <1>1, <2>1, <2>2
  <2>5. ListTypes'
    BY <1>1, <2>1, <2>3, <2>4 DEF ListInd, ListTypes
  <2>6. ASSUME NEW y \in Zones, NEW g \in {"name", "enabled"}, <<y, g>> \notin unsure' PROVE CellKnown(y, g)'
    <3>1. CellKnown(y, g)
      BY <2>1, <2>6 DEF ListInd
    <3>2. \A s \in Requests : Writing(s, y, g)' <=> Writing(s, y, g)
      BY <1>1, <2>1, <2>3 DEF Writing, q
    <3>3. CASE y = q.zone /\ g = q.field
      <4>1. Writing(r, y, g) /\ \A s \in Requests : Writing(s, y, g) => s = r
        BY <1>1, <3>1, <3>3 DEF CellKnown, Writing, q
      <4>2. Cell(zones'[y], g) = q.value
        BY <2>2, <2>4, <3>3
      <4>3. /\ \A s \in Requests : Writing(s, y, g)' => s = r
            /\ Writing(r, y, g)' /\ requests'[r].pc = "applied" /\ requests'[r].value = q.value
        BY <2>3, <3>2, <4>1
      <4>4. Cell(zones[y], g)' = q.value
        BY <4>2 DEF Cell
      <4> QED BY <4>3, <4>4 DEF CellKnown
    <3>4. CASE ~(y = q.zone /\ g = q.field)
      <4>1. Cell(zones[y], g)' = Cell(zones[y], g) /\ Cell(rows[y], g)' = Cell(rows[y], g)
        BY <2>1, <2>2, <2>4, <3>4 DEF Cell
      <4>2. \A s \in Requests : Writing(s, y, g) => requests'[s] = requests[s]
        BY <2>3, <3>4 DEF Writing, q
      <4> QED BY <3>1, <3>2, <4>1, <4>2 DEF CellKnown
    <3> QED BY <3>3, <3>4
  <2> QED BY <2>5, <2>6 DEF ListInd
<1>4. CASE ZonesManager!Reply(r)
  <2> DEFINE new == IF q.field = "name" THEN [rows[q.zone] EXCEPT !.name = q.value] ELSE [rows[q.zone] EXCEPT !.enabled = q.value]
  <2>1. /\ q.pc = "applied" /\ rows' = [rows EXCEPT ![q.zone] = new] /\ editing' \in {None, editing}
        /\ requests' = [requests EXCEPT ![r] = ZonesManager!Idle] /\ UNCHANGED <<zones, draft, unsure>>
    BY <1>4 DEF ZonesManager!Reply, ZonesManager!Patched
  <2>2. new \in ListRows /\ \A g \in {"name", "enabled"} : Cell(new, g) = IF g = q.field THEN q.value ELSE Cell(rows[q.zone], g)
    BY <1>1, CellWritten
  <2> HIDE DEF new, q, ZonesManager!Idle
  <2>3. requests' \in [Requests -> ListUpdates] /\ requests'[r].pc = "idle" /\ \A s \in Requests \ {r} : requests'[s] = requests[s]
    BY <1>1, <1>2, <2>1
  <2>4. rows' \in [Zones -> ListRows] /\ rows'[q.zone] = new /\ \A y \in Zones \ {q.zone} : rows'[y] = rows[y]
    BY <1>1, <2>1, <2>2
  <2>5. ListTypes'
    BY <1>1, <2>1, <2>3, <2>4 DEF ListInd, ListTypes
  <2>6. ASSUME NEW y \in Zones, NEW g \in {"name", "enabled"}, <<y, g>> \notin unsure' PROVE CellKnown(y, g)'
    <3>1. CellKnown(y, g)
      BY <2>1, <2>6 DEF ListInd
    <3>2. \A s \in Requests : Writing(s, y, g)' => s # r /\ Writing(s, y, g) /\ requests'[s] = requests[s]
      BY <2>3 DEF Writing
    <3>3. CASE y = q.zone /\ g = q.field
      <4>1. Writing(r, y, g) /\ requests[r].pc = "applied" /\ Cell(zones[y], g) = q.value
        BY <1>1, <2>1, <3>1, <3>3 DEF CellKnown, Writing, q
      <4>2. Cell(rows[y], g)' = q.value /\ Cell(zones[y], g)' = q.value
        BY <2>1, <2>2, <2>4, <3>3, <4>1 DEF Cell
      <4>3. \A s \in Requests : ~Writing(s, y, g)'
        BY <3>1, <3>2, <4>1 DEF CellKnown
      <4> QED BY <4>2, <4>3 DEF CellKnown
    <3>4. CASE ~(y = q.zone /\ g = q.field)
      <4>1. Cell(zones[y], g)' = Cell(zones[y], g) /\ Cell(rows[y], g)' = Cell(rows[y], g)
        BY <2>1, <2>2, <2>4, <3>4 DEF Cell
      <4>2. \A s \in Requests : Writing(s, y, g) <=> Writing(s, y, g)'
        BY <2>3, <3>2, <3>4 DEF Writing, q
      <4> QED BY <3>1, <3>2, <4>1, <4>2 DEF CellKnown
    <3> QED BY <3>3, <3>4
  <2> QED BY <2>5, <2>6 DEF ListInd
<1>5. CASE ZonesManager!Fail(r)
  <2>1. /\ unsure' = (IF q.pc = "applied" THEN unsure \cup {<<q.zone, q.field>>} ELSE unsure)
        /\ requests' = [requests EXCEPT ![r] = ZonesManager!Idle] /\ UNCHANGED <<zones, rows, editing, draft>>
    BY <1>5 DEF ZonesManager!Fail
  <2> HIDE DEF q, ZonesManager!Idle
  <2>2. requests' \in [Requests -> ListUpdates] /\ requests'[r].pc = "idle" /\ \A s \in Requests \ {r} : requests'[s] = requests[s]
    BY <1>1, <1>2, <2>1
  <2>3. ListTypes'
    BY <2>1, <2>2 DEF ListInd, ListTypes
  <2>4. ASSUME NEW y \in Zones, NEW g \in {"name", "enabled"}, <<y, g>> \notin unsure' PROVE CellKnown(y, g)'
    <3>1. <<y, g>> \notin unsure /\ (y = q.zone /\ g = q.field => q.pc # "applied")
      BY <2>1, <2>4
    <3>2. CellKnown(y, g)
      BY <3>1 DEF ListInd
    <3>3. \A s \in Requests : Writing(s, y, g)' => Writing(s, y, g) /\ requests'[s] = requests[s]
      BY <2>2 DEF Writing
    <3>4. \A s \in Requests : Writing(s, y, g) => requests[s].pc # "applied" \/ Writing(s, y, g)'
      BY <2>2, <3>1 DEF Writing, q
    <3>5. Cell(zones[y], g)' = Cell(zones[y], g) /\ Cell(rows[y], g)' = Cell(rows[y], g)
      BY <2>1 DEF Cell
    <3> QED BY <3>2, <3>3, <3>4, <3>5 DEF CellKnown
  <2> QED BY <2>3, <2>4 DEF ListInd
<1> QED BY <1>3, <1>4, <1>5

\* Renaming and switching a zone at once loses neither (mutate, zones-manager.tsx): a
\* cell that nobody else writes, whose own changes have not overlapped and whose
\* answers have all come, shows what is stored, for any zones, names and requests.
LEMMA ListTrue == ASSUME ZonesManager!ZonesManagerAssumption PROVE ZonesManager!Spec => []ZonesManager!ListAgrees
PROOF
<1>1. ZonesManager!Init => ListInd
  <2> SUFFICES ASSUME ZonesManager!Init PROVE ListInd
    OBVIOUS
  <2> DEFINE first == CHOOSE n \in Names : n # Blank
  <2>1. zones = [z \in Zones |-> [name |-> first, enabled |-> TRUE]] /\ rows = zones /\ editing = None /\ draft = Blank
        /\ requests = [r \in Requests |-> ZonesManager!Idle]
    BY DEF ZonesManager!Init
  <2>2. first \in Names /\ Blank \in Names
    BY DEF ZonesManager!ZonesManagerAssumption
  <2> HIDE DEF first
  <2>3. zones \in [Zones -> ListRows]
    BY <2>1, <2>2 DEF ListRows, Values
  <2>4. requests \in [Requests -> ListUpdates] /\ \A r \in Requests : requests[r].pc = "idle"
    BY <2>1, <2>2 DEF ZonesManager!Idle, ListUpdates, Values
  <2>5. ListTypes
    BY <2>1, <2>2, <2>3, <2>4 DEF ListTypes, Values
  <2>6. \A z \in Zones, f \in {"name", "enabled"} : CellKnown(z, f)
    BY <2>1, <2>4 DEF CellKnown, Writing
  <2> QED BY <2>5, <2>6 DEF ListInd
<1>2. ListInd /\ [ZonesManager!Next]_(ZonesManager!vars) => ListInd'
  <2>1. ListInd /\ UNCHANGED ZonesManager!vars => ListInd'
    BY DEF ZonesManager!vars, ListInd, ListTypes, CellKnown, Writing, Cell
  <2> QED BY <2>1, RowStep, ChangeStep DEF ZonesManager!Next
<1>3. ListInd => ZonesManager!ListAgrees
  <2> SUFFICES ASSUME ListInd, NEW z \in Zones, NEW f \in {"name", "enabled"}, ~ZonesManager!UnderWay(z, f), <<z, f>> \notin unsure
               PROVE  Cell(rows[z], f) = Cell(zones[z], f)
    BY DEF ZonesManager!ListAgrees, Cell
  <2>1. CellKnown(z, f)
    BY DEF ListInd
  <2>2. \A r \in Requests : ~Writing(r, z, f)
    BY DEF Writing, ZonesManager!UnderWay
  <2> QED BY <2>1, <2>2 DEF CellKnown
<1> QED BY <1>1, <1>2, <1>3, PTL DEF ZonesManager!Spec
-----------------------------------------------------------------------------
(* The schedules and the quick-run dialog.                                 *)

\* What the user has deleted stays off the list (setPrograms, schedules-manager.tsx):
\* no late answer brings it back, for any programs, requests under way and other
\* admins.
LEMMA DeletedNeverReturns == ASSUME Schedules!SchedulesAssumption PROVE Schedules!Spec => Schedules!DeletedStaysGone
PROOF
<1> DEFINE Listed == DOMAIN shown = Programs
<1>1. Schedules!Init => Listed
  BY DEF Schedules!Init
<1>2. ASSUME Listed, [Schedules!Next]_(Schedules!vars) PROVE Listed' /\ Schedules!GoneStays
  <2>1. CASE \E r \in Requests : Schedules!Land(r)
    <3>1. PICK r \in Requests : Schedules!Land(r)
      BY <2>1
    <3>2. shown' = shown \/ (shown[requests[r].program] # "gone" /\ shown' = [shown EXCEPT ![requests[r].program] = requests[r].answer])
      BY <3>1 DEF Schedules!Land, Schedules!Merged
    <3> QED BY <1>2, <3>2 DEF Schedules!GoneStays
  <2>2. CASE ~\E r \in Requests : Schedules!Land(r)
    <3>1. shown' = shown
      BY <1>2, <2>2 DEF Schedules!Next, Schedules!vars, Schedules!ToggleEnabled, Schedules!RunNow, Schedules!Remove, Schedules!Send, Schedules!Confirm, Schedules!Patch, Schedules!ReadAgain,
         Schedules!Delete, Schedules!Run, Schedules!Fail, Schedules!Others
    <3> QED BY <1>2, <3>1 DEF Schedules!GoneStays
  <2> QED BY <2>1, <2>2
<1>3. Listed /\ [Schedules!Next]_(Schedules!vars) => [Schedules!GoneStays]_(Schedules!vars)
  BY <1>2
<1>4. Listed /\ [Schedules!Next]_(Schedules!vars) => Listed'
  BY <1>2
<1> QED BY <1>1, <1>3, <1>4, PTL DEF Schedules!Spec, Schedules!DeletedStaysGone

\* The zones are zones, and minutes are a number whatever is typed.
DialogInd == enabled \subseteq Zones /\ zones \subseteq Zones /\ dialog.minutes \in Nat /\ "minutes" \in DOMAIN dialog

\* Every step of the dialog keeps that.
LEMMA DialogStep == ASSUME QuickRun!QuickRunAssumption, DialogInd, [QuickRun!Next]_(QuickRun!vars) PROVE DialogInd'
PROOF
<1>1. enabled' \subseteq Zones
  <2>1. enabled' = enabled \/ \E z \in Zones : enabled' \in {enabled \ {z}, enabled \cup {z}}
    BY DEF QuickRun!Next, QuickRun!vars, QuickRun!Open, QuickRun!Close, QuickRun!ToggleAll, QuickRun!Check, QuickRun!SetMinutes, QuickRun!Submit,
       QuickRun!Insert, QuickRun!Refuse, QuickRun!Land, QuickRun!Polled, QuickRun!ToggleZone, QuickRun!ZoneSwitched
  <2> QED BY <2>1 DEF DialogInd
<1>2. zones' \subseteq Zones
  <2>1. zones' \in {zones, enabled}
    BY DEF QuickRun!Next, QuickRun!vars, QuickRun!Open, QuickRun!Close, QuickRun!ToggleAll, QuickRun!Check, QuickRun!SetMinutes, QuickRun!Submit,
       QuickRun!Insert, QuickRun!Refuse, QuickRun!Land, QuickRun!Polled, QuickRun!ToggleZone, QuickRun!ZoneSwitched
  <2> QED BY <2>1 DEF DialogInd
<1>3. dialog'.minutes \in Nat /\ "minutes" \in DOMAIN dialog'
  <2>1. CASE QuickRun!Open \/ QuickRun!Land
    BY <2>1 DEF QuickRun!Open, QuickRun!Land, QuickRun!Fresh
  <2>2. CASE QuickRun!Close
    <3>1. dialog' = [dialog EXCEPT !.open = FALSE]
      BY <2>2 DEF QuickRun!Close
    <3> QED BY <3>1 DEF DialogInd
  <2>3. ASSUME NEW s, QuickRun!Check(s) PROVE dialog'.minutes \in Nat /\ "minutes" \in DOMAIN dialog'
    <3>1. dialog' = [dialog EXCEPT !.selected = s]
      BY <2>3 DEF QuickRun!Check
    <3> QED BY <3>1 DEF DialogInd
  <2>4. CASE QuickRun!SetMinutes
    <3>1. PICK m \in Nat : dialog' = [dialog EXCEPT !.minutes = m]
      BY <2>4 DEF QuickRun!SetMinutes, QuickRun!QuickRunAssumption
    <3> QED BY <3>1 DEF DialogInd
  <2>5. CASE dialog' = dialog
    BY <2>5 DEF DialogInd
  <2> QED BY <2>1, <2>2, <2>3, <2>4, <2>5 DEF QuickRun!Next, QuickRun!vars, QuickRun!ToggleAll, QuickRun!ToggleZone, QuickRun!Submit,
          QuickRun!Insert, QuickRun!Refuse, QuickRun!Polled, QuickRun!ZoneSwitched
<1> QED BY <1>1, <1>2, <1>3 DEF DialogInd

\* The dialog counts as the library does.
LEMMA SameCardinality ==
  ASSUME NEW S PROVE (QuickRun!IsFiniteSet(S) <=> IsFiniteSet(S)) /\ QuickRun!Cardinality(S) = Cardinality(S)
PROOF
<1>1. QuickRun!IsFiniteSet(S) <=> IsFiniteSet(S)
  BY DEF QuickRun!IsFiniteSet, IsFiniteSet
<1>2. QuickRun!Cardinality(S) = Cardinality(S)
  BY DEF QuickRun!Cardinality, Cardinality
<1> QED BY <1>1, <1>2

\* A quick run the dialog submits is one the route accepts as long as the dialog shows
\* the zones as they are (submit, quick-run-dialog.tsx; POST, quick-run/route.ts), for
\* any minutes typed and any number of zones up to the twenty steps the route takes.
LEMMA SubmittedIsAccepted ==
  ASSUME QuickRun!QuickRunAssumption, Cardinality(Zones) <= 20 PROVE QuickRun!Spec => QuickRun!ShownIsAccepted
PROOF
<1>1. QuickRun!Init => DialogInd
  BY DEF QuickRun!Init, QuickRun!Fresh, DialogInd
<1>2. DialogInd /\ [QuickRun!Next]_(QuickRun!vars) => DialogInd'
  BY DialogStep
<1>3. DialogInd /\ [QuickRun!Next]_(QuickRun!vars) => [QuickRun!SubmitsAccepted]_(QuickRun!vars)
  <2> SUFFICES ASSUME DialogInd, QuickRun!Submit, zones = enabled, request'.zones # {} PROVE QuickRun!Accepted'
    BY DEF QuickRun!SubmitsAccepted
  <2>1. /\ request'.zones = QuickRun!Sent /\ request'.minutes = dialog.minutes /\ enabled' = enabled
        /\ dialog.minutes >= 1 /\ dialog.minutes <= 240
    BY DEF QuickRun!Submit, QuickRun!MinutesValid
  <2>2. QuickRun!Sent \subseteq enabled /\ QuickRun!Sent \subseteq Zones
    BY DEF QuickRun!Sent, DialogInd
  <2>3. Cardinality(QuickRun!Sent) <= 20
    <3>1. IsFiniteSet(Zones) /\ Cardinality(Zones) \in Nat
      <4>1. IsFiniteSet(Zones)
        BY SameCardinality DEF QuickRun!QuickRunAssumption
      <4> QED BY <4>1, FS_CardinalityType
    <3>2. IsFiniteSet(QuickRun!Sent) /\ Cardinality(QuickRun!Sent) \in Nat /\ Cardinality(QuickRun!Sent) <= Cardinality(Zones)
      BY <2>2, <3>1, FS_Subset, FS_CardinalityType
    <3> QED BY <3>1, <3>2
  <2>4. request'.minutes \in 1..240
    BY <2>1 DEF DialogInd
  <2> DEFINE asked == request'.zones
  <2>5. asked # {} /\ Cardinality(asked) <= 20 /\ asked \subseteq enabled'
    BY <2>1, <2>2, <2>3
  <2>6. QuickRun!Cardinality(asked) <= 20
    BY <2>5, SameCardinality
  <2> QED BY <2>4, <2>5, <2>6 DEF QuickRun!Accepted
<1> QED BY <1>1, <1>2, <1>3, PTL DEF QuickRun!Spec, QuickRun!ShownIsAccepted
-----------------------------------------------------------------------------
(* The first web app.                                                      *)

Houses ==
  [zone : LegacyZones \cup {None}, known : BOOLEAN, left : Nat, change : Nat, delay : Int, names : [LegacyZones -> Names]]
HouseAnswers == {LegacyApp!NoStatus} \cup [reachable : BOOLEAN, house : Houses]
HouseRequests == [pc : {"idle", "asked", "answered"}, answer : HouseAnswers]
HouseCommands ==
  [pc : {"ready", "sent", "applied", "verifying", "late"}, op : {"none", "start", "stop", "rename", "delay"},
   zone : LegacyZones \cup {None}, value : Names \cup Int, change : Nat]
\* A start is of a zone, a new name is a name, a new delay a number of days.
Meant(k) ==
  (k.op = "start" => k.zone # None) /\ (k.op = "rename" => k.value \in Names) /\ (k.op = "delay" => k.value \in Int)
LegacyTypes ==
  /\ house \in Houses /\ (house.known => house.zone # None) /\ requests \in [Polls \cup Commands -> HouseRequests]
  /\ live \in [status : HouseAnswers, failed : BOOLEAN, elapsed : Nat]
  /\ commands \in [Commands -> HouseCommands] /\ \A c \in Commands : Meant(commands[c])
  /\ expanded \in LegacyZones \cup {None} /\ field \in [zone : LegacyZones \cup {None}, draft : Names]
  /\ panel \in [open : BOOLEAN, draft : Int]

\* The dashboard's Seen and AskedAfter, of the house; a name or a delay that changes
\* makes an answer as old as a zone that does.
HouseSeen(a, elapsed) ==
  /\ a.house.change <= house.change
  /\ a.house.change = house.change =>
       a.house.known = house.known /\ a.house.left \in Nat /\ (house.known => a.house.left >= house.left + elapsed)
AllHouseSeen == HouseSeen(live.status, live.elapsed) /\ \A r \in Polls \cup Commands : HouseSeen(requests[r].answer, 0)
HouseAskedAfter ==
  \A c \in Commands :
    /\ commands[c].change <= house.change
    /\ commands[c].pc = "verifying" /\ requests[c].pc = "answered" =>
         requests[c].answer = LegacyApp!NoStatus \/ requests[c].answer.house.change >= commands[c].change
LegacyInd == LegacyTypes /\ AllHouseSeen /\ HouseAskedAfter

\* Values that the page starts from.
LEMMA LegacyValues ==
  /\ LegacyApp!NoStatus \in HouseAnswers /\ LegacyApp!NoStatus.house.change = -1
  /\ LegacyApp!Idle \in HouseRequests /\ LegacyApp!Idle.pc = "idle" /\ LegacyApp!Idle.answer = LegacyApp!NoStatus
  /\ LegacyApp!Asked \in HouseRequests /\ LegacyApp!Asked.pc = "asked" /\ LegacyApp!Asked.answer = LegacyApp!NoStatus
  /\ LegacyApp!Ready \in HouseCommands /\ Meant(LegacyApp!Ready) /\ LegacyApp!Ready.pc = "ready" /\ LegacyApp!Ready.change = 0
PROOF
<1>1. LegacyApp!NoStatus \in HouseAnswers /\ LegacyApp!NoStatus.house.change = -1
  BY DEF LegacyApp!NoStatus, HouseAnswers
<1>2. LegacyApp!Idle \in HouseRequests /\ LegacyApp!Idle.pc = "idle" /\ LegacyApp!Idle.answer = LegacyApp!NoStatus
  BY <1>1 DEF LegacyApp!Idle, HouseRequests
<1>3. LegacyApp!Asked \in HouseRequests /\ LegacyApp!Asked.pc = "asked" /\ LegacyApp!Asked.answer = LegacyApp!NoStatus
  BY <1>2 DEF LegacyApp!Asked, HouseRequests
<1>4. /\ LegacyApp!Ready \in HouseCommands /\ Meant(LegacyApp!Ready) /\ LegacyApp!Ready.pc = "ready"
      /\ LegacyApp!Ready.change = 0
  BY DEF LegacyApp!Ready, HouseCommands, Meant
<1> QED BY <1>1, <1>2, <1>3, <1>4

\* Every answer has the number of a change.
LEMMA AnswersNumbered == \A a \in HouseAnswers : a.house.change \in Int
PROOF BY LegacyValues DEF HouseAnswers, Houses

\* What the executor answers of the house now.
LEMMA HouseAnswered ==
  ASSUME LegacyInd, NEW ok \in BOOLEAN, NEW a, a = [reachable |-> ok, house |-> house]
  PROVE  a \in HouseAnswers /\ HouseSeen(a, 0) /\ a.house.change = house.change
PROOF
<1>1. house \in Houses /\ house.left \in Nat /\ house.change \in Nat
  BY DEF LegacyInd, LegacyTypes, Houses
<1>2. a.house = house /\ a \in HouseAnswers
  BY <1>1 DEF HouseAnswers
<1> QED BY <1>1, <1>2 DEF HouseSeen

\* A request is sent or answered.
LEMMA LegacyRequest ==
  ASSUME LegacyInd, NEW r \in Polls \cup Commands, NEW n \in HouseRequests, requests' = [requests EXCEPT ![r] = n],
         HouseSeen(n.answer, 0), n.pc = "answered" => n.answer = LegacyApp!NoStatus \/ n.answer.house.change = house.change,
         UNCHANGED <<house, live, commands, expanded, field, panel>>
  PROVE  LegacyInd'
PROOF
<1>1. requests' \in [Polls \cup Commands -> HouseRequests] /\ requests'[r] = n
      /\ \A q \in (Polls \cup Commands) \ {r} : requests'[q] = requests[q]
  BY DEF LegacyInd, LegacyTypes
<1>2. LegacyTypes'
  BY <1>1 DEF LegacyInd, LegacyTypes, Meant
<1>3. AllHouseSeen'
  BY <1>1 DEF LegacyInd, AllHouseSeen, HouseSeen
<1>4. HouseAskedAfter'
  BY <1>1 DEF LegacyInd, HouseAskedAfter
<1> QED BY <1>2, <1>3, <1>4 DEF LegacyInd

\* Polls and answers on their way.
LEMMA LegacyHookStep ==
  ASSUME LegacyInd,
         \/ (\E p \in Polls : LegacyApp!Poll(p)) \/ LegacyApp!Show
         \/ \E r \in Polls \cup Commands : LegacyApp!Answer(r) \/ LegacyApp!AnswerFails(r)
  PROVE  LegacyInd'
PROOF
<1>1. HouseSeen(LegacyApp!NoStatus, 0) /\ HouseSeen(LegacyApp!Asked.answer, 0)
  <2>1. house.change \in Nat
    BY DEF LegacyInd, LegacyTypes, Houses
  <2> QED BY <2>1, LegacyValues DEF HouseSeen
<1>2. CASE (\E p \in Polls : LegacyApp!Poll(p)) \/ LegacyApp!Show
  <2>1. PICK p \in Polls : requests' = [requests EXCEPT ![p] = LegacyApp!Asked]
    BY <1>2 DEF LegacyApp!Poll, LegacyApp!Show
  <2>2. UNCHANGED <<house, live, commands, expanded, field, panel>>
    BY <1>2 DEF LegacyApp!Poll, LegacyApp!Show, LegacyApp!Forms
  <2> QED BY <1>1, <2>1, <2>2, LegacyValues, LegacyRequest
<1>3. ASSUME NEW r \in Polls \cup Commands, LegacyApp!Answer(r) \/ LegacyApp!AnswerFails(r) PROVE LegacyInd'
  <2>1. PICK a \in {LegacyApp!NoStatus, [reachable |-> TRUE, house |-> house], [reachable |-> FALSE, house |-> house]} :
          requests' = [requests EXCEPT ![r] = [pc |-> "answered", answer |-> a]]
    BY <1>3 DEF LegacyApp!Answer, LegacyApp!AnswerFails
  <2>2. UNCHANGED <<house, live, commands, expanded, field, panel>>
    BY <1>3 DEF LegacyApp!Answer, LegacyApp!AnswerFails, LegacyApp!Forms
  <2>3. a \in HouseAnswers /\ HouseSeen(a, 0) /\ (a = LegacyApp!NoStatus \/ a.house.change = house.change)
    BY <1>1, <2>1, HouseAnswered, LegacyValues
  <2> DEFINE n == [pc |-> "answered", answer |-> a]
  <2>4. n \in HouseRequests /\ n.answer = a
    BY <2>3 DEF HouseRequests
  <2> HIDE DEF n
  <2>5. requests' = [requests EXCEPT ![r] = n]
    BY <2>1 DEF n
  <2> QED BY <2>2, <2>3, <2>4, <2>5, LegacyRequest
<1> QED BY <1>2, <1>3

\* An answer lands, and may end its command.
LEMMA LegacyLandStep == ASSUME LegacyInd, NEW r \in Polls \cup Commands, LegacyApp!Land(r) PROVE LegacyInd'
PROOF
<1>1. /\ requests' = [requests EXCEPT ![r] = LegacyApp!Idle] /\ UNCHANGED <<house, field>>
      /\ live' = IF requests[r].answer = LegacyApp!NoStatus THEN [live EXCEPT !.failed = TRUE]
                 ELSE [status |-> requests[r].answer, failed |-> FALSE, elapsed |-> 0]
  BY DEF LegacyApp!Land
<1>2. /\ expanded' \in {expanded, None} /\ panel' \in {panel, [panel EXCEPT !.open = FALSE]}
      /\ commands' = commands \/ (r \in Commands /\ commands' = [commands EXCEPT ![r] = LegacyApp!Ready])
  BY DEF LegacyApp!Land
<1>3. /\ requests' \in [Polls \cup Commands -> HouseRequests] /\ requests'[r] = LegacyApp!Idle
      /\ \A q \in (Polls \cup Commands) \ {r} : requests'[q] = requests[q]
  BY <1>1, LegacyValues DEF LegacyInd, LegacyTypes
<1>4. /\ commands' \in [Commands -> HouseCommands]
      /\ \A c \in Commands : commands'[c] = commands[c] \/ (c = r /\ commands'[c] = LegacyApp!Ready)
  BY <1>2, LegacyValues DEF LegacyInd, LegacyTypes
<1>5. /\ live' \in [status : HouseAnswers, failed : BOOLEAN, elapsed : Nat]
      /\ HouseSeen(live'.status, live'.elapsed)
  <2>1. /\ requests[r].answer \in HouseAnswers /\ live \in [status : HouseAnswers, failed : BOOLEAN, elapsed : Nat]
        /\ HouseSeen(requests[r].answer, 0) /\ HouseSeen(live.status, live.elapsed)
    BY DEF LegacyInd, LegacyTypes, AllHouseSeen, HouseRequests
  <2>2. CASE live' = [live EXCEPT !.failed = TRUE]
    <3>1. live'.status = live.status /\ live'.elapsed = live.elapsed
      BY <2>1, <2>2
    <3> QED BY <2>1, <2>2, <3>1
  <2>3. CASE live' = [status |-> requests[r].answer, failed |-> FALSE, elapsed |-> 0]
    <3>1. live'.status = requests[r].answer /\ live'.elapsed = 0
      BY <2>3
    <3> QED BY <2>1, <2>3, <3>1
  <2> QED BY <1>1, <2>2, <2>3
<1>6. LegacyTypes'
  <2>1. panel' \in [open : BOOLEAN, draft : Int] /\ expanded' \in LegacyZones \cup {None}
    BY <1>2 DEF LegacyInd, LegacyTypes
  <2>2. \A c \in Commands : Meant(commands[c]) /\ Meant(LegacyApp!Ready)
    BY LegacyValues DEF LegacyInd, LegacyTypes
  <2>3. \A c \in Commands : Meant(commands'[c])
    BY <1>4, <2>2
  <2>4. \A c \in Commands : Meant(commands[c])'
    BY <2>3 DEF Meant
  <2> QED BY <1>1, <1>3, <1>4, <1>5, <2>1, <2>4 DEF LegacyInd, LegacyTypes
<1>7. AllHouseSeen'
  <2>1. house' = house /\ HouseSeen(LegacyApp!NoStatus, 0)
    BY <1>1, LegacyValues DEF LegacyInd, LegacyTypes, Houses, HouseSeen
  <2>2. \A q \in Polls \cup Commands : HouseSeen(requests'[q].answer, 0)
    BY <1>3, <2>1, LegacyValues DEF LegacyInd, AllHouseSeen
  <2> QED BY <1>5, <2>1, <2>2 DEF AllHouseSeen, HouseSeen
<1>8. HouseAskedAfter'
  BY <1>1, <1>3, <1>4, LegacyValues DEF LegacyInd, LegacyTypes, Houses, HouseAskedAfter
<1> QED BY <1>6, <1>7, <1>8 DEF LegacyInd

\* A change of the house: its zone and whether the end of its run is known, a name, the delay.
Renamed(z, n) == [house EXCEPT !.names[z] = n, !.change = house.change + 1]
Delayed(d) == [house EXCEPT !.delay = d, !.change = house.change + 1]
Follows(h, zone, known) == h \in Houses /\ h.change = house.change + 1 /\ h.zone = zone /\ h.known = known
LEMMA HouseChanges ==
  ASSUME LegacyApp!LegacyAssumption, LegacyInd
  PROVE  /\ \A z \in LegacyZones \cup {None}, known \in BOOLEAN : Follows(LegacyApp!Watering(z, known), z, known)
         /\ \A z \in LegacyZones \cup {None}, n \in Names : Follows(Renamed(z, n), house.zone, house.known)
         /\ \A d \in Int : Follows(Delayed(d), house.zone, house.known)
PROOF
<1>1. house \in Houses /\ house.change \in Nat /\ house.change + 1 \in Nat /\ house.names \in [LegacyZones -> Names]
  BY DEF LegacyInd, LegacyTypes, Houses
<1>2. LegacyRun \in Nat
  BY DEF LegacyApp!LegacyAssumption
<1>3. ASSUME NEW z \in LegacyZones \cup {None}, NEW known \in BOOLEAN PROVE Follows(LegacyApp!Watering(z, known), z, known)
  <2>1. (IF z = None THEN 0 ELSE LegacyRun) \in Nat
    BY <1>2
  <2> QED BY <1>1, <2>1 DEF LegacyApp!Watering, Houses, Follows
<1>4. ASSUME NEW z \in LegacyZones \cup {None}, NEW n \in Names PROVE Follows(Renamed(z, n), house.zone, house.known)
  <2>1. [house.names EXCEPT ![z] = n] \in [LegacyZones -> Names]
    BY <1>1
  <2> QED BY <1>1, <2>1 DEF Houses, Follows, Renamed
<1>5. ASSUME NEW d \in Int PROVE Follows(Delayed(d), house.zone, house.known)
  BY <1>1 DEF Houses, Follows, Delayed
<1> QED BY <1>3, <1>4, <1>5

\* Everything that was seen is then older.
LEMMA HouseOlder ==
  ASSUME LegacyInd, house' \in Houses, house'.change = house.change + 1, requests' = requests, live'.status = live.status
  PROVE  AllHouseSeen'
PROOF
<1>1. /\ live.status \in HouseAnswers /\ HouseSeen(live.status, live.elapsed) /\ house.change \in Nat
      /\ \A r \in Polls \cup Commands : requests[r].answer \in HouseAnswers /\ HouseSeen(requests[r].answer, 0)
  BY DEF LegacyInd, LegacyTypes, AllHouseSeen, HouseRequests, Houses
<1>2. live.status.house.change \in Int /\ live.status.house.change < house'.change
  BY <1>1, AnswersNumbered DEF HouseSeen
<1>3. \A r \in Polls \cup Commands : requests[r].answer.house.change \in Int /\ requests[r].answer.house.change < house'.change
  BY <1>1, AnswersNumbered DEF HouseSeen
<1> HIDE DEF Houses
<1>4. house'.change \in Int
  BY DEF Houses
<1> QED BY <1>2, <1>3, <1>4 DEF AllHouseSeen, HouseSeen

\* No command is verified by a change that others make.
LEMMA HouseChanged ==
  ASSUME LegacyInd, house' \in Houses, house'.known => house'.zone # None, house'.change = house.change + 1,
         UNCHANGED <<requests, commands, expanded, field, panel>>,
         live' \in [status : HouseAnswers, failed : BOOLEAN, elapsed : Nat], live'.status = live.status
  PROVE  LegacyInd'
PROOF
<1>1. LegacyTypes'
  BY DEF LegacyInd, LegacyTypes, Meant
<1>2. AllHouseSeen'
  BY HouseOlder
<1>3. house.change \in Nat /\ \A c \in Commands : commands[c].change \in Nat /\ commands[c].change <= house.change
  BY DEF LegacyInd, LegacyTypes, Houses, HouseCommands, HouseAskedAfter
<1>4. HouseAskedAfter'
  BY <1>3 DEF LegacyInd, HouseAskedAfter
<1> QED BY <1>1, <1>2, <1>4 DEF LegacyInd

\* Others change the house, or time passes.
LEMMA HouseStep == ASSUME LegacyApp!LegacyAssumption, LegacyInd, LegacyApp!Others \/ LegacyApp!Tick PROVE LegacyInd'
PROOF
<1>1. /\ None \notin LegacyZones /\ house \in Houses /\ house.left \in Nat /\ house.change \in Nat /\ live.elapsed \in Nat
      /\ (house.known => house.zone # None) /\ live \in [status : HouseAnswers, failed : BOOLEAN, elapsed : Nat]
      /\ MaxDays \in Nat
  BY DEF LegacyApp!LegacyAssumption, LegacyInd, LegacyTypes, Houses
<1>2. UNCHANGED <<requests, commands, expanded, field, panel>>
  BY DEF LegacyApp!Others, LegacyApp!Tick, LegacyApp!Forms
<1>3. /\ live' \in [status : HouseAnswers, failed : BOOLEAN, elapsed : Nat] /\ live'.status = live.status
      /\ live'.elapsed \in {live.elapsed, live.elapsed + 1}
  <2>1. live' = live \/ live' = [live EXCEPT !.elapsed = live.elapsed + 1]
    BY DEF LegacyApp!Others, LegacyApp!Tick
  <2>2. live.elapsed + 1 \in Nat
    BY <1>1
  <2> QED BY <1>1, <2>1, <2>2
<1>4. CASE LegacyApp!Others
  <2>1. CASE \E z \in LegacyZones \cup {None}, known \in BOOLEAN : house' = LegacyApp!Watering(z, known /\ z # None)
    <3>1. PICK z \in LegacyZones \cup {None}, known \in BOOLEAN : house' = LegacyApp!Watering(z, known /\ z # None)
      BY <2>1
    <3>2. Follows(house', z, known /\ z # None)
      BY <3>1, HouseChanges
    <3> QED BY <1>2, <1>3, <3>2, HouseChanged DEF Follows
  <2>2. CASE \E z \in LegacyZones, n \in Names \ {Blank} : house' = Renamed(z, n)
    <3>1. Follows(house', house.zone, house.known)
      BY <2>2, HouseChanges
    <3> QED BY <1>1, <1>2, <1>3, <3>1, HouseChanged DEF Follows
  <2>3. CASE \E d \in 0..MaxDays : house' = Delayed(d)
    <3>1. Follows(house', house.zone, house.known)
      BY <1>1, <2>3, HouseChanges
    <3> QED BY <1>1, <1>2, <1>3, <3>1, HouseChanged DEF Follows
  <2> QED BY <1>4, <2>1, <2>2, <2>3 DEF LegacyApp!Others, Renamed, Delayed
<1>5. CASE LegacyApp!Tick /\ house.zone # None /\ ~(house.left > 1)
  <2>1. house' = LegacyApp!Watering(None, FALSE)
    BY <1>5 DEF LegacyApp!Tick
  <2>2. house' \in Houses /\ house'.change = house.change + 1 /\ house'.known = FALSE
    BY <2>1, HouseChanges DEF Follows
  <2> QED BY <1>2, <1>3, <2>2, HouseChanged
<1>6. CASE LegacyApp!Tick /\ ~(house.zone # None /\ ~(house.left > 1))
  <2>1. \/ house' = house /\ house.zone = None
        \/ house.left > 1 /\ house' = [house EXCEPT !.left = house.left - 1]
    BY <1>6 DEF LegacyApp!Tick
  <2>2. /\ house' \in Houses /\ house'.zone = house.zone /\ house'.known = house.known /\ house'.change = house.change
        /\ house'.left \in Nat /\ house'.left <= house.left
        /\ (house.known => house'.left + live'.elapsed <= house.left + live.elapsed)
    <3>1. CASE house' = house /\ house.zone = None
      BY <1>1, <3>1
    <3>2. CASE house.left > 1 /\ house' = [house EXCEPT !.left = house.left - 1]
      <4>1. house.left - 1 \in Nat
        BY <1>1, <3>2
      <4>2. /\ house' \in Houses /\ house'.zone = house.zone /\ house'.known = house.known /\ house'.change = house.change
            /\ house'.left = house.left - 1
        BY <1>1, <3>2, <4>1 DEF Houses
      <4> HIDE DEF Houses
      <4> QED BY <1>1, <1>3, <4>1, <4>2
    <3> QED BY <2>1, <3>1, <3>2
  <2>3. LegacyTypes'
    BY <1>1, <1>2, <1>3, <2>2 DEF LegacyInd, LegacyTypes, Meant
  <2>4. AllHouseSeen'
    <3> DEFINE NowSeen(a, elapsed) ==
                 /\ a.house.change <= house'.change
                 /\ a.house.change = house'.change =>
                      a.house.known = house'.known /\ a.house.left \in Nat
                      /\ (house'.known => a.house.left >= house'.left + elapsed)
    <3>1. NowSeen(live.status, live'.elapsed)
      BY <1>1, <1>3, <2>2 DEF LegacyInd, AllHouseSeen, HouseSeen
    <3>2. \A r \in Polls \cup Commands : NowSeen(requests[r].answer, 0)
      BY <1>1, <2>2 DEF LegacyInd, AllHouseSeen, HouseSeen
    <3> QED BY <1>2, <1>3, <3>1, <3>2 DEF AllHouseSeen, HouseSeen
  <2>5. HouseAskedAfter'
    BY <1>2, <2>2 DEF LegacyInd, HouseAskedAfter
  <2> QED BY <2>3, <2>4, <2>5 DEF LegacyInd
<1> QED BY <1>4, <1>5, <1>6

\* A command goes on without touching the house; what asks is not answered yet.
LEMMA LegacyCommand ==
  ASSUME LegacyInd, NEW c \in Commands, NEW n \in HouseCommands, Meant(n), commands' = [commands EXCEPT ![c] = n],
         n.change <= house.change,
         \/ requests' = [requests EXCEPT ![c] = LegacyApp!Asked]
         \/ requests' = requests /\ n.pc # "verifying",
         UNCHANGED <<house, live, expanded, panel>>, field' \in [zone : LegacyZones \cup {None}, draft : Names]
  PROVE  LegacyInd'
PROOF
<1>1. commands' \in [Commands -> HouseCommands] /\ commands'[c] = n /\ \A d \in Commands \ {c} : commands'[d] = commands[d]
  BY DEF LegacyInd, LegacyTypes
<1>2. /\ requests' \in [Polls \cup Commands -> HouseRequests]
      /\ \A r \in (Polls \cup Commands) \ {c} : requests'[r] = requests[r]
      /\ (requests'[c] = requests[c] /\ n.pc # "verifying") \/ requests'[c] = LegacyApp!Asked
  BY LegacyValues DEF LegacyInd, LegacyTypes
<1>3. LegacyTypes'
  BY <1>1, <1>2 DEF LegacyInd, LegacyTypes, Meant
<1>4. AllHouseSeen'
  <2>1. HouseSeen(LegacyApp!NoStatus, 0)
    BY LegacyValues DEF LegacyInd, LegacyTypes, Houses, HouseSeen
  <2>2. HouseSeen(live.status, live.elapsed) /\ \A r \in Polls \cup Commands : HouseSeen(requests'[r].answer, 0)
    BY <1>2, <2>1, LegacyValues DEF LegacyInd, AllHouseSeen
  <2> QED BY <2>2 DEF AllHouseSeen, HouseSeen
<1>5. HouseAskedAfter'
  BY <1>1, <1>2, LegacyValues DEF LegacyInd, HouseAskedAfter
<1> QED BY <1>3, <1>4, <1>5 DEF LegacyInd

\* A command takes effect, in time or late.
LEMMA LegacyApplyStep ==
  ASSUME LegacyApp!LegacyAssumption, LegacyInd, NEW c \in Commands, LegacyApp!Apply(c) \/ LegacyApp!ApplyLate(c)
  PROVE  LegacyInd'
PROOF
<1> DEFINE k == commands[c]
<1>1. k \in HouseCommands /\ Meant(k) /\ k.zone \in LegacyZones \cup {None} /\ house.change \in Nat
  BY DEF LegacyInd, LegacyTypes, HouseCommands, Houses
<1>2. house' = LegacyApp!Effect(c) /\ UNCHANGED <<requests, live, expanded, field, panel>>
  BY DEF LegacyApp!Apply, LegacyApp!ApplyLate, LegacyApp!Forms
<1>3. house' \in Houses /\ (house'.known => house'.zone # None) /\ house'.change = house.change + 1
  <2>1. CASE k.op = "rename"
    <3>1. house' = Renamed(k.zone, k.value)
      BY <1>2, <2>1 DEF LegacyApp!Effect, Renamed
    <3>2. Follows(house', house.zone, house.known)
      BY <1>1, <2>1, <3>1, HouseChanges DEF Meant
    <3> QED BY <3>2 DEF Follows, LegacyInd, LegacyTypes
  <2>2. CASE k.op = "delay"
    <3>1. house' = Delayed(k.value)
      BY <1>2, <2>2 DEF LegacyApp!Effect, Delayed
    <3>2. Follows(house', house.zone, house.known)
      BY <1>1, <2>2, <3>1, HouseChanges DEF Meant
    <3> QED BY <3>2 DEF Follows, LegacyInd, LegacyTypes
  <2>3. CASE k.op \notin {"rename", "delay"}
    <3>1. house' = LegacyApp!Watering(k.zone, k.op = "start")
      BY <1>2, <2>3 DEF LegacyApp!Effect
    <3>2. Follows(house', k.zone, k.op = "start")
      BY <1>1, <3>1, HouseChanges
    <3> QED BY <1>1, <3>2 DEF Follows, Meant
  <2> QED BY <2>1, <2>2, <2>3
<1>4. house'.change \in Nat
  BY <1>3 DEF Houses
<1>5. PICK n \in {[k EXCEPT !.pc = "applied", !.change = house'.change], LegacyApp!Ready} : commands' = [commands EXCEPT ![c] = n]
  BY DEF LegacyApp!Apply, LegacyApp!ApplyLate
<1>6. n \in HouseCommands /\ Meant(n) /\ n.change <= house'.change /\ n.pc # "verifying"
  <2>1. CASE n = LegacyApp!Ready
    BY <1>4, <2>1, LegacyValues
  <2>2. CASE n = [k EXCEPT !.pc = "applied", !.change = house'.change]
    <3> HIDE DEF k
    <3>1. PICK y \in Nat : y = house'.change /\ n = [k EXCEPT !.pc = "applied", !.change = y]
      BY <1>4, <2>2
    <3>2. n \in HouseCommands /\ n.pc = "applied" /\ n.op = k.op /\ n.zone = k.zone /\ n.value = k.value /\ n.change = y
      BY <1>1, <3>1 DEF HouseCommands
    <3> QED BY <1>1, <3>1, <3>2 DEF Meant
  <2> QED BY <1>5, <2>1, <2>2
<1> HIDE DEF k
<1>7. commands' \in [Commands -> HouseCommands] /\ commands'[c] = n /\ \A d \in Commands \ {c} : commands'[d] = commands[d]
  BY <1>5, <1>6 DEF LegacyInd, LegacyTypes
<1>8. LegacyTypes'
  <2>1. \A d \in Commands : Meant(commands'[d])
    BY <1>6, <1>7 DEF LegacyInd, LegacyTypes
  <2>2. \A d \in Commands : Meant(commands[d])'
    BY <2>1 DEF Meant
  <2> QED BY <1>2, <1>3, <1>7, <2>2 DEF LegacyInd, LegacyTypes
<1>9. AllHouseSeen'
  BY <1>2, <1>3, HouseOlder
<1>10. HouseAskedAfter'
  <2>1. \A d \in Commands : commands[d].change \in Nat /\ commands[d].change <= house.change
    BY DEF LegacyInd, LegacyTypes, HouseCommands, HouseAskedAfter
  <2>2. \A d \in Commands : commands'[d].change <= house'.change
    BY <1>1, <1>3, <1>6, <1>7, <2>1
  <2> QED BY <1>2, <1>6, <1>7, <2>2 DEF LegacyInd, HouseAskedAfter
<1> QED BY <1>8, <1>9, <1>10 DEF LegacyInd

\* The user starts, stops, renames, sets the delay; a command is answered or fails.
LEMMA LegacyCommandStep ==
  ASSUME LegacyApp!LegacyAssumption, LegacyInd, NEW c \in Commands,
         \/ LegacyApp!Start(c) \/ LegacyApp!Stop(c) \/ LegacyApp!Rename(c) \/ LegacyApp!SetDelay(c)
         \/ LegacyApp!Reply(c) \/ LegacyApp!Fail(c)
  PROVE  LegacyInd'
PROOF
<1>1. /\ None \notin LegacyZones /\ house.change \in Nat /\ expanded \in LegacyZones \cup {None} /\ field.draft \in Names
      /\ field \in [zone : LegacyZones \cup {None}, draft : Names] /\ field.zone \in LegacyZones \cup {None} /\ panel.draft \in Int
      /\ Blank \in Names
  BY DEF LegacyApp!LegacyAssumption, LegacyInd, LegacyTypes, Houses
<1>2. ASSUME NEW op \in {"start", "stop", "rename", "delay"}, NEW z \in LegacyZones \cup {None}, NEW v \in Names \cup Int,
             LegacyApp!Send(c, op, z, v), op = "start" => z # None, op = "rename" => v \in Names, op = "delay" => v \in Int,
             UNCHANGED <<expanded, panel>>, field' \in [zone : LegacyZones \cup {None}, draft : Names]
      PROVE  LegacyInd'
  <2> DEFINE n == [pc |-> "sent", op |-> op, zone |-> z, value |-> v, change |-> 0]
  <2>1. n \in HouseCommands /\ Meant(n) /\ n.change = 0 /\ n.pc # "verifying"
    BY <1>2 DEF HouseCommands, Meant
  <2>2. commands' = [commands EXCEPT ![c] = n] /\ UNCHANGED <<house, requests, live>>
    BY <1>2 DEF LegacyApp!Send, LegacyApp!World
  <2> HIDE DEF n
  <2>3. n.change <= house.change
    BY <1>1, <2>1
  <2> QED BY <1>2, <2>1, <2>2, <2>3, LegacyCommand
<1>3. CASE LegacyApp!Start(c) \/ LegacyApp!Stop(c)
  <2>1. UNCHANGED <<expanded, field, panel>>
    BY <1>3 DEF LegacyApp!Start, LegacyApp!Stop, LegacyApp!Forms
  <2>2. CASE LegacyApp!Start(c)
    BY <1>1, <1>2, <2>1, <2>2 DEF LegacyApp!Start
  <2>3. CASE LegacyApp!Stop(c)
    BY <1>1, <1>2, <2>1, <2>3 DEF LegacyApp!Stop
  <2> QED BY <1>3, <2>2, <2>3
<1>4. CASE LegacyApp!Rename(c)
  <2>1. LegacyApp!Send(c, "rename", field.zone, field.draft) /\ field' = LegacyApp!NoField /\ UNCHANGED <<expanded, panel>>
    BY <1>4 DEF LegacyApp!Rename
  <2>2. field' \in [zone : LegacyZones \cup {None}, draft : Names]
    BY <1>1, <2>1 DEF LegacyApp!NoField
  <2> QED BY <1>1, <1>2, <2>1, <2>2
<1>5. CASE LegacyApp!SetDelay(c)
  <2>1. UNCHANGED <<expanded, field, panel>>
    BY <1>5 DEF LegacyApp!SetDelay, LegacyApp!Forms
  <2>2. PICK d \in {panel.draft, 0} : LegacyApp!Send(c, "delay", None, d)
    BY <1>5 DEF LegacyApp!SetDelay
  <2> QED BY <1>1, <1>2, <2>1, <2>2
<1>6. CASE LegacyApp!Reply(c) \/ LegacyApp!Fail(c)
  <2>1. requests' = [requests EXCEPT ![c] = LegacyApp!Asked] /\ UNCHANGED <<house, live, expanded, field, panel>>
    BY <1>6 DEF LegacyApp!Reply, LegacyApp!Fail, LegacyApp!Forms
  <2>2. PICK n \in {[commands[c] EXCEPT !.pc = "verifying"], LegacyApp!Ready, [commands[c] EXCEPT !.pc = "late"]} :
          commands' = [commands EXCEPT ![c] = n]
    BY <1>6 DEF LegacyApp!Reply, LegacyApp!Fail
  <2>3. commands[c] \in HouseCommands /\ Meant(commands[c]) /\ commands[c].change <= house.change
    BY DEF LegacyInd, LegacyTypes, HouseAskedAfter
  <2>4. n \in HouseCommands /\ Meant(n) /\ n.change <= house.change
    <3>1. CASE n = LegacyApp!Ready
      BY <1>1, <3>1, LegacyValues
    <3>2. CASE n # LegacyApp!Ready
      <4>1. PICK p \in {"verifying", "late"} : n = [commands[c] EXCEPT !.pc = p]
        BY <2>2, <3>2
      <4> QED BY <2>3, <4>1 DEF HouseCommands, Meant
    <3> QED BY <3>1, <3>2
  <2> QED BY <1>1, <2>1, <2>2, <2>4, LegacyCommand
<1> QED BY <1>3, <1>4, <1>5, <1>6

\* The user opens, types and closes; the tab is hidden.
LEMMA LegacyFormStep ==
  ASSUME LegacyInd,
         \/ LegacyApp!Hide \/ LegacyApp!TogglePanel \/ LegacyApp!StepDays \/ LegacyApp!CloseField
         \/ (\E z \in LegacyZones : LegacyApp!ToggleExpand(z) \/ LegacyApp!OpenField(z)) \/ \E n \in Names : LegacyApp!Type(n),
         Blank \in Names
  PROVE  LegacyInd'
PROOF
<1>1. UNCHANGED <<house, requests, live, commands>>
  BY DEF LegacyApp!Hide, LegacyApp!TogglePanel, LegacyApp!StepDays, LegacyApp!CloseField, LegacyApp!ToggleExpand,
         LegacyApp!OpenField, LegacyApp!Type, LegacyApp!World
<1>2. /\ expanded \in LegacyZones \cup {None} /\ field \in [zone : LegacyZones \cup {None}, draft : Names]
      /\ panel \in [open : BOOLEAN, draft : Int] /\ live.status \in HouseAnswers
  BY DEF LegacyInd, LegacyTypes
<1>3. LegacyApp!Loaded => LegacyApp!Shown.delay \in Int /\ \A z \in LegacyZones : LegacyApp!Shown.names[z] \in Names
  BY <1>2 DEF LegacyApp!Loaded, LegacyApp!Shown, HouseAnswers, Houses
<1>4. panel' \in [open : BOOLEAN, draft : Int]
  <2>1. panel' = panel \/ LegacyApp!TogglePanel \/ LegacyApp!StepDays
    BY DEF LegacyApp!Hide, LegacyApp!CloseField, LegacyApp!ToggleExpand, LegacyApp!OpenField, LegacyApp!Type, LegacyApp!Forms
  <2>2. CASE LegacyApp!TogglePanel
    BY <1>2, <1>3, <2>2 DEF LegacyApp!TogglePanel
  <2>3. CASE LegacyApp!StepDays
    <3>1. PICK d \in {panel.draft - 1, panel.draft + 1} : panel' = [panel EXCEPT !.draft = d]
      BY <2>3 DEF LegacyApp!StepDays
    <3>2. d \in Int
      BY <1>2, <3>1
    <3> QED BY <1>2, <3>1, <3>2
  <2> QED BY <1>2, <2>1, <2>2, <2>3
<1>5. field' \in [zone : LegacyZones \cup {None}, draft : Names]
  <2>1. field' = field \/ LegacyApp!CloseField \/ (\E z \in LegacyZones : LegacyApp!OpenField(z)) \/ \E n \in Names : LegacyApp!Type(n)
    BY DEF LegacyApp!Hide, LegacyApp!TogglePanel, LegacyApp!StepDays, LegacyApp!ToggleExpand, LegacyApp!Forms
  <2>2. CASE LegacyApp!CloseField
    BY <2>2 DEF LegacyApp!CloseField, LegacyApp!NoField
  <2>3. CASE \E z \in LegacyZones : LegacyApp!OpenField(z)
    BY <1>3, <2>3 DEF LegacyApp!OpenField
  <2>4. CASE \E n \in Names : LegacyApp!Type(n)
    BY <1>2, <2>4 DEF LegacyApp!Type
  <2> QED BY <1>2, <2>1, <2>2, <2>3, <2>4
<1>6. expanded' \in LegacyZones \cup {None}
  BY <1>2 DEF LegacyApp!Hide, LegacyApp!TogglePanel, LegacyApp!StepDays, LegacyApp!CloseField, LegacyApp!ToggleExpand,
         LegacyApp!OpenField, LegacyApp!Type, LegacyApp!Forms
<1>7. LegacyTypes'
  BY <1>1, <1>4, <1>5, <1>6 DEF LegacyInd, LegacyTypes, Meant
<1>8. AllHouseSeen' /\ HouseAskedAfter'
  BY <1>1 DEF LegacyInd, AllHouseSeen, HouseSeen, HouseAskedAfter
<1> QED BY <1>7, <1>8 DEF LegacyInd

\* The invariant holds throughout.
LEMMA LegacyInvariant == ASSUME LegacyApp!LegacyAssumption PROVE LegacyApp!Spec => []LegacyInd
PROOF
<1>1. LegacyApp!Init => LegacyInd
  <2> SUFFICES ASSUME LegacyApp!Init PROVE LegacyInd
    OBVIOUS
  <2> DEFINE first == CHOOSE n \in Names : n # Blank
  <2>1. /\ house = [zone |-> None, known |-> FALSE, left |-> 0, change |-> 0, delay |-> 0, names |-> [z \in LegacyZones |-> first]]
        /\ requests = [r \in Polls \cup Commands |-> LegacyApp!Idle] /\ commands = [c \in Commands |-> LegacyApp!Ready]
        /\ live = [status |-> LegacyApp!NoStatus, failed |-> FALSE, elapsed |-> 0]
        /\ expanded = None /\ field = LegacyApp!NoField /\ panel = [open |-> FALSE, draft |-> 0]
    BY DEF LegacyApp!Init
  <2>2. first \in Names
    BY DEF LegacyApp!LegacyAssumption
  <2> HIDE DEF first
  <2>3. house \in Houses /\ house.known = FALSE /\ house.change = 0
    BY <2>1, <2>2 DEF Houses
  <2>4. field \in [zone : LegacyZones \cup {None}, draft : Names]
    BY <2>1 DEF LegacyApp!NoField, LegacyApp!LegacyAssumption
  <2>5. LegacyTypes
    BY <2>1, <2>3, <2>4, LegacyValues DEF LegacyTypes
  <2>6. AllHouseSeen
    <3>1. live.status = LegacyApp!NoStatus /\ \A r \in Polls \cup Commands : requests[r].answer = LegacyApp!NoStatus
      BY <2>1, LegacyValues
    <3> QED BY <2>3, <3>1, LegacyValues DEF AllHouseSeen, HouseSeen
  <2>7. HouseAskedAfter
    <3>1. \A c \in Commands : commands[c] = LegacyApp!Ready
      BY <2>1
    <3> QED BY <2>3, <3>1, LegacyValues DEF HouseAskedAfter
  <2> QED BY <2>5, <2>6, <2>7 DEF LegacyInd
<1>2. LegacyInd /\ [LegacyApp!Next]_(LegacyApp!vars) => LegacyInd'
  <2> SUFFICES ASSUME LegacyInd, [LegacyApp!Next]_(LegacyApp!vars) PROVE LegacyInd'
    OBVIOUS
  <2>1. CASE UNCHANGED LegacyApp!vars
    BY <2>1 DEF LegacyApp!vars, LegacyInd, LegacyTypes, Meant, AllHouseSeen, HouseSeen, HouseAskedAfter
  <2>2. CASE \/ (\E p \in Polls : LegacyApp!Poll(p)) \/ LegacyApp!Show
             \/ \E r \in Polls \cup Commands : LegacyApp!Answer(r) \/ LegacyApp!AnswerFails(r)
    BY <2>2, LegacyHookStep
  <2>3. CASE \E r \in Polls \cup Commands : LegacyApp!Land(r)
    BY <2>3, LegacyLandStep
  <2>4. CASE LegacyApp!Others \/ LegacyApp!Tick
    BY <2>4, HouseStep
  <2>5. CASE \E c \in Commands : LegacyApp!Apply(c) \/ LegacyApp!ApplyLate(c)
    BY <2>5, LegacyApplyStep
  <2>6. CASE \E c \in Commands : \/ LegacyApp!Start(c) \/ LegacyApp!Stop(c) \/ LegacyApp!Rename(c) \/ LegacyApp!SetDelay(c)
                                 \/ LegacyApp!Reply(c) \/ LegacyApp!Fail(c)
    BY <2>6, LegacyCommandStep
  <2>7. CASE \/ LegacyApp!Hide \/ LegacyApp!TogglePanel \/ LegacyApp!StepDays \/ LegacyApp!CloseField
             \/ (\E z \in LegacyZones : LegacyApp!ToggleExpand(z) \/ LegacyApp!OpenField(z)) \/ \E n \in Names : LegacyApp!Type(n)
    BY <2>7, LegacyFormStep DEF LegacyApp!LegacyAssumption
  <2> QED BY <2>1, <2>2, <2>3, <2>4, <2>5, <2>6, <2>7 DEF LegacyApp!Next
<1> QED BY <1>1, <1>2, PTL DEF LegacyApp!Spec

\* The first web app's countdown never ends before the run either (App.tsx), whatever else
\* of the house changes.
LEMMA LegacyNotShownShort == ASSUME LegacyApp!LegacyAssumption PROVE LegacyApp!Spec => []LegacyApp!NeverShownShort
PROOF
<1>1. LegacyInd => LegacyApp!NeverShownShort
  <2> SUFFICES ASSUME LegacyInd, LegacyApp!Shown.change = house.change, house.known PROVE LegacyApp!Remaining >= house.left
    BY DEF LegacyApp!NeverShownShort
  <2>1. /\ LegacyApp!Shown.left \in Nat /\ live.elapsed \in Nat /\ house.left \in Nat
        /\ LegacyApp!Shown.left >= house.left + live.elapsed
    BY DEF LegacyApp!Shown, LegacyInd, LegacyTypes, AllHouseSeen, HouseSeen, Houses
  <2>2. \E e \in {0, live.elapsed} :
          LegacyApp!Remaining = IF LegacyApp!Shown.left > e THEN LegacyApp!Shown.left - e ELSE 0
    BY DEF LegacyApp!Remaining
  <2> QED BY <2>1, <2>2
<1> QED BY <1>1, LegacyInvariant, PTL

\* "Run a command, then refetch status promptly to verify" (App.tsx): nor does a command
\* there succeed before its effect, or the outage, is on the page.
LEMMA LegacyCommandsVerified ==
  ASSUME LegacyApp!LegacyAssumption PROVE LegacyApp!Spec => [][LegacyApp!ReturnsVerified]_(LegacyApp!vars)
PROOF
<1>1. LegacyInd /\ [LegacyApp!Next]_(LegacyApp!vars) => [LegacyApp!ReturnsVerified]_(LegacyApp!vars)
  <2> SUFFICES ASSUME LegacyInd, LegacyApp!Next, NEW c \in Commands, commands[c].pc \in {"applied", "verifying"},
                      commands'[c].pc = "ready"
               PROVE  live'.failed \/ live'.status.house.change >= commands[c].change
    BY DEF LegacyApp!ReturnsVerified
  <2>1. commands \in [Commands -> HouseCommands]
    BY DEF LegacyInd, LegacyTypes
  <2>2. ASSUME NEW d \in Commands, NEW n, commands' = [commands EXCEPT ![d] = n],
               commands[d].pc \notin {"applied", "verifying"} \/ n.pc # "ready"
        PROVE  FALSE
    BY <2>1, <2>2
  <2>3. PICK r \in Polls \cup Commands : LegacyApp!Land(r)
    <3>1. commands' # commands
      OBVIOUS
    <3>2. ASSUME NEW d \in Commands, NEW op, NEW z, NEW v, LegacyApp!Send(d, op, z, v) PROVE FALSE
      BY <2>2, <3>2 DEF LegacyApp!Send
    <3>3. \A d \in Commands : ~LegacyApp!Start(d) /\ ~LegacyApp!Stop(d) /\ ~LegacyApp!Rename(d) /\ ~LegacyApp!SetDelay(d)
      BY <3>2 DEF LegacyApp!Start, LegacyApp!Stop, LegacyApp!Rename, LegacyApp!SetDelay
    <3>4. \A d \in Commands : ~LegacyApp!Apply(d) /\ ~LegacyApp!ApplyLate(d) /\ ~LegacyApp!Fail(d)
      BY <2>2 DEF LegacyApp!Apply, LegacyApp!ApplyLate, LegacyApp!Fail
    <3>5. \A d \in Commands : ~LegacyApp!Reply(d)
      BY <2>1, <2>2 DEF LegacyApp!Reply, HouseCommands
    <3> QED BY <3>1, <3>3, <3>4, <3>5 DEF LegacyApp!Next, LegacyApp!Poll, LegacyApp!Hide, LegacyApp!Show, LegacyApp!TogglePanel,
              LegacyApp!StepDays, LegacyApp!CloseField, LegacyApp!Others, LegacyApp!Tick, LegacyApp!Answer, LegacyApp!AnswerFails,
              LegacyApp!ToggleExpand, LegacyApp!OpenField, LegacyApp!Type
  <2>4. r = c /\ commands[c].pc = "verifying" /\ requests[c].pc = "answered"
    BY <2>1, <2>3 DEF LegacyApp!Land
  <2>5. live' = IF requests[c].answer = LegacyApp!NoStatus THEN [live EXCEPT !.failed = TRUE]
                ELSE [status |-> requests[c].answer, failed |-> FALSE, elapsed |-> 0]
    BY <2>3, <2>4 DEF LegacyApp!Land
  <2>6. requests[c].answer = LegacyApp!NoStatus \/ requests[c].answer.house.change >= commands[c].change
    BY <2>4 DEF LegacyInd, HouseAskedAfter
  <2> QED BY <2>5, <2>6 DEF LegacyInd, LegacyTypes
<1> QED BY <1>1, LegacyInvariant, PTL DEF LegacyApp!Spec
-----------------------------------------------------------------------------
(* The program editor's validation.                                        *)

Clock == 0..23
FormSteps == [zone : Zones \cup {None}, minutes : Nat]
TimeLists == Seq(Clock \cup {ProgramEditor!NoTime}) \ {<<>>}
StepLists == Seq(FormSteps)
FormNames == 0..60
Forms ==
  [name : FormNames, rule : {"days_of_week", "interval"}, days : SUBSET {0}, interval : Nat, anchor : Nat,
   times : TimeLists, steps : StepLists]
StoredPrograms == [exists : BOOLEAN, enabled : BOOLEAN, form : Forms]
FormTypes ==
  /\ program \in StoredPrograms /\ enabled \subseteq Zones /\ draft \in Forms /\ request \in Forms
  /\ page \in [editing : BOOLEAN, row : StoredPrograms, offered : SUBSET Zones, switched : BOOLEAN]
\* What the route accepts but for the date.
Passing == {f \in Forms : ProgramEditor!InputValid(f) \/ (f.rule = "interval" /\ ~ProgramEditor!DateValid(f.anchor))}
\* What is sent passed the form.
SentValid ==
  pc = "sent" =>
    /\ request \in Passing
    /\ \A i \in DOMAIN request.steps : request.steps[i].zone \in page.offered
EditorInd == FormTypes /\ SentValid

\* Distinct times can be put in order, and then are the same.
LEMMA TimesSorted ==
  ASSUME NEW times \in Seq(Clock), times # <<>>, ProgramEditor!IsInjective(times)
  PROVE  LET s == ProgramEditor!Sorted(times)
         IN s \in Seq(Clock) /\ s # <<>> /\ ProgramEditor!IsInjective(s)
PROOF
<1> DEFINE S == ProgramEditor!ToSet(times)  n == Len(times)  s == ProgramEditor!Sorted(times)
<1>1. n \in Nat /\ n > 0 /\ DOMAIN times = 1..n /\ times \in [1..n -> Clock] /\ S = {times[i] : i \in 1..n} /\ S \in SUBSET Nat
  <2>1. n \in Nat /\ n > 0 /\ DOMAIN times = 1..n /\ times \in [1..n -> Clock]
    OBVIOUS
  <2>2. S = {times[i] : i \in 1..n}
    BY <2>1 DEF ProgramEditor!ToSet
  <2>3. \A i \in 1..n : times[i] \in Nat
    <3>1. Clock \subseteq Nat
      BY DEF Clock
    <3> QED BY <2>1, <3>1
  <2> QED BY <2>1, <2>2, <2>3
<1>2. times \in Bijection(1..n, S)
  BY <1>1 DEF ProgramEditor!IsInjective, Bijection, Injection, Surjection, IsInjective
<1>3. IsFiniteSet(S) /\ Cardinality(S) = n
  <2>1. IsFiniteSet(1..n) /\ Cardinality(1..n) = n
    BY <1>1, FS_Interval
  <2> QED BY <1>2, <2>1, FS_Bijection DEF ExistsBijection
<1>4. PICK f : Increasing(f, n, S)
  BY <1>1, <1>3, InOrder
<1>5. f \in [DOMAIN times -> S] /\ ProgramEditor!ToSet(f) = S /\ \A i, j \in DOMAIN f : i < j => f[i] < f[j]
  BY <1>1, <1>4 DEF Increasing, ProgramEditor!ToSet
<1>6. s \in [1..n -> S] /\ ProgramEditor!ToSet(s) = S /\ \A i, j \in 1..n : i < j => s[i] < s[j]
  <2>1. s \in [DOMAIN times -> S] /\ ProgramEditor!ToSet(s) = S /\ \A i, j \in DOMAIN s : i < j => s[i] < s[j]
    BY <1>5, Zenon DEF ProgramEditor!Sorted
  <2> QED BY <1>1, <2>1
<1> HIDE DEF s, S
<1>7. S \subseteq Clock
  BY <1>1 DEF S
<1>8. s \in Seq(Clock) /\ Len(s) = n
  BY <1>1, <1>6, <1>7
<1>9. \A i, j \in 1..n : s[i] = s[j] => i = j
  <2> SUFFICES ASSUME NEW i \in 1..n, NEW j \in 1..n, s[i] = s[j], i < j PROVE FALSE
    BY <1>1
  <2>1. s[i] < s[j] /\ s[i] \in Nat /\ s[j] \in Nat
    BY <1>1, <1>6
  <2> QED BY <2>1
<1>10. s # <<>> /\ ProgramEditor!IsInjective(s)
  BY <1>1, <1>6, <1>8, <1>9 DEF ProgramEditor!IsInjective
<1> QED BY <1>8, <1>10 DEF s

\* Every edit of a draft is a draft.
LEMMA DraftsEdited ==
  ASSUME ProgramEditor!ProgramEditorAssumption, FormTypes PROVE ProgramEditor!Edits \subseteq Forms
PROOF
<1>1. Times \subseteq Clock /\ Minutes \cup Intervals \cup Years \subseteq Nat
  BY DEF ProgramEditor!ProgramEditorAssumption, Clock
<1>2. draft \in Forms /\ draft.times \in TimeLists /\ draft.steps \in Seq(FormSteps) /\ page.offered \subseteq Zones
  BY DEF FormTypes, Forms, StepLists
<1>3. ProgramEditor!EditedTimes \subseteq TimeLists
  <2> DEFINE u == draft.times  C == Clock \cup {ProgramEditor!NoTime}
  <2>0. u \in Seq(C) /\ u # <<>> /\ Times \cup {ProgramEditor!NoTime} \subseteq C /\ ProgramEditor!NoTime \in C
    BY <1>1, <1>2 DEF TimeLists
  <2> HIDE DEF u, C
  <2>1. Append(u, ProgramEditor!NoTime) \in Seq(C) /\ Append(u, ProgramEditor!NoTime) # <<>>
    BY <2>0
  <2>2. \A i \in DOMAIN u, m \in Times \cup {ProgramEditor!NoTime} : [u EXCEPT ![i] = m] \in Seq(C) /\ [u EXCEPT ![i] = m] # <<>>
    BY <2>0
  <2>3. \A i \in DOMAIN u : Len(u) > 1 => ProgramEditor!RemoveAt(u, i) \in Seq(C) /\ ProgramEditor!RemoveAt(u, i) # <<>>
    <3> SUFFICES ASSUME NEW i \in DOMAIN u, Len(u) > 1 PROVE ProgramEditor!RemoveAt(u, i) \in Seq(C) /\ ProgramEditor!RemoveAt(u, i) # <<>>
      OBVIOUS
    <3>1. SubSeq(u, 1, i - 1) \in Seq(C) /\ SubSeq(u, i + 1, Len(u)) \in Seq(C) /\ i \in 1..Len(u) /\ Len(u) \in Nat
      BY <2>0
    <3>2. SubSeq(u, 1, i - 1) # <<>> \/ SubSeq(u, i + 1, Len(u)) # <<>>
      BY <2>0, <3>1
    <3> QED BY <3>1, <3>2 DEF ProgramEditor!RemoveAt
  <2>4. ASSUME NEW x \in ProgramEditor!EditedTimes PROVE x \in Seq(C) /\ x # <<>>
    <3>1. \/ x = Append(u, ProgramEditor!NoTime)
          \/ \E i \in DOMAIN u, m \in Times \cup {ProgramEditor!NoTime} : x = [u EXCEPT ![i] = m]
          \/ \E i \in DOMAIN u : Len(u) > 1 /\ x = ProgramEditor!RemoveAt(u, i)
      BY DEF ProgramEditor!EditedTimes, ProgramEditor!NoTime, u
    <3> QED BY <2>1, <2>2, <2>3, <3>1
  <2> QED BY <2>4 DEF TimeLists, C
<1>4. ProgramEditor!EditedSteps \subseteq StepLists
  <2> DEFINE s == draft.steps
  <2>0. s \in Seq(FormSteps) /\ \A i \in DOMAIN s : s[i] \in FormSteps
    BY <1>2
  <2> HIDE DEF s
  <2>1. Append(s, ProgramEditor!Step(None, 15)) \in Seq(FormSteps)
    <3>1. ProgramEditor!Step(None, 15) \in FormSteps
      BY DEF ProgramEditor!Step, FormSteps
    <3> QED BY <2>0, <3>1
  <2>2. \A i \in DOMAIN s, z \in page.offered : [s EXCEPT ![i].zone = z] \in Seq(FormSteps)
    <3>1. \A k \in FormSteps, z \in page.offered : [k EXCEPT !.zone = z] \in FormSteps
      BY <1>2 DEF FormSteps
    <3> QED BY <2>0, <3>1
  <2>3. \A i \in DOMAIN s, m \in Minutes : [s EXCEPT ![i].minutes = m] \in Seq(FormSteps)
    <3>1. \A k \in FormSteps, m \in Minutes : [k EXCEPT !.minutes = m] \in FormSteps
      BY <1>1 DEF FormSteps
    <3> QED BY <2>0, <3>1
  <2>4. \A i \in 1..(Len(s) - 1) : ProgramEditor!Swapped(s, i) \in Seq(FormSteps)
    BY <2>0 DEF ProgramEditor!Swapped
  <2>5. \A i \in DOMAIN s : ProgramEditor!RemoveAt(s, i) \in Seq(FormSteps)
    BY <2>0 DEF ProgramEditor!RemoveAt
  <2>6. ASSUME NEW x \in ProgramEditor!EditedSteps PROVE x \in Seq(FormSteps)
    <3>1. \/ x \in {Append(s, ProgramEditor!Step(None, 15))}
          \/ x \in {[s EXCEPT ![i].zone = z] : i \in DOMAIN s, z \in page.offered}
          \/ x \in {[s EXCEPT ![i].minutes = m] : i \in DOMAIN s, m \in Minutes}
          \/ x \in {ProgramEditor!Swapped(s, i) : i \in 1..(Len(s) - 1)}
          \/ x \in {ProgramEditor!RemoveAt(s, i) : i \in {j \in DOMAIN s : Len(s) > 1 \/ s[j].zone # None}}
      BY DEF ProgramEditor!EditedSteps, s
    <3>2. CASE x \in {[s EXCEPT ![i].zone = z] : i \in DOMAIN s, z \in page.offered}
      BY <2>2, <3>2
    <3>3. CASE x \in {[s EXCEPT ![i].minutes = m] : i \in DOMAIN s, m \in Minutes}
      BY <2>3, <3>3
    <3>4. CASE x \in {ProgramEditor!Swapped(s, i) : i \in 1..(Len(s) - 1)}
      BY <2>4, <3>4
    <3>5. CASE x \in {ProgramEditor!RemoveAt(s, i) : i \in {j \in DOMAIN s : Len(s) > 1 \/ s[j].zone # None}}
      BY <2>5, <3>5
    <3> QED BY <2>1, <3>1, <3>2, <3>3, <3>4, <3>5
  <2> QED BY <2>6 DEF StepLists
<1>5. /\ \A t \in TimeLists : [draft EXCEPT !.times = t] \in Forms
      /\ \A s \in StepLists : [draft EXCEPT !.steps = s] \in Forms
  BY <1>2 DEF Forms
<1>6. \A n \in {0, 60} : [draft EXCEPT !.name = n] \in Forms
  <2>1. {0, 60} \subseteq FormNames
    BY DEF FormNames
  <2> QED BY <1>2, <2>1 DEF Forms
<1>7. /\ \A r \in {"days_of_week", "interval"} : [draft EXCEPT !.rule = r] \in Forms
      /\ \A d \in SUBSET {0} : [draft EXCEPT !.days = d] \in Forms
  BY <1>2 DEF Forms
<1>8. \A n \in Intervals : [draft EXCEPT !.interval = n] \in Forms
  BY <1>1, <1>2 DEF Forms
<1>9. \A a \in Years : [draft EXCEPT !.anchor = a] \in Forms
  BY <1>1, <1>2 DEF Forms
<1> SUFFICES ASSUME NEW x \in ProgramEditor!Edits PROVE x \in Forms
  OBVIOUS
<1>10. \/ x \in {[draft EXCEPT !.name = n] : n \in {0, 60}}
       \/ x \in {[draft EXCEPT !.rule = r] : r \in {"days_of_week", "interval"}}
       \/ x \in {[draft EXCEPT !.days = d] : d \in SUBSET {0}}
       \/ x \in {[draft EXCEPT !.interval = n] : n \in Intervals}
       \/ x \in {[draft EXCEPT !.anchor = a] : a \in Years}
       \/ x \in {[draft EXCEPT !.times = t] : t \in ProgramEditor!EditedTimes}
       \/ x \in {[draft EXCEPT !.steps = s] : s \in ProgramEditor!EditedSteps}
  BY Zenon DEF ProgramEditor!Edits
<1>11. CASE \/ x \in {[draft EXCEPT !.name = n] : n \in {0, 60}}
            \/ x \in {[draft EXCEPT !.rule = r] : r \in {"days_of_week", "interval"}}
            \/ x \in {[draft EXCEPT !.days = d] : d \in SUBSET {0}}
  BY <1>6, <1>7, <1>11, Zenon
<1>12. CASE \/ x \in {[draft EXCEPT !.interval = n] : n \in Intervals}
            \/ x \in {[draft EXCEPT !.anchor = a] : a \in Years}
  BY <1>8, <1>9, <1>12, Zenon
<1>13. CASE \/ x \in {[draft EXCEPT !.times = t] : t \in ProgramEditor!EditedTimes}
            \/ x \in {[draft EXCEPT !.steps = s] : s \in ProgramEditor!EditedSteps}
  <2>1. \A t \in ProgramEditor!EditedTimes : [draft EXCEPT !.times = t] \in Forms
    BY <1>3, <1>5
  <2>2. \A s \in ProgramEditor!EditedSteps : [draft EXCEPT !.steps = s] \in Forms
    BY <1>4, <1>5
  <2> QED BY <1>13, <2>1, <2>2, Zenon
<1> QED BY <1>10, <1>11, <1>12, <1>13

\* What is sent is a form, and valid.
LEMMA InputChecked ==
  ASSUME FormTypes, ProgramEditor!Valid
  PROVE  LET filled == ProgramEditor!Input
         IN /\ filled \in Forms /\ filled \in Passing
            /\ \A i \in DOMAIN filled.steps : filled.steps[i].zone \in page.offered
PROOF
<1> DEFINE filled == ProgramEditor!Input
<1>1. /\ draft \in Forms /\ draft.rule \in {"days_of_week", "interval"} /\ draft.days \in SUBSET {0}
      /\ draft.interval \in Nat /\ draft.anchor \in Nat /\ draft.steps \in StepLists /\ draft.name \in FormNames
  BY DEF FormTypes, Forms
<1>2. draft.times \in Seq(Clock) /\ draft.times # <<>> /\ ProgramEditor!IsInjective(draft.times)
  <2>1. draft.times \in Seq(Clock \cup {ProgramEditor!NoTime}) /\ draft.times # <<>>
    BY DEF FormTypes, Forms, TimeLists
  <2>2. \A i \in DOMAIN draft.times : draft.times[i] # ProgramEditor!NoTime
    BY DEF ProgramEditor!Valid, ProgramEditor!ToSet
  <2> QED BY <2>1, <2>2 DEF ProgramEditor!Valid
<1> DEFINE s == ProgramEditor!Sorted(draft.times)
<1>3. s \in Seq(Clock) /\ s # <<>> /\ ProgramEditor!IsInjective(s)
  BY <1>2, TimesSorted
<1> HIDE DEF s
<1>4. /\ filled.name = draft.name /\ filled.rule = draft.rule /\ filled.times = s /\ filled.steps = draft.steps
      /\ filled.days = IF draft.rule = "days_of_week" THEN draft.days ELSE {}
      /\ filled.interval = IF draft.rule = "interval" THEN draft.interval ELSE 2
      /\ filled.anchor = IF draft.rule = "interval" THEN draft.anchor ELSE 0
      /\ filled.name = draft.name
  BY <1>1 DEF ProgramEditor!Input, ProgramEditor!NewForm, Forms, s
<1>5. filled \in Forms
  <2>1. s \in TimeLists
    BY <1>3 DEF TimeLists
  <2> QED BY <1>1, <2>1 DEF ProgramEditor!Input, ProgramEditor!NewForm, Forms, s
<1> HIDE DEF filled
<1>6. \A i \in DOMAIN filled.steps : filled.steps[i].zone \in page.offered /\ filled.steps[i].minutes \in 1..240
  <2>1. \A i \in DOMAIN draft.steps : draft.steps[i].zone \in page.offered /\ draft.steps[i].minutes >= 1 /\ draft.steps[i].minutes <= 240
    BY DEF ProgramEditor!Valid, ProgramEditor!ToSet, ProgramEditor!MinutesValid
  <2>2. \A i \in DOMAIN draft.steps : draft.steps[i].minutes \in Nat
    <3>1. \A i \in DOMAIN draft.steps : draft.steps[i] \in FormSteps
      BY <1>1 DEF StepLists
    <3> QED BY <3>1 DEF FormSteps
  <2> QED BY <1>4, <2>1, <2>2
<1>7. filled.rule = "interval" => filled.interval >= 1
  BY <1>1, <1>4 DEF ProgramEditor!Valid
<1>8. filled.rule = "days_of_week" => filled.days # {} /\ filled.days \subseteq 0..6
  BY <1>1, <1>4 DEF ProgramEditor!Valid
<1>9. filled.times # <<>> /\ (\A t \in ProgramEditor!ToSet(filled.times) : t \in 0..23) /\ ProgramEditor!IsInjective(filled.times)
  BY <1>3, <1>4 DEF ProgramEditor!ToSet, Clock
<1>10. filled.steps # <<>> /\ \A t \in ProgramEditor!ToSet(filled.steps) : t.minutes \in 1..240
  BY <1>4, <1>6 DEF ProgramEditor!Valid, ProgramEditor!ToSet
<1>11. filled.name \in 1..60
  BY <1>1, <1>4 DEF ProgramEditor!Valid, FormNames
<1>12. ProgramEditor!InputValid(filled) \/ (filled.rule = "interval" /\ ~ProgramEditor!DateValid(filled.anchor))
  BY <1>7, <1>8, <1>9, <1>10, <1>11 DEF ProgramEditor!InputValid
<1>13. filled \in Passing
  BY <1>5, <1>12 DEF Passing
<1> QED BY <1>5, <1>6, <1>13 DEF filled

\* The blank form, as new programs start.
LEMMA BlankForm == ProgramEditor!NewForm \in Forms
PROOF
<1>1. 0 \in FormNames /\ <<6>> \in TimeLists /\ <<ProgramEditor!Step(None, 15)>> \in StepLists
  BY DEF FormNames, TimeLists, Clock, ProgramEditor!Step, FormSteps, StepLists
<1> QED BY <1>1 DEF ProgramEditor!NewForm, Forms

\* The form and the route agree throughout.
LEMMA EditorInvariant == ASSUME ProgramEditor!ProgramEditorAssumption PROVE ProgramEditor!Spec => []EditorInd
PROOF
<1>1. ProgramEditor!Init => EditorInd
  <2> SUFFICES ASSUME ProgramEditor!Init PROVE EditorInd
    OBVIOUS
  <2>1. ProgramEditor!NewForm \in Forms
    BY BlankForm
  <2>2. ProgramEditor!Stored \in Forms
    <3>1. 60 \in FormNames /\ \A z \in Zones : <<ProgramEditor!Step(z, 240)>> \in StepLists
      BY DEF FormNames, ProgramEditor!Step, FormSteps, StepLists
    <3>2. (CHOOSE z \in Zones : TRUE) \in Zones
      BY DEF ProgramEditor!ProgramEditorAssumption
    <3> QED BY <2>1, <3>1, <3>2 DEF ProgramEditor!Stored, Forms
  <2> QED BY <2>1, <2>2 DEF ProgramEditor!Init, EditorInd, FormTypes, SentValid, StoredPrograms
<1>2. EditorInd /\ [ProgramEditor!Next]_(ProgramEditor!vars) => EditorInd'
  <2> SUFFICES ASSUME EditorInd, [ProgramEditor!Next]_(ProgramEditor!vars) PROVE EditorInd'
    OBVIOUS
  <2>0. ProgramEditor!NewForm \in Forms
    BY BlankForm
  <2> USE DEF EditorInd, FormTypes, SentValid
  <2>1. CASE UNCHANGED ProgramEditor!vars
    BY <2>1 DEF ProgramEditor!vars
  <2>2. CASE ProgramEditor!New \/ ProgramEditor!ReadRow
    <3> DEFINE P == [editing : BOOLEAN, row : StoredPrograms, offered : SUBSET Zones, switched : BOOLEAN]
    <3>1. [page.row EXCEPT !.enabled = TRUE] \in StoredPrograms
      BY DEF StoredPrograms
    <3>2. [page EXCEPT !.editing = FALSE, !.row.enabled = TRUE, !.switched = FALSE] \in P
      BY <3>1
    <3>3. [page EXCEPT !.editing = TRUE, !.row = program, !.switched = FALSE] \in P
      OBVIOUS
    <3>4. page' \in P /\ draft' \in {draft, ProgramEditor!NewForm} /\ pc' # "sent" /\ UNCHANGED <<program, enabled, request>>
      BY <2>2, <3>2, <3>3 DEF ProgramEditor!New, ProgramEditor!ReadRow
    <3> QED BY <2>0, <3>4
  <2>3. CASE ProgramEditor!ReadSteps
    <3>1. \A steps \in StepLists : [page.row.form EXCEPT !.steps = steps] \in Forms
      BY DEF StoredPrograms, Forms
    <3>2. (IF program.exists THEN program.form.steps ELSE <<>>) \in StepLists
      BY DEF StoredPrograms, Forms, StepLists
    <3>3. PICK steps \in StepLists : draft' = [page.row.form EXCEPT !.steps = steps]
      BY <2>3, <3>2 DEF ProgramEditor!ReadSteps
    <3>4. draft' \in Forms /\ pc' = "steps" /\ UNCHANGED <<program, enabled, page, request>>
      BY <2>3, <3>1, <3>3 DEF ProgramEditor!ReadSteps
    <3> QED BY <3>4
  <2>4. CASE ProgramEditor!ReadZones
    BY <2>4 DEF ProgramEditor!ReadZones
  <2>5. CASE ProgramEditor!Edit
    <3>1. draft' \in Forms /\ pc' = "open" /\ UNCHANGED <<program, enabled, page, request>>
      BY <2>5, DraftsEdited DEF ProgramEditor!Edit
    <3> QED BY <3>1
  <2>6. CASE ProgramEditor!Save
    <3> DEFINE filled == ProgramEditor!Input
    <3>1. /\ filled \in Forms /\ filled \in Passing
          /\ \A i \in DOMAIN filled.steps : filled.steps[i].zone \in page.offered
      BY <2>6, InputChecked DEF ProgramEditor!Save
    <3>2. request' = filled /\ UNCHANGED <<program, enabled, page, draft>>
      BY <2>6 DEF ProgramEditor!Save
    <3> HIDE DEF filled
    <3> QED BY <3>1, <3>2
  <2>7. CASE ProgramEditor!Check \/ ProgramEditor!Refuse
    BY <2>7 DEF ProgramEditor!Check, ProgramEditor!Refuse
  <2>8. CASE ProgramEditor!Commit
    BY <2>8 DEF ProgramEditor!Commit, ProgramEditor!Switch, StoredPrograms
  <2>9. CASE ProgramEditor!OthersWrite
    <3>1. PICK p, e : ProgramEditor!Others(p, e) /\ p \in StoredPrograms /\ e \subseteq Zones
      <4>1. [program EXCEPT !.enabled = ~@] \in StoredPrograms /\ [program EXCEPT !.exists = FALSE] \in StoredPrograms
        BY DEF StoredPrograms
      <4>2. \A z \in enabled : [program EXCEPT !.form.steps = <<ProgramEditor!Step(z, 1)>>] \in StoredPrograms
        <5> TAKE z \in enabled
        <5>1. <<ProgramEditor!Step(z, 1)>> \in StepLists
          BY DEF ProgramEditor!Step, FormSteps, StepLists
        <5>2. [program.form EXCEPT !.steps = <<ProgramEditor!Step(z, 1)>>] \in Forms
          BY <5>1 DEF StoredPrograms, Forms
        <5> QED BY <5>2 DEF StoredPrograms
      <4>3. CASE ProgramEditor!Others([program EXCEPT !.enabled = ~@], enabled) \/ ProgramEditor!Others([program EXCEPT !.exists = FALSE], enabled)
        BY <4>1, <4>3
      <4>4. CASE \E z \in enabled : ProgramEditor!Others([program EXCEPT !.form.steps = <<ProgramEditor!Step(z, 1)>>], enabled)
        BY <4>2, <4>4
      <4>5. CASE \E z \in Zones : ProgramEditor!Others(program, IF z \in enabled THEN enabled \ {z} ELSE enabled \cup {z})
        <5>1. PICK z \in Zones : ProgramEditor!Others(program, IF z \in enabled THEN enabled \ {z} ELSE enabled \cup {z})
          BY <4>5
        <5>2. (IF z \in enabled THEN enabled \ {z} ELSE enabled \cup {z}) \subseteq Zones
          OBVIOUS
        <5> QED BY <5>1, <5>2
      <4> QED BY <2>9, <4>3, <4>4, <4>5, Zenon DEF ProgramEditor!OthersWrite
    <3> QED BY <3>1 DEF ProgramEditor!Others
  <2> QED BY <2>1, <2>2, <2>3, <2>4, <2>5, <2>6, <2>7, <2>8, <2>9 DEF ProgramEditor!Next
<1> QED BY <1>1, <1>2, PTL DEF ProgramEditor!Spec

\* What passed the form and its zones passes the route.
LEMMA ValidPasses == ASSUME ProgramEditor!ProgramEditorAssumption PROVE ProgramEditor!Spec => []ProgramEditor!ValidIsAccepted
PROOF
<1>1. EditorInd => ProgramEditor!ValidIsAccepted
  BY DEF EditorInd, SentValid, Passing, ProgramEditor!ValidIsAccepted, ProgramEditor!ZonesValid, ProgramEditor!ToSet
<1> QED BY <1>1, EditorInvariant, PTL

-----------------------------------------------------------------------------
(* The history.                                                            *)

Recs == [program : Programs, id : Nat]
LoadPcs == {"none", "sent", "rows", "answered"}
LoadRecs ==
  [pc : LoadPcs, filter : Filters \cup {All}, page : Nat \ {0}, rows : SUBSET Recs, known : Nat, total : Nat \cup {-1}]
Walks == [last : Nat, old : Nat, seen : SUBSET Recs]
HistoryTypes ==
  /\ runs \in Seq(Recs) /\ filter \in Filters \cup {All} /\ page \in Nat \ {0} /\ data \in LoadRecs
  /\ loads \in [Loads -> LoadRecs] /\ loading \in BOOLEAN /\ failed \in BOOLEAN /\ crossed \in BOOLEAN /\ walk \in Walks
\* The places of the runs that a filter lets through, and how many of them come before one.
Fits(rr, f) == {i \in DOMAIN rr : f \in {All, rr[i].program}}
Ahead(S, i) == {j \in S : j < i}
RankIn(rr, f, i) == Cardinality(Ahead(Fits(rr, f), i))
\* The first row of a page.
FirstRow(p) == (p - 1) * PageSize
\* Numbers are given once.
NumberedOnce(rr) ==
  /\ \A i \in DOMAIN rr : rr[i].id <= Len(rr)
  /\ \A i, j \in DOMAIN rr : rr[i].id = rr[j].id => i = j
\* A set of rows is of runs recorded by now; of the runs up to a number it has those before
\* a place, and those before any in it.
Covers(rr, f, seen, old, end) ==
  /\ old <= Len(rr) /\ \A r \in seen : r.id <= Len(rr)
  /\ \A i \in Fits(rr, f) : RankIn(rr, f, i) < end /\ rr[i].id <= old => rr[i] \in seen
  /\ \A i, j \in Fits(rr, f) : i < j /\ rr[j] \in seen /\ rr[i].id <= old => rr[i] \in seen
\* Nothing is counted that is not there.
Counted ==
  /\ data.total <= Cardinality(Fits(runs, data.filter))
  /\ \A l \in Loads : loads[l].total <= Cardinality(Fits(runs, loads[l].filter))
\* No page is asked for beyond the last.
InRange == page = 1 \/ Cardinality(Fits(runs, filter)) > FirstRow(page)
\* The one load under way is for what the page shows.
UnderWay(k) == k.pc # "none"
OneLoad ==
  /\ \A l, m \in Loads : UnderWay(loads[l]) /\ UnderWay(loads[m]) => l = m
  /\ \A l \in Loads : UnderWay(loads[l]) => loading /\ loads[l].filter = filter /\ loads[l].page = page
  /\ ~loading => data.filter = filter
\* It has rows unless it is for the first page.
RowsRead(k) == k.pc \in {"rows", "answered"}
SomeRows ==
  /\ \A l \in Loads : /\ RowsRead(loads[l]) => page = 1 \/ loads[l].rows # {}
                      /\ loads[l].pc = "answered" => loads[l].total # -1
  /\ ~loading /\ ~failed => data.total # -1 /\ (data.page = 1 \/ data.rows # {})
\* The pages read one after the other cover the runs before the next, and so they do with
\* the rows of the load under way.
Walked ==
  /\ walk.last > 0 => data.filter = filter /\ Covers(runs, filter, walk.seen, walk.old, FirstRow(walk.last + 1))
  /\ \A l \in Loads : RowsRead(loads[l]) =>
       /\ page = 1 => Covers(runs, filter, loads[l].rows, loads[l].known, FirstRow(2))
       /\ page # 1 /\ walk.last = page - 1 =>
            Covers(runs, filter, walk.seen \cup loads[l].rows, walk.old, FirstRow(page + 1))
HistoryInd ==
  /\ HistoryTypes /\ NumberedOnce(runs) /\ Counted
  /\ ~crossed => OneLoad /\ InRange /\ SomeRows /\ Walked

LEMMA HistoryCounts == ASSUME NEW S PROVE History!Cardinality(S) = Cardinality(S)
PROOF
<1>1. History!IsFiniteSet(S) <=> IsFiniteSet(S)
  BY DEF History!IsFiniteSet, IsFiniteSet
<1> QED BY DEF History!Cardinality, Cardinality

\* The history's own definitions, for the runs of any state.
LEMMA HistoryReads ==
  ASSUME NEW f, NEW p
  PROVE  /\ History!Matching(f) = Fits(runs, f) /\ History!Cardinality(History!Matching(f)) = Cardinality(Fits(runs, f))
         /\ History!Offset(p) = FirstRow(p)
         /\ History!Rows(f, p) =
              {runs[i] : i \in {k \in Fits(runs, f) : RankIn(runs, f, k) \in FirstRow(p)..(FirstRow(p) + PageSize - 1)}}
PROOF
<1>1. History!Matching(f) = Fits(runs, f)
  BY DEF History!Matching, Fits
<1>2. History!Offset(p) = FirstRow(p)
  BY DEF History!Offset, FirstRow
<1>3. ASSUME NEW k PROVE History!Rank(f, k) = RankIn(runs, f, k)
  <2>1. {j \in History!Matching(f) : History!Before(j, k)} = Ahead(Fits(runs, f), k)
    BY <1>1 DEF Ahead, History!Before
  <2> QED BY <2>1, HistoryCounts DEF History!Rank, RankIn
<1> QED BY <1>1, <1>2, <1>3, HistoryCounts DEF History!Rows

\* The places a filter lets through are finitely many.
LEMMA FitsFinite ==
  ASSUME NEW rr \in Seq(Recs), NEW f
  PROVE  /\ Fits(rr, f) \in SUBSET Nat /\ IsFiniteSet(Fits(rr, f)) /\ Cardinality(Fits(rr, f)) \in Nat
         /\ \A i : IsFiniteSet(Ahead(Fits(rr, f), i)) /\ RankIn(rr, f, i) \in Nat
PROOF
<1>1. Fits(rr, f) \in SUBSET (1..Len(rr)) /\ Len(rr) \in Nat
  BY DEF Fits
<1>2. IsFiniteSet(1..Len(rr))
  BY <1>1, FS_Interval
<1>3. IsFiniteSet(Fits(rr, f))
  BY <1>1, <1>2, FS_Subset
<1>4. ASSUME NEW i PROVE IsFiniteSet(Ahead(Fits(rr, f), i)) /\ RankIn(rr, f, i) \in Nat
  <2>1. Ahead(Fits(rr, f), i) \in SUBSET Fits(rr, f)
    BY DEF Ahead
  <2>2. IsFiniteSet(Ahead(Fits(rr, f), i))
    BY <1>3, <2>1, FS_Subset
  <2> QED BY <2>2, FS_CardinalityType DEF RankIn
<1>5. Cardinality(Fits(rr, f)) \in Nat
  BY <1>3, FS_CardinalityType
<1>6. Fits(rr, f) \in SUBSET Nat
  BY <1>1
<1> QED BY <1>3, <1>4, <1>5, <1>6

\* Ranks grow with the places.
LEMMA RankGrows ==
  ASSUME NEW rr \in Seq(Recs), NEW f, NEW i \in Fits(rr, f), NEW j \in Fits(rr, f), i < j
  PROVE  RankIn(rr, f, i) < RankIn(rr, f, j)
PROOF
<1> DEFINE S == Fits(rr, f)
<1>1. S \in SUBSET Nat
  BY FitsFinite
<1>2. Ahead(S, i) \in SUBSET Ahead(S, j) /\ i \in Ahead(S, j) /\ i \notin Ahead(S, i)
  BY <1>1 DEF Ahead
<1>3. IsFiniteSet(Ahead(S, j)) /\ Cardinality(Ahead(S, i)) \in Nat /\ Cardinality(Ahead(S, j)) \in Nat
  BY FitsFinite DEF RankIn
<1>4. Cardinality(Ahead(S, i)) <= Cardinality(Ahead(S, j)) /\ Cardinality(Ahead(S, i)) # Cardinality(Ahead(S, j))
  BY <1>2, <1>3, FS_Subset
<1> QED BY <1>3, <1>4 DEF RankIn

\* Every rank below their number is one of theirs.
LEMMA RankReached ==
  ASSUME NEW rr \in Seq(Recs), NEW f, NEW n \in Nat, n < Cardinality(Fits(rr, f))
  PROVE  \E i \in Fits(rr, f) : RankIn(rr, f, i) = n
PROOF
<1> DEFINE S == Fits(rr, f)  c == Cardinality(S)
<1>1. S \in SUBSET Nat /\ IsFiniteSet(S) /\ c \in Nat /\ n < c
  BY FitsFinite
<1>2. PICK g : Increasing(g, c, S)
  BY <1>1, InOrder
<1> HIDE DEF S, c
<1>3. /\ g \in [1..c -> S] /\ n + 1 \in 1..c /\ \A x \in S : \E a \in 1..c : g[a] = x
      /\ \A a, b \in 1..c : a < b => g[a] < g[b]
  BY <1>1, <1>2 DEF Increasing
<1>4. \A a \in 1..c : g[a] \in Nat
  BY <1>1, <1>3
<1> DEFINE i == g[n + 1]  h == [a \in 1..n |-> g[a]]  A == Ahead(S, i)
<1>5. i \in S
  BY <1>3
<1>6. \A a \in 1..n : a \in 1..c /\ a < n + 1 /\ h[a] = g[a] /\ g[a] \in A
  <2>1. \A a \in 1..n : a \in 1..c /\ a < n + 1 /\ h[a] = g[a]
    BY <1>1
  <2> QED BY <1>3, <2>1 DEF Ahead
<1>7. \A x \in A : \E a \in 1..n : h[a] = x
  <2> TAKE x \in A
  <2>1. x \in S /\ x < i
    BY DEF Ahead
  <2>2. PICK a \in 1..c : g[a] = x
    BY <1>3, <2>1
  <2>3. ~(n + 1 < a) /\ a # n + 1
    BY <1>3, <1>4, <2>1, <2>2
  <2>4. a \in 1..n
    BY <1>1, <2>2, <2>3
  <2> QED BY <1>6, <2>2, <2>4
<1>8. \A a, b \in 1..n : h[a] = h[b] => a = b
  <2> SUFFICES ASSUME NEW a \in 1..n, NEW b \in 1..n, a < b, h[a] = h[b] PROVE FALSE
    BY <1>1
  <2>1. g[a] < g[b] /\ g[a] \in Nat /\ g[a] = g[b]
    BY <1>3, <1>4, <1>6
  <2> QED BY <2>1
<1>9. h \in Bijection(1..n, A)
  <2>1. h \in [1..n -> A]
    BY <1>6
  <2> QED BY <1>7, <1>8, <2>1 DEF Bijection, Injection, Surjection, IsInjective
<1>10. IsFiniteSet(1..n) /\ Cardinality(1..n) = n
  BY <1>1, FS_Interval
<1>11. Cardinality(A) = n
  <2>1. ExistsBijection(1..n, A)
    BY <1>9 DEF ExistsBijection
  <2> QED BY <1>10, <2>1, FS_Bijection
<1> QED BY <1>5, <1>11 DEF RankIn, S

\* Where a run is after another has been recorded before the place q.
Moved(i, q) == IF i < q THEN i ELSE i + 1
Inserted(rr, rp, q) ==
  /\ rp \in Seq(Recs) /\ q \in 1..(Len(rr) + 1) /\ Len(rp) = Len(rr) + 1 /\ rp[q].id = Len(rr) + 1
  /\ \A i \in 1..Len(rr) : rp[Moved(i, q)] = rr[i]
LEMMA RecordInserts ==
  ASSUME HistoryTypes, History!Record PROVE \E q \in 1..(Len(runs) + 1) : Inserted(runs, runs', q)
PROOF
<1>1. PICK p \in Programs, q \in 1..(Len(runs) + 1) : runs' = History!InsertAt(runs, q, [program |-> p, id |-> Len(runs) + 1])
  BY DEF History!Record
<1> DEFINE k == [program |-> p, id |-> Len(runs) + 1]  a == SubSeq(runs, 1, q - 1)  b == SubSeq(runs, q, Len(runs))
<1>2. runs \in Seq(Recs) /\ Len(runs) \in Nat /\ k \in Recs /\ k.id = Len(runs) + 1
  BY DEF HistoryTypes, Recs
<1>3. runs' = a \o <<k>> \o b
  BY <1>1 DEF History!InsertAt
<1> HIDE DEF k
<1>4. a \in Seq(Recs) /\ Len(a) = q - 1 /\ \A i \in 1..(q - 1) : a[i] = runs[i]
  BY <1>2
<1>5. b \in Seq(Recs) /\ Len(b) = Len(runs) - q + 1 /\ \A i \in 1..(Len(runs) - q + 1) : b[i] = runs[q + i - 1]
  BY <1>2
<1> HIDE DEF a, b
<1> DEFINE c == a \o <<k>>
<1>6. c \in Seq(Recs) /\ Len(c) = q /\ c[q] = k /\ \A i \in 1..(q - 1) : c[i] = runs[i]
  BY <1>2, <1>4
<1>7. runs' = c \o b
  BY <1>3
<1> HIDE DEF c
<1>8. runs' \in Seq(Recs) /\ Len(runs') = Len(runs) + 1 /\ runs'[q] = k
  <2>1. runs' \in Seq(Recs)
    BY <1>5, <1>6, <1>7
  <2>2. Len(runs') = Len(c) + Len(b)
    <3>1. c \in Seq(Recs) /\ b \in Seq(Recs)
      BY <1>5, <1>6
    <3>2. Len(c \o b) = Len(c) + Len(b)
      BY <3>1
    <3> QED BY <1>7, <3>2
  <2>3. Len(runs') = Len(runs) + 1
    BY <1>2, <1>5, <1>6, <2>2
  <2>4. runs'[q] = c[q]
    BY <1>2, <1>5, <1>6, <1>7
  <2> QED BY <1>6, <2>1, <2>3, <2>4
<1>9. ASSUME NEW i \in 1..Len(runs) PROVE runs'[Moved(i, q)] = runs[i]
  <2>1. CASE i < q
    BY <1>2, <1>5, <1>6, <1>7, <2>1 DEF Moved
  <2>2. CASE ~(i < q)
    <3>1. i - q + 1 \in 1..(Len(runs) - q + 1) /\ i + 1 = q + (i - q + 1) /\ i + 1 > q /\ i + 1 <= Len(c) + Len(b)
      BY <1>2, <1>5, <1>6, <2>2
    <3>2. runs'[i + 1] = b[i - q + 1]
      BY <1>2, <1>5, <1>6, <1>7, <3>1
    <3>3. b[i - q + 1] = runs[q + (i - q + 1) - 1]
      BY <1>5, <3>1
    <3> QED BY <1>2, <2>2, <3>2, <3>3 DEF Moved
  <2> QED BY <2>1, <2>2
<1>10. runs'[q].id = Len(runs) + 1
  BY <1>2, <1>8
<1> QED BY <1>8, <1>9, <1>10 DEF Inserted

\* A set is not larger than one that has its elements moved.
LEMMA MovedCount ==
  ASSUME NEW S \in SUBSET Nat, NEW T, IsFiniteSet(T), NEW q \in Nat, \A i \in S : Moved(i, q) \in T
  PROVE  Cardinality(S) <= Cardinality(T)
PROOF
<1> DEFINE h == [i \in S |-> Moved(i, q)]
<1>1. h \in [S -> T]
  OBVIOUS
<1>2. \A i, j \in S : h[i] = h[j] => i = j
  BY DEF Moved
<1>3. h \in Injection(S, T)
  BY <1>1, <1>2 DEF Injection, IsInjective
<1> QED BY <1>3, FS_Injection

\* Recording a run only puts more before the others.
LEMMA InsertedFits ==
  ASSUME NEW rr \in Seq(Recs), NEW rp, NEW q, Inserted(rr, rp, q), NEW f
  PROVE  /\ Cardinality(Fits(rr, f)) <= Cardinality(Fits(rp, f))
         /\ \A i \in Fits(rr, f) : Moved(i, q) \in Fits(rp, f) /\ RankIn(rr, f, i) <= RankIn(rp, f, Moved(i, q))
         /\ \A j \in Fits(rp, f) : j = q \/ \E i \in Fits(rr, f) : j = Moved(i, q)
PROOF
<1>1. /\ rp \in Seq(Recs) /\ q \in Nat /\ 1 <= q /\ q <= Len(rr) + 1 /\ Len(rr) \in Nat /\ Len(rp) = Len(rr) + 1
      /\ \A i \in 1..Len(rr) : rp[Moved(i, q)] = rr[i]
      /\ DOMAIN rr = 1..Len(rr) /\ DOMAIN rp = 1..(Len(rr) + 1)
  BY DEF Inserted
<1>2. \A i \in 1..Len(rr) : Moved(i, q) \in 1..(Len(rr) + 1)
  BY <1>1 DEF Moved
<1>3. \A i \in 1..Len(rr) : i \in Fits(rr, f) <=> Moved(i, q) \in Fits(rp, f)
  BY <1>1, <1>2 DEF Fits
<1>4. Fits(rr, f) \subseteq 1..Len(rr) /\ Fits(rr, f) \in SUBSET Nat /\ Fits(rp, f) \subseteq 1..(Len(rr) + 1)
  BY <1>1 DEF Fits
<1>5. IsFiniteSet(Fits(rp, f)) /\ \A i : IsFiniteSet(Ahead(Fits(rp, f), i))
  BY <1>1, FitsFinite
<1>6. Cardinality(Fits(rr, f)) <= Cardinality(Fits(rp, f))
  BY <1>1, <1>3, <1>4, <1>5, MovedCount
<1>7. ASSUME NEW i \in Fits(rr, f) PROVE RankIn(rr, f, i) <= RankIn(rp, f, Moved(i, q))
  <2>1. \A j \in Ahead(Fits(rr, f), i) : Moved(j, q) \in Ahead(Fits(rp, f), Moved(i, q))
    BY <1>1, <1>3, <1>4 DEF Ahead, Moved
  <2>2. Ahead(Fits(rr, f), i) \in SUBSET Nat
    BY <1>4 DEF Ahead
  <2> QED BY <1>1, <1>5, <2>1, <2>2, MovedCount DEF RankIn
<1>8. ASSUME NEW j \in Fits(rp, f), j # q PROVE \E i \in Fits(rr, f) : j = Moved(i, q)
  <2>1. j \in 1..(Len(rr) + 1)
    BY <1>4
  <2> DEFINE i == IF j < q THEN j ELSE j - 1
  <2>2. i \in 1..Len(rr) /\ j = Moved(i, q)
    BY <1>1, <1>8, <2>1 DEF Moved
  <2> QED BY <1>3, <2>2
<1> QED BY <1>3, <1>4, <1>6, <1>7, <1>8

\* What is covered stays so.
LEMMA CoversKept ==
  ASSUME NEW rr \in Seq(Recs), NEW rp, NEW q, Inserted(rr, rp, q), NEW f, NEW seen \in SUBSET Recs, NEW old \in Nat,
         NEW end \in Nat, Covers(rr, f, seen, old, end)
  PROVE  Covers(rp, f, seen, old, end)
PROOF
<1>1. /\ rp \in Seq(Recs) /\ q \in Nat /\ Len(rr) \in Nat /\ Len(rp) = Len(rr) + 1 /\ rp[q].id = Len(rr) + 1
      /\ \A i \in 1..Len(rr) : rp[Moved(i, q)] = rr[i]
      /\ Fits(rr, f) \subseteq 1..Len(rr)
  BY DEF Inserted, Fits
<1>2. old <= Len(rr) /\ \A r \in seen : r.id <= Len(rr) /\ r.id \in Nat
  BY DEF Covers, Recs
<1>3. old <= Len(rp) /\ \A r \in seen : r.id <= Len(rp)
  BY <1>1, <1>2
<1>4. ~(rp[q].id <= old) /\ rp[q] \notin seen
  BY <1>1, <1>2
<1>5. ASSUME NEW j \in Fits(rp, f), RankIn(rp, f, j) < end, rp[j].id <= old PROVE rp[j] \in seen
  <2>1. PICK i \in Fits(rr, f) : j = Moved(i, q)
    BY <1>4, <1>5, InsertedFits
  <2>2. RankIn(rr, f, i) <= RankIn(rp, f, j) /\ RankIn(rr, f, i) \in Nat /\ RankIn(rp, f, j) \in Nat
    BY <1>1, <2>1, InsertedFits, FitsFinite
  <2>3. RankIn(rr, f, i) < end /\ rp[j] = rr[i]
    BY <1>1, <1>5, <2>1, <2>2
  <2> QED BY <1>5, <2>3 DEF Covers
<1>6. ASSUME NEW i \in Fits(rp, f), NEW j \in Fits(rp, f), i < j, rp[j] \in seen, rp[i].id <= old PROVE rp[i] \in seen
  <2>1. PICK x \in Fits(rr, f) : i = Moved(x, q)
    BY <1>4, <1>6, InsertedFits
  <2>2. PICK y \in Fits(rr, f) : j = Moved(y, q)
    BY <1>4, <1>6, InsertedFits
  <2>3. x < y
    BY <1>1, <1>6, <2>1, <2>2 DEF Moved
  <2>4. rp[i] = rr[x] /\ rp[j] = rr[y]
    BY <1>1, <2>1, <2>2
  <2> QED BY <1>6, <2>3, <2>4 DEF Covers
<1> QED BY <1>3, <1>5, <1>6 DEF Covers

\* A recorded run takes the next number.
LEMMA InsertedNumbered ==
  ASSUME NEW rr \in Seq(Recs), NEW rp, NEW q, Inserted(rr, rp, q), NumberedOnce(rr) PROVE NumberedOnce(rp)
PROOF
<1>1. /\ q \in Nat /\ 1 <= q /\ q <= Len(rr) + 1 /\ Len(rr) \in Nat /\ Len(rp) = Len(rr) + 1 /\ rp[q].id = Len(rr) + 1
      /\ \A i \in 1..Len(rr) : rp[Moved(i, q)] = rr[i]
      /\ DOMAIN rr = 1..Len(rr) /\ DOMAIN rp = 1..(Len(rr) + 1)
  BY DEF Inserted
<1>2. \A i \in 1..Len(rr) : rr[i].id <= Len(rr) /\ rr[i].id \in Nat
  <2>1. \A i \in 1..Len(rr) : rr[i] \in Recs
    BY <1>1
  <2> QED BY <1>1, <2>1 DEF NumberedOnce, Recs
<1>3. ASSUME NEW j \in DOMAIN rp, j # q PROVE \E i \in 1..Len(rr) : j = Moved(i, q) /\ rp[j] = rr[i]
  <2> DEFINE i == IF j < q THEN j ELSE j - 1
  <2>1. i \in 1..Len(rr) /\ j = Moved(i, q)
    BY <1>1, <1>3 DEF Moved
  <2> QED BY <1>1, <2>1
<1>4. ASSUME NEW j \in DOMAIN rp PROVE rp[j].id <= Len(rp)
  BY <1>1, <1>2, <1>3
<1>5. ASSUME NEW i \in DOMAIN rp, NEW j \in DOMAIN rp, rp[i].id = rp[j].id PROVE i = j
  <2>1. CASE i = q \/ j = q
    BY <1>1, <1>2, <1>3, <1>5, <2>1
  <2>2. CASE i # q /\ j # q
    <3>1. PICK x \in 1..Len(rr) : i = Moved(x, q) /\ rp[i] = rr[x]
      BY <1>3, <2>2
    <3>2. PICK y \in 1..Len(rr) : j = Moved(y, q) /\ rp[j] = rr[y]
      BY <1>3, <2>2
    <3> QED BY <1>1, <1>5, <3>1, <3>2 DEF NumberedOnce
  <2> QED BY <2>1, <2>2
<1> QED BY <1>4, <1>5 DEF NumberedOnce

\* A page of rows covers its ranks, from the first page or with the ones before it.
LEMMA PageCovers ==
  ASSUME History!HistoryAssumption, HistoryTypes, NumberedOnce(runs), NEW f, NEW p \in Nat \ {0}
  PROVE  /\ p = 1 => Covers(runs, f, History!Rows(f, p), Len(runs), FirstRow(2))
         /\ \A seen \in SUBSET Recs, old \in Nat :
              Covers(runs, f, seen, old, FirstRow(p)) => Covers(runs, f, seen \cup History!Rows(f, p), old, FirstRow(p + 1))
PROOF
<1> DEFINE first == FirstRow(p)  next == FirstRow(p + 1)  R == History!Rows(f, p)  S == Fits(runs, f)
<1>1. /\ runs \in Seq(Recs) /\ PageSize \in Nat /\ first \in Nat /\ next = first + PageSize /\ next \in Nat
      /\ p = 1 => first = 0 /\ next = FirstRow(2)
  BY DEF HistoryTypes, FirstRow, History!HistoryAssumption
<1> HIDE DEF first, next
<1>2. R = {runs[i] : i \in {k \in S : RankIn(runs, f, k) \in first..(first + PageSize - 1)}}
  BY HistoryReads DEF first
<1>3. /\ \A i \in S : i \in DOMAIN runs /\ RankIn(runs, f, i) \in Nat /\ i \in Nat
      /\ \A i \in DOMAIN runs : runs[i] \in Recs /\ runs[i].id \in Nat
  <2>1. \A i \in DOMAIN runs : runs[i] \in Recs
    BY <1>1
  <2>2. \A i \in S : i \in DOMAIN runs /\ RankIn(runs, f, i) \in Nat /\ i \in Nat
    BY <1>1, FitsFinite DEF Fits
  <2> QED BY <2>1, <2>2 DEF Recs
<1>4. \A r \in R : \E k \in S : r = runs[k] /\ first <= RankIn(runs, f, k) /\ RankIn(runs, f, k) < next
  <2>1. \A k \in S : RankIn(runs, f, k) \in first..(first + PageSize - 1) =>
          first <= RankIn(runs, f, k) /\ RankIn(runs, f, k) < next
    BY <1>1, <1>3
  <2> QED BY <1>2, <2>1
<1>5. \A i \in S : first <= RankIn(runs, f, i) /\ RankIn(runs, f, i) < next => runs[i] \in R
  <2>1. \A k \in S : first <= RankIn(runs, f, k) /\ RankIn(runs, f, k) < next =>
          RankIn(runs, f, k) \in first..(first + PageSize - 1)
    BY <1>1, <1>3
  <2> QED BY <1>2, <2>1
<1> HIDE DEF R
<1>6. ASSUME NEW i \in S, NEW j \in S, i < j, runs[j] \in R PROVE RankIn(runs, f, i) < next
  <2>1. PICK k \in S : runs[j] = runs[k] /\ RankIn(runs, f, k) < next
    BY <1>4, <1>6
  <2>2. j = k
    BY <1>3, <2>1 DEF NumberedOnce
  <2>3. RankIn(runs, f, i) < RankIn(runs, f, j)
    BY <1>1, <1>6, RankGrows
  <2> QED BY <1>1, <1>3, <2>1, <2>2, <2>3
<1>7. \A r \in R : r.id <= Len(runs) /\ r \in Recs
  BY <1>3, <1>4 DEF NumberedOnce
<1>8. ASSUME p = 1 PROVE Covers(runs, f, R, Len(runs), FirstRow(2))
  <2>1. \A i \in S : RankIn(runs, f, i) < next => runs[i] \in R
    BY <1>1, <1>3, <1>5, <1>8
  <2>2. Len(runs) <= Len(runs)
    BY <1>1
  <2>3. \A i, j \in S : i < j /\ runs[j] \in R => runs[i] \in R
    BY <1>6, <2>1
  <2> QED BY <1>1, <1>7, <1>8, <2>1, <2>2, <2>3 DEF Covers
<1>9. ASSUME NEW seen \in SUBSET Recs, NEW old \in Nat, Covers(runs, f, seen, old, first)
      PROVE  Covers(runs, f, seen \cup R, old, next)
  <2>1. \A i \in S : RankIn(runs, f, i) < next /\ runs[i].id <= old => runs[i] \in seen \cup R
    <3> SUFFICES ASSUME NEW i \in S, RankIn(runs, f, i) < next, runs[i].id <= old PROVE runs[i] \in seen \cup R
      OBVIOUS
    <3>1. CASE RankIn(runs, f, i) < first
      BY <1>9, <3>1 DEF Covers
    <3>2. CASE first <= RankIn(runs, f, i)
      BY <1>5, <3>2
    <3> QED BY <1>1, <1>3, <3>1, <3>2
  <2>2. \A i, j \in S : i < j /\ runs[j] \in seen \cup R /\ runs[i].id <= old => runs[i] \in seen \cup R
    <3> SUFFICES ASSUME NEW i \in S, NEW j \in S, i < j, runs[j] \in seen \cup R, runs[i].id <= old
                 PROVE  runs[i] \in seen \cup R
      OBVIOUS
    <3>1. CASE runs[j] \in seen
      BY <1>9, <3>1 DEF Covers
    <3>2. CASE runs[j] \in R
      BY <1>6, <2>1, <3>2
    <3> QED BY <3>1, <3>2
  <2>3. old <= Len(runs) /\ \A r \in seen \cup R : r.id <= Len(runs)
    BY <1>7, <1>9 DEF Covers
  <2> QED BY <2>1, <2>2, <2>3 DEF Covers
<1> QED BY <1>1, <1>8, <1>9 DEF first, next, R

\* A page within the range has rows.
LEMMA PageHasRows ==
  ASSUME History!HistoryAssumption, HistoryTypes, NEW f, NEW p \in Nat \ {0}, Cardinality(Fits(runs, f)) > FirstRow(p)
  PROVE  History!Rows(f, p) # {}
PROOF
<1> DEFINE first == FirstRow(p)
<1>1. runs \in Seq(Recs) /\ first \in Nat /\ PageSize \in Nat \ {0}
  BY DEF HistoryTypes, FirstRow, History!HistoryAssumption
<1> HIDE DEF first
<1>2. first < Cardinality(Fits(runs, f))
  BY <1>1, FitsFinite DEF first
<1>3. PICK i \in Fits(runs, f) : RankIn(runs, f, i) = first
  BY <1>1, <1>2, RankReached
<1>4. RankIn(runs, f, i) \in first..(first + PageSize - 1)
  BY <1>1, <1>3
<1> QED BY <1>4, HistoryReads DEF first

\* The pages follow each other.
LEMMA FirstRows ==
  ASSUME History!HistoryAssumption, NEW p \in Nat \ {0}
  PROVE  FirstRow(p) \in Nat /\ FirstRow(p + 1) = FirstRow(p) + PageSize /\ PageSize \in Nat \ {0} /\ FirstRow(1) = 0
PROOF
<1>1. PageSize \in Nat \ {0}
  BY DEF History!HistoryAssumption
<1>2. FirstRow(p) \in Nat
  BY <1>1 DEF FirstRow
<1> QED BY <1>1, <1>2 DEF FirstRow

\* What the steps of the page use of the types.
LEMMA HistoryTyped ==
  ASSUME HistoryTypes
  PROVE  /\ runs \in Seq(Recs) /\ page \in Nat \ {0} /\ walk.last \in Nat /\ walk.old \in Nat /\ walk.seen \in SUBSET Recs
         /\ data.total \in Nat \cup {-1} /\ data.page \in Nat \ {0}
         /\ \A l \in Loads : /\ loads[l] \in LoadRecs /\ loads[l].rows \in SUBSET Recs /\ loads[l].known \in Nat
                              /\ loads[l].total \in Nat \cup {-1} /\ loads[l].pc \in LoadPcs
PROOF
<1>1. \A k \in LoadRecs : /\ k.rows \in SUBSET Recs /\ k.known \in Nat /\ k.total \in Nat \cup {-1} /\ k.pc \in LoadPcs
                          /\ k.page \in Nat \ {0}
  BY DEF LoadRecs
<1>2. data \in LoadRecs /\ \A l \in Loads : loads[l] \in LoadRecs
  BY DEF HistoryTypes
<1>3. walk.last \in Nat /\ walk.old \in Nat /\ walk.seen \in SUBSET Recs
  BY DEF HistoryTypes, Walks
<1> QED BY <1>1, <1>2, <1>3 DEF HistoryTypes

\* A run recorded changes nothing else.
LEMMA HistoryRecords == ASSUME History!HistoryAssumption, HistoryInd, History!Record PROVE HistoryInd'
PROOF
<1>1. PICK q \in 1..(Len(runs) + 1) : Inserted(runs, runs', q)
  BY RecordInserts DEF HistoryInd
<1>2. /\ filter' = filter /\ page' = page /\ data' = data /\ loading' = loading /\ failed' = failed /\ loads' = loads
      /\ crossed' = crossed /\ walk' = walk
  BY DEF History!Record
<1>3. runs \in Seq(Recs) /\ runs' \in Seq(Recs)
  BY <1>1 DEF HistoryInd, HistoryTypes, Inserted
<1>4. HistoryTypes'
  BY <1>2, <1>3 DEF HistoryInd, HistoryTypes
<1>5. NumberedOnce(runs)'
  BY <1>1, <1>3, InsertedNumbered DEF HistoryInd
<1>6. \A f : /\ Cardinality(Fits(runs, f)) \in Nat /\ Cardinality(Fits(runs', f)) \in Nat
             /\ Cardinality(Fits(runs, f)) <= Cardinality(Fits(runs', f))
  BY <1>1, <1>3, InsertedFits, FitsFinite
<1>7. Counted'
  <2>1. data.total \in Int /\ \A l \in Loads : loads[l].total \in Int
    BY HistoryTyped DEF HistoryInd
  <2>2. data.total <= Cardinality(Fits(runs', data.filter))
    BY <1>6, <2>1 DEF HistoryInd, Counted
  <2>3. \A l \in Loads : loads[l].total <= Cardinality(Fits(runs', loads[l].filter))
    BY <1>6, <2>1 DEF HistoryInd, Counted
  <2> QED BY <1>2, <2>2, <2>3 DEF Counted
<1>8. ASSUME ~crossed PROVE (OneLoad /\ InRange /\ SomeRows /\ Walked)'
  <2>1. OneLoad' /\ SomeRows'
    BY <1>2, <1>8 DEF HistoryInd, OneLoad, SomeRows
  <2>2. InRange'
    <3>1. page = 1 \/ Cardinality(Fits(runs, filter)) > FirstRow(page)
      BY <1>8 DEF HistoryInd, InRange
    <3>2. FirstRow(page) \in Nat
      BY HistoryTyped, FirstRows DEF HistoryInd
    <3>3. page = 1 \/ Cardinality(Fits(runs', filter)) > FirstRow(page)
      BY <1>6, <3>1, <3>2
    <3> QED BY <1>2, <3>3 DEF InRange
  <2>3. Walked'
    <3>1. \A n \in Nat : FirstRow(n + 1) \in Nat
      <4>1. \A n \in Nat : n + 1 \in Nat \ {0}
        OBVIOUS
      <4> QED BY <4>1, FirstRows
    <3>2. FirstRow(2) \in Nat
      BY FirstRows
    <3>3. \A seen \in SUBSET Recs, old, end \in Nat :
            Covers(runs, filter, seen, old, end) => Covers(runs', filter, seen, old, end)
      BY <1>1, <1>3, CoversKept
    <3>4. Walked /\ HistoryTypes
      BY <1>8 DEF HistoryInd
    <3>5. walk.last > 0 => data.filter = filter /\ Covers(runs', filter, walk.seen, walk.old, FirstRow(walk.last + 1))
      BY <3>1, <3>3, <3>4, HistoryTyped DEF Walked
    <3>6. ASSUME NEW l \in Loads, RowsRead(loads[l])
          PROVE  /\ page = 1 => Covers(runs', filter, loads[l].rows, loads[l].known, FirstRow(2))
                 /\ page # 1 /\ walk.last = page - 1 =>
                      Covers(runs', filter, walk.seen \cup loads[l].rows, walk.old, FirstRow(page + 1))
      <4>1. page \in Nat /\ loads[l].rows \in SUBSET Recs /\ loads[l].known \in Nat /\ walk.old \in Nat
            /\ walk.seen \cup loads[l].rows \in SUBSET Recs
        BY <3>4, HistoryTyped
      <4> QED BY <3>1, <3>2, <3>3, <3>4, <3>6, <4>1 DEF Walked
    <3> QED BY <1>2, <3>5, <3>6 DEF Walked
  <2> QED BY <2>1, <2>2, <2>3
<1> QED BY <1>2, <1>4, <1>5, <1>7, <1>8 DEF HistoryInd

\* The rows of a page are runs.
LEMMA RowsTyped == ASSUME HistoryTypes, NEW f, NEW p PROVE History!Rows(f, p) \in SUBSET Recs
PROOF
<1>1. \A i \in Fits(runs, f) : runs[i] \in Recs
  BY DEF HistoryTypes, Fits
<1> QED BY <1>1, HistoryReads

\* The rows of a page are read.
LEMMA HistoryRows ==
  ASSUME History!HistoryAssumption, HistoryInd, NEW l \in Loads, History!ReadRows(l) PROVE HistoryInd'
PROOF
<1> DEFINE k == loads[l]  R == History!Rows(k.filter, k.page)  k2 == loads'[l]
<1>1. /\ runs' = runs /\ filter' = filter /\ page' = page /\ data' = data /\ loading' = loading /\ failed' = failed
      /\ crossed' = crossed /\ walk' = walk
  BY DEF History!ReadRows
<1>2. HistoryTypes /\ runs \in Seq(Recs) /\ k \in LoadRecs /\ loads \in [Loads -> LoadRecs] /\ Len(runs) \in Nat
  BY DEF HistoryInd, HistoryTypes
<1>3. R \in SUBSET Recs
  BY <1>2, RowsTyped
<1> HIDE DEF R
<1>4. /\ k.pc = "sent"
      /\ loads' = [loads EXCEPT ![l] = [k EXCEPT !.pc = IF k.total = -1 THEN "rows" ELSE "answered", !.rows = R,
                                                 !.known = Len(runs)]]
  BY DEF History!ReadRows, R
<1>5. k2 = [k EXCEPT !.pc = IF k.total = -1 THEN "rows" ELSE "answered", !.rows = R, !.known = Len(runs)]
  BY <1>2, <1>4
<1>6. /\ \A m \in Loads : m # l => loads'[m] = loads[m]
      /\ k2.filter = k.filter /\ k2.page = k.page /\ k2.rows = R /\ k2.known = Len(runs) /\ k2.total = k.total
      /\ k2.pc \in {"rows", "answered"} /\ (k2.pc = "answered" => k2.total # -1)
      /\ k2 \in LoadRecs
  <2>1. \A m \in Loads : m # l => loads'[m] = loads[m]
    BY <1>2, <1>4
  <2>2. k2 \in LoadRecs
    BY <1>2, <1>3, <1>5 DEF LoadRecs, LoadPcs
  <2> QED BY <1>2, <1>5, <2>1, <2>2 DEF LoadRecs
<1>7. loads' \in [Loads -> LoadRecs]
  BY <1>2, <1>4, <1>5, <1>6
<1> HIDE DEF k, k2
<1>8. HistoryTypes'
  BY <1>1, <1>2, <1>7 DEF HistoryTypes
<1>9. NumberedOnce(runs)' /\ Counted'
  <2>1. NumberedOnce(runs) /\ data.total <= Cardinality(Fits(runs, data.filter))
        /\ \A m \in Loads : loads[m].total <= Cardinality(Fits(runs, loads[m].filter))
    BY DEF HistoryInd, Counted
  <2>2. \A m \in Loads : loads'[m].total <= Cardinality(Fits(runs, loads'[m].filter))
    BY <1>6, <2>1 DEF k, k2
  <2> QED BY <1>1, <2>1, <2>2 DEF Counted
<1>10. ASSUME ~crossed PROVE (OneLoad /\ InRange /\ SomeRows /\ Walked)'
  <2>1. OneLoad /\ InRange /\ SomeRows /\ Walked
    BY <1>10 DEF HistoryInd
  <2>2. /\ k.filter = filter /\ k.page = page /\ loading /\ \A m \in Loads : m # l => ~UnderWay(loads[m])
    BY <1>4, <2>1 DEF OneLoad, UnderWay, k
  <2>3. \A m \in Loads : m # l => ~UnderWay(loads'[m]) /\ ~RowsRead(loads'[m]) /\ loads'[m].pc # "answered"
    BY <1>6, <2>2 DEF UnderWay, RowsRead
  <2>4. OneLoad'
    BY <1>1, <1>6, <2>1, <2>2, <2>3 DEF OneLoad, k2
  <2>5. InRange'
    BY <1>1, <2>1 DEF InRange, FirstRow
  <2>6. SomeRows'
    <3>1. page = 1 \/ R # {}
      BY <1>2, <2>1, <2>2, PageHasRows, HistoryTyped DEF InRange, R
    <3> QED BY <1>1, <1>6, <2>1, <2>3, <3>1 DEF SomeRows, k2
  <2>7. Walked'
    <3>1. /\ page \in Nat \ {0} /\ walk.seen \in SUBSET Recs /\ walk.old \in Nat /\ walk.last \in Nat
          /\ R = History!Rows(filter, page)
      BY <1>2, <2>2, HistoryTyped DEF R
    <3>2. page = 1 => Covers(runs, filter, R, Len(runs), FirstRow(2))
      BY <1>2, <3>1, PageCovers DEF HistoryInd
    <3>3. page # 1 /\ walk.last = page - 1 => Covers(runs, filter, walk.seen \cup R, walk.old, FirstRow(page + 1))
      <4> SUFFICES ASSUME page # 1, walk.last = page - 1
                   PROVE  Covers(runs, filter, walk.seen \cup R, walk.old, FirstRow(page + 1))
        OBVIOUS
      <4>1. walk.last > 0 /\ walk.last + 1 = page
        BY <3>1
      <4>2. Covers(runs, filter, walk.seen, walk.old, FirstRow(page))
        BY <2>1, <4>1 DEF Walked
      <4> QED BY <1>2, <3>1, <4>2, PageCovers DEF HistoryInd
    <3>4. FirstRow(2)' = FirstRow(2) /\ FirstRow(page + 1)' = FirstRow(page + 1) /\ FirstRow(walk.last + 1)' = FirstRow(walk.last + 1)
      BY <1>1
    <3>5. \A m \in Loads : RowsRead(loads'[m]) => m = l
      BY <2>3
    <3>6. \A m \in Loads : RowsRead(loads'[m]) =>
            /\ page = 1 => Covers(runs, filter, loads'[m].rows, loads'[m].known, FirstRow(2))
            /\ page # 1 /\ walk.last = page - 1 =>
                 Covers(runs, filter, walk.seen \cup loads'[m].rows, walk.old, FirstRow(page + 1))
      BY <1>6, <3>2, <3>3, <3>5 DEF k2
    <3> QED BY <1>1, <2>1, <3>6 DEF Walked
  <2> QED BY <2>4, <2>5, <2>6, <2>7
<1> QED BY <1>1, <1>8, <1>9, <1>10 DEF HistoryInd

\* They are counted.
LEMMA HistoryCounted ==
  ASSUME HistoryInd, NEW l \in Loads, History!CountRows(l) PROVE HistoryInd'
PROOF
<1> DEFINE k == loads[l]  c == Cardinality(Fits(runs, k.filter))  k2 == loads'[l]
<1>1. /\ runs' = runs /\ filter' = filter /\ page' = page /\ data' = data /\ loading' = loading /\ failed' = failed
      /\ crossed' = crossed /\ walk' = walk
  BY DEF History!CountRows
<1>2. HistoryTypes /\ runs \in Seq(Recs) /\ k \in LoadRecs /\ loads \in [Loads -> LoadRecs]
  BY DEF HistoryInd, HistoryTypes
<1>3. c \in Nat
  BY <1>2, FitsFinite
<1> HIDE DEF c
<1>4. /\ k.pc \in {"sent", "rows"}
      /\ loads' = [loads EXCEPT ![l] = [k EXCEPT !.pc = IF k.pc = "rows" THEN "answered" ELSE k.pc, !.total = c]]
  BY HistoryReads DEF History!CountRows, c
<1>5. k2 = [k EXCEPT !.pc = IF k.pc = "rows" THEN "answered" ELSE k.pc, !.total = c]
  BY <1>2, <1>4
<1>6. /\ \A m \in Loads : m # l => loads'[m] = loads[m]
      /\ k2.filter = k.filter /\ k2.page = k.page /\ k2.rows = k.rows /\ k2.known = k.known /\ k2.total = c
      /\ (RowsRead(k2) <=> RowsRead(k)) /\ UnderWay(k2) /\ UnderWay(k)
      /\ k2 \in LoadRecs
  <2>1. \A m \in Loads : m # l => loads'[m] = loads[m]
    BY <1>2, <1>4
  <2>2. k2 \in LoadRecs
    BY <1>2, <1>3, <1>5 DEF LoadRecs, LoadPcs
  <2> QED BY <1>2, <1>4, <1>5, <2>1, <2>2 DEF LoadRecs, RowsRead, UnderWay
<1>7. loads' \in [Loads -> LoadRecs]
  BY <1>2, <1>4, <1>5, <1>6
<1> HIDE DEF k, k2
<1>8. HistoryTypes'
  BY <1>1, <1>2, <1>7 DEF HistoryTypes
<1>9. NumberedOnce(runs)' /\ Counted'
  <2>1. NumberedOnce(runs) /\ data.total <= Cardinality(Fits(runs, data.filter))
        /\ \A m \in Loads : loads[m].total <= Cardinality(Fits(runs, loads[m].filter))
    BY DEF HistoryInd, Counted
  <2>2. \A m \in Loads : loads'[m].total <= Cardinality(Fits(runs, loads'[m].filter))
    BY <1>3, <1>6, <2>1 DEF k2, c, k
  <2> QED BY <1>1, <2>1, <2>2 DEF Counted
<1>10. ASSUME ~crossed PROVE (OneLoad /\ InRange /\ SomeRows /\ Walked)'
  <2>1. OneLoad /\ InRange /\ SomeRows /\ Walked
    BY <1>10 DEF HistoryInd
  <2>2. \A m \in Loads :
          /\ UnderWay(loads'[m]) <=> UnderWay(loads[m])
          /\ RowsRead(loads'[m]) <=> RowsRead(loads[m])
          /\ loads'[m].filter = loads[m].filter /\ loads'[m].page = loads[m].page /\ loads'[m].rows = loads[m].rows
          /\ loads'[m].known = loads[m].known /\ (m = l \/ loads'[m] = loads[m])
    BY <1>6 DEF k, k2
  <2>3. OneLoad'
    BY <1>1, <2>1, <2>2 DEF OneLoad
  <2>4. InRange'
    BY <1>1, <2>1 DEF InRange, FirstRow
  <2>5. SomeRows'
    <3>1. c # -1
      BY <1>3
    <3> QED BY <1>1, <1>6, <2>1, <2>2, <3>1 DEF SomeRows, k2
  <2>6. Walked'
    BY <1>1, <2>1, <2>2 DEF Walked
  <2> QED BY <2>3, <2>4, <2>5, <2>6
<1> QED BY <1>1, <1>8, <1>9, <1>10 DEF HistoryInd

\* A load is forgotten.
LEMMA LoadForgotten ==
  ASSUME HistoryTypes, OneLoad, NEW l \in Loads, UnderWay(loads[l]), loads' = [loads EXCEPT ![l] = History!NoLoad]
  PROVE  \A m \in Loads : ~UnderWay(loads'[m]) /\ ~RowsRead(loads'[m]) /\ loads'[m].pc # "answered"
PROOF
<1>1. \A m \in Loads : loads'[m] = IF m = l THEN History!NoLoad ELSE loads[m]
  BY DEF HistoryTypes
<1>2. History!NoLoad.pc = "none"
  BY DEF History!NoLoad
<1>3. \A m \in Loads : m # l => ~UnderWay(loads[m])
  BY DEF OneLoad
<1> QED BY <1>1, <1>2, <1>3 DEF UnderWay, RowsRead

\* A load has read nothing when it is sent.
LEMMA NoLoadTyped ==
  /\ History!NoLoad \in LoadRecs /\ History!NoLoad.total = -1
  /\ \A f \in Filters \cup {All}, p \in Nat \ {0} : /\ History!Fetch(f, p) \in LoadRecs /\ History!Fetch(f, p).total = -1
                                               /\ History!Fetch(f, p).pc = "sent" /\ History!Fetch(f, p).filter = f
                                               /\ History!Fetch(f, p).page = p
PROOF
<1>1. History!NoLoad \in LoadRecs /\ History!NoLoad.total = -1
  BY DEF History!NoLoad, LoadRecs, LoadPcs
<1>2. ASSUME NEW f \in Filters \cup {All}, NEW p \in Nat \ {0}
      PROVE  /\ History!Fetch(f, p) \in LoadRecs /\ History!Fetch(f, p).total = -1 /\ History!Fetch(f, p).pc = "sent"
             /\ History!Fetch(f, p).filter = f /\ History!Fetch(f, p).page = p
  BY DEF History!Fetch, History!NoLoad, LoadRecs, LoadPcs
<1> QED BY <1>1, <1>2

\* It lands.
LEMMA HistoryLands ==
  ASSUME History!HistoryAssumption, HistoryInd, NEW l \in Loads, History!Land(l) PROVE HistoryInd'
PROOF
<1> DEFINE k == loads[l]
<1>1. /\ runs' = runs /\ filter' = filter /\ page' = page /\ loading' = FALSE /\ failed' = FALSE /\ crossed' = crossed
      /\ data' = [k EXCEPT !.known = 0] /\ loads' = [loads EXCEPT ![l] = History!NoLoad] /\ k.pc = "answered"
      /\ walk' = IF crossed \/ ~History!Current(k) THEN History!NoWalk
                 ELSE IF page = 1 THEN [last |-> 1, old |-> k.known, seen |-> k.rows]
                 ELSE IF walk.last = page - 1 THEN [walk EXCEPT !.last = page, !.seen = walk.seen \cup k.rows]
                 ELSE History!NoWalk
  BY DEF History!Land
<1>2. /\ HistoryTypes /\ k \in LoadRecs /\ loads \in [Loads -> LoadRecs] /\ walk \in Walks /\ page \in Nat \ {0}
      /\ k.rows \in SUBSET Recs /\ k.known \in Nat
  BY HistoryTyped DEF HistoryInd, HistoryTypes
<1>3. /\ data' \in LoadRecs /\ data'.filter = k.filter /\ data'.page = k.page /\ data'.rows = k.rows /\ data'.total = k.total
  BY <1>1, <1>2 DEF LoadRecs
<1> HIDE DEF k
<1>4. loads' \in [Loads -> LoadRecs] /\ \A m \in Loads : m # l => loads'[m] = loads[m]
  BY <1>1, <1>2, NoLoadTyped
<1>5. walk' \in Walks
  BY <1>1, <1>2 DEF Walks, History!NoWalk
<1>6. HistoryTypes'
  BY <1>1, <1>2, <1>3, <1>4, <1>5 DEF HistoryTypes
<1>7. NumberedOnce(runs)' /\ Counted'
  <2>1. NumberedOnce(runs) /\ \A m \in Loads : loads[m].total <= Cardinality(Fits(runs, loads[m].filter))
    BY DEF HistoryInd, Counted
  <2>2. loads'[l] = History!NoLoad
    BY <1>1, <1>2
  <2>3. -1 <= Cardinality(Fits(runs, loads'[l].filter))
    <3>1. Cardinality(Fits(runs, loads'[l].filter)) \in Nat
      BY <1>2, FitsFinite DEF HistoryTypes
    <3> QED BY <3>1
  <2>4. \A m \in Loads : loads'[m].total <= Cardinality(Fits(runs, loads'[m].filter))
    BY <1>4, <2>1, <2>2, <2>3, NoLoadTyped
  <2> QED BY <1>1, <1>3, <2>1, <2>4 DEF Counted, k
<1>8. ASSUME ~crossed PROVE (OneLoad /\ InRange /\ SomeRows /\ Walked)'
  <2>1. OneLoad /\ InRange /\ SomeRows /\ Walked
    BY <1>8 DEF HistoryInd
  <2>2. UnderWay(k) /\ RowsRead(k) /\ k.filter = filter /\ k.page = page /\ k.total # -1 /\ (page = 1 \/ k.rows # {})
    BY <1>1, <2>1 DEF UnderWay, RowsRead, OneLoad, SomeRows, k
  <2>3. \A m \in Loads : ~UnderWay(loads'[m]) /\ ~RowsRead(loads'[m]) /\ loads'[m].pc # "answered"
    BY <1>1, <1>2, <2>1, <2>2, LoadForgotten DEF k
  <2>4. OneLoad'
    BY <1>1, <1>3, <2>2, <2>3 DEF OneLoad
  <2>5. InRange'
    BY <1>1, <2>1 DEF InRange, FirstRow
  <2>6. SomeRows'
    BY <1>1, <1>3, <2>2, <2>3 DEF SomeRows
  <2>7. walk'.last > 0 => Covers(runs, filter, walk'.seen, walk'.old, FirstRow(walk'.last + 1))
    <3>1. CASE page = 1
      <4>1. walk'.last = 1 /\ walk'.old = k.known /\ walk'.seen = k.rows
        BY <1>1, <1>8, <2>2, <3>1 DEF History!Current
      <4>2. Covers(runs, filter, k.rows, k.known, FirstRow(2))
        BY <2>1, <2>2, <3>1 DEF Walked, k
      <4>3. walk'.last + 1 = 2
        BY <4>1
      <4> QED BY <4>1, <4>2, <4>3
    <3>2. CASE page # 1 /\ walk.last = page - 1
      <4>1. walk' = [walk EXCEPT !.last = page, !.seen = walk.seen \cup k.rows]
        BY <1>1, <1>8, <2>2, <3>2 DEF History!Current
      <4>2. walk'.last = page /\ walk'.old = walk.old /\ walk'.seen = walk.seen \cup k.rows
        BY <1>2, <4>1 DEF Walks
      <4>3. Covers(runs, filter, walk.seen \cup k.rows, walk.old, FirstRow(page + 1))
        BY <2>1, <2>2, <3>2 DEF Walked, k
      <4> QED BY <4>2, <4>3
    <3>3. CASE page # 1 /\ walk.last # page - 1
      <4>1. walk' = History!NoWalk
        BY <1>1, <3>3
      <4> QED BY <4>1 DEF History!NoWalk
    <3> QED BY <3>1, <3>2, <3>3
  <2>8. Walked'
    <3>1. \A n : FirstRow(n)' = FirstRow(n)
      BY DEF FirstRow
    <3> QED BY <1>1, <1>3, <2>2, <2>3, <2>7 DEF Walked
  <2> QED BY <2>4, <2>5, <2>6, <2>8
<1> QED BY <1>1, <1>6, <1>7, <1>8 DEF HistoryInd

\* It fails.
LEMMA HistoryFails ==
  ASSUME HistoryInd, NEW l \in Loads, History!LoadFails(l) PROVE HistoryInd'
PROOF
<1>1. /\ runs' = runs /\ filter' = filter /\ page' = page /\ data' = data /\ loading' = FALSE /\ failed' = TRUE
      /\ crossed' = (crossed \/ data.filter # filter) /\ loads' = [loads EXCEPT ![l] = History!NoLoad]
      /\ loads[l].pc # "none" /\ walk' = History!NoWalk
  BY DEF History!LoadFails, History!LoadingAfter
<1>2. HistoryTypes /\ loads \in [Loads -> LoadRecs]
  BY DEF HistoryInd, HistoryTypes
<1>3. loads' \in [Loads -> LoadRecs] /\ loads'[l] = History!NoLoad /\ \A m \in Loads : m # l => loads'[m] = loads[m]
  BY <1>1, <1>2, NoLoadTyped
<1>4. walk' \in Walks /\ walk'.last = 0
  BY <1>1 DEF Walks, History!NoWalk
<1>5. HistoryTypes'
  BY <1>1, <1>2, <1>3, <1>4 DEF HistoryTypes
<1>6. NumberedOnce(runs)' /\ Counted'
  <2>1. NumberedOnce(runs) /\ data.total <= Cardinality(Fits(runs, data.filter))
        /\ \A m \in Loads : loads[m].total <= Cardinality(Fits(runs, loads[m].filter))
    BY DEF HistoryInd, Counted
  <2>2. -1 <= Cardinality(Fits(runs, loads'[l].filter))
    <3>1. Cardinality(Fits(runs, loads'[l].filter)) \in Nat
      BY <1>2, FitsFinite DEF HistoryTypes
    <3> QED BY <3>1
  <2>3. \A m \in Loads : loads'[m].total <= Cardinality(Fits(runs, loads'[m].filter))
    BY <1>3, <2>1, <2>2, NoLoadTyped
  <2> QED BY <1>1, <2>1, <2>3 DEF Counted
<1>7. ASSUME ~crossed, data.filter = filter PROVE (OneLoad /\ InRange /\ SomeRows /\ Walked)'
  <2>1. OneLoad /\ InRange
    BY <1>7 DEF HistoryInd
  <2>2. \A m \in Loads : ~UnderWay(loads'[m]) /\ ~RowsRead(loads'[m]) /\ loads'[m].pc # "answered"
    BY <1>1, <1>2, <2>1, LoadForgotten DEF UnderWay
  <2>3. OneLoad' /\ SomeRows'
    BY <1>1, <1>7, <2>2 DEF OneLoad, SomeRows
  <2>4. InRange'
    BY <1>1, <2>1 DEF InRange, FirstRow
  <2>5. Walked'
    BY <1>4, <2>2 DEF Walked
  <2> QED BY <2>3, <2>4, <2>5
<1> QED BY <1>1, <1>5, <1>6, <1>7 DEF HistoryInd

\* Another is sent, for a page that is in range and with what has been read of it.
LEMMA HistoryShows ==
  ASSUME History!HistoryAssumption, HistoryInd, NEW f \in Filters \cup {All}, NEW p \in Nat \ {0}, History!Show(f, p),
         p = 1 \/ crossed \/ Cardinality(Fits(runs, f)) > FirstRow(p),
         walk' = History!NoWalk \/ (f = filter /\ walk' = walk)
  PROVE  HistoryInd'
PROOF
<1> DEFINE l == CHOOSE x \in History!Free : TRUE
<1>1. /\ runs' = runs /\ filter' = f /\ page' = p /\ data' = data /\ loading' = TRUE /\ failed' = failed
      /\ crossed' = (crossed \/ \E x \in Loads : loads[x].pc # "none") /\ loads' = [loads EXCEPT ![l] = History!Fetch(f, p)]
      /\ l \in Loads
  <2>1. History!Free # {} /\ History!Free \subseteq Loads
    BY DEF History!Show, History!Free
  <2>2. l \in Loads
    BY <2>1
  <2> HIDE DEF l
  <2> QED BY <2>2 DEF History!Show, l
<1> HIDE DEF l
<1>2. HistoryTypes /\ loads \in [Loads -> LoadRecs] /\ walk \in Walks
  BY DEF HistoryInd, HistoryTypes
<1>3. /\ loads' \in [Loads -> LoadRecs] /\ loads'[l] = History!Fetch(f, p) /\ \A m \in Loads : m # l => loads'[m] = loads[m]
      /\ loads'[l].total = -1 /\ loads'[l].pc = "sent" /\ loads'[l].filter = f /\ loads'[l].page = p
  BY <1>1, <1>2, NoLoadTyped
<1>4. walk' \in Walks
  BY <1>2 DEF Walks, History!NoWalk
<1>5. HistoryTypes'
  BY <1>1, <1>2, <1>3, <1>4 DEF HistoryTypes
<1>6. NumberedOnce(runs)' /\ Counted'
  <2>1. NumberedOnce(runs) /\ data.total <= Cardinality(Fits(runs, data.filter))
        /\ \A m \in Loads : loads[m].total <= Cardinality(Fits(runs, loads[m].filter))
    BY DEF HistoryInd, Counted
  <2>2. -1 <= Cardinality(Fits(runs, loads'[l].filter))
    <3>1. Cardinality(Fits(runs, loads'[l].filter)) \in Nat
      BY <1>2, FitsFinite DEF HistoryTypes
    <3> QED BY <3>1
  <2>3. \A m \in Loads : loads'[m].total <= Cardinality(Fits(runs, loads'[m].filter))
    BY <1>3, <2>1, <2>2
  <2> QED BY <1>1, <2>1, <2>3 DEF Counted
<1>7. ASSUME ~crossed, \A x \in Loads : loads[x].pc = "none" PROVE (OneLoad /\ InRange /\ SomeRows /\ Walked)'
  <2>1. Walked
    BY <1>7 DEF HistoryInd
  <2>2. \A m \in Loads : ~RowsRead(loads'[m]) /\ loads'[m].pc # "answered" /\ (m # l => ~UnderWay(loads'[m]))
    BY <1>3, <1>7 DEF UnderWay, RowsRead
  <2>3. OneLoad' /\ SomeRows'
    BY <1>1, <1>3, <2>2 DEF OneLoad, SomeRows
  <2>4. InRange'
    BY <1>1, <1>7 DEF InRange, FirstRow
  <2>5. walk'.last > 0 => walk' = walk /\ f = filter
    BY DEF History!NoWalk
  <2>6. Walked'
    BY <1>1, <2>1, <2>2, <2>5 DEF Walked
  <2> QED BY <2>3, <2>4, <2>6
<1> QED BY <1>1, <1>5, <1>6, <1>7 DEF HistoryInd

\* The pager stays within the pages there are.
LEMMA NewerInRange == ASSUME History!HistoryAssumption, HistoryInd, History!Newer PROVE HistoryInd'
PROOF
<1>1. page > 1 /\ History!Show(filter, page - 1) /\ walk' = History!NoWalk
  BY DEF History!Newer
<1>2. page \in Nat \ {0} /\ filter \in Filters \cup {All} /\ runs \in Seq(Recs)
  BY DEF HistoryInd, HistoryTypes
<1>3. page - 1 \in Nat \ {0} /\ (page - 1) + 1 = page
  BY <1>1, <1>2
<1>4. FirstRow(page - 1) \in Nat /\ FirstRow(page) = FirstRow(page - 1) + PageSize /\ PageSize \in Nat
  BY <1>3, FirstRows
<1>5. crossed \/ Cardinality(Fits(runs, filter)) > FirstRow(page)
  BY <1>1, <1>2 DEF HistoryInd, InRange
<1>6. crossed \/ Cardinality(Fits(runs, filter)) > FirstRow(page - 1)
  <2>1. Cardinality(Fits(runs, filter)) \in Nat
    BY <1>2, FitsFinite
  <2> QED BY <1>4, <1>5, <2>1
<1> QED BY <1>1, <1>2, <1>3, <1>6, HistoryShows

\* Older asks for a page that has rows.
LEMMA OlderInRange == ASSUME History!HistoryAssumption, HistoryInd, History!Older PROVE HistoryInd'
PROOF
<1>1. /\ History!Paged /\ page < History!TotalPages /\ ~loading /\ History!Show(filter, page + 1) /\ walk' = walk
  BY DEF History!Older
<1>2. page \in Nat \ {0} /\ filter \in Filters \cup {All} /\ runs \in Seq(Recs) /\ data.total \in Nat \cup {-1}
  BY HistoryTyped DEF HistoryInd, HistoryTypes
<1>3. PageSize \in Nat \ {0} /\ FirstRow(page) \in Nat /\ FirstRow(page + 1) = page * PageSize /\ FirstRow(page + 1) \in Nat
  <2>1. PageSize \in Nat \ {0} /\ FirstRow(page) \in Nat /\ FirstRow(page + 1) = FirstRow(page) + PageSize
    BY <1>2, FirstRows
  <2>2. (page + 1) - 1 = page
    BY <1>2
  <2>3. FirstRow(page + 1) = page * PageSize
    BY <2>2 DEF FirstRow
  <2> QED BY <2>1, <2>3
<1>4. data.total > PageSize /\ data.total \in Nat
  BY <1>1, <1>2, <1>3 DEF History!Paged
<1>5. FirstRow(page + 1) < data.total
  <2> DEFINE n == data.total  t == (n + PageSize - 1) \div PageSize
  <2>1. n \in Nat /\ page < t
    BY <1>1, <1>4 DEF History!TotalPages
  <2>2. t \in Int /\ t * PageSize <= n + PageSize - 1
    BY <1>3, <2>1
  <2> HIDE DEF n, t
  <2>3. (page + 1) * PageSize <= t * PageSize
    BY <1>2, <1>3, <2>1, <2>2
  <2>4. (page + 1) * PageSize = page * PageSize + PageSize /\ page * PageSize \in Nat
    BY <1>2, <1>3
  <2>5. t * PageSize \in Int
    BY <1>3, <2>2
  <2> DEFINE a == page * PageSize  b == t * PageSize  c == (page + 1) * PageSize
  <2>6. a \in Nat /\ b \in Int /\ c = a + PageSize /\ c <= b /\ b <= n + PageSize - 1
    BY <2>2, <2>3, <2>4, <2>5
  <2> HIDE DEF a, b, c
  <2>7. a < n
    BY <1>3, <2>1, <2>6
  <2> QED BY <1>3, <2>7 DEF a, n
<1>6. crossed \/ Cardinality(Fits(runs, filter)) > FirstRow(page + 1)
  <2>1. crossed \/ data.filter = filter
    BY <1>1 DEF HistoryInd, OneLoad
  <2>2. data.total <= Cardinality(Fits(runs, data.filter)) /\ Cardinality(Fits(runs, data.filter)) \in Nat
    BY <1>2, FitsFinite DEF HistoryInd, Counted
  <2> QED BY <1>3, <1>4, <1>5, <2>1, <2>2
<1>7. page + 1 \in Nat \ {0}
  BY <1>2
<1> QED BY <1>1, <1>2, <1>6, <1>7, HistoryShows

\* No step, of the reader's or of the executor's, breaks any of it.
LEMMA HistoryStep == ASSUME History!HistoryAssumption, HistoryInd, [History!Next]_(History!vars) PROVE HistoryInd'
PROOF
<1>1. CASE History!Record
  BY <1>1, HistoryRecords
<1>2. CASE History!Newer
  BY <1>2, NewerInRange
<1>3. CASE History!Older
  BY <1>3, OlderInRange
<1>4. CASE \E f \in Filters \cup {All} : History!Filter(f)
  <2>1. PICK f \in Filters \cup {All} : History!Filter(f)
    BY <1>4
  <2>2. History!Show(f, 1) /\ walk' = History!NoWalk
    BY <2>1 DEF History!Filter, History!FirstPage
  <2> QED BY <2>2, HistoryShows
<1>5. CASE \E l \in Loads : History!ReadRows(l) \/ History!CountRows(l) \/ History!Land(l) \/ History!LoadFails(l)
  BY <1>5, HistoryRows, HistoryCounted, HistoryLands, HistoryFails
<1>6. CASE UNCHANGED History!vars
  BY <1>6 DEF History!vars, HistoryInd, HistoryTypes, NumberedOnce, Counted, InRange, UnderWay, OneLoad, RowsRead, SomeRows, Walked, Covers,
    Fits, RankIn, Ahead, FirstRow
<1> QED BY <1>1, <1>2, <1>3, <1>4, <1>5, <1>6 DEF History!Next

\* The page opens with its first load under way.
LEMMA HistoryStarts == ASSUME History!HistoryAssumption, History!Init PROVE HistoryInd
PROOF
<1> DEFINE n == Len(Recorded)  first == CHOOSE x \in Loads : TRUE
<1>1. /\ Recorded \in Seq(Programs) /\ n \in Nat /\ Loads # {} /\ first \in Loads
      /\ runs = [i \in 1..n |-> [program |-> Recorded[i], id |-> n + 1 - i]]
      /\ filter = All /\ page = 1 /\ data = History!NoLoad /\ loading = TRUE /\ failed = FALSE
      /\ loads = [l \in Loads |-> IF l = first THEN History!Fetch(All, 1) ELSE History!NoLoad]
      /\ crossed = FALSE /\ walk = History!NoWalk
  BY DEF History!Init, History!HistoryAssumption
<1> HIDE DEF first
<1>2. \A i \in 1..n : [program |-> Recorded[i], id |-> n + 1 - i] \in Recs
  BY <1>1 DEF Recs
<1> HIDE DEF n
<1>3. /\ runs \in Seq(Recs) /\ Len(runs) = n /\ DOMAIN runs = 1..n /\ \A i \in 1..n : runs[i].id = n + 1 - i
  BY <1>1, <1>2
<1> DEFINE firstLoad == History!Fetch(All, 1)
<1>4. firstLoad \in LoadRecs /\ firstLoad.total = -1 /\ firstLoad.pc = "sent" /\ firstLoad.filter = All /\ firstLoad.page = 1
  <2>1. All \in Filters \cup {All} /\ 1 \in Nat \ {0}
    OBVIOUS
  <2> QED BY <2>1, NoLoadTyped
<1>5. loads = [l \in Loads |-> IF l = first THEN firstLoad ELSE History!NoLoad]
  BY <1>1
<1> HIDE DEF firstLoad
<1>6. loads \in [Loads -> LoadRecs] /\ data \in LoadRecs /\ walk \in Walks /\ walk.last = 0
  <2>1. walk \in Walks /\ walk.last = 0
    BY <1>1 DEF Walks, History!NoWalk
  <2> QED BY <1>1, <1>4, <1>5, <2>1, NoLoadTyped
<1>7. HistoryTypes
  <2>1. filter \in Filters \cup {All} /\ page \in Nat \ {0}
    BY <1>1
  <2> QED BY <1>1, <1>3, <1>6, <2>1 DEF HistoryTypes
<1>8. NumberedOnce(runs)
  BY <1>1, <1>3 DEF NumberedOnce
<1>9. /\ \A l \in Loads : /\ loads[l].total = -1 /\ ~RowsRead(loads[l]) /\ loads[l].pc # "answered"
                          /\ UnderWay(loads[l]) => l = first /\ loads[l].filter = All /\ loads[l].page = 1
      /\ data.total = -1
  <2>1. History!NoLoad.pc = "none"
    BY DEF History!NoLoad
  <2>2. data.total = -1
    BY <1>1, NoLoadTyped
  <2>3. \A l \in Loads : loads[l] = IF l = first THEN firstLoad ELSE History!NoLoad
    BY <1>5
  <2> QED BY <1>4, <2>1, <2>2, <2>3, NoLoadTyped DEF UnderWay, RowsRead
<1>10. Counted
  <2>1. \A f : Cardinality(Fits(runs, f)) \in Nat
    BY <1>3, FitsFinite
  <2>2. \A f : -1 <= Cardinality(Fits(runs, f))
    BY <2>1
  <2> QED BY <1>9, <2>2 DEF Counted
<1>11. OneLoad /\ InRange /\ SomeRows /\ Walked
  BY <1>1, <1>6, <1>9 DEF OneLoad, InRange, SomeRows, Walked
<1> QED BY <1>7, <1>8, <1>10, <1>11 DEF HistoryInd

\* So it holds throughout.
LEMMA HistoryInvariant == ASSUME History!HistoryAssumption PROVE History!Spec => []HistoryInd
PROOF
<1>1. History!Init => HistoryInd
  BY HistoryStarts
<1>2. HistoryInd /\ [History!Next]_(History!vars) => HistoryInd'
  BY HistoryStep
<1> QED BY <1>1, <1>2, PTL DEF History!Spec

\* Nothing is said to match only when nothing did.
LEMMA NothingSaidTruly == ASSUME History!HistoryAssumption PROVE History!Spec => []History!EmptyMeansNone
PROOF
<1>1. HistoryInd => History!EmptyMeansNone
  <2> SUFFICES ASSUME HistoryInd, ~crossed, ~loading, ~failed, data.rows = {}
               PROVE  data.total = 0 \/ (data.total > 0 /\ data.page = 1)
    BY DEF History!EmptyMeansNone
  <2>1. data.total # -1 /\ data.page = 1
    BY DEF HistoryInd, SomeRows
  <2>2. data.total \in Nat \cup {-1}
    BY HistoryTyped DEF HistoryInd
  <2> QED BY <2>1, <2>2
<1> QED BY <1>1, HistoryInvariant, PTL

\* Reading older and older pages passes over nothing.
LEMMA NothingSkipped == ASSUME History!HistoryAssumption PROVE History!Spec => []History!OlderSkipsNothing
PROOF
<1>1. HistoryInd => History!OlderSkipsNothing
  <2> SUFFICES ASSUME HistoryInd, ~crossed, walk.last > 0, NEW i \in Fits(runs, data.filter),
                      NEW j \in Fits(runs, data.filter), i < j, runs[j] \in walk.seen, runs[i].id <= walk.old
               PROVE  runs[i] \in walk.seen
    BY HistoryReads DEF History!OlderSkipsNothing
  <2>1. data.filter = filter /\ Covers(runs, filter, walk.seen, walk.old, FirstRow(walk.last + 1))
    BY DEF HistoryInd, Walked
  <2> QED BY <2>1 DEF Covers
<1> QED BY <1>1, HistoryInvariant, PTL

-----------------------------------------------------------------------------
(* The preview of the list of schedules.                                   *)

PreviewInd == program \in Preview!AllPrograms /\ jump \in Jumps /\ now \in 0..LastStart

\* A product of whole days grows by one of them.
LEMMA DaysAdd == ASSUME NEW L \in Nat, NEW d \in Int PROVE L * (d + 1) = L * d + L /\ L * d \in Int
PROOF OBVIOUS

\* And by more the further apart the days are.
LEMMA DaysApart ==
  ASSUME NEW L \in Nat, L > 4, NEW d \in Int, NEW e \in Int, d < e PROVE L * e >= L * d + L
PROOF
<1>1. \A k \in Nat : L * k \in Nat
  OBVIOUS
<1>2. e - d - 1 \in Nat
  OBVIOUS
<1>3. L * e = L * d + L + L * (e - d - 1)
  OBVIOUS
<1>4. L * (e - d - 1) \in Nat /\ L * e \in Int /\ L * d \in Int
  BY <1>1, <1>2
<1> QED BY <1>3, <1>4

\* Whole days are counted right although one may be shorter or longer.
LEMMA RoundedRight ==
  ASSUME Preview!PreviewAssumption, NEW k \in Int, NEW s \in {-2, 0, 2}
  PROVE  Preview!RoundDays(DayLength * k + s) = k
PROOF
<1> DEFINE L == DayLength
<1>1. L \in Nat /\ L > 4
  BY DEF Preview!PreviewAssumption
<1>2. L * k \in Int
  BY <1>1
<1>3. 2 * (L * k + s) + L = (2 * L) * k + (2 * s + L) /\ 2 * s + L \in 0..(2 * L - 1)
  BY <1>1, <1>2
<1>4. ((2 * L) * k + (2 * s + L)) \div (2 * L) = k
  <2>1. \A D \in Nat \ {0}, r \in Int : 0 <= r /\ r < D => (D * k + r) \div D = k
    OBVIOUS
  <2> QED BY <1>1, <1>3, <2>1
<1> QED BY <1>3, <1>4 DEF Preview!RoundDays

\* By how much midnight is early or late when the clocks have jumped.
Late == CASE jump.kind = "forward" -> -2 [] jump.kind = "back" -> 2 [] jump.kind = "none" -> 0

\* The jump is one of the clocks.
LEMMA JumpTyped ==
  ASSUME Preview!PreviewAssumption, PreviewInd
  PROVE  /\ jump.kind \in {"forward", "back", "none"} /\ jump.day \in Nat /\ jump.unit \in 0..(DayLength - 2)
         /\ Late \in {-2, 0, 2} /\ (Late = -2 => jump.kind = "forward")
PROOF
<1>1. jump.kind \in {"forward", "back", "none"} /\ jump.day \in Nat /\ jump.unit \in 0..(DayLength - 2)
  BY DEF PreviewInd, Preview!PreviewAssumption
<1> QED BY <1>1 DEF Late

\* The instant of a time of day, before the jump and after.
LEMMA InstantIs ==
  ASSUME Preview!PreviewAssumption, PreviewInd, NEW d \in Int, NEW w \in 0..(DayLength - 1)
  PROVE  Preview!Instant(d, w)
           = DayLength * d + w + (IF d > jump.day \/ (d = jump.day /\ w >= jump.unit + 2) THEN Late ELSE 0)
PROOF
<1>1. DayLength * d + w \in Int
  BY DEF Preview!PreviewAssumption
<1> QED BY <1>1, JumpTyped DEF Preview!Instant, Preview!Jumped, Late

\* And of midnight.
LEMMA MidnightIs ==
  ASSUME Preview!PreviewAssumption, PreviewInd, NEW d \in Int
  PROVE  Preview!Instant(d, 0) = DayLength * d + (IF d > jump.day THEN Late ELSE 0)
PROOF
<1>1. DayLength * d \in Int /\ 0 \in 0..(DayLength - 1)
  BY DEF Preview!PreviewAssumption
<1>2. Preview!Instant(d, 0) = DayLength * d + 0 + (IF d > jump.day \/ (d = jump.day /\ 0 >= jump.unit + 2) THEN Late ELSE 0)
  BY <1>1, InstantIs
<1> QED BY <1>1, <1>2, JumpTyped

\* The first day begins at the first instant, and every other after the one before.
LEMMA MidnightsFollow ==
  ASSUME Preview!PreviewAssumption, PreviewInd
  PROVE  /\ \A d \in Int : Preview!Instant(d, 0) \in Int
         /\ Preview!Instant(0, 0) = 0
         /\ \A d, e \in Int : d < e => Preview!Instant(d, 0) < Preview!Instant(e, 0)
         /\ \A d \in Nat : Preview!Instant(d, 0) >= d
PROOF
<1>1. \A d \in Int : Preview!Instant(d, 0) = DayLength * d + (IF d > jump.day THEN Late ELSE 0)
  BY MidnightIs
<1>2. DayLength \in Nat /\ DayLength > 4 /\ jump.day \in Nat /\ Late \in {-2, 0, 2}
  BY JumpTyped DEF Preview!PreviewAssumption
<1>3. \A d \in Int : DayLength * d \in Int
  BY <1>2
<1>4. \A d, e \in Int : d < e => DayLength * e >= DayLength * d + DayLength
  BY <1>2, DaysApart
<1>5. DayLength * 0 = 0
  BY <1>2
<1>6. \A d \in Nat : d # 0 => DayLength * d >= 4 * d + d
  <2>1. \A d, k \in Nat : (k + 5) * d = k * d + 5 * d /\ k * d \in Nat
    OBVIOUS
  <2>2. DayLength - 5 \in Nat /\ DayLength = (DayLength - 5) + 5
    BY <1>2
  <2> QED BY <2>1, <2>2
<1>7. ASSUME NEW d \in Nat PROVE Preview!Instant(d, 0) >= d
  <2> DEFINE P == DayLength * d
  <2>1. P \in Int /\ (d # 0 => P >= 4 * d + d) /\ (d = 0 => P = 0)
    BY <1>3, <1>5, <1>6
  <2>2. Preview!Instant(d, 0) = P + (IF d > jump.day THEN Late ELSE 0)
    BY <1>1
  <2> HIDE DEF P
  <2> QED BY <1>2, <2>1, <2>2
<1>8. ASSUME NEW d \in Int, NEW e \in Int, d < e PROVE Preview!Instant(d, 0) < Preview!Instant(e, 0)
  <2> DEFINE P == DayLength * d
             Q == DayLength * e
  <2>1. P \in Int /\ Q \in Int /\ Q >= P + DayLength
    BY <1>3, <1>4, <1>8
  <2>2. /\ Preview!Instant(d, 0) = P + (IF d > jump.day THEN Late ELSE 0)
        /\ Preview!Instant(e, 0) = Q + (IF e > jump.day THEN Late ELSE 0)
    BY <1>1
  <2> HIDE DEF P, Q
  <2> QED BY <1>2, <1>8, <2>1, <2>2
<1>9. \A d \in Int : Preview!Instant(d, 0) \in Int
  BY <1>1, <1>2, <1>3
<1>10. Preview!Instant(0, 0) = 0
  BY <1>1, <1>2, <1>5
<1> QED BY <1>7, <1>8, <1>9, <1>10

\* Whether the clocks jump over midnight or over one of the start times.
Skipped == jump.kind = "forward" /\ (jump.unit = 0 \/ \E w \in program.times : w \in jump.unit..(jump.unit + 1))

\* Start times are times of day.
LEMMA TimesTyped ==
  ASSUME Preview!PreviewAssumption, PreviewInd
  PROVE  program.times \subseteq 0..(DayLength - 1) /\ program.times \subseteq Nat
PROOF
<1>1. program.times \in StartTimes
  BY DEF PreviewInd, Preview!AllPrograms
<1> QED BY <1>1 DEF Preview!PreviewAssumption

\* One that is not is an instant of its day, in the order of the clock.
LEMMA TimesFollow ==
  ASSUME Preview!PreviewAssumption, PreviewInd, ~Skipped, NEW d \in Int, NEW w \in program.times
  PROVE  /\ Preview!Instant(d, w) \in Int
         /\ Preview!Instant(d, 0) <= Preview!Instant(d, w)
         /\ Preview!Instant(d, w) < Preview!Instant(d + 1, 0)
         /\ \A v \in program.times : w < v => Preview!Instant(d, w) < Preview!Instant(d, v)
PROOF
<1>1. DayLength \in Nat /\ DayLength > 4
  BY DEF Preview!PreviewAssumption
<1>2. jump.day \in Nat /\ jump.unit \in 0..(DayLength - 2) /\ Late \in {-2, 0, 2} /\ (Late = -2 => jump.kind = "forward")
  BY JumpTyped
<1>3. /\ Preview!Instant(d, 0) = DayLength * d + (IF d > jump.day THEN Late ELSE 0)
      /\ Preview!Instant(d + 1, 0) = DayLength * (d + 1) + (IF d + 1 > jump.day THEN Late ELSE 0)
  BY MidnightIs
<1>4. DayLength * (d + 1) = DayLength * d + DayLength /\ DayLength * d \in Int
  BY <1>1, DaysAdd
<1>5. program.times \subseteq 0..(DayLength - 1)
  BY TimesTyped
<1>6. ASSUME NEW v \in program.times
      PROVE  /\ v \in 0..(DayLength - 1) /\ (Late = -2 => v < jump.unit \/ v >= jump.unit + 2)
             /\ Preview!Instant(d, v) = DayLength * d + v + (IF d > jump.day \/ (d = jump.day /\ v >= jump.unit + 2) THEN Late ELSE 0)
  <2>1. v \in 0..(DayLength - 1)
    BY <1>5
  <2>2. Preview!Instant(d, v) = DayLength * d + v + (IF d > jump.day \/ (d = jump.day /\ v >= jump.unit + 2) THEN Late ELSE 0)
    BY <2>1, InstantIs
  <2>3. Late = -2 => v < jump.unit \/ v >= jump.unit + 2
    BY <1>1, <1>2, <2>1 DEF Skipped
  <2> QED BY <2>1, <2>2, <2>3
<1> DEFINE P == DayLength * d
<1>7. P \in Int
  BY <1>4
<1>8. ASSUME NEW v \in program.times
      PROVE  /\ Preview!Instant(d, v) \in Int /\ Preview!Instant(d, 0) <= Preview!Instant(d, v)
             /\ Preview!Instant(d, v) < Preview!Instant(d + 1, 0)
  <2>1. /\ v \in 0..(DayLength - 1) /\ (Late = -2 => v < jump.unit \/ v >= jump.unit + 2)
        /\ Preview!Instant(d, v) = P + v + (IF d > jump.day \/ (d = jump.day /\ v >= jump.unit + 2) THEN Late ELSE 0)
    BY <1>6
  <2>2. /\ Preview!Instant(d, 0) = P + (IF d > jump.day THEN Late ELSE 0)
        /\ Preview!Instant(d + 1, 0) = P + DayLength + (IF d + 1 > jump.day THEN Late ELSE 0)
    BY <1>3, <1>4
  <2> HIDE DEF P
  <2> QED BY <1>1, <1>2, <1>7, <2>1, <2>2
<1>9. ASSUME NEW v \in program.times, w < v PROVE Preview!Instant(d, w) < Preview!Instant(d, v)
  <2>1. /\ v \in 0..(DayLength - 1) /\ (Late = -2 => v < jump.unit \/ v >= jump.unit + 2)
        /\ Preview!Instant(d, v) = P + v + (IF d > jump.day \/ (d = jump.day /\ v >= jump.unit + 2) THEN Late ELSE 0)
    BY <1>6
  <2>2. /\ w \in 0..(DayLength - 1) /\ (Late = -2 => w < jump.unit \/ w >= jump.unit + 2)
        /\ Preview!Instant(d, w) = P + w + (IF d > jump.day \/ (d = jump.day /\ w >= jump.unit + 2) THEN Late ELSE 0)
    BY <1>6
  <2> HIDE DEF P
  <2> QED BY <1>1, <1>2, <1>7, <1>9, <2>1, <2>2
<1> QED BY <1>8, <1>9

\* The day of an instant is the one whose midnight is the last that has passed.
LEMMA DayIs ==
  ASSUME Preview!PreviewAssumption, PreviewInd, NEW t \in Int, NEW d \in 0..(LastStart + Horizon + 1),
         Preview!Instant(d, 0) <= t, t < Preview!Instant(d + 1, 0)
  PROVE  Preview!Day(t) = d
PROOF
<1> DEFINE Past == {e \in 0..(LastStart + Horizon + 1) : Preview!Instant(e, 0) <= t}
<1>1. LastStart \in Nat /\ Horizon \in Nat
  BY DEF Preview!PreviewAssumption
<1>2. d \in Past /\ d \in Int
  BY <1>1
<1>3. \A e \in Past : e <= d /\ e \in Int
  <2> TAKE e \in Past
  <2>1. e \in Int /\ d \in Int /\ Preview!Instant(e, 0) <= t
    BY <1>1
  <2>2. e > d => e = d + 1 \/ d + 1 < e
    BY <2>1
  <2>3. e > d => Preview!Instant(d + 1, 0) <= Preview!Instant(e, 0)
    BY <2>1, <2>2, MidnightsFollow
  <2> QED BY <2>1, <2>3, MidnightsFollow
<1> HIDE DEF Past
<1>4. \A e \in Past : (\A x \in Past : e >= x) <=> e = d
  BY <1>2, <1>3
<1>5. (CHOOSE e \in Past : \A x \in Past : e >= x) = d
  BY <1>2, <1>4
<1> QED BY <1>5 DEF Preview!Day, Preview!Max, Past

\* There is a last midnight, not after as many days as instants have passed.
LEMMA DayExists ==
  ASSUME Preview!PreviewAssumption, PreviewInd
  PROVE  \E d \in 0..LastStart : Preview!Instant(d, 0) <= now /\ now < Preview!Instant(d + 1, 0)
PROOF
<1> DEFINE Unreached == {e \in Nat : now < Preview!Instant(e, 0)}
<1>1. now \in Nat /\ LastStart \in Nat /\ now <= LastStart
  BY DEF PreviewInd, Preview!PreviewAssumption
<1>2. now + 1 \in Unreached /\ Unreached \in SUBSET Nat
  BY <1>1, MidnightsFollow
<1>3. PICK n \in Unreached : \A e \in Unreached : n <= e
  <2> HIDE DEF Unreached
  <2> QED BY <1>2, Least
<1>4. n # 0 /\ n \in Nat /\ n - 1 \in Nat /\ n - 1 \notin Unreached /\ n - 1 \in Int
  BY <1>1, <1>3, MidnightsFollow
<1>5. Preview!Instant(n - 1, 0) <= now /\ Preview!Instant(n - 1, 0) >= n - 1 /\ Preview!Instant(n - 1, 0) \in Int
  BY <1>1, <1>4, MidnightsFollow
<1>6. n - 1 \in 0..LastStart /\ (n - 1) + 1 = n
  BY <1>1, <1>4, <1>5
<1>7. now < Preview!Instant((n - 1) + 1, 0)
  BY <1>3, <1>6
<1> QED BY <1>5, <1>6, <1>7

\* Whether an interval's day is one of its program's the browser finds out from two
\* midnights, and as the executor does from two dates (ruleMatchesDay, schedule.ts;
\* _matches_day, scheduler.py).
LEMMA RulesAgree ==
  ASSUME Preview!PreviewAssumption, PreviewInd, NEW d \in Int
  PROVE  Preview!RuleMatchesDay(d) <=> Preview!MatchesDay(d)
PROOF
<1>1. CASE program.type = "days_of_week"
  BY <1>1 DEF Preview!RuleMatchesDay, Preview!MatchesDay
<1>2. CASE program.type # "days_of_week"
  <2>1. program.anchor \in Int
    BY <1>2 DEF PreviewInd, Preview!AllPrograms, Preview!PreviewAssumption
  <2> DEFINE a == program.anchor
  <2>2. Preview!Instant(d, 0) - Preview!Instant(a, 0) \in {DayLength * (d - a) + s : s \in {-2, 0, 2}}
    <3>1. /\ Preview!Instant(d, 0) = DayLength * d + (IF d > jump.day THEN Late ELSE 0)
          /\ Preview!Instant(a, 0) = DayLength * a + (IF a > jump.day THEN Late ELSE 0)
      BY <2>1, MidnightIs
    <3>2. DayLength * (d - a) = DayLength * d - DayLength * a /\ DayLength * d \in Int /\ DayLength * a \in Int
      BY <2>1 DEF Preview!PreviewAssumption
    <3> DEFINE P == DayLength * d
               Q == DayLength * a
    <3>3. P \in Int /\ Q \in Int /\ Late \in {-2, 0, 2}
      BY <3>2, JumpTyped
    <3> HIDE DEF P, Q
    <3>4. (P + (IF d > jump.day THEN Late ELSE 0)) - (Q + (IF a > jump.day THEN Late ELSE 0)) \in {P - Q + s : s \in {-2, 0, 2}}
      BY <3>3
    <3> QED BY <3>1, <3>2, <3>4 DEF P, Q
  <2>3. PICK s \in {-2, 0, 2} : Preview!Instant(d, 0) - Preview!Instant(a, 0) = DayLength * (d - a) + s
    BY <2>2
  <2>4. Preview!RoundDays(Preview!Instant(d, 0) - Preview!Instant(a, 0)) = d - a
    BY <2>1, <2>3, RoundedRight
  <2>5. d - a >= 0 <=> d >= a
    BY <2>1
  <2> QED BY <1>2, <2>4, <2>5 DEF Preview!RuleMatchesDay, Preview!MatchesDay
<1> QED BY <1>1, <1>2

\* The start times of a day that are still to come, and the days of the horizon that
\* have any.
StillToCome(d) == {w \in program.times : Preview!At(d, w) > now}
DaysToCome == {d \in Preview!Day(now)..(Preview!Day(now) + Horizon - 1) : Preview!RuleMatchesDay(d) /\ StillToCome(d) # {}}

\* The least of some numbers is the only one that no other is below.
LEMMA MinIs == ASSUME NEW S \in SUBSET Int, NEW m \in S, \A x \in S : m <= x PROVE Preview!Min(S) = m
PROOF
<1>1. \A e \in S : (\A x \in S : e <= x) <=> e = m
  OBVIOUS
<1>2. (CHOOSE e \in S : \A x \in S : e <= x) = m
  BY <1>1
<1> QED BY <1>2 DEF Preview!Min

\* Where no start time is jumped over, the occurrences the executor will find are the
\* start times still to come.
LEMMA OccurrencesAre ==
  ASSUME Preview!PreviewAssumption, PreviewInd, ~Skipped, NEW today \in 0..LastStart,
         Preview!Instant(today, 0) <= now, now < Preview!Instant(today + 1, 0),
         NEW t
  PROVE  t \in Preview!OccurrencesBetween(now, Preview!Instant(today + Horizon, 0) - 1)
           <=> \E d \in today..(today + Horizon - 1), w \in program.times :
                 Preview!MatchesDay(d) /\ now < Preview!Instant(d, w) /\ t = Preview!Instant(d, w)
PROOF
<1> DEFINE end == Preview!Instant(today + Horizon, 0) - 1
<1>1. today \in Nat /\ Horizon \in Nat /\ Horizon > 0 /\ LastStart \in Nat /\ today <= LastStart /\ now \in Nat
  BY DEF Preview!PreviewAssumption, PreviewInd
<1>2. Preview!Day(now) = today
  BY <1>1, DayIs
<1>3. Preview!Day(end) = today + Horizon - 1
  <2>1. today + Horizon - 1 \in 0..(LastStart + Horizon + 1) /\ (today + Horizon - 1) + 1 = today + Horizon
        /\ today + Horizon - 1 < today + Horizon /\ today + Horizon - 1 \in Int /\ today + Horizon \in Int
    BY <1>1
  <2>2. /\ Preview!Instant(today + Horizon - 1, 0) \in Int /\ Preview!Instant(today + Horizon, 0) \in Int
        /\ Preview!Instant(today + Horizon - 1, 0) < Preview!Instant(today + Horizon, 0)
    BY <2>1, MidnightsFollow
  <2>3. end \in Int /\ Preview!Instant(today + Horizon - 1, 0) <= end /\ end < Preview!Instant((today + Horizon - 1) + 1, 0)
    BY <2>1, <2>2
  <2> HIDE DEF end
  <2> QED BY <2>1, <2>3, DayIs
<1>4. ASSUME NEW d \in (today - 1)..(today + Horizon - 1 + 1), NEW w \in program.times,
             now < Preview!Instant(d, w), Preview!Instant(d, w) <= end
      PROVE  d \in today..(today + Horizon - 1)
  <2>1. d \in Int /\ (d = today - 1 => d + 1 = today) /\ today + Horizon \in Int
    BY <1>1
  <2>2. /\ Preview!Instant(d, w) \in Int /\ Preview!Instant(d, 0) <= Preview!Instant(d, w)
        /\ Preview!Instant(d, w) < Preview!Instant(d + 1, 0)
    BY <2>1, TimesFollow
  <2>3. Preview!Instant(today, 0) \in Int /\ Preview!Instant(today + Horizon, 0) \in Int /\ Preview!Instant(d, 0) \in Int
    BY <1>1, <2>1, MidnightsFollow
  <2>4. d # today - 1
    BY <1>1, <1>4, <2>1, <2>2, <2>3
  <2>5. d # today + Horizon
    BY <1>4, <2>2, <2>3
  <2> QED BY <1>1, <2>4, <2>5
<1>5. ASSUME NEW d \in today..(today + Horizon - 1), NEW w \in program.times, now < Preview!Instant(d, w)
      PROVE  Preview!Instant(d, w) <= end /\ d \in (today - 1)..(today + Horizon - 1 + 1)
  <2>1. d \in Int /\ d + 1 \in Int /\ today + Horizon \in Int /\ (d + 1 = today + Horizon \/ d + 1 < today + Horizon)
    BY <1>1
  <2>2. Preview!Instant(d, w) \in Int /\ Preview!Instant(d, w) < Preview!Instant(d + 1, 0)
    BY <2>1, TimesFollow
  <2>3. /\ Preview!Instant(d + 1, 0) \in Int /\ Preview!Instant(today + Horizon, 0) \in Int
        /\ Preview!Instant(d + 1, 0) <= Preview!Instant(today + Horizon, 0)
    BY <2>1, MidnightsFollow
  <2>4. d \in (today - 1)..(today + Horizon - 1 + 1)
    BY <1>1
  <2> QED BY <2>2, <2>3, <2>4
<1>6. t \in Preview!OccurrencesBetween(now, end)
        <=> \E d \in (today - 1)..(today + Horizon - 1 + 1), w \in program.times :
              Preview!MatchesDay(d) /\ t = Preview!Instant(d, w) /\ now < t /\ t <= end
  <2> HIDE DEF end
  <2> QED BY <1>2, <1>3 DEF Preview!OccurrencesBetween
<1> HIDE DEF end
<1> QED BY <1>4, <1>5, <1>6 DEF end

\* So the first start time to come, of the first day that has one, is the next
\* occurrence.
LEMMA PreviewIsNext == ASSUME Preview!PreviewAssumption, PreviewInd PROVE Preview!PreviewAgrees
PROOF
<1>1. SUFFICES ASSUME ~Skipped
               PROVE  LET soon == Preview!OccurrencesBetween(now, Preview!Instant(Preview!Day(now) + Horizon, 0) - 1)
                      IN Preview!NextOccurrence = IF soon = {} THEN Preview!Never ELSE Preview!Min(soon)
  BY DEF Preview!PreviewAgrees, Skipped
<1>2. PICK today \in 0..LastStart : Preview!Instant(today, 0) <= now /\ now < Preview!Instant(today + 1, 0)
  BY DayExists
<1>3. today \in Nat /\ Horizon \in Nat /\ Horizon > 0 /\ LastStart \in Nat /\ today <= LastStart /\ now \in Nat
  BY DEF Preview!PreviewAssumption, PreviewInd
<1>4. Preview!Day(now) = today
  BY <1>2, <1>3, DayIs
<1> DEFINE Soon == Preview!OccurrencesBetween(now, Preview!Instant(today + Horizon, 0) - 1)
<1>5. \A t : t \in Soon <=> \E d \in today..(today + Horizon - 1), w \in program.times :
                              Preview!MatchesDay(d) /\ now < Preview!Instant(d, w) /\ t = Preview!Instant(d, w)
  BY <1>1, <1>2, OccurrencesAre
<1> HIDE DEF Soon
<1>6. \A d, w : Preview!At(d, w) = Preview!Instant(d, w)
  BY <1>1 DEF Preview!At, Skipped
<1>7. \A d : StillToCome(d) = {w \in program.times : Preview!Instant(d, w) > now}
  BY <1>6 DEF StillToCome
<1>8. DaysToCome = {d \in today..(today + Horizon - 1) : Preview!RuleMatchesDay(d) /\ StillToCome(d) # {}}
  BY <1>4 DEF DaysToCome
<1>9. Preview!NextOccurrence
        = IF DaysToCome = {} THEN Preview!Never
          ELSE Preview!At(Preview!Min(DaysToCome), Preview!Min(StillToCome(Preview!Min(DaysToCome))))
  BY DEF Preview!NextOccurrence, DaysToCome, StillToCome
<1>10. \A d \in today..(today + Horizon - 1), w \in program.times : Preview!Instant(d, w) \in Int
  BY <1>1, <1>3, TimesFollow
<1>11. CASE DaysToCome = {}
  <2>1. Soon = {}
    <3> SUFFICES ASSUME NEW t \in Soon PROVE FALSE
      OBVIOUS
    <3>1. PICK d \in today..(today + Horizon - 1), w \in program.times :
            Preview!MatchesDay(d) /\ now < Preview!Instant(d, w) /\ t = Preview!Instant(d, w)
      BY <1>5
    <3>2. Preview!RuleMatchesDay(d)
      BY <1>3, <3>1, RulesAgree
    <3>3. w \in StillToCome(d)
      BY <1>3, <1>7, <1>10, <3>1
    <3> QED BY <1>8, <1>11, <3>2, <3>3
  <2> QED BY <1>4, <1>9, <1>11, <2>1 DEF Soon
<1>12. CASE DaysToCome # {}
  <2>1. DaysToCome \in SUBSET Nat
    BY <1>3, <1>8
  <2>2. PICK m \in DaysToCome : \A d \in DaysToCome : m <= d
    BY <1>12, <2>1, Least
  <2>3. Preview!Min(DaysToCome) = m
    BY <2>1, <2>2, MinIs
  <2>4. StillToCome(m) \in SUBSET Nat /\ StillToCome(m) # {}
    BY <1>7, <1>8, <2>2, TimesTyped
  <2>5. PICK u \in StillToCome(m) : \A w \in StillToCome(m) : u <= w
    BY <2>4, Least
  <2>6. Preview!Min(StillToCome(m)) = u
    BY <2>4, <2>5, MinIs
  <2>7. /\ u \in program.times /\ now < Preview!Instant(m, u) /\ m \in today..(today + Horizon - 1) /\ m \in Int
        /\ Preview!Instant(m, u) \in Int /\ u \in Nat
    BY <1>3, <1>7, <1>8, <1>10, <2>2, <2>4, <2>5
  <2>8. Preview!Instant(m, u) \in Soon
    <3>1. Preview!MatchesDay(m)
      BY <1>8, <2>2, <2>7, RulesAgree
    <3> QED BY <1>5, <2>7, <3>1
  <2>9. ASSUME NEW t \in Soon PROVE t \in Int /\ Preview!Instant(m, u) <= t
    <3>1. PICK d \in today..(today + Horizon - 1), w \in program.times :
            Preview!MatchesDay(d) /\ now < Preview!Instant(d, w) /\ t = Preview!Instant(d, w)
      BY <1>5
    <3>2. d \in Int /\ Preview!Instant(d, w) \in Int /\ w \in Nat
      BY <1>3, <1>10, TimesTyped
    <3>3. d \in DaysToCome /\ w \in StillToCome(d)
      BY <1>3, <1>7, <1>8, <3>1, <3>2, RulesAgree
    <3>4. m < d \/ m = d
      BY <2>2, <2>7, <3>2, <3>3
    <3>5. CASE m < d
      <4>1. Preview!Instant(m, u) < Preview!Instant(m + 1, 0)
        BY <1>1, <2>7, TimesFollow
      <4>2. Preview!Instant(d, 0) <= Preview!Instant(d, w)
        BY <1>1, <3>2, TimesFollow
      <4>3. m + 1 = d \/ m + 1 < d
        BY <2>7, <3>2, <3>5
      <4>4. /\ Preview!Instant(m + 1, 0) \in Int /\ Preview!Instant(d, 0) \in Int
            /\ Preview!Instant(m + 1, 0) <= Preview!Instant(d, 0)
        BY <2>7, <3>2, <4>3, MidnightsFollow
      <4> QED BY <2>7, <3>1, <3>2, <4>1, <4>2, <4>4
    <3>6. CASE m = d
      <4>1. u < w \/ u = w
        BY <2>5, <2>7, <3>2, <3>3, <3>6
      <4>2. u < w => Preview!Instant(m, u) < Preview!Instant(m, w)
        BY <1>1, <2>7, TimesFollow
      <4> QED BY <2>7, <3>1, <3>2, <3>6, <4>1, <4>2
    <3> QED BY <3>4, <3>5, <3>6
  <2>10. Soon \in SUBSET Int
    BY <2>9
  <2>11. Preview!Min(Soon) = Preview!Instant(m, u)
    BY <2>8, <2>9, <2>10, MinIs
  <2>12. Preview!NextOccurrence = Preview!Instant(m, u)
    BY <1>6, <1>9, <1>12, <2>3, <2>6
  <2> QED BY <1>4, <2>8, <2>11, <2>12 DEF Soon
<1> QED BY <1>11, <1>12

\* The program and the zone stay what they are while time passes.
LEMMA PreviewInvariant ==
  ASSUME Preview!PreviewAssumption PROVE Preview!Spec => []Preview!PreviewAgrees
PROOF
<1>1. Preview!Init => PreviewInd
  BY DEF Preview!Init, PreviewInd, Preview!PreviewAssumption
<1>2. PreviewInd /\ [Preview!Tick]_(Preview!vars) => PreviewInd'
  BY DEF Preview!Tick, Preview!vars, PreviewInd, Preview!PreviewAssumption
<1>3. PreviewInd => Preview!PreviewAgrees
  BY PreviewIsNext
<1> QED BY <1>1, <1>2, <1>3, PTL DEF Preview!Spec

-----------------------------------------------------------------------------
(* What the runs check of the pages, for any instance of them: of the      *)
(* composition, whichever of its components runs.                          *)

\* Where the search box runs, its steps are the composition's.
LEMMA SearchGoes == Spec => []~(part = "search") \/ ([](part = "search") /\ Search!Spec)
PROOF
<1>1. part = "search" /\ [Next]_vars => (part = "search")' /\ [Search!Next]_(Search!vars)
  BY DEF Next, StayUnused, vars, Search!vars
<1>2. ~(part = "search") /\ [Next]_vars => ~(part = "search")'
  BY DEF Next, StayUnused, vars
<1>3. Init /\ part = "search" => Search!Init
  BY DEF Init
<1> QED BY <1>1, <1>2, <1>3, PTL DEF Spec, Search!Spec

\* Where the weather form runs, its steps are the composition's.
LEMMA WeatherGoes == Spec => []~(part = "weather") \/ ([](part = "weather") /\ WeatherForm!Spec)
PROOF
<1>1. part = "weather" /\ [Next]_vars => (part = "weather")' /\ [WeatherForm!Next]_(WeatherForm!vars)
  BY DEF Next, StayUnused, vars, WeatherForm!vars
<1>2. ~(part = "weather") /\ [Next]_vars => ~(part = "weather")'
  BY DEF Next, StayUnused, vars
<1>3. Init /\ part = "weather" => WeatherForm!Init
  BY DEF Init
<1> QED BY <1>1, <1>2, <1>3, PTL DEF Spec, WeatherForm!Spec

\* Where the program editor runs, its steps are the composition's.
LEMMA ProgramGoes == Spec => []~(part = "program") \/ ([](part = "program") /\ ProgramEditor!Spec)
PROOF
<1>1. part = "program" /\ [Next]_vars => (part = "program")' /\ [ProgramEditor!Next]_(ProgramEditor!vars)
  BY DEF Next, StayUnused, vars, ProgramEditor!vars
<1>2. ~(part = "program") /\ [Next]_vars => ~(part = "program")'
  BY DEF Next, StayUnused, vars
<1>3. Init /\ part = "program" => ProgramEditor!Init
  BY DEF Init
<1> QED BY <1>1, <1>2, <1>3, PTL DEF Spec, ProgramEditor!Spec

\* Where the dashboard runs, its steps are the composition's.
LEMMA DashboardGoes == Spec => []~(part = "dashboard") \/ ([](part = "dashboard") /\ DashboardSteps)
PROOF
<1>1. part = "dashboard" /\ [Next]_vars => (part = "dashboard")' /\ [Dashboard!Next]_(Dashboard!vars)
  BY DEF Next, StayUnused, vars, Dashboard!vars
<1>2. ~(part = "dashboard") /\ [Next]_vars => ~(part = "dashboard")'
  BY DEF Next, StayUnused, vars
<1>3. Init /\ part = "dashboard" => Dashboard!Init
  BY DEF Init
<1> QED BY <1>1, <1>2, <1>3, PTL DEF Spec, DashboardSteps

\* Where the map's editor runs, its steps are the composition's.
LEMMA MapGoes == Spec => []~(part = "map") \/ ([](part = "map") /\ MapEditor!Spec)
PROOF
<1>1. part = "map" /\ [Next]_vars => (part = "map")' /\ [MapEditor!Next]_(MapEditor!vars)
  BY DEF Next, StayUnused, vars, MapEditor!vars
<1>2. ~(part = "map") /\ [Next]_vars => ~(part = "map")'
  BY DEF Next, StayUnused, vars
<1>3. Init /\ part = "map" => MapEditor!Init
  BY DEF Init
<1> QED BY <1>1, <1>2, <1>3, PTL DEF Spec, MapEditor!Spec

\* Where the zone list runs, its steps are the composition's.
LEMMA ZonesGoes == Spec => []~(part = "zones") \/ ([](part = "zones") /\ ZonesManager!Spec)
PROOF
<1>1. part = "zones" /\ [Next]_vars => (part = "zones")' /\ [ZonesManager!Next]_(ZonesManager!vars)
  BY DEF Next, StayUnused, vars, ZonesManager!vars
<1>2. ~(part = "zones") /\ [Next]_vars => ~(part = "zones")'
  BY DEF Next, StayUnused, vars
<1>3. Init /\ part = "zones" => ZonesManager!Init
  BY DEF Init
<1> QED BY <1>1, <1>2, <1>3, PTL DEF Spec, ZonesManager!Spec

\* Where the preview runs, its steps are the composition's.
LEMMA PreviewGoes == Spec => []~(part = "preview") \/ ([](part = "preview") /\ Preview!Spec)
PROOF
<1>1. part = "preview" /\ [Next]_vars => (part = "preview")' /\ [Preview!Tick]_(Preview!vars)
  BY DEF Next, StayUnused, vars, Preview!vars
<1>2. ~(part = "preview") /\ [Next]_vars => ~(part = "preview")'
  BY DEF Next, StayUnused, vars
<1>3. Init /\ part = "preview" => Preview!Init
  BY DEF Init
<1> QED BY <1>1, <1>2, <1>3, PTL DEF Spec, Preview!Spec

\* Where the list of schedules runs, its steps are the composition's.
LEMMA SchedulesGoes == Spec => []~(part = "schedules") \/ ([](part = "schedules") /\ Schedules!Spec)
PROOF
<1>1. part = "schedules" /\ [Next]_vars => (part = "schedules")' /\ [Schedules!Next]_(Schedules!vars)
  BY DEF Next, StayUnused, vars, Schedules!vars
<1>2. ~(part = "schedules") /\ [Next]_vars => ~(part = "schedules")'
  BY DEF Next, StayUnused, vars
<1>3. Init /\ part = "schedules" => Schedules!Init
  BY DEF Init
<1> QED BY <1>1, <1>2, <1>3, PTL DEF Spec, Schedules!Spec

\* Where the quick-run dialog runs, its steps are the composition's.
LEMMA QuickRunGoes == Spec => []~(part = "quick run") \/ ([](part = "quick run") /\ QuickRun!Spec)
PROOF
<1>1. part = "quick run" /\ [Next]_vars => (part = "quick run")' /\ [QuickRun!Next]_(QuickRun!vars)
  BY DEF Next, StayUnused, vars, QuickRun!vars
<1>2. ~(part = "quick run") /\ [Next]_vars => ~(part = "quick run")'
  BY DEF Next, StayUnused, vars
<1>3. Init /\ part = "quick run" => QuickRun!Init
  BY DEF Init
<1> QED BY <1>1, <1>2, <1>3, PTL DEF Spec, QuickRun!Spec

\* Where the first web app runs, its steps are the composition's.
LEMMA LegacyGoes == Spec => []~(part = "legacy app") \/ ([](part = "legacy app") /\ LegacyApp!Spec)
PROOF
<1>1. part = "legacy app" /\ [Next]_vars => (part = "legacy app")' /\ [LegacyApp!Next]_(LegacyApp!vars)
  BY DEF Next, StayUnused, vars, LegacyApp!vars
<1>2. ~(part = "legacy app") /\ [Next]_vars => ~(part = "legacy app")'
  BY DEF Next, StayUnused, vars
<1>3. Init /\ part = "legacy app" => LegacyApp!Init
  BY DEF Init
<1> QED BY <1>1, <1>2, <1>3, PTL DEF Spec, LegacyApp!Spec

\* Where the history runs, its steps are the composition's.
LEMMA HistoryGoes == Spec => []~(part = "history") \/ ([](part = "history") /\ History!Spec)
PROOF
<1>1. part = "history" /\ [Next]_vars => (part = "history")' /\ [History!Next]_(History!vars)
  BY DEF Next, StayUnused, vars, History!vars
<1>2. ~(part = "history") /\ [Next]_vars => ~(part = "history")'
  BY DEF Next, StayUnused, vars
<1>3. Init /\ part = "history" => History!Init
  BY DEF Init
<1> QED BY <1>1, <1>2, <1>3, PTL DEF Spec, History!Spec

\* "Never resolves out of order" (search-control.tsx): the results of an older text never
\* replace a newer one's, for any number of requests under way and texts typed.
THEOREM NeverOutOfOrderHolds == Spec => NeverOutOfOrder
PROOF
<1>1. Search!Spec => [][Search!FoundGrows]_(Search!vars)
  BY NewestResultsStay, SearchParts DEF Search!NeverOutOfOrder
<1>2. [Next]_vars /\ (~(part = "search") \/ [Search!FoundGrows]_(Search!vars)) => [part = "search" => Search!FoundGrows]_vars
  BY DEF Next, StayUnused, vars, Search!vars
<1> QED BY <1>1, <1>2, SearchGoes, PTL DEF Spec, NeverOutOfOrder

\* "Display rounding can't drift what gets saved" (weather-settings.tsx): a field that the
\* admin did not edit is saved as it is stored, however often the unit has flipped
\* and whichever saves and refreshes have come and gone, for any values and texts.
THEOREM UntouchedStaysExactHolds == Spec => []UntouchedStaysExact
PROOF
<1>1. WeatherForm!Spec => []WeatherForm!UntouchedStaysExact
  BY RoundingNeverSaved, WeatherParts
<1>2. ~(part = "weather") \/ WeatherForm!UntouchedStaysExact => UntouchedStaysExact
  BY DEF UntouchedStaysExact
<1> QED BY <1>1, <1>2, WeatherGoes, PTL

\* The form's bounds in inches and degrees Fahrenheit, rounded for display, pass the
\* metric limits of validateWeatherSettingsInput, for any values and texts.
THEOREM AdvertisedAcceptedHolds == Spec => []AdvertisedAccepted
PROOF
<1>1. WeatherForm!Spec => []WeatherForm!AdvertisedAccepted
  BY AdvertisedSaved, WeatherParts
<1>2. ~(part = "weather") \/ WeatherForm!AdvertisedAccepted => AdvertisedAccepted
  BY DEF AdvertisedAccepted
<1> QED BY <1>1, <1>2, WeatherGoes, PTL

\* An edit never switches a program on or off (program-editor.tsx sends the switch as the
\* page read it): a save changes the switch only when somebody else has changed it
\* since, whatever is edited and whatever the others write in the meantime.
THEOREM SwitchKeptHolds == Spec => SwitchKept
PROOF
<1>1. ProgramEditor!Spec => [][ProgramEditor!SaveKeepsSwitch]_(ProgramEditor!vars)
  BY EditKeepsSwitch DEF ProgramEditor!SwitchKept
<1>2. [Next]_vars /\ (~(part = "program") \/ [ProgramEditor!SaveKeepsSwitch]_(ProgramEditor!vars)) => [part = "program" => ProgramEditor!SaveKeepsSwitch]_vars
  BY DEF Next, StayUnused, vars, ProgramEditor!vars
<1> QED BY <1>1, <1>2, ProgramGoes, PTL DEF Spec, SwitchKept

\* The countdown of a run never ends before the run, however late its answer landed
\* (use-live-status.ts counts every answer down from its own arrival; App.tsx likewise), for
\* any polls, commands, other users and durations.
THEOREM NeverShownShortHolds == Spec => []NeverShownShort
PROOF
<1>1. DashboardSteps => []Dashboard!NeverShownShort
  BY NotShownShort, DashboardParts
<1>2. LegacyApp!Spec => []LegacyApp!NeverShownShort
  BY LegacyNotShownShort, LegacyParts
<1>3. /\ ~(part = "dashboard") \/ Dashboard!NeverShownShort
      /\ ~(part = "legacy app") \/ LegacyApp!NeverShownShort
      => NeverShownShort
  BY DEF NeverShownShort
<1> QED BY <1>1, <1>2, <1>3, DashboardGoes, LegacyGoes, PTL

\* A zone starts with minutes picked in its own row or with the default (selectZone,
\* dashboard.tsx): a choice made for another zone never carries over, whatever is
\* selected while commands and their refetches are under way.
THEOREM StartedAsChosenHolds == Spec => []StartedAsChosen
PROOF
<1>1. DashboardSteps => []Dashboard!StartedAsChosen
  BY OwnMinutesStart, DashboardParts
<1>2. ~(part = "dashboard") \/ Dashboard!StartedAsChosen => StartedAsChosen
  BY DEF StartedAsChosen
<1> QED BY <1>1, <1>2, DashboardGoes, PTL

\* runCommand (use-live-status.ts; App.tsx) returns success only when the page shows the yard
\* as it was after the command or later, or says that it is offline, whichever polls
\* land meanwhile.
THEOREM VerifiedAtReturnHolds == Spec => VerifiedAtReturn
PROOF
<1>1. DashboardSteps => [][Dashboard!ReturnsVerified]_(Dashboard!vars)
  BY CommandsVerified, DashboardParts DEF Dashboard!VerifiedAtReturn
<1>2. LegacyApp!Spec => [][LegacyApp!ReturnsVerified]_(LegacyApp!vars)
  BY LegacyCommandsVerified, LegacyParts
<1>3. /\ [Next]_vars
      /\ ~(part = "dashboard") \/ [Dashboard!ReturnsVerified]_(Dashboard!vars)
      /\ ~(part = "legacy app") \/ [LegacyApp!ReturnsVerified]_(LegacyApp!vars)
      => [(part = "dashboard" => Dashboard!ReturnsVerified) /\ (part = "legacy app" => LegacyApp!ReturnsVerified)]_vars
  BY DEF Next, StayUnused, vars, Dashboard!vars, LegacyApp!vars
<1> QED BY <1>1, <1>2, <1>3, DashboardGoes, LegacyGoes, PTL DEF Spec, VerifiedAtReturn

\* Save, which prefers the pin, saves what is on the map (map-page-client.tsx): a pin and a
\* polygon are never drafted together, whichever answers arrive while drawing, for
\* any zones and updates under way.
THEOREM OneDraftHolds == Spec => []OneDraft
PROOF
<1>1. MapEditor!Spec => []MapEditor!OneDraft
  BY OneDraftOnly, MapParts
<1>2. ~(part = "map") \/ MapEditor!OneDraft => OneDraft
  BY DEF OneDraft
<1> QED BY <1>1, <1>2, MapGoes, PTL

\* No zone is ever stored with a placement drawn for another (save,
\* map-page-client.tsx), whatever is selected when it is sent, applied or answered.
THEOREM DrawnForZoneHolds == Spec => []DrawnForZone
PROOF
<1>1. MapEditor!Spec => []MapEditor!DrawnForZone
  BY PlacedWhereDrawn, MapParts
<1>2. ~(part = "map") \/ MapEditor!DrawnForZone => DrawnForZone
  BY DEF DrawnForZone
<1> QED BY <1>1, <1>2, MapGoes, PTL

\* Updates answered one at a time leave the page showing what is stored
\* (save and clearGeometry, map-page-client.tsx), also when another zone is selected by then.
THEOREM ShownIsStoredHolds == Spec => []ShownIsStored
PROOF
<1>1. MapEditor!Spec => []MapEditor!ShownIsStored
  BY MapShowsStored, MapParts
<1>2. ~(part = "map") \/ MapEditor!ShownIsStored => ShownIsStored
  BY DEF ShownIsStored
<1> QED BY <1>1, <1>2, MapGoes, PTL

\* Renaming and switching a zone at once loses neither (mutate, zones-manager.tsx): a
\* cell that nobody else writes, whose own changes have not overlapped and whose
\* answers have all come, shows what is stored, for any zones, names and requests.
THEOREM ListAgreesHolds == Spec => []ListAgrees
PROOF
<1>1. ZonesManager!Spec => []ZonesManager!ListAgrees
  BY ListTrue, ZonesParts
<1>2. ~(part = "zones") \/ ZonesManager!ListAgrees => ListAgrees
  BY DEF ListAgrees
<1> QED BY <1>1, <1>2, ZonesGoes, PTL

\* What the user has deleted stays off the list (setPrograms, schedules-manager.tsx):
\* no late answer brings it back, for any programs, requests under way and other
\* admins.
THEOREM DeletedStaysGoneHolds == Spec => DeletedStaysGone
PROOF
<1>1. Schedules!Spec => [][Schedules!GoneStays]_(Schedules!vars)
  BY DeletedNeverReturns, SchedulesParts DEF Schedules!DeletedStaysGone
<1>2. [Next]_vars /\ (~(part = "schedules") \/ [Schedules!GoneStays]_(Schedules!vars)) => [part = "schedules" => Schedules!GoneStays]_vars
  BY DEF Next, StayUnused, vars, Schedules!vars
<1> QED BY <1>1, <1>2, SchedulesGoes, PTL DEF Spec, DeletedStaysGone

\* A quick run the dialog submits is one the route accepts as long as the dialog shows
\* the zones as they are (submit, quick-run-dialog.tsx; POST, quick-run/route.ts), for
\* any minutes typed and any number of zones up to the twenty steps the route takes.
THEOREM ShownIsAcceptedHolds == ASSUME Cardinality(Zones) <= 20 PROVE Spec => ShownIsAccepted
PROOF
<1>1. QuickRun!Spec => [][QuickRun!SubmitsAccepted]_(QuickRun!vars)
  BY SubmittedIsAccepted, QuickRunParts DEF QuickRun!ShownIsAccepted
<1>2. [Next]_vars /\ (~(part = "quick run") \/ [QuickRun!SubmitsAccepted]_(QuickRun!vars)) => [part = "quick run" => QuickRun!SubmitsAccepted]_vars
  BY DEF Next, StayUnused, vars, QuickRun!vars
<1> QED BY <1>1, <1>2, QuickRunGoes, PTL DEF Spec, ShownIsAccepted

\* What passed the form's checks (validate, program-editor.tsx) passes the route's
\* (validateProgramInput, validation.ts) but for a date that does not exist and a step
\* whose zone has been disabled since: for any zones, times typed in any order, and
\* whatever others write while the form is open.
THEOREM ValidIsAcceptedHolds == Spec => []ValidIsAccepted
PROOF
<1>1. ProgramEditor!Spec => []ProgramEditor!ValidIsAccepted
  BY ValidPasses, ProgramParts
<1>2. ~(part = "program") \/ ProgramEditor!ValidIsAccepted => ValidIsAccepted
  BY DEF ValidIsAccepted
<1> QED BY <1>1, <1>2, ProgramGoes, PTL

\* The history says that nothing matches (history-list.tsx) only when nothing did as the
\* page was read, for any runs, filters, page size and loads under way, and whatever
\* is recorded meanwhile, unless answers have crossed.
THEOREM EmptyMeansNoneHolds == Spec => []EmptyMeansNone
PROOF
<1>1. History!Spec => []History!EmptyMeansNone
  BY NothingSaidTruly, HistoryParts
<1>2. ~(part = "history") \/ History!EmptyMeansNone => EmptyMeansNone
  BY DEF EmptyMeansNone
<1> QED BY <1>1, <1>2, HistoryGoes, PTL

\* Reading older and older pages passes over no run that was there when the reading began
\* (history-list.tsx, list_history with LIMIT and OFFSET), though new runs push the
\* others back between two pages, for any runs, filters and page size.
THEOREM OlderSkipsNothingHolds == Spec => []OlderSkipsNothing
PROOF
<1>1. History!Spec => []History!OlderSkipsNothing
  BY NothingSkipped, HistoryParts
<1>2. ~(part = "history") \/ History!OlderSkipsNothing => OlderSkipsNothing
  BY DEF OlderSkipsNothing
<1> QED BY <1>1, <1>2, HistoryGoes, PTL

\* The list of schedules says when a program runs next (nextOccurrence, schedule.ts) as
\* the executor finds it (occurrences_between, scheduler.py), for days longer than two jumps, any
\* week, horizon, rule and start times, and a jump of the clocks at any time of any day,
\* but for what is said of the hour that is jumped over.
THEOREM PreviewAgreesHolds == Spec => []PreviewAgrees
PROOF
<1>1. Preview!Spec => []Preview!PreviewAgrees
  BY PreviewInvariant, PreviewParts
<1>2. ~(part = "preview") \/ Preview!PreviewAgrees => PreviewAgrees
  BY DEF PreviewAgrees
<1> QED BY <1>1, <1>2, PreviewGoes, PTL
==============================================================================
