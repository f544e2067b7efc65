-------------------------------- MODULE Search --------------------------------
(***************************************************************************)
(* The location search of the map: a debounced timer and a request that    *)
(* can be aborted stand behind one field, so that an answer to an older    *)
(* text never replaces what a newer one found.  The route asks Nominatim.  *)
(* Texts are numbered in the order in which they are typed.                *)
(***************************************************************************)
EXTENDS Naturals

CONSTANTS Fetches,  \* at most so many requests are under way, aborted ones included
          MaxTexts  \* bound: changes of the field
SearchAssumption == MaxTexts \in Nat

Nothing == 0
VARIABLES open, query,   \* the number of the text in the field; Nothing: fewer than three characters
          timer,         \* the text the pending timer will search for
          fetches,       \* the requests, each [pc, text, aborted]
          current,       \* abortRef: the request a change of the field aborts
          shown,         \* the text whose results are listed
          found,         \* the newest text that was answered
          loading, unavailable, texts
vars == <<open, query, timer, fetches, current, shown, found, loading, unavailable, texts>>

NoFetch == [pc |-> "none", text |-> Nothing, aborted |-> FALSE]
Init ==
  /\ open = FALSE /\ query = Nothing /\ timer = Nothing /\ fetches = [f \in Fetches |-> NoFetch] /\ current = Nothing
  /\ shown = Nothing /\ found = Nothing /\ loading = FALSE /\ unavailable = FALSE /\ texts = 0

Open ==
  /\ ~open /\ open' = TRUE
  /\ UNCHANGED <<query, timer, fetches, current, shown, found, loading, unavailable, texts>>

\* Mutant: only the timer is cleared.
NotAborted(f) == fetches[f]
Aborted(f) == IF f = current /\ fetches[f].pc # "none" THEN [fetches[f] EXCEPT !.aborted = TRUE] ELSE fetches[f]
\* handleQueryChange: every keystroke clears the timer and aborts the request.
Type(long) ==
  /\ open /\ texts < MaxTexts /\ texts' = texts + 1
  /\ fetches' = [f \in Fetches |-> Aborted(f)] /\ unavailable' = FALSE
  /\ IF long THEN query' = texts + 1 /\ timer' = texts + 1 /\ UNCHANGED <<shown, loading>>
     ELSE query' = Nothing /\ timer' = Nothing /\ shown' = Nothing /\ loading' = FALSE
  /\ UNCHANGED <<open, current, found>>

TimerFires ==
  /\ timer # Nothing /\ timer' = Nothing /\ loading' = TRUE
  /\ \E f \in Fetches :
       /\ fetches[f].pc = "none"
       /\ fetches' = [fetches EXCEPT ![f] = [pc |-> "sent", text |-> timer, aborted |-> FALSE]] /\ current' = f
  /\ UNCHANGED <<open, query, shown, found, unavailable, texts>>

\* The route answers within ten seconds: places, or 502 for whatever went wrong.
Answer(f) ==
  /\ fetches[f].pc = "sent"
  /\ \E pc \in {"found", "failed"} : fetches' = [fetches EXCEPT ![f].pc = pc]
  /\ UNCHANGED <<open, query, timer, current, shown, found, loading, unavailable, texts>>

Loading(f) == FALSE
Land(f) ==
  /\ fetches[f].pc \in {"found", "failed"}
  /\ fetches' = [fetches EXCEPT ![f] = NoFetch]
  /\ IF fetches[f].aborted THEN UNCHANGED <<shown, found, loading, unavailable>>
     ELSE /\ found' = fetches[f].text
          /\ \/ fetches[f].pc = "found" /\ shown' = fetches[f].text /\ loading' = FALSE /\ UNCHANGED unavailable
             \/ fetches[f].pc = "failed" /\ shown' = Nothing /\ unavailable' = TRUE /\ loading' = Loading(f)
  /\ UNCHANGED <<open, query, timer, current, texts>>

TimerCleared == Nothing
\* Closing, or choosing a result, forgets everything and aborts what is under way.
Close ==
  /\ open /\ open' = FALSE /\ query' = Nothing /\ shown' = Nothing /\ loading' = FALSE /\ unavailable' = FALSE
  /\ fetches' = [f \in Fetches |-> Aborted(f)] /\ timer' = TimerCleared
  /\ UNCHANGED <<current, found, texts>>
Choose == shown # Nothing /\ ~unavailable /\ Close

Next ==
  \/ Open \/ TimerFires \/ Close \/ Choose
  \/ \E long \in BOOLEAN : Type(long)
  \/ \E f \in Fetches : Answer(f) \/ Land(f)

-----------------------------------------------------------------------------
\* An answer to an older text never replaces a newer one's (search-control.tsx:
\* "never resolves out of order").
FoundGrows == found' >= found
NeverOutOfOrder == [][FoundGrows]_vars

Spec == Init /\ [][Next]_vars
==============================================================================
