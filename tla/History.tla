-------------------------------- MODULE History --------------------------------
(***************************************************************************)
(* The history page and its route: runs most recent first, filtered by     *)
(* program, a page at a time, while the executor records more of them.     *)
(* Every change of filter or page starts a load of its own; the rows and   *)
(* their count are two queries of the route; loads land in any order.      *)
(* The filter by status is left out, and no run leaves the filter it is    *)
(* in: neither its status nor its program changes.                         *)
(***************************************************************************)
EXTENDS Integers, Sequences, SequencesExt

CONSTANTS Programs,
          Filters,    \* the programs the user filters by
          All,        \* no filter
          Recorded,   \* the programs of the runs recorded so far, most recent first
          PageSize, Loads,
          MaxRuns, MaxFailures \* bounds: runs, failed loads
HistoryAssumption ==
  /\ All \notin Programs /\ Filters \subseteq Programs /\ Recorded \in Seq(Programs) /\ Loads # {}
  /\ PageSize \in Nat \ {0} /\ {MaxRuns, MaxFailures} \subseteq Nat

VARIABLES runs,       \* the program of every recorded run, most recent first, with its number
          filter, page, data, loading, failed,
          loads,      \* the requests under way
          crossed,    \* loads have overlapped, or one for a new filter has failed
          walk,       \* pages read one after the other: the last, the runs recorded before the first, those seen
          failures
vars == <<runs, filter, page, data, loading, failed, loads, crossed, walk, failures>>

NoLoad == [pc |-> "none", filter |-> All, page |-> 1, rows |-> {}, known |-> 0, total |-> -1]
Fetch(f, p) == [NoLoad EXCEPT !.pc = "sent", !.filter = f, !.page = p]
NoWalk == [last |-> 0, old |-> 0, seen |-> {}]
\* The page mounts with a load under way.
Init ==
  /\ runs = [i \in 1..Len(Recorded) |-> [program |-> Recorded[i], id |-> Len(Recorded) + 1 - i]]
  /\ filter = All /\ page = 1 /\ data = NoLoad /\ loading = TRUE /\ failed = FALSE
  /\ loads = [l \in Loads |-> IF l = CHOOSE k \in Loads : TRUE THEN Fetch(All, 1) ELSE NoLoad]
  /\ crossed = FALSE /\ walk = NoWalk /\ failures = 0

\* The executor records a run: at the front, or among older ones when it is
\* recorded late (coalesce of started, scheduled and finished).
Record ==
  /\ Len(runs) < MaxRuns
  /\ \E p \in Programs, i \in 1..Len(runs) + 1 : runs' = InsertAt(runs, i, [program |-> p, id |-> Len(runs) + 1])
  /\ UNCHANGED <<filter, page, data, loading, failed, loads, crossed, walk, failures>>

-----------------------------------------------------------------------------
(* GET /api/history.                                                       *)

\* The runs of a filter, by their places.
Matching(f) == {i \in DOMAIN runs : f \in {All, runs[i].program}}
Offset(p) == (p - 1) * PageSize
\* Mutant: ordered by number, so that a run recorded late moves to the front.
ById(i, j) == runs[i].id > runs[j].id
Before(i, j) == i < j
\* How many of them come before one.
Rank(f, i) == Cardinality({j \in Matching(f) : Before(j, i)})
\* limit(PAGE_SIZE).offset(...)
Rows(f, p) == {runs[i] : i \in {k \in Matching(f) : Rank(f, k) \in Offset(p)..(Offset(p) + PageSize - 1)}}
ReadRows(l) ==
  /\ loads[l].pc = "sent"
  /\ loads' = [loads EXCEPT ![l].pc = IF loads[l].total = -1 THEN "rows" ELSE "answered",
                            ![l].rows = Rows(loads[l].filter, loads[l].page), ![l].known = Len(runs)]
  /\ UNCHANGED <<runs, filter, page, data, loading, failed, crossed, walk, failures>>
CountRows(l) ==
  /\ loads[l].pc \in {"sent", "rows"} /\ loads[l].total = -1
  /\ loads' = [loads EXCEPT ![l].pc = IF @ = "rows" THEN "answered" ELSE @, ![l].total = Cardinality(Matching(loads[l].filter))]
  /\ UNCHANGED <<runs, filter, page, data, loading, failed, crossed, walk, failures>>

-----------------------------------------------------------------------------
(* The page.                                                               *)

Current(k) == k.filter = filter /\ k.page = page
\* Whatever lands is shown.
Land(l) ==
  /\ loads[l].pc = "answered"
  /\ LET k == loads[l]
     IN /\ data' = [k EXCEPT !.known = 0] /\ failed' = FALSE
        /\ walk' = IF crossed \/ ~Current(k) THEN NoWalk
                   ELSE IF page = 1 THEN [last |-> 1, old |-> k.known, seen |-> k.rows]
                   ELSE IF walk.last = page - 1 THEN [walk EXCEPT !.last = page, !.seen = @ \cup k.rows] ELSE NoWalk
  /\ loading' = FALSE /\ loads' = [loads EXCEPT ![l] = NoLoad]
  /\ UNCHANGED <<runs, filter, page, crossed, failures>>
LoadingAfter(l) == FALSE
LoadFails(l) ==
  /\ loads[l].pc # "none" /\ failures < MaxFailures /\ failures' = failures + 1
  /\ failed' = TRUE /\ loading' = LoadingAfter(l) /\ loads' = [loads EXCEPT ![l] = NoLoad] /\ walk' = NoWalk
  /\ crossed' = (crossed \/ data.filter # filter)
  /\ UNCHANGED <<runs, filter, page, data>>

Free == {l \in Loads : loads[l].pc = "none"}
\* The handlers flip loading themselves; the effect starts the request.
Show(f, p) ==
  /\ filter' = f /\ page' = p /\ loading' = TRUE
  /\ Free # {} /\ loads' = [loads EXCEPT ![CHOOSE l \in Free : TRUE] = Fetch(f, p)]
  /\ crossed' = (crossed \/ \E l \in Loads : loads[l].pc # "none")
  /\ UNCHANGED <<runs, data, failed, failures>>
\* Mutant: the page survives a change of filter.
SamePage(f) == page
FirstPage(f) == 1
Filter(f) ==
  /\ f # filter /\ Show(f, FirstPage(f))
  /\ walk' = NoWalk

TotalPages == (data.total + PageSize - 1) \div PageSize
Paged == data.total > PageSize
Newer == Paged /\ page > 1 /\ ~loading /\ Show(filter, page - 1) /\ walk' = NoWalk
Older == Paged /\ page < TotalPages /\ ~loading /\ Show(filter, page + 1) /\ UNCHANGED walk

Next ==
  \/ Record \/ Newer \/ Older
  \/ \E f \in Filters \cup {All} : Filter(f)
  \/ \E l \in Loads : ReadRows(l) \/ CountRows(l) \/ Land(l) \/ LoadFails(l)

-----------------------------------------------------------------------------
(* What the page promises.                                                 *)

\* "Nothing matches these filters" is said only when nothing did: no page is asked
\* for beyond the last.  It holds until loads have overlapped or failed: whatever
\* lands last is shown, and the pager then uses the total of another filter.
EmptyMeansNone ==
  (~crossed /\ ~loading /\ ~failed /\ data.rows = {}) => data.total = 0 \/ (data.total > 0 /\ data.page = 1)

\* Paging from the first page to older ones passes over no run that was there at
\* the start, whatever is recorded meanwhile, if loads have not overlapped.
OlderSkipsNothing ==
  ~crossed /\ walk.last > 0 => \A i, j \in Matching(data.filter) :
    i < j /\ runs[j] \in walk.seen /\ runs[i].id <= walk.old => runs[i] \in walk.seen

Spec == Init /\ [][Next]_vars
==============================================================================
