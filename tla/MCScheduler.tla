----------------------------- MODULE MCScheduler -----------------------------
(* Small instances of the scheduler for TLC. *)
EXTENDS SchedulerInvariants, TLC

Version(times, respect, steps) ==
  [state |-> "live", updated_at |-> None, enabled |-> TRUE, times |-> times, respect |-> respect, steps |-> steps]

\* One program due once, behind the weather gate.
OneProgram == 1 :> Version({1}, TRUE, <<"a">>)
\* Two programs due together, as the executor boots; no weather gate.
BothDue == (1 :> Version({0}, FALSE, <<"a">>)) @@ (2 :> Version({0}, FALSE, <<"b">>))
\* One program due twice.
DueTwice == 1 :> Version({1, 2}, FALSE, <<"a">>)
\* The same, as the executor boots: an edit can still move it to a later instant.
DueAtBoot == 1 :> Version({0, 1}, FALSE, <<"a">>)
\* Two steps, no weather gate.
TwoSteps == 1 :> Version({1}, FALSE, <<"a", "b">>)

NoInputs == {}
NoPayloads == {}

\* An admin moves the program to a later time and another zone.
Reschedule == {[enabled |-> TRUE, times |-> {2}, respect |-> FALSE, steps |-> <<"b">>]}
\* An admin moves the program to a later time only.
Postpone == {[enabled |-> TRUE, times |-> {2}, respect |-> FALSE, steps |-> <<"a">>]}
\* A Quick Run of one zone, or jsonb that parse_quick_run_steps refuses (Q.E5).
OneOrRefused == {<<"a">>, <<>>}
==============================================================================
