-------------------------------- MODULE MCParts -------------------------------
(* Small instances of the components beside the scheduler for TLC.         *)
EXTENDS Parts, TLC

Typed == {0, 240, 241}   \* minutes, in range or not
RunOf == <<"q", "p">>    \* the programs that runs are recorded of, in turn
AThenB == <<[zone |-> "a", left |-> 1], [zone |-> "b", left |-> 2]>>
OneRun == {AThenB}
AroundLimits == {-3000, -123, 1000}
TextsAround == {-220, 500, 338}
Starts == {{0}, {3}, {2, 5}, {3, 4}, {1, 7}}
Jump(kind, day, unit) == [kind |-> kind, day |-> day, unit |-> unit]
ClockChanges == {Jump("none", 0, 0), Jump("forward", 1, 2), Jump("forward", 1, 0), Jump("back", 1, 1), Jump("back", 2, 1)}
Showers == [p |-> [rain |-> {0}, freeze |-> {}], q |-> [rain |-> {2}, freeze |-> {0}]]
OneSky == {Showers}
==============================================================================
