--------------------------- MODULE ExecutorProofs ---------------------------
(***************************************************************************)
(* The executor's other parts, for any instance: the gate that keeps a     *)
(* disabled zone from starting, the weather gate and its forecast, and the *)
(* countdown of the controller's service; and the mock and the stub that   *)
(* stand in for the executor, of which the first implements its API, and   *)
(* the second all but its answers about an unreachable controller.  The    *)
(* invariants and lemmas are of one component each; the theorems are of    *)
(* the composition that the runs check.                                    *)
(***************************************************************************)
EXTENDS Parts, FiniteSetTheorems, WellFoundedInduction, SequenceTheorems, TLAPS

-----------------------------------------------------------------------------
(* The gate.                                                               *)

\* What a fetch may have read, and a request of the executor's.
Reads == {<<>>} \cup {<<on>> : on \in SUBSET GateZones}
GateRequests == [op : {"none", "status", "start"}, zone : GateZones \cup {None}, read : Reads, took : Nat, off : Nat,
                 pc : {"idle", "checking", "waiting", "fetching", "granted"}]
GateTypes ==
  /\ enabled \subseteq GateZones /\ offFor \in [GateZones -> Nat] /\ snapshot \in Reads /\ age \in Nat
  /\ clients \in [Clients -> GateRequests]

\* An enabled zone has not been off; the clock of one that is stops at the cap.
OffClock == \A z \in GateZones : offFor[z] <= Ttl + Timeout + 1 /\ (z \in enabled => offFor[z] = 0)
\* A zone in the snapshot has been off no longer than the snapshot is old and its
\* fetch took; one in what a fetch has read, no longer than the fetch has taken.
SnapshotAge == snapshot # <<>> => \A z \in snapshot[1] : offFor[z] <= age + Timeout
ReadAge ==
  \A c \in Clients :
    /\ clients[c].took <= Timeout
    /\ clients[c].read # <<>> => clients[c].pc = "fetching" /\ \A z \in clients[c].read[1] : offFor[z] <= clients[c].took
GateInd == GateTypes /\ OffClock /\ SnapshotAge /\ ReadAge /\ ZoneGate!DisabledBites

\* At the start no snapshot exists and no zone has been granted.
LEMMA GateInit == ASSUME ZoneGate!ZoneGateAssumption PROVE ZoneGate!Init => GateInd
PROOF
<1> SUFFICES ASSUME ZoneGate!Init PROVE GateInd
  OBVIOUS
<1>1. Ttl \in Nat /\ Timeout \in Nat
  BY DEF ZoneGate!ZoneGateAssumption
<1>2. ZoneGate!Idle \in GateRequests /\ ZoneGate!Idle.took = 0 /\ ZoneGate!Idle.read = <<>> /\ ZoneGate!Idle.pc = "idle"
  BY DEF ZoneGate!Idle, GateRequests, Reads
<1>3. GateTypes
  BY <1>1, <1>2 DEF ZoneGate!Init, GateTypes, Reads
<1>4. OffClock /\ SnapshotAge
  BY <1>1 DEF ZoneGate!Init, OffClock, SnapshotAge
<1>5. ReadAge /\ ZoneGate!DisabledBites
  BY <1>1, <1>2 DEF ZoneGate!Init, ReadAge, ZoneGate!DisabledBites
<1> QED BY <1>3, <1>4, <1>5 DEF GateInd

\* A request that goes on, fetches nothing and is granted nothing.
LEMMA GateGoesOn ==
  ASSUME ZoneGate!ZoneGateAssumption, GateInd, UNCHANGED <<enabled, offFor, snapshot, age>>,
         NEW c \in Clients, NEW n \in GateRequests, clients' = [clients EXCEPT ![c] = n],
         n.read = <<>>, n.took <= Timeout, n.pc = "granted" => n.off <= Ttl + Timeout
  PROVE  GateInd'
PROOF
<1>1. clients'[c] = n /\ \A d \in Clients \ {c} : clients'[d] = clients[d]
  BY DEF GateInd, GateTypes
<1>2. GateTypes'
  BY DEF GateInd, GateTypes
<1>3. OffClock' /\ SnapshotAge'
  BY DEF GateInd, OffClock, SnapshotAge
<1>4. ReadAge'
  BY <1>1 DEF GateInd, ReadAge
<1>5. ZoneGate!DisabledBites'
  BY <1>1 DEF GateInd, ZoneGate!DisabledBites
<1> QED BY <1>2, <1>3, <1>4, <1>5 DEF GateInd

\* What a request makes of a snapshot whose zones have not been off for too long.
LEMMA GateAnswer ==
  ASSUME ZoneGate!ZoneGateAssumption, GateInd, NEW c \in Clients, NEW snap \in Reads, snap # <<>>,
         \A z \in snap[1] : offFor[z] <= Ttl + Timeout
  PROVE  /\ ZoneGate!Answered(c, snap) \in GateRequests
         /\ ZoneGate!Answered(c, snap).read = <<>> /\ ZoneGate!Answered(c, snap).took = 0
         /\ ZoneGate!Answered(c, snap).pc = "granted" => ZoneGate!Answered(c, snap).off <= Ttl + Timeout
PROOF
<1> DEFINE q == clients[c]
           n == ZoneGate!Answered(c, snap)
<1> SUFFICES n \in GateRequests /\ n.read = <<>> /\ n.took = 0 /\ (n.pc = "granted" => n.off <= Ttl + Timeout)
  OBVIOUS
<1>1. q \in GateRequests /\ snap[1] \subseteq GateZones /\ offFor \in [GateZones -> Nat]
  BY DEF GateInd, GateTypes, Reads
<1>2. ZoneGate!Idle \in GateRequests /\ ZoneGate!Idle.took = 0 /\ ZoneGate!Idle.read = <<>> /\ ZoneGate!Idle.pc = "idle"
  BY DEF ZoneGate!Idle, GateRequests, Reads
<1>3. n = IF q.op = "start" /\ q.zone \in snap[1] THEN [q EXCEPT !.pc = "granted", !.read = <<>>, !.took = 0, !.off = offFor[q.zone]]
          ELSE ZoneGate!Idle
  BY DEF ZoneGate!Answered
<1> HIDE DEF q, n
<1>4. CASE q.op = "start" /\ q.zone \in snap[1]
  <2>1. offFor[q.zone] \in Nat /\ offFor[q.zone] <= Ttl + Timeout
    BY <1>1, <1>4 DEF q
  <2>2. <<>> \in Reads /\ 0 \in Nat
    BY DEF Reads
  <2>3. n = [q EXCEPT !.pc = "granted", !.read = <<>>, !.took = 0, !.off = offFor[q.zone]]
    BY <1>3, <1>4
  <2> QED BY <1>1, <2>1, <2>2, <2>3 DEF GateRequests
<1>5. CASE ~(q.op = "start" /\ q.zone \in snap[1])
  BY <1>2, <1>3, <1>5
<1> QED BY <1>4, <1>5

\* A switched zone has been off for no time; time passes for all that is counted.
LEMMA GateTime ==
  ASSUME ZoneGate!ZoneGateAssumption, GateInd, ZoneGate!Tick \/ \E z \in GateZones : ZoneGate!Toggle(z) PROVE GateInd'
PROOF
<1>1. Ttl \in Nat /\ Timeout \in Nat
  BY DEF ZoneGate!ZoneGateAssumption
<1>2. ASSUME NEW z \in GateZones, ZoneGate!Toggle(z) PROVE GateInd'
  <2>1. enabled' = (IF z \in enabled THEN enabled \ {z} ELSE enabled \cup {z}) /\ offFor' = [offFor EXCEPT ![z] = 0]
        /\ UNCHANGED <<snapshot, age, clients>>
    BY <1>2 DEF ZoneGate!Toggle
  <2>2. offFor' \in [GateZones -> Nat] /\ \A y \in GateZones : offFor'[y] <= offFor[y] /\ offFor'[y] \in Nat /\ offFor[y] \in Nat
    BY <2>1 DEF GateInd, GateTypes
  <2>3. GateTypes'
    BY <2>1, <2>2 DEF GateInd, GateTypes
  <2>4. OffClock'
    BY <1>1, <2>1, <2>2 DEF GateInd, GateTypes, OffClock
  <2>5. SnapshotAge'
    BY <1>1, <2>1, <2>2 DEF GateInd, GateTypes, SnapshotAge, Reads
  <2>6. ReadAge'
    <3> SUFFICES ASSUME NEW c \in Clients, clients[c].read # <<>>, NEW y \in clients[c].read[1]
                 PROVE  offFor'[y] <= clients[c].took
      BY <2>1 DEF GateInd, ReadAge
    <3>1. y \in GateZones /\ clients[c].took \in Nat /\ offFor[y] <= clients[c].took
      BY DEF GateInd, GateTypes, GateRequests, Reads, ReadAge
    <3> QED BY <2>2, <3>1
  <2>7. ZoneGate!DisabledBites'
    BY <2>1 DEF GateInd, ZoneGate!DisabledBites
  <2> QED BY <2>3, <2>4, <2>5, <2>6, <2>7 DEF GateInd
<1>3. CASE ZoneGate!Tick
  <2>1. \A c \in Clients : clients[c].pc = "fetching" => clients[c].took < Timeout
    BY <1>3 DEF ZoneGate!Tick
  <2>2. /\ offFor' = [z \in GateZones |-> IF z \in enabled \/ offFor[z] > Ttl + Timeout THEN offFor[z] ELSE offFor[z] + 1]
        /\ age' = IF age > Ttl THEN age ELSE age + 1
        /\ clients' = [c \in Clients |-> IF clients[c].pc = "fetching" THEN [clients[c] EXCEPT !.took = @ + 1] ELSE clients[c]]
        /\ UNCHANGED <<enabled, snapshot>>
    BY <1>3 DEF ZoneGate!Tick
  <2>3. /\ offFor' \in [GateZones -> Nat] /\ age' \in Nat /\ age \in Nat /\ age' >= age
        /\ \A z \in GateZones : offFor[z] \in Nat /\ offFor'[z] \in Nat /\ offFor'[z] \in {offFor[z], offFor[z] + 1}
    BY <2>2 DEF GateInd, GateTypes
  <2>4. \A c \in Clients :
          /\ clients[c] \in GateRequests /\ clients'[c] \in GateRequests
          /\ clients'[c].read = clients[c].read /\ clients'[c].pc = clients[c].pc /\ clients'[c].off = clients[c].off
          /\ clients'[c].took = IF clients[c].pc = "fetching" THEN clients[c].took + 1 ELSE clients[c].took
    BY <2>2 DEF GateInd, GateTypes, GateRequests
  <2>5. GateTypes'
    BY <2>2, <2>3, <2>4 DEF GateInd, GateTypes
  <2>6. OffClock'
    BY <1>1, <2>2, <2>3 DEF GateInd, OffClock
  <2>7. SnapshotAge'
    <3> SUFFICES ASSUME snapshot # <<>>, NEW z \in snapshot[1] PROVE offFor'[z] <= age' + Timeout
      BY <2>2 DEF SnapshotAge
    <3>1. z \in GateZones /\ offFor[z] <= age + Timeout
      BY DEF GateInd, GateTypes, Reads, SnapshotAge
    <3>2. CASE age > Ttl
      <4>1. offFor'[z] <= Ttl + Timeout + 1
        BY <2>6, <3>1 DEF OffClock
      <4> QED BY <1>1, <2>2, <2>3, <3>1, <3>2, <4>1
    <3>3. CASE ~(age > Ttl)
      BY <1>1, <2>2, <2>3, <3>1, <3>3
    <3> QED BY <3>2, <3>3
  <2>8. ReadAge'
    <3> SUFFICES ASSUME NEW c \in Clients
                 PROVE  /\ clients'[c].took <= Timeout
                        /\ clients'[c].read # <<>> =>
                             clients'[c].pc = "fetching" /\ \A z \in clients'[c].read[1] : offFor'[z] <= clients'[c].took
      BY DEF ReadAge
    <3>1. clients[c].took \in Nat /\ clients[c].took <= Timeout
      BY <2>4 DEF GateInd, ReadAge, GateRequests
    <3>2. clients'[c].took <= Timeout
      BY <1>1, <2>1, <2>4, <3>1
    <3>3. ASSUME clients'[c].read # <<>>, NEW z \in clients'[c].read[1] PROVE offFor'[z] <= clients'[c].took
      <4>1. z \in GateZones /\ offFor[z] <= clients[c].took /\ clients[c].pc = "fetching"
        BY <2>4, <3>3 DEF GateInd, ReadAge, GateRequests, Reads
      <4> QED BY <2>3, <2>4, <3>1, <4>1
    <3>4. clients'[c].read # <<>> => clients'[c].pc = "fetching"
      BY <2>4 DEF GateInd, ReadAge
    <3> QED BY <3>2, <3>3, <3>4
  <2>9. ZoneGate!DisabledBites'
    BY <2>4 DEF GateInd, ZoneGate!DisabledBites
  <2> QED BY <2>5, <2>6, <2>7, <2>8, <2>9 DEF GateInd
<1> QED BY <1>2, <1>3

\* A request's own steps.
LEMMA GateRequest ==
  ASSUME ZoneGate!ZoneGateAssumption, GateInd, NEW c \in Clients,
         \/ ZoneGate!Begin(c, "status", None) \/ \E z \in GateZones : ZoneGate!Begin(c, "start", z)
         \/ ZoneGate!FoundFresh(c) \/ ZoneGate!FoundStale(c) \/ ZoneGate!Fetch(c) \/ ZoneGate!Select(c) \/ ZoneGate!Fetched(c)
         \/ ZoneGate!FetchFails(c) \/ ZoneGate!Water(c)
  PROVE  GateInd'
PROOF
<1> DEFINE q == clients[c]
<1>1. Ttl \in Nat /\ Timeout \in Nat /\ None \notin GateZones
  BY DEF ZoneGate!ZoneGateAssumption
<1>2. q \in GateRequests /\ clients \in [Clients -> GateRequests] /\ snapshot \in Reads /\ age \in Nat
      /\ q.took <= Timeout /\ (q.read # <<>> => q.pc = "fetching")
  BY DEF GateInd, GateTypes, ReadAge
<1>3. ZoneGate!Idle \in GateRequests /\ ZoneGate!Idle.took = 0 /\ ZoneGate!Idle.read = <<>> /\ ZoneGate!Idle.pc = "idle"
  BY DEF ZoneGate!Idle, GateRequests, Reads
<1>4. ASSUME NEW op \in {"status", "start"}, NEW z \in GateZones \cup {None}, ZoneGate!Begin(c, op, z) PROVE GateInd'
  <2> DEFINE n == [ZoneGate!Idle EXCEPT !.op = op, !.zone = z, !.pc = "checking"]
  <2>1. n \in GateRequests /\ n.read = <<>> /\ n.took = 0 /\ n.pc = "checking"
    BY <1>3, <1>4 DEF GateRequests
  <2>2. clients' = [clients EXCEPT ![c] = n] /\ UNCHANGED <<enabled, offFor, snapshot, age>>
    BY <1>4 DEF ZoneGate!Begin
  <2> HIDE DEF n
  <2>3. n.took <= Timeout /\ n.pc # "granted"
    BY <1>1, <2>1
  <2> QED BY <2>1, <2>2, <2>3, GateGoesOn
<1>5. CASE ZoneGate!FoundFresh(c)
  <2>1. snapshot # <<>> /\ age <= Ttl /\ clients' = [clients EXCEPT ![c] = ZoneGate!Answered(c, snapshot)]
        /\ UNCHANGED <<enabled, offFor, snapshot, age>>
    BY <1>5 DEF ZoneGate!FoundFresh, ZoneGate!Fresh
  <2>2. \A z \in snapshot[1] : offFor[z] <= Ttl + Timeout
    BY <1>1, <1>2, <2>1 DEF GateInd, GateTypes, SnapshotAge, Reads
  <2> DEFINE n == ZoneGate!Answered(c, snapshot)
  <2>3. n \in GateRequests /\ n.read = <<>> /\ n.took = 0 /\ (n.pc = "granted" => n.off <= Ttl + Timeout)
    BY <1>2, <2>1, <2>2, GateAnswer
  <2> HIDE DEF n
  <2>4. clients' = [clients EXCEPT ![c] = n] /\ UNCHANGED <<enabled, offFor, snapshot, age>>
    BY <2>1 DEF n
  <2>5. n.took <= Timeout
    BY <1>1, <2>3
  <2> QED BY <2>3, <2>4, <2>5, GateGoesOn
<1>6. CASE ZoneGate!FoundStale(c) \/ ZoneGate!Fetch(c)
  <2>1. PICK stage \in {"waiting", "fetching"} : clients' = [clients EXCEPT ![c].pc = stage]
    BY <1>6 DEF ZoneGate!FoundStale, ZoneGate!Fetch
  <2>2. q.pc \in {"checking", "waiting"} /\ UNCHANGED <<enabled, offFor, snapshot, age>>
    BY <1>6 DEF ZoneGate!FoundStale, ZoneGate!Fetch
  <2> DEFINE n == [q EXCEPT !.pc = stage]
  <2>3. n \in GateRequests /\ n.read = <<>> /\ n.took <= Timeout /\ n.pc # "granted" /\ clients' = [clients EXCEPT ![c] = n]
    BY <1>2, <2>1, <2>2 DEF GateRequests
  <2> HIDE DEF n
  <2> QED BY <2>2, <2>3, GateGoesOn
<1>7. CASE ZoneGate!Select(c)
  <2> DEFINE n == [q EXCEPT !.read = <<enabled>>]
  <2>1. q.pc = "fetching" /\ clients' = [clients EXCEPT ![c] = n] /\ UNCHANGED <<enabled, offFor, snapshot, age>>
    BY <1>7 DEF ZoneGate!Select
  <2>2. <<enabled>> \in Reads /\ \A z \in enabled : z \in GateZones /\ offFor[z] = 0
    BY DEF GateInd, GateTypes, OffClock, Reads
  <2>3. n \in GateRequests /\ n.read = <<enabled>> /\ n.took = q.took /\ n.pc = "fetching"
    BY <1>2, <2>1, <2>2 DEF GateRequests
  <2> HIDE DEF n
  <2>4. clients'[c] = n /\ \A d \in Clients \ {c} : clients'[d] = clients[d]
    BY <1>2, <2>1
  <2>5. GateTypes'
    BY <1>2, <2>1, <2>3 DEF GateInd, GateTypes
  <2>6. ReadAge'
    <3>1. q.took \in Nat /\ n.read[1] = enabled
      BY <1>2, <2>3 DEF GateRequests
    <3> QED BY <1>2, <2>1, <2>2, <2>3, <2>4, <3>1 DEF GateInd, ReadAge
  <2>7. OffClock' /\ SnapshotAge' /\ ZoneGate!DisabledBites'
    BY <2>1, <2>3, <2>4 DEF GateInd, OffClock, SnapshotAge, ZoneGate!DisabledBites
  <2> QED BY <2>5, <2>6, <2>7 DEF GateInd
<1>8. CASE ZoneGate!Fetched(c)
  <2>1. q.pc = "fetching" /\ q.read # <<>> /\ snapshot' = q.read /\ age' = 0
        /\ clients' = [clients EXCEPT ![c] = ZoneGate!Answered(c, q.read)] /\ UNCHANGED <<enabled, offFor>>
    BY <1>8 DEF ZoneGate!Fetched
  <2>2. q.read \in Reads /\ \A z \in q.read[1] : z \in GateZones /\ offFor[z] \in Nat /\ offFor[z] <= Timeout
    <3>1. q.read \in Reads /\ q.took \in Nat /\ \A z \in q.read[1] : z \in GateZones /\ offFor[z] <= q.took
      BY <1>2, <2>1 DEF GateInd, GateRequests, ReadAge, Reads
    <3> QED BY <1>1, <1>2, <3>1 DEF GateInd, GateTypes
  <2>3. \A z \in q.read[1] : offFor[z] <= Ttl + Timeout
    BY <1>1, <2>2
  <2> DEFINE n == ZoneGate!Answered(c, q.read)
  <2>4. n \in GateRequests /\ n.read = <<>> /\ n.took = 0 /\ (n.pc = "granted" => n.off <= Ttl + Timeout)
    BY <2>1, <2>2, <2>3, GateAnswer
  <2> HIDE DEF n
  <2>5. clients'[c] = n /\ \A d \in Clients \ {c} : clients'[d] = clients[d]
    BY <1>2, <2>1 DEF n
  <2>6. GateTypes'
    BY <1>2, <2>1, <2>2, <2>4 DEF GateInd, GateTypes, n
  <2>7. OffClock' /\ SnapshotAge'
    BY <1>1, <2>1, <2>2 DEF GateInd, OffClock, SnapshotAge
  <2>8. ReadAge' /\ ZoneGate!DisabledBites'
    BY <1>1, <2>1, <2>4, <2>5 DEF GateInd, ReadAge, ZoneGate!DisabledBites
  <2> QED BY <2>6, <2>7, <2>8 DEF GateInd
<1>9. CASE ZoneGate!FetchFails(c) \/ ZoneGate!Water(c)
  <2>1. clients' = [clients EXCEPT ![c] = ZoneGate!Idle] /\ UNCHANGED <<enabled, offFor, snapshot, age>>
    BY <1>9 DEF ZoneGate!FetchFails, ZoneGate!Water, ZoneGate!StampAfterFailure
  <2>2. ZoneGate!Idle.took <= Timeout /\ ZoneGate!Idle.pc # "granted"
    BY <1>1, <1>3
  <2> QED BY <1>3, <2>1, <2>2, GateGoesOn
<1> QED BY <1>4, <1>5, <1>6, <1>7, <1>8, <1>9

\* No zone starts that has been disabled for longer than the snapshot lives and a
\* fetch may take (ZoneEnablement.is_enabled, zone_config.py), whichever request
\* fetched the snapshot, however many fetches have failed, for any zones, requests
\* and times.
LEMMA DisabledZonesStayOff == ASSUME ZoneGate!ZoneGateAssumption PROVE ZoneGate!Spec => []ZoneGate!DisabledBites
PROOF
<1>1. ZoneGate!Init => GateInd
  BY GateInit
<1>2. GateInd /\ [ZoneGate!Next]_(ZoneGate!vars) => GateInd'
  <2> SUFFICES ASSUME GateInd, [ZoneGate!Next]_(ZoneGate!vars) PROVE GateInd'
    OBVIOUS
  <2>1. CASE UNCHANGED ZoneGate!vars
    BY <2>1 DEF ZoneGate!vars, GateInd, GateTypes, OffClock, SnapshotAge, ReadAge, ZoneGate!DisabledBites
  <2>2. CASE ZoneGate!Tick \/ \E z \in GateZones : ZoneGate!Toggle(z)
    BY <2>2, GateTime
  <2>3. ASSUME NEW c \in Clients,
               \/ ZoneGate!Begin(c, "status", None) \/ \E z \in GateZones : ZoneGate!Begin(c, "start", z)
               \/ ZoneGate!FoundFresh(c) \/ ZoneGate!FoundStale(c) \/ ZoneGate!Fetch(c) \/ ZoneGate!Select(c) \/ ZoneGate!Fetched(c)
               \/ ZoneGate!FetchFails(c) \/ ZoneGate!Water(c)
        PROVE  GateInd'
    BY <2>3, GateRequest
  <2> QED BY <2>1, <2>2, <2>3 DEF ZoneGate!Next
<1>3. GateInd => ZoneGate!DisabledBites
  BY DEF GateInd
<1> QED BY <1>1, <1>2, <1>3, PTL DEF ZoneGate!Spec

-----------------------------------------------------------------------------
(* The weather.                                                            *)

\* The last decision is what the settings and the snapshot it was made of say.
DecisionSays ==
  decision # WeatherGate!NoVerdict =>
    /\ decision.at \in Nat
    /\ decision.verdict =
         IF ~WeatherGate!Wanted(decision.settings) \/ decision.snapshot = WeatherGate!NoSnapshot \/ ~(decision.at - decision.snapshot.at <= Stale)
         THEN "water" ELSE WeatherGate!Decide(decision.settings, WeatherGate!Parsed(decision.snapshot.place, decision.snapshot.at))
\* So is the last prediction, of the hours around its occurrence.
PredictionSays ==
  prediction # WeatherGate!NoVerdict =>
    /\ prediction.at \in Nat /\ WeatherGate!Wanted(prediction.settings)
    /\ prediction.verdict = WeatherGate!Decide(prediction.settings, WeatherGate!AtOccurrence(prediction.snapshot.place, prediction.at))
SkyInd == now \in Nat /\ DecisionSays /\ PredictionSays

\* weather.py's sums around now and forecast.py's around an occurrence are over the
\* same hours.
LEMMA SameHours ==
  ASSUME WeatherGate!WeatherGateAssumption, NEW p, NEW t \in Int PROVE WeatherGate!Parsed(p, t) = WeatherGate!AtOccurrence(p, t)
PROOF
<1>1. Lookback \in Int /\ Lookahead \in Int
  BY DEF WeatherGate!WeatherGateAssumption
<1>2. t - Lookback + 1 = (t - Lookback) + 1
  BY <1>1
<1> QED BY <1>2 DEF WeatherGate!Parsed, WeatherGate!AtOccurrence, WeatherGate!SumWindow

\* A decision made now says what it should.
LEMMA DecidesNow ==
  ASSUME NEW row, NEW s, now \in Nat, decision' = WeatherGate!Verdict(row, s), sky' = sky PROVE DecisionSays'
PROOF
<1>1. decision'.at = now /\ decision'.settings = row /\ decision'.snapshot = s
      /\ decision'.verdict = IF ~WeatherGate!Wanted(row) \/ ~WeatherGate!Usable(s) THEN "water" ELSE WeatherGate!Decide(row, WeatherGate!Parsed(s.place, s.at))
  BY DEF WeatherGate!Verdict
<1>2. WeatherGate!Usable(s) <=> s # WeatherGate!NoSnapshot /\ now - s.at <= Stale
  BY DEF WeatherGate!Usable
<1>3. WeatherGate!Parsed(s.place, s.at)' = WeatherGate!Parsed(s.place, s.at)
  BY DEF WeatherGate!Parsed, WeatherGate!WetHours
<1> QED BY <1>1, <1>2, <1>3 DEF DecisionSays, WeatherGate!Wanted, WeatherGate!Decide, WeatherGate!NoSnapshot, WeatherGate!Parsed, WeatherGate!WetHours

\* What the forecast predicts for an occurrence (forecast.py) is what the run of that
\* occurrence decides (weather.py), when it comes to fetch the weather and the settings
\* have not changed, for any places, skies, limits and windows.
LEMMA PredictionsComeTrue == ASSUME WeatherGate!WeatherGateAssumption PROVE WeatherGate!Spec => []WeatherGate!PredictionComesTrue
PROOF
<1>1. WeatherGate!Init => SkyInd
  BY DEF WeatherGate!Init, SkyInd, DecisionSays, PredictionSays
<1>2. SkyInd /\ [WeatherGate!Next]_(WeatherGate!vars) => SkyInd'
  <2> SUFFICES ASSUME SkyInd, [WeatherGate!Next]_(WeatherGate!vars) PROVE SkyInd'
    OBVIOUS
  <2>1. sky' = sky /\ now' \in Nat
    BY DEF SkyInd, WeatherGate!Next, WeatherGate!vars, WeatherGate!Save, WeatherGate!Tick, WeatherGate!Refresh, WeatherGate!Warmed, WeatherGate!WarmingFails,
           WeatherGate!Evaluate, WeatherGate!Fetched, WeatherGate!FetchFails, WeatherGate!Predict
  <2>2. decision' = decision \/ \E row, s : decision' = WeatherGate!Verdict(row, s)
    BY DEF WeatherGate!Next, WeatherGate!vars, WeatherGate!Save, WeatherGate!Tick, WeatherGate!Refresh, WeatherGate!Warmed, WeatherGate!WarmingFails,
           WeatherGate!Evaluate, WeatherGate!Fetched, WeatherGate!FetchFails, WeatherGate!Predict
  <2>3. DecisionSays'
    <3>1. CASE decision' = decision
      BY <2>1, <3>1 DEF SkyInd, DecisionSays, WeatherGate!Wanted, WeatherGate!Decide, WeatherGate!NoSnapshot, WeatherGate!NoVerdict, WeatherGate!NoRow,
                        WeatherGate!Parsed, WeatherGate!WetHours
    <3>2. ASSUME NEW row, NEW s, decision' = WeatherGate!Verdict(row, s) PROVE DecisionSays'
      BY <2>1, <3>2, DecidesNow DEF SkyInd
    <3> QED BY <2>2, <3>1, <3>2
  <2>4. prediction' = prediction \/ WeatherGate!Predict
    BY DEF WeatherGate!Next, WeatherGate!vars, WeatherGate!Save, WeatherGate!Tick, WeatherGate!Refresh, WeatherGate!Warmed, WeatherGate!WarmingFails,
           WeatherGate!Evaluate, WeatherGate!Fetched, WeatherGate!FetchFails
  <2>5. PredictionSays'
    <3>1. CASE prediction' = prediction
      BY <2>1, <3>1 DEF SkyInd, PredictionSays, WeatherGate!Wanted, WeatherGate!Decide, WeatherGate!NoSnapshot, WeatherGate!NoVerdict, WeatherGate!NoRow,
                        WeatherGate!AtOccurrence, WeatherGate!SumWindow, WeatherGate!WetHours
    <3>2. CASE WeatherGate!Predict
      <4>1. PICK t \in now..LastTime :
              prediction' = [at |-> t, settings |-> settings, snapshot |-> snapshot,
                             verdict |-> WeatherGate!Decide(settings, WeatherGate!AtOccurrence(snapshot.place, t))]
        BY <3>2 DEF WeatherGate!Predict
      <4>2. t \in Nat /\ WeatherGate!Wanted(settings)
        BY <3>2 DEF SkyInd, WeatherGate!Predict
      <4> QED BY <2>1, <4>1, <4>2 DEF PredictionSays, WeatherGate!Wanted, WeatherGate!Decide, WeatherGate!AtOccurrence, WeatherGate!SumWindow, WeatherGate!WetHours
    <3> QED BY <2>4, <3>1, <3>2
  <2> QED BY <2>1, <2>3, <2>5 DEF SkyInd
<1>3. SkyInd => WeatherGate!PredictionComesTrue
  <2> SUFFICES ASSUME SkyInd, decision.at = prediction.at,
                      decision.snapshot = [place |-> prediction.snapshot.place, at |-> decision.at],
                      decision.settings = prediction.settings
               PROVE  decision.verdict = prediction.verdict
    BY DEF WeatherGate!PredictionComesTrue
  <2>1. CASE decision = WeatherGate!NoVerdict \/ prediction = WeatherGate!NoVerdict
    <3>1. WeatherGate!NoVerdict.at = -1 /\ -1 \notin Nat
      BY DEF WeatherGate!NoVerdict
    <3> QED BY <2>1, <3>1 DEF SkyInd, DecisionSays, PredictionSays
  <2>2. CASE decision # WeatherGate!NoVerdict /\ prediction # WeatherGate!NoVerdict
    <3>1. decision.at \in Nat /\ decision.snapshot.at = decision.at /\ decision.snapshot.place = prediction.snapshot.place
      BY <2>2 DEF SkyInd, DecisionSays
    <3>2. decision.snapshot # WeatherGate!NoSnapshot /\ decision.at - decision.snapshot.at <= Stale
      BY <3>1 DEF WeatherGate!NoSnapshot, WeatherGate!WeatherGateAssumption
    <3>3. WeatherGate!Parsed(decision.snapshot.place, decision.at) = WeatherGate!AtOccurrence(decision.snapshot.place, decision.at)
      BY <3>1, SameHours
    <3> QED BY <2>2, <3>1, <3>2, <3>3 DEF SkyInd, DecisionSays, PredictionSays
  <2> QED BY <2>1, <2>2
<1> QED BY <1>1, <1>2, <1>3, PTL DEF WeatherGate!Spec

-----------------------------------------------------------------------------
(* The countdown.                                                          *)

Calls == {"none", "static", "irrigate", "states", "stop", "rain sensor", "rain delay"}
ServiceRequests ==
  [op : {"none", "status", "start", "rename", "stop"}, call : Calls, zone : Zones \cup {None}, minutes : Nat, read : Zones \cup {None}]
ServiceTypes ==
  /\ device \in [zone : Zones \cup {None}, left : Nat, age : Nat, reported : BOOLEAN]
  /\ run \in [zone : Zones \cup {None}, age : Nat, duration : Nat, observed : BOOLEAN]
  /\ clients \in [Clients -> ServiceRequests] /\ ours \in BOOLEAN /\ missed \in BOOLEAN

\* Only a start tells the controller to water, and it tells which zone and how long.
StartsTell == \A c \in Clients : (clients[c].op = "start" => clients[c].minutes > 0) /\ (clients[c].call = "irrigate" => clients[c].op = "start")
\* The run the service tracks is the controller's, minute by minute; the controller is
\* silent about it during the lag alone, and a run once observed is no longer silent.
Counting ==
  (device.zone # None /\ ours /\ ~missed) =>
    /\ run.zone = device.zone /\ run.duration = run.age + device.left /\ device.age = run.age
    /\ (~device.reported => device.age <= Lag) /\ (run.observed => device.reported)
CountInd == ServiceTypes /\ StartsTell /\ (device.zone # None => device.left > 0) /\ Counting

\* What the invariant says of requests survives a step that gives one its next call.
LEMMA NextCall ==
  ASSUME ServiceTypes, StartsTell, NEW c \in Clients, NEW n \in ServiceRequests, clients' = [clients EXCEPT ![c] = n],
         n.op = "start" => n.minutes > 0, n.call = "irrigate" => n.op = "start"
  PROVE  clients' \in [Clients -> ServiceRequests] /\ StartsTell'
PROOF
<1>1. clients'[c] = n /\ \A d \in Clients \ {c} : clients'[d] = clients[d]
  BY DEF ServiceTypes
<1>2. clients' \in [Clients -> ServiceRequests]
  BY DEF ServiceTypes
<1>3. StartsTell'
  BY <1>1 DEF StartsTell
<1> QED BY <1>2, <1>3

\* A poll that has read what the controller reports keeps the countdown, and a run
\* that it observes is reported.
LEMMA PollKeepsRun ==
  ASSUME Controller!ControllerAssumption, CountInd, device.zone # None, ours, ~missed
  PROVE  \/ Controller!Pruned(Controller!Reported) = run
         \/ (Controller!Pruned(Controller!Reported) = [run EXCEPT !.observed = TRUE] /\ device.reported)
PROOF
<1>1. Lag \in Nat /\ StartupGrace \in Nat /\ HardExpirySlack \in Nat /\ Lag < StartupGrace
  BY DEF Controller!ControllerAssumption
<1>2. /\ device.left \in Nat /\ device.left > 0 /\ run.age \in Nat /\ run.duration \in Nat
      /\ run.zone = device.zone /\ run.duration = run.age + device.left /\ device.age = run.age
      /\ (~device.reported => device.age <= Lag) /\ (run.observed => device.reported) /\ device.reported \in BOOLEAN
  BY DEF CountInd, ServiceTypes, Counting
<1>3. ~Controller!Expired
  BY <1>1, <1>2 DEF Controller!Expired
<1>4. run # Controller!NoRun
  BY <1>2 DEF Controller!NoRun
<1>5. CASE device.reported
  BY <1>2, <1>3, <1>4, <1>5 DEF Controller!Reported, Controller!Pruned
<1>6. CASE ~device.reported
  <2>1. run.age < StartupGrace
    BY <1>1, <1>2, <1>6
  <2>2. Controller!Reported = None /\ run.zone # None
    BY <1>2, <1>6 DEF Controller!Reported
  <2>3. ~(run.age >= StartupGrace) /\ ~run.observed
    BY <1>1, <1>2, <1>6, <2>1
  <2> QED BY <1>2, <1>3, <1>4, <2>2, <2>3 DEF Controller!Pruned
<1> QED BY <1>2, <1>5, <1>6

\* A poll makes a run of a run.
LEMMA PollTypes == ASSUME Controller!ControllerAssumption, ServiceTypes, NEW active
                   PROVE  Controller!Pruned(active) \in [zone : Zones \cup {None}, age : Nat, duration : Nat, observed : BOOLEAN]
PROOF
<1>1. Controller!NoRun \in [zone : Zones \cup {None}, age : Nat, duration : Nat, observed : BOOLEAN]
  BY DEF Controller!NoRun
<1>2. [run EXCEPT !.observed = TRUE] \in [zone : Zones \cup {None}, age : Nat, duration : Nat, observed : BOOLEAN]
  BY DEF ServiceTypes
<1>3. Controller!Pruned(active) \in {Controller!NoRun, run, [run EXCEPT !.observed = TRUE]}
  BY DEF Controller!Pruned
<1> QED BY <1>1, <1>2, <1>3 DEF ServiceTypes

\* Time passes for the controller and the service alike, and the dial takes the zone
\* from the service.
LEMMA DeviceCounts == ASSUME Controller!ControllerAssumption, CountInd, Controller!Tick \/ Controller!Dial PROVE CountInd'
PROOF
<1>1. Lag \in Nat /\ HardExpirySlack \in Nat /\ Durations \subseteq Nat \ {0} /\ None \notin Zones
  BY DEF Controller!ControllerAssumption
<1>2. Controller!Off \in [zone : Zones \cup {None}, left : Nat, age : Nat, reported : BOOLEAN] /\ Controller!Off.zone = None
  BY DEF Controller!Off
<1>3. UNCHANGED <<clients, missed>> /\ StartsTell'
  BY DEF CountInd, StartsTell, Controller!Tick, Controller!Dial
<1>4. CASE Controller!Dial
  <2>1. ours' = FALSE /\ run' = run
    BY <1>4 DEF Controller!Dial
  <2>2. device' \in [zone : Zones \cup {None}, left : Nat, age : Nat, reported : BOOLEAN] /\ (device'.zone # None => device'.left > 0)
    <3>1. CASE device' = Controller!Off
      BY <1>2, <3>1
    <3>2. ASSUME NEW z \in Zones, NEW n \in Durations, device' = [zone |-> z, left |-> n, age |-> 0, reported |-> TRUE]
          PROVE  device' \in [zone : Zones \cup {None}, left : Nat, age : Nat, reported : BOOLEAN] /\ (device'.zone # None => device'.left > 0)
      <4>1. n \in Nat /\ n > 0
        BY <1>1
      <4> QED BY <3>2, <4>1
    <3> QED BY <1>4, <3>1, <3>2 DEF Controller!Dial
  <2>3. ServiceTypes'
    BY <1>3, <2>1, <2>2 DEF CountInd, ServiceTypes
  <2>4. Counting'
    BY <2>1 DEF Counting
  <2> QED BY <1>3, <2>2, <2>3, <2>4 DEF CountInd
<1>5. CASE Controller!Tick
  <2>1. PICK reported \in {device.reported, TRUE} :
          /\ device.age >= Lag => reported
          /\ device' = IF device.left <= 1 THEN Controller!Off ELSE [device EXCEPT !.left = @ - 1, !.age = @ + 1, !.reported = reported]
    BY <1>5 DEF Controller!Tick
  <2>2. /\ run' = IF run.age > run.duration + HardExpirySlack THEN run ELSE [run EXCEPT !.age = IF run = Controller!NoRun THEN 0 ELSE @ + 1]
        /\ ours' = ours
    BY <1>5 DEF Controller!Tick
  <2>3. /\ device.left \in Nat /\ device.age \in Nat /\ device.zone \in Zones \cup {None} /\ device.reported \in BOOLEAN
        /\ run.age \in Nat /\ run.duration \in Nat /\ reported \in BOOLEAN
    BY DEF CountInd, ServiceTypes
  <2>4. device' = Controller!Off \/
        /\ device' \in [zone : Zones \cup {None}, left : Nat, age : Nat, reported : BOOLEAN]
        /\ device.left > 1 /\ device'.left = device.left - 1 /\ device'.age = device.age + 1
        /\ device'.zone = device.zone /\ device'.reported = reported
    <3>1. CASE device.left <= 1
      BY <2>1, <3>1
    <3>2. CASE ~(device.left <= 1)
      <4>1. device' = [device EXCEPT !.left = device.left - 1, !.age = device.age + 1, !.reported = reported]
        BY <2>1, <3>2
      <4>2. device.left - 1 \in Nat /\ device.age + 1 \in Nat
        BY <2>3, <3>2
      <4>3. /\ device' \in [zone : Zones \cup {None}, left : Nat, age : Nat, reported : BOOLEAN]
            /\ device'.left = device.left - 1 /\ device'.age = device.age + 1
            /\ device'.zone = device.zone /\ device'.reported = reported
        BY <2>3, <4>1, <4>2 DEF CountInd, ServiceTypes
      <4>4. device.left > 1
        BY <2>3, <3>2
      <4> QED BY <4>3, <4>4
    <3> QED BY <3>1, <3>2
  <2>5. run' \in [zone : Zones \cup {None}, age : Nat, duration : Nat, observed : BOOLEAN]
    <3>1. (IF run = Controller!NoRun THEN 0 ELSE run.age + 1) \in Nat
      BY <2>3
    <3> QED BY <2>2, <3>1 DEF CountInd, ServiceTypes
  <2>6. ServiceTypes' /\ (device'.zone # None => device'.left > 0)
    <3>1. device' \in [zone : Zones \cup {None}, left : Nat, age : Nat, reported : BOOLEAN]
      BY <1>2, <2>4
    <3>2. device'.zone # None => device'.left > 0
      BY <1>2, <2>3, <2>4
    <3> QED BY <1>3, <2>2, <2>5, <3>1, <3>2 DEF CountInd, ServiceTypes
  <2>7. Counting'
    <3> SUFFICES ASSUME device'.zone # None, ours, ~missed
                 PROVE  /\ run'.zone = device'.zone /\ run'.duration = run'.age + device'.left /\ device'.age = run'.age
                        /\ (~device'.reported => device'.age <= Lag) /\ (run'.observed => device'.reported)
      BY <1>3, <2>2 DEF Counting
    <3>1. /\ device.left > 1 /\ device'.left = device.left - 1 /\ device'.age = device.age + 1
          /\ device'.zone = device.zone /\ device'.reported = reported /\ device.zone # None
      BY <1>2, <2>4
    <3>2. /\ run.zone = device.zone /\ run.duration = run.age + device.left /\ device.age = run.age
          /\ (run.observed => device.reported)
      BY <3>1 DEF CountInd, Counting
    <3>3. run # Controller!NoRun
      BY <3>1, <3>2 DEF Controller!NoRun
    <3>4. ~(run.age > run.duration + HardExpirySlack)
      BY <1>1, <2>3, <3>2
    <3>5. run' = [run EXCEPT !.age = run.age + 1]
      BY <2>2, <3>3, <3>4
    <3>6. run'.age = run.age + 1 /\ run'.zone = run.zone /\ run'.duration = run.duration /\ run'.observed = run.observed
      BY <3>5 DEF CountInd, ServiceTypes
    <3>7. run'.duration = run'.age + device'.left /\ device'.age = run'.age
      BY <2>3, <3>1, <3>2, <3>6
    <3>8. ~device'.reported => device'.age <= Lag
      BY <1>1, <2>1, <2>3, <3>1
    <3>9. run'.observed => device'.reported
      BY <2>1, <3>1, <3>2, <3>6
    <3> QED BY <3>1, <3>2, <3>6, <3>7, <3>8, <3>9
  <2> QED BY <1>3, <2>6, <2>7 DEF CountInd
<1> QED BY <1>4, <1>5

\* A call that touches neither the controller nor the run.
LEMMA CallOnly ==
  ASSUME CountInd, UNCHANGED <<device, run, ours>>, missed' \in BOOLEAN, missed => missed',
         NEW c \in Clients, NEW n \in ServiceRequests, clients' = [clients EXCEPT ![c] = n],
         n.op = "start" => n.minutes > 0, n.call = "irrigate" => n.op = "start"
  PROVE  CountInd'
PROOF
<1>1. clients' \in [Clients -> ServiceRequests] /\ StartsTell'
  BY NextCall DEF CountInd
<1>2. ServiceTypes'
  BY <1>1 DEF CountInd, ServiceTypes
<1>3. Counting'
  BY DEF CountInd, Counting
<1> QED BY <1>1, <1>2, <1>3 DEF CountInd

\* A call that makes the states it has read the service's own.
LEMMA PollCall ==
  ASSUME Controller!ControllerAssumption, CountInd, UNCHANGED <<device, ours>>, missed' \in BOOLEAN, missed => missed',
         NEW active, run' = Controller!Pruned(active), active = Controller!Reported \/ missed',
         NEW c \in Clients, clients' = [clients EXCEPT ![c] = Controller!Done]
  PROVE  CountInd'
PROOF
<1>1. Controller!Done \in ServiceRequests /\ Controller!Done.op # "start" /\ Controller!Done.call # "irrigate"
  BY DEF Controller!Done, ServiceRequests, Calls
<1>2. clients' \in [Clients -> ServiceRequests] /\ StartsTell'
  BY <1>1, NextCall DEF CountInd
<1>3. ServiceTypes'
  BY <1>2, PollTypes DEF CountInd, ServiceTypes
<1>4. Counting'
  <2> SUFFICES ASSUME device.zone # None, ours, ~missed'
               PROVE  /\ run'.zone = device.zone /\ run'.duration = run'.age + device.left /\ device.age = run'.age
                      /\ (~device.reported => device.age <= Lag) /\ (run'.observed => device.reported)
    BY DEF Counting
  <2>1. run' = run \/ (run' = [run EXCEPT !.observed = TRUE] /\ device.reported)
    BY PollKeepsRun
  <2>2. run'.zone = run.zone /\ run'.duration = run.duration /\ run'.age = run.age /\ (run'.observed => run.observed \/ device.reported)
    BY <2>1 DEF CountInd, ServiceTypes
  <2> QED BY <2>2 DEF CountInd, Counting
<1> QED BY <1>2, <1>3, <1>4 DEF CountInd

\* A request's own steps.
LEMMA ServiceCall ==
  ASSUME Controller!ControllerAssumption, CountInd, NEW c \in Clients,
         \/ Controller!Ask(c, "status", None, 0) \/ Controller!Ask(c, "stop", None, 0)
         \/ \E z \in Zones : Controller!Ask(c, "rename", z, 0) \/ \E m \in Durations : Controller!Ask(c, "start", z, m)
         \/ Controller!ReadStatic(c) \/ Controller!Irrigate(c) \/ Controller!StopIrrigation(c) \/ Controller!ReadStates(c)
         \/ Controller!ReadSensor(c) \/ Controller!ReadDelay(c) \/ Controller!CallFails(c)
  PROVE  CountInd'
PROOF
<1> DEFINE q == clients[c]
<1>1. Durations \subseteq Nat \ {0} /\ None \notin Zones
  BY DEF Controller!ControllerAssumption
<1>2. q \in ServiceRequests /\ (q.op = "start" => q.minutes > 0) /\ (q.call = "irrigate" => q.op = "start")
      /\ clients \in [Clients -> ServiceRequests]
  BY DEF CountInd, ServiceTypes, StartsTell
<1>3. Controller!Done \in ServiceRequests /\ Controller!Done.op # "start" /\ Controller!Done.call # "irrigate"
  BY DEF Controller!Done, ServiceRequests, Calls
<1>4. Controller!Reported \in Zones \cup {None} /\ missed \in BOOLEAN
  BY DEF CountInd, ServiceTypes, Controller!Reported
<1>5. ASSUME NEW op \in {"status", "stop", "rename", "start"}, NEW z \in Zones \cup {None}, NEW m \in Nat,
             op = "start" => m > 0, Controller!Ask(c, op, z, m)
      PROVE  CountInd'
  <2> DEFINE n == [Controller!Done EXCEPT !.op = op, !.call = Controller!First(op), !.zone = z, !.minutes = m]
  <2>1. Controller!First(op) \in Calls /\ (Controller!First(op) = "irrigate" => op = "start")
    BY <1>5 DEF Controller!First, Calls
  <2>2. n \in ServiceRequests /\ n.op = op /\ n.call = Controller!First(op) /\ n.minutes = m
    BY <1>3, <1>5, <2>1 DEF ServiceRequests
  <2>3. clients' = [clients EXCEPT ![c] = n] /\ UNCHANGED <<device, run, ours, missed>>
    BY <1>5 DEF Controller!Ask
  <2> HIDE DEF n
  <2>4. (n.op = "start" => n.minutes > 0) /\ (n.call = "irrigate" => n.op = "start") /\ missed' \in BOOLEAN /\ (missed => missed')
    BY <1>4, <1>5, <2>1, <2>2, <2>3
  <2> QED BY <2>2, <2>3, <2>4, CallOnly
<1>6. ASSUME NEW call \in Calls, call # "irrigate" \/ q.op = "start", clients' = [clients EXCEPT ![c].call = call],
             UNCHANGED <<device, run, ours, missed>>
      PROVE  CountInd'
  <2> DEFINE n == [q EXCEPT !.call = call]
  <2>1. n \in ServiceRequests /\ n.op = q.op /\ n.call = call /\ n.minutes = q.minutes
    BY <1>2, <1>6 DEF ServiceRequests
  <2>2. clients' = [clients EXCEPT ![c] = n]
    BY <1>6
  <2> HIDE DEF n
  <2>3. (n.op = "start" => n.minutes > 0) /\ (n.call = "irrigate" => n.op = "start") /\ missed' \in BOOLEAN /\ (missed => missed')
    BY <1>2, <1>4, <1>6, <2>1
  <2> QED BY <1>6, <2>1, <2>2, <2>3, CallOnly
<1>7. CASE Controller!ReadStatic(c) \/ Controller!ReadSensor(c)
  <2>1. PICK call \in {"irrigate", "states", "rain delay"} :
          (call # "irrigate" \/ q.op = "start") /\ clients' = [clients EXCEPT ![c].call = call]
    BY <1>7 DEF Controller!ReadStatic, Controller!ReadSensor, Controller!Then
  <2>2. UNCHANGED <<device, run, ours, missed>> /\ call \in Calls
    BY <1>7 DEF Controller!ReadStatic, Controller!ReadSensor, Calls
  <2> QED BY <1>6, <2>1, <2>2
<1>8. CASE Controller!Irrigate(c) \/ Controller!StopIrrigation(c)
  <2> DEFINE n == [q EXCEPT !.call = "states"]
  <2>1. clients' = [clients EXCEPT ![c] = n]
    BY <1>8 DEF Controller!Irrigate, Controller!StopIrrigation, Controller!Then
  <2>2. n \in ServiceRequests /\ n.op = q.op /\ n.call = "states" /\ n.minutes = q.minutes
    BY <1>2 DEF ServiceRequests, Calls
  <2> HIDE DEF n
  <2>3. clients' \in [Clients -> ServiceRequests] /\ StartsTell'
    BY <1>2, <2>1, <2>2, NextCall DEF CountInd
  <2>4. CASE Controller!Irrigate(c)
    <3>1. /\ device' = [zone |-> q.zone, left |-> q.minutes, age |-> 0, reported |-> FALSE]
          /\ run' = [zone |-> q.zone, age |-> 0, duration |-> q.minutes, observed |-> FALSE]
          /\ ours' = TRUE /\ missed' = FALSE /\ q.call = "irrigate"
      BY <2>4 DEF Controller!Irrigate, Controller!Irrigated, Controller!Turn
    <3>2. q.zone \in Zones \cup {None} /\ q.minutes \in Nat /\ q.minutes > 0
      BY <1>2, <3>1 DEF ServiceRequests
    <3> HIDE DEF q
    <3>3. ServiceTypes'
      BY <2>3, <3>1, <3>2 DEF ServiceTypes
    <3>4. Counting' /\ (device'.zone # None => device'.left > 0)
      BY <3>1, <3>2 DEF Counting, Controller!ControllerAssumption
    <3> QED BY <2>3, <3>3, <3>4 DEF CountInd
  <2>5. CASE Controller!StopIrrigation(c)
    <3>1. device' = Controller!Off /\ run' = Controller!NoRun /\ ours' = FALSE /\ missed' = missed
      BY <2>5 DEF Controller!StopIrrigation
    <3>2. ServiceTypes' /\ (device'.zone # None => device'.left > 0)
      BY <1>4, <2>3, <3>1 DEF ServiceTypes, Controller!Off, Controller!NoRun
    <3>3. Counting'
      BY <3>1 DEF Counting
    <3> QED BY <2>3, <3>2, <3>3 DEF CountInd
  <2> QED BY <1>8, <2>4, <2>5
<1>9. CASE Controller!ReadStates(c)
  <2>1. UNCHANGED <<device, ours, missed>>
    BY <1>9 DEF Controller!ReadStates
  <2>2. CASE q.op = "status"
    <3> DEFINE n == [q EXCEPT !.call = "rain sensor", !.read = Controller!Reported]
    <3>1. clients' = [clients EXCEPT ![c] = n] /\ run' = run
      BY <1>9, <2>2 DEF Controller!ReadStates
    <3>2. n \in ServiceRequests /\ n.op = "status" /\ n.call = "rain sensor"
      BY <1>2, <1>4, <2>2 DEF ServiceRequests, Calls
    <3> HIDE DEF n
    <3> QED BY <1>4, <2>1, <3>1, <3>2, CallOnly
  <2>3. CASE q.op # "status"
    <3>1. run' = Controller!Pruned(Controller!Reported) /\ clients' = [clients EXCEPT ![c] = Controller!Done]
      BY <1>9, <2>3 DEF Controller!ReadStates, Controller!Finish
    <3> QED BY <1>4, <2>1, <3>1, PollCall
  <2> QED BY <2>2, <2>3
<1>10. CASE Controller!ReadDelay(c)
  <2>1. /\ run' = Controller!Pruned(q.read) /\ clients' = [clients EXCEPT ![c] = Controller!Done]
        /\ UNCHANGED <<device, ours>> /\ missed' = (missed \/ q.read # Controller!Reported)
    BY <1>10 DEF Controller!ReadDelay, Controller!Finish
  <2>2. missed' \in BOOLEAN /\ (missed => missed') /\ (q.read = Controller!Reported \/ missed')
    BY <2>1
  <2> HIDE DEF q
  <2> QED BY <2>1, <2>2, PollCall
<1>11. CASE Controller!CallFails(c)
  <2>1. clients' = [clients EXCEPT ![c] = Controller!Done] /\ UNCHANGED <<run, missed>>
    BY <1>11 DEF Controller!CallFails, Controller!Finish
  <2>2. CASE UNCHANGED <<device, ours>>
    BY <1>3, <1>4, <2>1, <2>2, CallOnly
  <2>3. CASE ~UNCHANGED <<device, ours>>
    <3>1. ours' = FALSE /\ (device' = Controller!Off \/ (q.call = "irrigate" /\ device' = Controller!Irrigated(q.zone, q.minutes)))
      BY <1>11, <2>3 DEF Controller!CallFails
    <3>2. q.zone \in Zones \cup {None} /\ q.minutes \in Nat /\ (q.call = "irrigate" => q.minutes > 0)
      BY <1>2 DEF ServiceRequests
    <3> HIDE DEF q
    <3>3. device' \in [zone : Zones \cup {None}, left : Nat, age : Nat, reported : BOOLEAN] /\ (device'.zone # None => device'.left > 0)
      <4>1. CASE device' = Controller!Off
        BY <4>1 DEF Controller!Off
      <4>2. CASE q.call = "irrigate" /\ device' = [zone |-> q.zone, left |-> q.minutes, age |-> 0, reported |-> FALSE]
        BY <3>2, <4>2
      <4> QED BY <3>1, <4>1, <4>2 DEF Controller!Irrigated
    <3>4. clients' \in [Clients -> ServiceRequests] /\ StartsTell'
      BY <1>3, <2>1, NextCall DEF CountInd
    <3>5. ServiceTypes'
      BY <2>1, <3>1, <3>3, <3>4 DEF CountInd, ServiceTypes
    <3>6. Counting'
      BY <3>1 DEF Counting
    <3> QED BY <3>3, <3>4, <3>5, <3>6 DEF CountInd
  <2> QED BY <2>2, <2>3
<1>12. ASSUME Controller!Ask(c, "status", None, 0) \/ Controller!Ask(c, "stop", None, 0) PROVE CountInd'
  BY <1>5, <1>12
<1>13. ASSUME NEW z \in Zones, Controller!Ask(c, "rename", z, 0) \/ \E m \in Durations : Controller!Ask(c, "start", z, m) PROVE CountInd'
  <2>1. CASE Controller!Ask(c, "rename", z, 0)
    BY <1>5, <2>1
  <2>2. ASSUME NEW m \in Durations, Controller!Ask(c, "start", z, m) PROVE CountInd'
    <3>1. m \in Nat /\ m > 0
      BY <1>1
    <3> QED BY <1>5, <2>2, <3>1
  <2> QED BY <1>13, <2>1, <2>2
<1> QED BY <1>7, <1>8, <1>9, <1>10, <1>11, <1>12, <1>13

\* A zone that the service has started counts down as the controller does, from the
\* start to the end, through the lag and through other requests' polls
\* (RainBirdService._prune_stale_run, rainbird.py), for any zones, requests, durations,
\* lag shorter than the grace, and slack.
LEMMA CountsDown == ASSUME Controller!ControllerAssumption PROVE Controller!Spec => []Controller!CountdownIsTrue
PROOF
<1>1. Controller!Init => CountInd
  <2> SUFFICES ASSUME Controller!Init PROVE CountInd
    OBVIOUS
  <2>1. Controller!Done \in ServiceRequests /\ Controller!Done.op # "start" /\ Controller!Done.call # "irrigate"
    BY DEF Controller!Done, ServiceRequests, Calls
  <2>2. device.zone = None /\ ServiceTypes
    BY <2>1 DEF Controller!Init, Controller!Off, Controller!NoRun, ServiceTypes
  <2> QED BY <2>1, <2>2 DEF Controller!Init, CountInd, StartsTell, Counting
<1>2. CountInd /\ [Controller!Next]_(Controller!vars) => CountInd'
  <2> SUFFICES ASSUME CountInd, [Controller!Next]_(Controller!vars) PROVE CountInd'
    OBVIOUS
  <2>1. CASE UNCHANGED Controller!vars
    BY <2>1 DEF Controller!vars, CountInd, ServiceTypes, StartsTell, Counting
  <2>2. CASE Controller!Tick \/ Controller!Dial
    BY <2>2, DeviceCounts
  <2>3. ASSUME NEW c \in Clients,
               \/ Controller!Ask(c, "status", None, 0) \/ Controller!Ask(c, "stop", None, 0)
               \/ \E z \in Zones : Controller!Ask(c, "rename", z, 0) \/ \E m \in Durations : Controller!Ask(c, "start", z, m)
               \/ Controller!ReadStatic(c) \/ Controller!Irrigate(c) \/ Controller!StopIrrigation(c) \/ Controller!ReadStates(c)
               \/ Controller!ReadSensor(c) \/ Controller!ReadDelay(c) \/ Controller!CallFails(c)
        PROVE  CountInd'
    BY <2>3, ServiceCall
  <2> QED BY <2>1, <2>2, <2>3 DEF Controller!Next
<1>3. CountInd => Controller!CountdownIsTrue
  <2> SUFFICES ASSUME CountInd, device.zone # None, ours, ~missed
               PROVE  run.zone = device.zone /\ Controller!Remaining(run, device.zone) = device.left
    BY DEF Controller!CountdownIsTrue
  <2>1. device.left \in Nat /\ run.age \in Nat /\ run.duration \in Nat /\ device.left > 0
        /\ run.zone = device.zone /\ run.duration = run.age + device.left
    BY DEF CountInd, ServiceTypes, Counting
  <2>2. run.duration > run.age /\ run.duration - run.age = device.left
    BY <2>1
  <2> QED BY <2>1, <2>2 DEF Controller!Remaining
<1> QED BY <1>1, <1>2, <1>3, PTL DEF Controller!Spec
-----------------------------------------------------------------------------
(* The stub executor and the mock, against the API they stand in for.      *)

\* Some numbers have a least one.
LEMMA Least == ASSUME NEW T \in SUBSET Nat, T # {} PROVE \E x \in T : \A y \in T : x <= y
PROOF
<1> DEFINE Less == {ss \in Nat \X Nat : ss[1] < ss[2]}
<1>1. IsWellFoundedOn(Less, Nat)
  BY NatLessThanWellFounded DEF OpToRel
<1>2. \A x, y \in Nat : <<y, x>> \notin Less => x <= y
  OBVIOUS
<1> HIDE DEF Less
<1>3. PICK x \in T : \A y \in T : ~(<<y, x>> \in Less)
  BY <1>1, WFMin
<1> QED BY <1>2, <1>3

\* When the steps of a run end, for the run and the start of any state.
EndsOf(e, r, s) == e = [i \in 0..Len(r) |-> IF i = 0 THEN s ELSE e[i - 1] + r[i].left]

\* There are such ends.
LEMMA EndsExist == ASSUME NEW r \in Seq(StubExecutor!Steps), NEW s \in Int PROVE \E e : EndsOf(e, r, s)
PROOF
<1> DEFINE F(e, n) == e = [i \in 0..n |-> IF i = 0 THEN s ELSE e[i - 1] + r[i].left]
           T == {n \in 0..Len(r) : ~\E e : F(e, n)}
<1>1. Len(r) \in Nat
  OBVIOUS
<1>2. SUFFICES ASSUME T # {} PROVE FALSE
  BY <1>1 DEF EndsOf
<1>3. T \in SUBSET Nat
  BY <1>1
<1>4. PICK n \in T : \A k \in T : n <= k
  <2> HIDE DEF T
  <2> QED BY <1>2, <1>3, Least
<1>5. n \in 0..Len(r) /\ n \in Nat /\ ~\E e : F(e, n)
  BY <1>1, <1>4
<1>6. n # 0
  <2>1. F([i \in 0..0 |-> s], 0)
    OBVIOUS
  <2> QED BY <1>5, <2>1
<1>7. n - 1 \in 0..Len(r) /\ ~(n <= n - 1)
  BY <1>1, <1>5, <1>6
<1>8. PICK e : F(e, n - 1)
  BY <1>4, <1>7
<1> DEFINE g == [i \in 0..n |-> IF i = n THEN e[n - 1] + r[n].left ELSE e[i]]
<1>9. F(g, n)
  <2> SUFFICES ASSUME NEW i \in 0..n PROVE g[i] = IF i = 0 THEN s ELSE g[i - 1] + r[i].left
    OBVIOUS
  <2>1. CASE i = n
    <3>1. n - 1 \in 0..n /\ n - 1 # n
      BY <1>5, <1>6
    <3>2. g[n - 1] = e[n - 1]
      BY <3>1
    <3> QED BY <1>6, <2>1, <3>2
  <2>2. CASE i # n
    <3>1. i \in 0..(n - 1) /\ g[i] = e[i]
      BY <1>5, <2>2
    <3>2. e[i] = IF i = 0 THEN s ELSE e[i - 1] + r[i].left
      <4> HIDE DEF g
      <4> QED BY <1>8, <3>1
    <3>3. i # 0 => i - 1 \in 0..n /\ i - 1 # n
      BY <1>5, <3>1
    <3>4. i # 0 => g[i - 1] = e[i - 1]
      BY <3>3
    <3> QED BY <3>1, <3>2, <3>4
  <2> QED BY <2>1, <2>2
<1> QED BY <1>5, <1>9

\* They follow each other.
LEMMA EndsGrow ==
  ASSUME NEW r \in Seq(StubExecutor!Steps), NEW s \in Int, NEW e, EndsOf(e, r, s)
  PROVE  /\ e[0] = s /\ \A i \in 1..Len(r) : e[i] = e[i - 1] + r[i].left
         /\ \A i \in 0..Len(r) : e[i] \in Int
         /\ \A i, j \in 0..Len(r) : i < j => e[i] < e[j]
PROOF
<1>1. Len(r) \in Nat /\ \A i \in 1..Len(r) : r[i].left \in Nat \ {0}
  <2>1. \A i \in 1..Len(r) : r[i] \in StubExecutor!Steps
    OBVIOUS
  <2> QED BY <2>1 DEF StubExecutor!Steps
<1>2. e[0] = s /\ \A i \in 1..Len(r) : i \in 0..Len(r) /\ i # 0 /\ i - 1 \in 0..Len(r) /\ e[i] = e[i - 1] + r[i].left
  <2>1. \A i \in 0..Len(r) : e[i] = IF i = 0 THEN s ELSE e[i - 1] + r[i].left
    BY DEF EndsOf
  <2>2. 0 \in 0..Len(r) /\ \A i \in 1..Len(r) : i \in 0..Len(r) /\ i # 0 /\ i - 1 \in 0..Len(r)
    BY <1>1
  <2> QED BY <2>1, <2>2
<1>3. \A i \in 0..Len(r) : e[i] \in Int
  <2> DEFINE T == {i \in 0..Len(r) : e[i] \notin Int}
  <2>1. SUFFICES ASSUME T # {} PROVE FALSE
    OBVIOUS
  <2>2. T \in SUBSET Nat
    BY <1>1
  <2>3. PICK i \in T : \A k \in T : i <= k
    <3> HIDE DEF T
    <3> QED BY <2>1, <2>2, Least
  <2>4. i \in 1..Len(r) /\ i - 1 \in 0..Len(r) /\ ~(i <= i - 1)
    BY <1>1, <1>2, <2>3
  <2>5. e[i - 1] \in Int
    BY <2>3, <2>4
  <2> QED BY <1>1, <1>2, <2>3, <2>4, <2>5
<1>4. \A i, j \in 0..Len(r) : i < j => e[i] < e[j]
  <2> SUFFICES ASSUME NEW i \in 0..Len(r) PROVE \A j \in 0..Len(r) : i < j => e[i] < e[j]
    OBVIOUS
  <2> DEFINE T == {j \in 0..Len(r) : i < j /\ ~(e[i] < e[j])}
  <2>1. SUFFICES ASSUME T # {} PROVE FALSE
    OBVIOUS
  <2>2. T \in SUBSET Nat
    BY <1>1
  <2>3. PICK j \in T : \A k \in T : j <= k
    <3> HIDE DEF T
    <3> QED BY <2>1, <2>2, Least
  <2>4. j \in 1..Len(r) /\ j - 1 \in 0..Len(r) /\ ~(j <= j - 1) /\ i <= j - 1
    BY <1>1, <2>3
  <2>5. i = j - 1 \/ e[i] < e[j - 1]
    BY <2>3, <2>4
  <2>6. e[j] = e[j - 1] + r[j].left /\ r[j].left \in Nat \ {0} /\ e[i] \in Int /\ e[j - 1] \in Int
    BY <1>1, <1>2, <1>3, <2>4
  <2>7. e[i] < e[j]
    BY <2>5, <2>6
  <2> QED BY <2>3, <2>7
<1> QED BY <1>2, <1>3, <1>4

\* The stub's are.
LEMMA StubEnds ==
  ASSUME programRun \in Seq(StubExecutor!Steps), startedAt \in Int PROVE EndsOf(StubExecutor!Ends, programRun, startedAt)
PROOF
<1>1. \E e : EndsOf(e, programRun, startedAt)
  BY EndsExist
<1> QED BY <1>1 DEF EndsOf, StubExecutor!Ends

\* A sequence put together, and one with another first element.
Cons(y, q) == <<y>> \o q
Starts(a, x, q) == a # <<>> /\ a[1] = x /\ Tail(a) = q
WithFirst(a, y) == [a EXCEPT ![1] = y]
\* A sequence put together of its first element and the others.
LEMMA FirstAndRest ==
  ASSUME NEW S, NEW x \in S, NEW q \in Seq(S), NEW a, a = Cons(x, q)
  PROVE  /\ a \in Seq(S) /\ Starts(a, x, q)
         /\ \A y \in S : WithFirst(a, y) = Cons(y, q)
PROOF
<1>1. \A y \in S : /\ <<y>> \in Seq(S) /\ Len(<<y>>) = 1 /\ <<y>>[1] = y
                  /\ <<y>> \o q \in Seq(S) /\ Len(<<y>> \o q) = 1 + Len(q)
                  /\ \A i \in 1..(1 + Len(q)) : (<<y>> \o q)[i] = IF i <= 1 THEN <<y>>[i] ELSE q[i - 1]
  <2> SUFFICES ASSUME NEW y \in S
               PROVE  /\ <<y>> \in Seq(S) /\ Len(<<y>>) = 1 /\ <<y>>[1] = y
                      /\ <<y>> \o q \in Seq(S) /\ Len(<<y>> \o q) = 1 + Len(q)
                      /\ \A i \in 1..(1 + Len(q)) : (<<y>> \o q)[i] = IF i <= 1 THEN <<y>>[i] ELSE q[i - 1]
    OBVIOUS
  <2>1. <<y>> \in Seq(S) /\ Len(<<y>>) = 1 /\ <<y>>[1] = y
    OBVIOUS
  <2> QED BY <2>1, ConcatProperties
<1>2. Len(q) \in Nat
  OBVIOUS
<1>3. a \in Seq(S) /\ Len(a) = 1 + Len(q) /\ a[1] = x /\ \A i \in 1..(1 + Len(q)) : i # 1 => a[i] = q[i - 1]
  BY <1>1, <1>2 DEF Cons
<1>4. a # <<>>
  BY <1>2, <1>3
<1>5. Tail(a) = q
  <2>1. Tail(a) \in Seq(S) /\ Len(Tail(a)) = Len(q) /\ \A i \in 1..Len(Tail(a)) : Tail(a)[i] = a[i + 1]
    BY <1>2, <1>3, <1>4, HeadTailProperties
  <2>2. \A i \in 1..Len(Tail(a)) : Tail(a)[i] = q[i]
    <3> SUFFICES ASSUME NEW i \in 1..Len(q) PROVE a[i + 1] = q[i]
      BY <2>1
    <3>1. i + 1 \in 1..(1 + Len(q)) /\ i + 1 # 1 /\ (i + 1) - 1 = i
      BY <1>2
    <3> QED BY <1>3, <3>1
  <2> QED BY <2>1, <2>2, SeqEqual
<1>6. ASSUME NEW y \in S PROVE WithFirst(a, y) = Cons(y, q)
  <2> DEFINE b == [a EXCEPT ![1] = y]  c == <<y>> \o q
  <2>1. 1 \in 1..Len(a)
    BY <1>2, <1>3
  <2>2. b \in Seq(S) /\ Len(b) = Len(a) /\ \A j \in 1..Len(a) : b[j] = IF j = 1 THEN y ELSE a[j]
    <3>1. Len(a) \in Nat /\ DOMAIN a = 1..Len(a) /\ a \in [1..Len(a) -> S]
      BY <1>3, LenProperties
    <3>2. b \in [1..Len(a) -> S] /\ \A j \in 1..Len(a) : b[j] = IF j = 1 THEN y ELSE a[j]
      BY <2>1, <3>1
    <3> DEFINE n == Len(a)
    <3> HIDE DEF b, n
    <3>3. n \in Nat /\ b \in [1..n -> S]
      BY <3>1, <3>2 DEF n
    <3>4. b \in Seq(S) /\ Len(b) = n
      BY <3>3
    <3> QED BY <3>2, <3>4 DEF n
  <2>3. c \in Seq(S) /\ Len(c) = 1 + Len(q) /\ c[1] = y /\ \A i \in 1..(1 + Len(q)) : i # 1 => c[i] = q[i - 1]
    BY <1>1, <1>2
  <2> HIDE DEF b, c
  <2>4. \A i \in 1..Len(b) : b[i] = c[i]
    BY <1>2, <1>3, <2>2, <2>3
  <2>5. b = c
    BY <1>3, <2>2, <2>3, <2>4, SeqEqual
  <2> QED BY <2>5 DEF b, c, WithFirst, Cons
<1> QED BY <1>3, <1>4, <1>5, <1>6 DEF Starts

\* What the stub says of a run, and of the zones.
Left(r, e, t) == {i \in DOMAIN r : t < e[i]}
StatusAt(r, e, t) ==
  IF Left(r, e, t) = {} THEN <<>>
  ELSE LET i == StubExecutor!Min(Left(r, e, t))
       IN <<[zone |-> r[i].zone, left |-> e[i] - t]>> \o SubSeq(r, i + 1, Len(r))
StepAndRest(r, e, t, i) == Cons([zone |-> r[i].zone, left |-> e[i] - t], SubSeq(r, i + 1, Len(r)))
ActiveAt(ends, t) == {z \in Zones : ends[z] > t}
WateringAt(status, ends, t) ==
  IF status # <<>> THEN status
  ELSE IF ActiveAt(ends, t) = {} THEN <<>>
       ELSE LET z == CHOOSE z \in ActiveAt(ends, t) : TRUE IN <<[zone |-> z, left |-> ends[z] - t]>>
StubRun == StatusAt(programRun, StubExecutor!Ends, now)

\* It says so, before a step and after.
LEMMA StubReads ==
  /\ StubExecutor!RunStatus = StubRun /\ StubExecutor!RunStatus' = StubRun'
  /\ StubExecutor!Watering = WateringAt(StubRun, endsAt, now)
  /\ StubExecutor!Watering' = WateringAt(StubRun', endsAt', now')
PROOF
<1>1. StubExecutor!RunStatus = StubRun
  BY DEF StubExecutor!RunStatus, StubExecutor!StepsLeft, StubExecutor!EndOf, StubExecutor!NoRun, StubRun, StatusAt, Left
<1>2. StubExecutor!RunStatus' = StubRun'
  BY DEF StubExecutor!RunStatus, StubExecutor!StepsLeft, StubExecutor!EndOf, StubExecutor!NoRun, StubRun, StatusAt, Left
<1>3. StubExecutor!Watering = WateringAt(StubRun, endsAt, now)
  BY <1>1 DEF StubExecutor!Watering, StubExecutor!Active, StubExecutor!NoRun, WateringAt, ActiveAt
<1>4. StubExecutor!Watering' = WateringAt(StubRun', endsAt', now')
  BY <1>2 DEF StubExecutor!Watering, StubExecutor!Active, StubExecutor!NoRun, WateringAt, ActiveAt
<1> QED BY <1>1, <1>2, <1>3, <1>4

\* The step of a moment is the only one whose bounds it lies between.
LEMMA StatusWithin ==
  ASSUME NEW r \in Seq(StubExecutor!Steps), NEW s \in Int, NEW e, EndsOf(e, r, s), NEW t \in Int,
         NEW i \in 1..Len(r), e[i - 1] <= t, t < e[i]
  PROVE  StatusAt(r, e, t) = StepAndRest(r, e, t, i)
PROOF
<1> DEFINE L == Left(r, e, t)
<1>1. /\ Len(r) \in Nat /\ DOMAIN r = 1..Len(r) /\ i - 1 \in 0..Len(r) /\ e[i - 1] \in Int
      /\ \A k \in 1..Len(r) : k \in 0..Len(r) /\ e[k] \in Int
      /\ \A k \in 1..Len(r) : k < i - 1 => e[k] < e[i - 1]
  <2>1. Len(r) \in Nat /\ DOMAIN r = 1..Len(r) /\ i - 1 \in 0..Len(r) /\ \A k \in 1..Len(r) : k \in 0..Len(r)
    OBVIOUS
  <2> QED BY <2>1, EndsGrow
<1>2. \A k \in L : i <= k
  <2> SUFFICES ASSUME NEW k \in 1..Len(r), t < e[k], k < i PROVE FALSE
    BY <1>1 DEF Left
  <2>1. k = i - 1 \/ k < i - 1
    BY <1>1
  <2>2. e[k] <= e[i - 1]
    BY <1>1, <2>1
  <2> QED BY <1>1, <2>2
<1>3. i \in L /\ L \subseteq Int
  BY <1>1 DEF Left
<1>4. StubExecutor!Min(L) = i
  <2> HIDE DEF L
  <2>1. \E x \in L : \A y \in L : x <= y
    BY <1>2, <1>3
  <2>2. StubExecutor!Min(L) \in L /\ \A y \in L : StubExecutor!Min(L) <= y
    BY <2>1, Zenon DEF StubExecutor!Min
  <2>3. StubExecutor!Min(L) <= i /\ i <= StubExecutor!Min(L) /\ StubExecutor!Min(L) \in Int
    BY <1>2, <1>3, <2>2
  <2> QED BY <1>1, <2>3
<1> QED BY <1>3, <1>4 DEF StatusAt, StepAndRest, Cons

\* No step is left when the last has ended.
LEMMA StatusAfter ==
  ASSUME NEW r \in Seq(StubExecutor!Steps), NEW s \in Int, NEW e, EndsOf(e, r, s), NEW t \in Int, e[Len(r)] <= t
  PROVE  StatusAt(r, e, t) = <<>>
PROOF
<1>1. Len(r) \in Nat /\ DOMAIN r = 1..Len(r) /\ Len(r) \in 0..Len(r) /\ \A k \in 1..Len(r) : k \in 0..Len(r)
  OBVIOUS
<1>2. \A k \in 1..Len(r) : e[k] \in Int /\ e[k] <= e[Len(r)] /\ e[Len(r)] \in Int
  BY <1>1, EndsGrow
<1>3. Left(r, e, t) = {}
  BY <1>1, <1>2 DEF Left
<1> QED BY <1>3 DEF StatusAt

\* It is over, or there is such a step.
LEMMA StepOrOver ==
  ASSUME NEW r \in Seq(StubExecutor!Steps), NEW s \in Int, NEW e, EndsOf(e, r, s), NEW t \in Int, s <= t, ~(e[Len(r)] <= t)
  PROVE  \E i \in 1..Len(r) : e[i - 1] <= t /\ t < e[i]
PROOF
<1> DEFINE T == {k \in 0..Len(r) : ~(e[k] <= t)}
<1>1. Len(r) \in Nat /\ Len(r) \in T /\ T \in SUBSET Nat
  OBVIOUS
<1>2. PICK i \in T : \A k \in T : i <= k
  <2> HIDE DEF T
  <2> QED BY <1>1, Least
<1>3. i # 0
  BY <1>2, EndsGrow
<1>4. i \in 1..Len(r) /\ i - 1 \in 0..Len(r) /\ ~(i <= i - 1)
  BY <1>1, <1>2, <1>3
<1>5. e[i - 1] <= t
  BY <1>2, <1>4
<1>6. t < e[i]
  <2>1. i \in 0..Len(r) /\ ~(e[i] <= t)
    BY <1>2
  <2>2. e[i] \in Int
    BY <2>1, EndsGrow
  <2> QED BY <2>1, <2>2
<1> QED BY <1>4, <1>5, <1>6

\* A moment of a plan: what waters has a moment less to go, or what follows it waters.
Ticked(a, b) ==
  IF a = <<>> THEN b = <<>> ELSE b = IF a[1].left > 1 THEN [a EXCEPT ![1].left = @ - 1] ELSE Tail(a)
LEMMA StatusTicks ==
  ASSUME NEW r \in Seq(StubExecutor!Steps), NEW s \in Int, NEW e, EndsOf(e, r, s), NEW t \in Int, s <= t
  PROVE  Ticked(StatusAt(r, e, t), StatusAt(r, e, t + 1))
PROOF
<1> DEFINE a == StatusAt(r, e, t)  b == StatusAt(r, e, t + 1)
<1> SUFFICES Ticked(a, b)
  OBVIOUS
<1>1. CASE e[Len(r)] <= t
  <2>1. e[Len(r)] \in Int /\ Len(r) \in Nat
    BY EndsGrow
  <2>2. e[Len(r)] <= t + 1 /\ t + 1 \in Int
    BY <1>1, <2>1
  <2>3. a = <<>> /\ b = <<>>
    BY <1>1, <2>2, StatusAfter
  <2> QED BY <2>3 DEF Ticked
<1>2. CASE ~(e[Len(r)] <= t)
  <2>1. PICK i \in 1..Len(r) : e[i - 1] <= t /\ t < e[i]
    BY <1>2, StepOrOver
  <2> DEFINE first == [zone |-> r[i].zone, left |-> e[i] - t]  rest == SubSeq(r, i + 1, Len(r))
  <2>2. a = Cons(first, rest)
    BY <2>1, StatusWithin DEF StepAndRest
  <2>3. Len(r) \in Nat /\ e[i] \in Int /\ e[i - 1] \in Int /\ rest \in Seq(StubExecutor!Steps)
        /\ first \in [zone : Zones, left : Int] /\ StubExecutor!Steps \subseteq [zone : Zones, left : Int]
    <3>1. Len(r) \in Nat /\ i - 1 \in 0..Len(r) /\ i \in 0..Len(r) /\ r[i] \in StubExecutor!Steps
          /\ rest \in Seq(StubExecutor!Steps)
      OBVIOUS
    <3>2. e[i] \in Int /\ e[i - 1] \in Int
      BY <3>1, EndsGrow
    <3> QED BY <3>1, <3>2 DEF StubExecutor!Steps
  <2>4. rest \in Seq([zone : Zones, left : Int])
    BY <2>3
  <2> HIDE DEF first, rest, a, b
  <2>5. /\ a # <<>> /\ a[1] = first /\ Tail(a) = rest
        /\ \A y \in [zone : Zones, left : Int] : WithFirst(a, y) = Cons(y, rest)
    <3> DEFINE S == [zone : Zones, left : Int]
    <3>1. first \in S /\ rest \in Seq(S)
      BY <2>3, <2>4
    <3> HIDE DEF S
    <3>2. Starts(a, first, rest)
      BY <2>2, <3>1, FirstAndRest
    <3>3. \A y \in S : WithFirst(a, y) = Cons(y, rest)
      BY <2>2, <3>1, FirstAndRest
    <3> QED BY <3>2, <3>3 DEF S, Starts
  <2>6. first.left = e[i] - t /\ first.zone = r[i].zone
    BY DEF first
  <2>7. CASE e[i] - t > 1
    <3>1. t + 1 \in Int /\ e[i - 1] <= t + 1 /\ t + 1 < e[i]
      BY <2>1, <2>3, <2>7
    <3>2. b = Cons([zone |-> r[i].zone, left |-> e[i] - (t + 1)], rest)
      <4>1. StatusAt(r, e, t + 1) = StepAndRest(r, e, t + 1, i)
        BY <3>1, StatusWithin
      <4> QED BY <4>1 DEF b, rest, StepAndRest
    <3>3. [first EXCEPT !.left = @ - 1] = [zone |-> r[i].zone, left |-> e[i] - (t + 1)]
      <4>1. (e[i] - t) - 1 = e[i] - (t + 1)
        BY <2>3
      <4> QED BY <4>1 DEF first
    <3>4. [a EXCEPT ![1].left = @ - 1] = Cons([first EXCEPT !.left = @ - 1], rest)
      <4> DEFINE f2 == [first EXCEPT !.left = @ - 1]
      <4>1. [a EXCEPT ![1].left = @ - 1] = WithFirst(a, f2)
        BY <2>5 DEF WithFirst
      <4>2. first \in [zone : Zones, left : Int]
        BY <2>3
      <4>3. f2 \in [zone : Zones, left : Int]
        BY <4>2
      <4> HIDE DEF f2
      <4>4. WithFirst(a, f2) = Cons(f2, rest)
        BY <2>5, <4>3
      <4> QED BY <4>1, <4>4 DEF f2
    <3> QED BY <2>5, <2>6, <2>7, <3>2, <3>3, <3>4 DEF Ticked, Starts
  <2>8. CASE ~(e[i] - t > 1)
    <3>1. e[i] = t + 1
      BY <2>1, <2>3, <2>8
    <3>2. b = rest
      <4>1. CASE i = Len(r)
        <5>1. e[Len(r)] <= t + 1 /\ t + 1 \in Int
          BY <3>1, <4>1
        <5>2. b = <<>>
          BY <5>1, StatusAfter DEF b
        <5>3. rest = <<>>
          BY <2>3, <4>1 DEF rest
        <5> QED BY <5>2, <5>3
      <4>2. CASE i # Len(r)
        <5> DEFINE j == i + 1
        <5>1. j \in 1..Len(r) /\ j - 1 = i /\ j + 1 = i + 2
          BY <2>3, <4>2
        <5>2. e[j] = e[i] + r[j].left /\ r[j] \in StubExecutor!Steps /\ r[j].left \in Nat \ {0}
          <6>1. e[j] = e[j - 1] + r[j].left /\ r[j] \in StubExecutor!Steps
            BY <5>1, EndsGrow
          <6> QED BY <5>1, <6>1 DEF StubExecutor!Steps
        <5> HIDE DEF j
        <5>3. e[j - 1] <= t + 1 /\ t + 1 < e[j] /\ t + 1 \in Int
          <6>1. e[j - 1] = t + 1 /\ t + 1 \in Int
            BY <3>1, <5>1
          <6>2. e[j] = (t + 1) + r[j].left
            BY <3>1, <5>2
          <6> QED BY <5>2, <6>1, <6>2
        <5>4. b = Cons([zone |-> r[j].zone, left |-> e[j] - (t + 1)], SubSeq(r, j + 1, Len(r)))
          <6>1. StatusAt(r, e, t + 1) = StepAndRest(r, e, t + 1, j)
            BY <5>1, <5>3, StatusWithin
          <6> QED BY <6>1 DEF b, StepAndRest
        <5>5. [zone |-> r[j].zone, left |-> e[j] - (t + 1)] = r[j]
          <6>1. e[j] - (t + 1) = r[j].left
            BY <2>3, <3>1, <5>2
          <6> QED BY <5>2, <6>1 DEF StubExecutor!Steps
        <5>6. rest = Cons(r[j], SubSeq(r, j + 1, Len(r)))
          <6>1. SubSeq(r, j, Len(r)) = <<r[j]>> \o SubSeq(r, j + 1, Len(r))
            <7>1. Len(r) \in j..Len(r)
              BY <2>3, <5>1
            <7> QED BY <5>1, <7>1, SubSeqRecursiveFirst
          <6> QED BY <6>1 DEF rest, j, Cons
        <5> QED BY <5>4, <5>5, <5>6
      <4> QED BY <4>1, <4>2
    <3> QED BY <2>5, <2>6, <2>8, <3>2 DEF Ticked, Starts
  <2> QED BY <2>7, <2>8
<1> QED BY <1>1, <1>2

\* A run that starts has all its steps before it.
LEMMA StatusStarts ==
  ASSUME NEW r \in Seq(StubExecutor!Steps), NEW s \in Int, NEW e, EndsOf(e, r, s)
  PROVE  StatusAt(r, e, s) = r
PROOF
<1>1. CASE r = <<>>
  <2>1. Len(r) = 0 /\ e[0] = s /\ s <= s
    <3>1. e[0] = s
      BY EndsGrow
    <3>2. Len(r) = 0 /\ s <= s
      BY <1>1
    <3> QED BY <3>1, <3>2
  <2> QED BY <1>1, <2>1, StatusAfter
<1>2. CASE r # <<>>
  <2>1. 1 \in 1..Len(r) /\ 1 - 1 = 0 /\ Len(r) \in Nat /\ r[1] \in StubExecutor!Steps /\ r[1].left \in Nat \ {0}
    <3>1. 1 \in 1..Len(r) /\ 1 - 1 = 0 /\ Len(r) \in Nat /\ r[1] \in StubExecutor!Steps
      BY <1>2
    <3> QED BY <3>1 DEF StubExecutor!Steps
  <2>2. e[0] = s /\ e[1] = s + r[1].left
    <3>1. e[0] = s /\ e[1] = e[1 - 1] + r[1].left
      BY <2>1, EndsGrow
    <3> QED BY <2>1, <3>1
  <2>3. e[1 - 1] <= s /\ s < e[1]
    BY <2>1, <2>2
  <2>4. StatusAt(r, e, s) = Cons([zone |-> r[1].zone, left |-> e[1] - s], SubSeq(r, 1 + 1, Len(r)))
    BY <2>1, <2>3, StatusWithin DEF StepAndRest
  <2>5. [zone |-> r[1].zone, left |-> e[1] - s] = r[1]
    <3>1. e[1] - s = r[1].left
      BY <2>1, <2>2
    <3> QED BY <2>1, <3>1 DEF StubExecutor!Steps
  <2>6. r = Cons(r[1], SubSeq(r, 1 + 1, Len(r)))
    BY <2>1 DEF Cons
  <2> QED BY <2>4, <2>5, <2>6
<1> QED BY <1>1, <1>2

-----------------------------------------------------------------------------
(* The stub's steps.                                                       *)

StubTypes ==
  /\ endsAt \in [Zones -> Int] /\ programRun \in Seq(StubExecutor!Steps) /\ startedAt \in Nat /\ now \in Nat
  /\ startedAt <= now /\ reachable \in BOOLEAN
\* One zone at most has an end, and none while a program runs.
OneWaters ==
  /\ \A y, z \in Zones : endsAt[y] # -1 /\ endsAt[z] # -1 => y = z
  /\ programRun # <<>> => endsAt = StubExecutor!AllOff
StubInd == StubTypes /\ OneWaters

\* No zone waters that has no end.
LEMMA NoneActive == ASSUME NEW t \in Nat PROVE ActiveAt(StubExecutor!AllOff, t) = {}
BY DEF ActiveAt, StubExecutor!AllOff

\* The stub's run has such ends.
LEMMA StubRunReads ==
  ASSUME programRun \in Seq(StubExecutor!Steps), startedAt \in Int
  PROVE  /\ EndsOf(StubExecutor!Ends, programRun, startedAt)
         /\ programRun = <<>> => \A t : StatusAt(programRun, StubExecutor!Ends, t) = <<>>
PROOF
<1>1. programRun = <<>> => \A t : Left(programRun, StubExecutor!Ends, t) = {}
  BY DEF Left
<1> QED BY <1>1, StubEnds DEF StatusAt

\* It has them after a step, too.
LEMMA StubRunReadsNext ==
  ASSUME programRun' \in Seq(StubExecutor!Steps), startedAt' \in Int
  PROVE  /\ EndsOf(StubExecutor!Ends', programRun', startedAt')
         /\ programRun' = <<>> => StubRun' = <<>>
PROOF
<1>1. \E e : EndsOf(e, programRun', startedAt')
  BY EndsExist
<1>2. EndsOf(StubExecutor!Ends', programRun', startedAt')
  BY <1>1 DEF EndsOf, StubExecutor!Ends
<1>3. programRun' = <<>> => Left(programRun', StubExecutor!Ends', now') = {}
  BY DEF Left
<1>4. programRun' = <<>> => StubRun' = <<>>
  BY <1>3 DEF StubRun, StatusAt
<1> QED BY <1>2, <1>4

\* What waters, and what follows, as the API has it.
LEMMA StubInvariantStep == ASSUME StubExecutor!StubAssumption, StubInd, [StubExecutor!Next]_(StubExecutor!vars) PROVE StubInd'
PROOF
<1>1. /\ endsAt \in [Zones -> Int] /\ programRun \in Seq(StubExecutor!Steps) /\ startedAt \in Nat /\ now \in Nat
      /\ startedAt <= now /\ reachable \in BOOLEAN
      /\ \A y, z \in Zones : endsAt[y] # -1 /\ endsAt[z] # -1 => y = z
      /\ programRun # <<>> => endsAt = StubExecutor!AllOff
  BY DEF StubInd, StubTypes, OneWaters
<1>2. /\ StubExecutor!AllOff \in [Zones -> Int] /\ \A z \in Zones : StubExecutor!AllOff[z] = -1
      /\ <<>> \in Seq(StubExecutor!Steps) /\ StubExecutor!NoRun = <<>>
  BY DEF StubExecutor!AllOff, StubExecutor!NoRun
<1>3. CASE StubExecutor!GetStatus \/ StubExecutor!ControlReachable
  <2>1. /\ UNCHANGED <<endsAt, startedAt, now>> /\ reachable' \in BOOLEAN /\ programRun' = StubExecutor!Swept
    BY <1>1, <1>3 DEF StubExecutor!GetStatus, StubExecutor!ControlReachable
  <2>2. programRun' = <<>> \/ programRun' = programRun
    BY <1>2, <2>1 DEF StubExecutor!Swept
  <2> QED BY <1>1, <1>2, <2>1, <2>2 DEF StubInd, StubTypes, OneWaters
<1>4. CASE StubExecutor!Start
  <2>1. PICK z \in Zones, m \in Durations : endsAt' = [StubExecutor!AllOff EXCEPT ![z] = now + m]
    BY <1>4 DEF StubExecutor!Start
  <2>2. now + m \in Int /\ programRun' = <<>> /\ UNCHANGED <<startedAt, reachable, now>>
    BY <1>1, <1>2, <1>4 DEF StubExecutor!Start, StubExecutor!RunCancelled, StubExecutor!StubAssumption
  <2>3. endsAt' \in [Zones -> Int] /\ \A y \in Zones : y # z => endsAt'[y] = -1
    BY <1>2, <2>1, <2>2
  <2> QED BY <1>1, <1>2, <2>2, <2>3 DEF StubInd, StubTypes, OneWaters
<1>5. CASE StubExecutor!StopAll \/ StubExecutor!ControlStartRun
  <2>1. endsAt' = StubExecutor!AllOff /\ UNCHANGED <<reachable, now>> /\ startedAt' \in {startedAt, now}
        /\ programRun' \in Runs \cup {<<>>}
    BY <1>2, <1>5 DEF StubExecutor!StopAll, StubExecutor!ControlStartRun
  <2>2. programRun' \in Seq(StubExecutor!Steps)
    BY <1>2, <2>1 DEF StubExecutor!StubAssumption
  <2> QED BY <1>1, <1>2, <2>1, <2>2 DEF StubInd, StubTypes, OneWaters
<1>6. CASE StubExecutor!GetRainDelay \/ StubExecutor!SetRainDelay \/ StubExecutor!ControlCancelRun \/ StubExecutor!Tick
           \/ UNCHANGED StubExecutor!vars
  <2>1. UNCHANGED <<endsAt, startedAt, reachable>> /\ programRun' \in {programRun, <<>>} /\ now' \in {now, now + 1}
    BY <1>2, <1>6 DEF StubExecutor!GetRainDelay, StubExecutor!SetRainDelay, StubExecutor!ControlCancelRun, StubExecutor!Tick,
                      StubExecutor!vars
  <2>2. StubTypes'
    <3>1. now' \in Nat /\ startedAt <= now'
      BY <1>1, <2>1
    <3>2. programRun' \in Seq(StubExecutor!Steps)
      BY <1>1, <1>2, <2>1
    <3> QED BY <1>1, <2>1, <3>1, <3>2 DEF StubTypes
  <2>3. OneWaters'
    BY <1>1, <1>2, <2>1 DEF OneWaters, StubExecutor!AllOff
  <2> QED BY <2>2, <2>3 DEF StubInd
<1> QED BY <1>3, <1>4, <1>5, <1>6 DEF StubExecutor!Next

\* The API's variables, where the stub runs.
StubPlan == StubExecutor!Watering
\* A moment.
LEMMA StubTicks ==
  ASSUME StubInd, StubExecutor!Tick
  PROVE  Ticked(StubPlan, StubPlan')
PROOF
<1> DEFINE e == StubExecutor!Ends  a == StubRun  b == StubRun'
<1>1. /\ endsAt \in [Zones -> Int] /\ programRun \in Seq(StubExecutor!Steps) /\ startedAt \in Nat /\ now \in Nat
      /\ startedAt <= now
      /\ \A y, z \in Zones : endsAt[y] # -1 /\ endsAt[z] # -1 => y = z
      /\ programRun # <<>> => endsAt = StubExecutor!AllOff
  BY DEF StubInd, StubTypes, OneWaters
<1>2. now' = now + 1 /\ endsAt' = endsAt /\ programRun' = programRun /\ startedAt' = startedAt /\ now + 1 \in Nat
  BY <1>1 DEF StubExecutor!Tick
<1>3. EndsOf(e, programRun, startedAt) /\ (programRun = <<>> => a = <<>>)
  BY <1>1, StubRunReads DEF StubRun
<1>4. StubExecutor!Ends' = e
  BY <1>2 DEF StubExecutor!Ends
<1>5. a = StatusAt(programRun, e, now) /\ b = StatusAt(programRun, e, now + 1)
  BY <1>2, <1>4 DEF StubRun
<1>6. Ticked(a, b)
  BY <1>1, <1>3, <1>5, StatusTicks
<1> HIDE DEF a, b, e
<1>7. StubPlan = WateringAt(a, endsAt, now) /\ StubPlan' = WateringAt(b, endsAt, now + 1)
  BY <1>2, StubReads DEF StubPlan, a, b
<1>8. CASE a # <<>>
  <2>1. ActiveAt(endsAt, now + 1) = {}
    BY <1>1, <1>2, <1>3, <1>8, NoneActive
  <2>2. StubPlan = a /\ StubPlan' = b
    BY <1>7, <1>8, <2>1 DEF WateringAt
  <2> QED BY <1>6, <1>8, <2>2
<1>9. CASE a = <<>>
  <2>1. b = <<>>
    BY <1>6, <1>9 DEF Ticked
  <2>2. CASE ActiveAt(endsAt, now) = {}
    <3>1. ActiveAt(endsAt, now + 1) = {}
      BY <1>1, <2>2 DEF ActiveAt
    <3>2. StubPlan = <<>> /\ StubPlan' = <<>>
      BY <1>7, <1>9, <2>1, <2>2, <3>1 DEF WateringAt
    <3> QED BY <3>2 DEF Ticked
  <2>3. CASE ActiveAt(endsAt, now) # {}
    <3> DEFINE z == CHOOSE z \in ActiveAt(endsAt, now) : TRUE
    <3>1. z \in ActiveAt(endsAt, now)
      BY <2>3
    <3>2. StubPlan = <<[zone |-> z, left |-> endsAt[z] - now]>>
      BY <1>7, <1>9, <2>3 DEF WateringAt
    <3> HIDE DEF z
    <3>3. z \in Zones /\ endsAt[z] > now /\ endsAt[z] \in Int /\ endsAt[z] # -1
      BY <1>1, <3>1 DEF ActiveAt
    <3>4. \A y \in Zones : endsAt[y] > now => y = z
      BY <1>1, <3>3
    <3>5. StubPlan # <<>> /\ StubPlan[1].left = endsAt[z] - now /\ Tail(StubPlan) = <<>>
          /\ [StubPlan EXCEPT ![1].left = @ - 1] = <<[zone |-> z, left |-> (endsAt[z] - now) - 1]>>
      BY <3>2
    <3>6. CASE endsAt[z] - now > 1
      <4>1. ActiveAt(endsAt, now + 1) = {z}
        BY <1>1, <3>3, <3>4, <3>6 DEF ActiveAt
      <4>2. (CHOOSE x \in {z} : TRUE) = z
        OBVIOUS
      <4>3. StubPlan' = <<[zone |-> z, left |-> endsAt[z] - (now + 1)]>>
        BY <1>7, <2>1, <4>1, <4>2 DEF WateringAt
      <4>4. endsAt[z] - (now + 1) = (endsAt[z] - now) - 1
        BY <1>1, <3>3
      <4> QED BY <3>5, <3>6, <4>3, <4>4 DEF Ticked
    <3>7. CASE ~(endsAt[z] - now > 1)
      <4>1. ActiveAt(endsAt, now + 1) = {}
        BY <1>1, <3>3, <3>4, <3>7 DEF ActiveAt
      <4>2. StubPlan' = <<>>
        BY <1>7, <2>1, <4>1 DEF WateringAt
      <4> QED BY <3>5, <3>7, <4>2 DEF Ticked
    <3> QED BY <3>6, <3>7
  <2> QED BY <2>2, <2>3
<1> QED BY <1>8, <1>9

\* An answer is the same record whoever gives it.
LEMMA AnswersAgree ==
  /\ \A kind, on, zs, days : StubExecutor!Answer(kind, on, zs, days) = Api!Answer(kind, on, zs, days)
  /\ \A kind, on, zs, days : MockApi!Answer(kind, on, zs, days) = Api!Answer(kind, on, zs, days)
  /\ StubExecutor!Unavailable = Api!Unavailable /\ MockApi!Unavailable = Api!Unavailable
PROOF
<1>1. \A kind, on, zs, days : StubExecutor!Answer(kind, on, zs, days) = Api!Answer(kind, on, zs, days)
  BY DEF StubExecutor!Answer, Api!Answer
<1>2. \A kind, on, zs, days : MockApi!Answer(kind, on, zs, days) = Api!Answer(kind, on, zs, days)
  BY DEF MockApi!Answer, Api!Answer
<1>3. StubExecutor!Unavailable = Api!Unavailable /\ MockApi!Unavailable = Api!Unavailable
  BY <1>1, <1>2 DEF StubExecutor!Unavailable, MockApi!Unavailable, Api!Unavailable
<1> QED BY <1>1, <1>2, <1>3

\* What the stub does, as the API's steps.
LEMMA StubIsApi ==
  ASSUME Stub, Stub', reachable \in BOOLEAN
  PROVE  /\ \A z \in Zones, n \in Durations :
              /\ reachable /\ UNCHANGED <<reachable, rainDelay, answered>> /\ StubPlan' = <<[zone |-> z, left |-> n]>>
              => Api!Start
         /\ UNCHANGED <<reachable, rainDelay, answered>> /\ StubPlan' \in {<<>>} \cup Runs => Api!EndProgram \/ Api!RunProgram
         /\ /\ reachable /\ rainDelay' \in Days /\ UNCHANGED <<reachable, answered>> /\ StubPlan' = StubPlan
            => Api!SetRainDelay
         /\ UNCHANGED <<reachable, rainDelay, answered>> /\ Ticked(StubPlan, StubPlan') => Api!Tick \/ UNCHANGED Api!vars
         /\ reachable' \in BOOLEAN /\ UNCHANGED <<rainDelay, answered>> /\ StubPlan' = StubPlan => Api!Reachability
         /\ /\ UNCHANGED <<reachable, rainDelay>> /\ StubPlan' = StubPlan
            /\ \/ answered' = Api!Answer("status", reachable, StubPlan, rainDelay)
               \/ answered' = Api!Answer("delay", TRUE, <<>>, rainDelay)
            => Api!LiveRead \/ Api!AnyRead
         /\ UNCHANGED <<reachable, rainDelay, answered>> /\ StubPlan' = StubPlan => UNCHANGED Api!vars
PROOF
<1>1. Stub /\ Stub' /\ ~Mock /\ ~Mock'
  BY DEF Stub, Mock
<1>2. ASSUME NEW z \in Zones, NEW n \in Durations, reachable, UNCHANGED <<reachable, rainDelay, answered>>,
             StubPlan' = <<[zone |-> z, left |-> n]>>
      PROVE  Api!Start
  BY <1>1, <1>2 DEF Api!Start, Api!Step, StubPlan
<1>3. UNCHANGED <<reachable, rainDelay, answered>> /\ StubPlan' \in {<<>>} \cup Runs => Api!EndProgram \/ Api!RunProgram
  BY <1>1 DEF Api!EndProgram, Api!RunProgram, StubPlan
<1>4. reachable /\ rainDelay' \in Days /\ UNCHANGED <<reachable, answered>> /\ StubPlan' = StubPlan => Api!SetRainDelay
  BY <1>1 DEF Api!SetRainDelay, StubPlan
<1>5. UNCHANGED <<reachable, rainDelay, answered>> /\ Ticked(StubPlan, StubPlan') => Api!Tick \/ UNCHANGED Api!vars
  BY <1>1 DEF Api!Tick, Api!vars, Ticked, StubPlan
<1>6. reachable' \in BOOLEAN /\ UNCHANGED <<rainDelay, answered>> /\ StubPlan' = StubPlan => Api!Reachability
  BY <1>1 DEF Api!Reachability, StubPlan
<1>7. ASSUME UNCHANGED <<reachable, rainDelay>>, StubPlan' = StubPlan,
             \/ answered' = Api!Answer("status", reachable, StubPlan, rainDelay)
             \/ answered' = Api!Answer("delay", TRUE, <<>>, rainDelay)
      PROVE  Api!LiveRead \/ Api!AnyRead
  <2>1. CASE reachable
    <3>1. answered' \in {Api!Answer("status", TRUE, StubPlan, rainDelay), Api!Answer("delay", TRUE, <<>>, rainDelay)}
      BY <1>7, <2>1
    <3>2. Api!LiveRead
      BY <1>1, <1>7, <2>1, <3>1 DEF Api!LiveRead, Api!Status, Api!RainDelay, StubPlan
    <3> QED BY <3>2
  <2>2. CASE ~reachable
    <3>1. answered' = Api!Answer("status", FALSE, StubPlan, rainDelay) \/ answered' = Api!Answer("delay", TRUE, <<>>, rainDelay)
      BY <1>7, <2>2
    <3>2. /\ Api!Answer("status", FALSE, StubPlan, rainDelay).reachable = FALSE
          /\ Api!Answer("delay", TRUE, <<>>, rainDelay).kind = "delay"
      BY DEF Api!Answer
    <3>3. answered'.kind = "status" => ~answered'.reachable
      BY <3>1, <3>2
    <3>4. Api!AnyRead
      BY <1>1, <1>7, <2>2, <3>3 DEF Api!AnyRead, StubPlan
    <3> QED BY <3>4
  <2> QED BY <2>1, <2>2
<1>8. UNCHANGED <<reachable, rainDelay, answered>> /\ StubPlan' = StubPlan => UNCHANGED Api!vars
  BY <1>1 DEF Api!vars, StubPlan
<1> QED BY <1>2, <1>3, <1>4, <1>5, <1>6, <1>7, <1>8

\* Of no run nothing is left.
LEMMA NothingLeft == ASSUME NEW e, NEW t PROVE StatusAt(<<>>, e, t) = <<>>
PROOF
<1>1. Left(<<>>, e, t) = {}
  BY DEF Left
<1> QED BY <1>1 DEF StatusAt

OnlyOn(z, e) == [StubExecutor!AllOff EXCEPT ![z] = e]

\* What waters after a manual start.
LEMMA OnlyStarted ==
  ASSUME NEW t \in Nat, NEW z \in Zones, NEW m \in Nat
  PROVE  WateringAt(<<>>, OnlyOn(z, t + m), t) = IF m = 0 THEN <<>> ELSE <<[zone |-> z, left |-> m]>>
PROOF
<1> DEFINE ends == OnlyOn(z, t + m)
<1>1. \A y \in Zones : ends[y] = IF y = z THEN t + m ELSE -1
  BY DEF StubExecutor!AllOff, OnlyOn
<1> HIDE DEF ends
<1> SUFFICES WateringAt(<<>>, ends, t) = IF m = 0 THEN <<>> ELSE <<[zone |-> z, left |-> m]>>
  BY DEF ends
<1>2. CASE m = 0
  <2>1. ActiveAt(ends, t) = {}
    BY <1>1, <1>2 DEF ActiveAt
  <2> QED BY <1>2, <2>1 DEF WateringAt
<1>3. CASE m # 0
  <2>1. ActiveAt(ends, t) = {z}
    BY <1>1, <1>3 DEF ActiveAt
  <2>2. (CHOOSE y \in {z} : TRUE) = z
    OBVIOUS
  <2>3. ends[z] - t = m
    BY <1>1
  <2>4. WateringAt(<<>>, ends, t) = <<[zone |-> z, left |-> ends[z] - t]>>
    BY <2>1, <2>2 DEF WateringAt
  <2> QED BY <1>3, <2>3, <2>4
<1> QED BY <1>2, <1>3

\* Every step of the stub is one of the API's, but for what it answers while the
\* controller is unreachable.
LEMMA StubImplements ==
  ASSUME StubExecutor!StubAssumption, StubInd, Stub, Stub', StubExecutor!Next
  PROVE  Api!NextUncached \/ UNCHANGED Api!vars
PROOF
<1> DEFINE a == StubRun  b == StubRun'
<1>1. /\ endsAt \in [Zones -> Int] /\ programRun \in Seq(StubExecutor!Steps) /\ startedAt \in Nat /\ now \in Nat
      /\ startedAt <= now /\ reachable \in BOOLEAN
      /\ \A y, z \in Zones : endsAt[y] # -1 /\ endsAt[z] # -1 => y = z
      /\ programRun # <<>> => endsAt = StubExecutor!AllOff
  BY DEF StubInd, StubTypes, OneWaters
<1>2. StubPlan = WateringAt(a, endsAt, now) /\ StubPlan' = WateringAt(b, endsAt', now') /\ StubExecutor!NoRun = <<>>
  BY StubReads DEF StubPlan, StubExecutor!NoRun
<1>3. programRun = <<>> => a = <<>>
  BY NothingLeft DEF StubRun
<1>4. programRun' = <<>> => b = <<>>
  BY NothingLeft DEF StubRun
<1>5. a = <<>> /\ programRun # <<>> => StubPlan = <<>>
  BY <1>1, <1>2, NoneActive DEF WateringAt
<1>6. CASE StubExecutor!GetStatus \/ StubExecutor!ControlReachable
  <2>1. UNCHANGED <<endsAt, startedAt, rainDelay, now>> /\ programRun' = StubExecutor!Swept
    BY <1>6 DEF StubExecutor!GetStatus, StubExecutor!ControlReachable
  <2>2. programRun' = IF a = <<>> THEN <<>> ELSE programRun
    BY <1>2, <2>1, StubReads DEF StubExecutor!Swept
  <2>3. b = a
    <3>1. CASE a = <<>>
      BY <1>4, <2>2, <3>1
    <3>2. CASE a # <<>>
      <4>1. programRun' = programRun
        BY <2>2, <3>2
      <4>2. StubExecutor!Ends' = StubExecutor!Ends
        BY <2>1, <4>1 DEF StubExecutor!Ends
      <4> QED BY <2>1, <4>1, <4>2 DEF StubRun
    <3> QED BY <3>1, <3>2
  <2>4. StubPlan' = StubPlan
    BY <1>2, <2>1, <2>3
  <2>5. CASE StubExecutor!GetStatus
    <3>1. reachable' = reachable
      BY <2>5 DEF StubExecutor!GetStatus
    <3>2. answered' = Api!Answer("status", reachable, StubPlan, rainDelay)
      BY <2>5, AnswersAgree DEF StubExecutor!GetStatus, StubPlan
    <3>3. Api!LiveRead \/ Api!AnyRead
      BY <1>1, <2>1, <2>4, <3>1, <3>2, StubIsApi
    <3> QED BY <3>3 DEF Api!NextUncached, Api!Move
  <2>6. CASE StubExecutor!ControlReachable
    <3>1. reachable' \in BOOLEAN /\ answered' = answered
      BY <2>6 DEF StubExecutor!ControlReachable
    <3>2. Api!Reachability
      BY <1>1, <2>1, <2>4, <3>1, StubIsApi
    <3> QED BY <3>2 DEF Api!NextUncached, Api!Move
  <2> QED BY <1>6, <2>5, <2>6
<1>7. CASE StubExecutor!Start
  <2>1. PICK z \in Zones, m \in Durations : endsAt' = OnlyOn(z, now + m)
    BY <1>7 DEF StubExecutor!Start, OnlyOn
  <2>2. reachable /\ UNCHANGED <<reachable, rainDelay, answered>> /\ now' = now /\ programRun' = <<>>
    BY <1>2, <1>7 DEF StubExecutor!Start, StubExecutor!RunCancelled
  <2>3. StubPlan' = WateringAt(<<>>, endsAt', now)
    BY <1>2, <1>4, <2>2
  <2>4. m \in Nat
    BY DEF StubExecutor!StubAssumption
  <2>5. StubPlan' = IF m = 0 THEN <<>> ELSE <<[zone |-> z, left |-> m]>>
    <3>1. now \in Nat
      BY DEF StubInd, StubTypes
    <3> QED BY <2>1, <2>3, <2>4, <3>1, OnlyStarted
  <2>6. CASE m = 0
    <3>1. StubPlan' \in {<<>>} \cup Runs
      BY <2>5, <2>6
    <3>2. Api!EndProgram \/ Api!RunProgram
      BY <1>1, <2>2, <3>1, StubIsApi
    <3> QED BY <3>2 DEF Api!NextUncached, Api!Move
  <2>7. CASE m # 0
    <3>1. StubPlan' = <<[zone |-> z, left |-> m]>>
      BY <2>5, <2>7
    <3>2. Api!Start
      BY <1>1, <2>2, <3>1, StubIsApi
    <3> QED BY <3>2 DEF Api!NextUncached, Api!Move
  <2> QED BY <2>6, <2>7
<1>8. CASE StubExecutor!StopAll
  <2>1. endsAt' = StubExecutor!AllOff /\ programRun' = <<>> /\ UNCHANGED <<reachable, rainDelay, now, answered>>
    BY <1>2, <1>8 DEF StubExecutor!StopAll
  <2>2. StubPlan' = <<>>
    BY <1>1, <1>2, <1>4, <2>1, NoneActive DEF WateringAt
  <2> QED BY <1>1, <2>1, <2>2, StubIsApi DEF Api!NextUncached, Api!Move
<1>9. CASE StubExecutor!SetRainDelay
  <2>1. reachable /\ rainDelay' \in Days /\ UNCHANGED <<endsAt, programRun, startedAt, reachable, now, answered>>
    BY <1>9 DEF StubExecutor!SetRainDelay
  <2>2. StubExecutor!Ends' = StubExecutor!Ends
    BY <2>1 DEF StubExecutor!Ends
  <2>3. StubPlan' = StubPlan
    BY <1>2, <2>1, <2>2 DEF StubRun
  <2> QED BY <1>1, <2>1, <2>3, StubIsApi DEF Api!NextUncached, Api!Move
<1>10. CASE StubExecutor!ControlCancelRun
  <2>1. programRun' = <<>> /\ UNCHANGED <<endsAt, startedAt, reachable, rainDelay, now, answered>>
    BY <1>2, <1>10 DEF StubExecutor!ControlCancelRun
  <2>2. b = <<>> /\ StubPlan' = WateringAt(<<>>, endsAt, now)
    BY <1>2, <1>4, <2>1
  <2>3. CASE programRun = <<>>
    <3>1. StubPlan' = StubPlan
      BY <1>2, <1>3, <2>2, <2>3
    <3> QED BY <1>1, <2>1, <3>1, StubIsApi
  <2>4. CASE programRun # <<>>
    <3>1. StubPlan' = <<>>
      BY <1>1, <2>2, <2>4, NoneActive DEF WateringAt
    <3> QED BY <1>1, <2>1, <3>1, StubIsApi DEF Api!NextUncached, Api!Move
  <2> QED BY <2>3, <2>4
<1>11. CASE StubExecutor!ControlStartRun
  <2>1. programRun' \in Runs /\ startedAt' = now /\ now' = now /\ UNCHANGED <<reachable, rainDelay, answered>>
    BY <1>11 DEF StubExecutor!ControlStartRun
  <2>2. programRun' \in Seq(StubExecutor!Steps) /\ programRun' # <<>> /\ startedAt' \in Int
    <3>1. Runs \subseteq Seq(StubExecutor!Steps) \ {<<>>}
      BY DEF StubExecutor!StubAssumption
    <3>2. startedAt' \in Int
      BY <1>1, <2>1
    <3> QED BY <2>1, <3>1, <3>2
  <2>3. b = programRun'
    <3>1. EndsOf(StubExecutor!Ends', programRun', startedAt')
      BY <2>2, StubRunReadsNext
    <3>2. StatusAt(programRun', StubExecutor!Ends', startedAt') = programRun'
      BY <2>2, <3>1, StatusStarts
    <3> QED BY <2>1, <3>2 DEF StubRun
  <2>4. StubPlan' = programRun'
    BY <1>2, <2>2, <2>3 DEF WateringAt
  <2> QED BY <1>1, <2>1, <2>4, StubIsApi DEF Api!NextUncached, Api!Move
<1>12. CASE StubExecutor!Tick
  <2>1. UNCHANGED <<reachable, rainDelay, answered>>
    BY <1>12 DEF StubExecutor!Tick
  <2>2. Ticked(StubPlan, StubPlan')
    BY <1>12, StubTicks
  <2> QED BY <1>1, <2>1, <2>2, StubIsApi DEF Api!NextUncached, Api!Move
<1>13. CASE StubExecutor!GetRainDelay
  <2>1. UNCHANGED <<endsAt, programRun, startedAt, reachable, rainDelay, now>>
        /\ answered' = Api!Answer("delay", TRUE, <<>>, rainDelay)
    BY <1>13, AnswersAgree DEF StubExecutor!GetRainDelay
  <2>2. StubExecutor!Ends' = StubExecutor!Ends
    BY <2>1 DEF StubExecutor!Ends
  <2>3. StubPlan' = StubPlan
    BY <1>2, <2>1, <2>2 DEF StubRun
  <2>4. Api!LiveRead \/ Api!AnyRead
    BY <1>1, <2>1, <2>3, StubIsApi
  <2> QED BY <2>4 DEF Api!NextUncached, Api!Move
<1> QED BY <1>6, <1>7, <1>8, <1>9, <1>10, <1>11, <1>12, <1>13 DEF StubExecutor!Next

-----------------------------------------------------------------------------
(* The mock's steps.                                                       *)

\* What the mock lists of a run at a time.
PlanOf(r, t) == IF r.endsAt <= t THEN <<>> ELSE <<[zone |-> r.id, left |-> r.endsAt - t]>>
MockPlan == MockApi!Listed
MockInd ==
  /\ running.endsAt \in Nat /\ running = [id |-> running.id, endsAt |-> running.endsAt]
  /\ now \in Nat /\ unreachable \in BOOLEAN /\ (~unreachable => cached = <<>>)

\* A run is listed until its end, forgotten or not.
LEMMA MockReads ==
  /\ MockInd => MockPlan = PlanOf(running, now) /\ PlanOf(MockApi!Expired, now) = PlanOf(running, now)
  /\ MockInd' => MockPlan' = PlanOf(running', now')
PROOF
<1>1. ASSUME MockInd PROVE MockPlan = PlanOf(running, now) /\ PlanOf(MockApi!Expired, now) = PlanOf(running, now)
  <2>1. running.endsAt \in Nat /\ now \in Nat /\ MockApi!NotRunning.endsAt = 0
    BY <1>1 DEF MockInd, MockApi!NotRunning
  <2>2. CASE running.endsAt <= now
    <3>1. MockApi!Expired = MockApi!NotRunning /\ MockPlan = <<>>
      BY <2>2 DEF MockApi!Expired, MockPlan, MockApi!Listed
    <3>2. 0 <= now
      BY <2>1
    <3>3. PlanOf(MockApi!NotRunning, now) = <<>>
      BY <2>1, <3>2 DEF PlanOf
    <3> QED BY <2>2, <3>1, <3>3 DEF PlanOf
  <2>3. CASE ~(running.endsAt <= now)
    <3>1. MockApi!Expired = running
      BY <2>3 DEF MockApi!Expired
    <3>2. running # MockApi!NotRunning
      BY <2>1, <2>3
    <3>3. MockPlan = <<[zone |-> running.id, left |-> running.endsAt - now]>>
      BY <3>1, <3>2 DEF MockPlan, MockApi!Listed
    <3> QED BY <2>3, <3>1, <3>3 DEF PlanOf
  <2> QED BY <2>2, <2>3
<1>2. ASSUME MockInd' PROVE MockPlan' = PlanOf(running', now')
  <2>1. running'.endsAt \in Nat /\ now' \in Nat /\ MockApi!NotRunning.endsAt = 0
    BY <1>2 DEF MockInd, MockApi!NotRunning
  <2>2. CASE running'.endsAt <= now'
    <3>1. MockApi!Expired' = MockApi!NotRunning
      BY <2>2 DEF MockApi!Expired, MockApi!NotRunning
    <3>2. MockPlan' = <<>>
      BY <3>1 DEF MockPlan, MockApi!Listed, MockApi!NotRunning
    <3> QED BY <2>2, <3>2 DEF PlanOf
  <2>3. CASE ~(running'.endsAt <= now')
    <3>1. MockApi!Expired' = running'
      BY <2>3 DEF MockApi!Expired
    <3>2. running' # MockApi!NotRunning
      BY <2>1, <2>3
    <3>3. MockPlan' = <<[zone |-> running'.id, left |-> running'.endsAt - now']>>
      BY <3>1, <3>2 DEF MockPlan, MockApi!Listed, MockApi!NotRunning
    <3> QED BY <2>3, <3>3 DEF PlanOf
  <2> QED BY <2>2, <2>3
<1> QED BY <1>1, <1>2

\* A moment of a run.
LEMMA MockTicks == ASSUME MockInd PROVE Ticked(PlanOf(running, now), PlanOf(running, now + 1))
PROOF
<1> DEFINE e == running.endsAt  a == PlanOf(running, now)  b == PlanOf(running, now + 1)
<1>1. e \in Nat /\ now \in Nat
  BY DEF MockInd
<1>2. CASE e <= now
  <2>1. e <= now + 1
    BY <1>1, <1>2
  <2>2. a = <<>> /\ b = <<>>
    BY <1>2, <2>1 DEF PlanOf
  <2> QED BY <2>2 DEF Ticked
<1>3. CASE ~(e <= now)
  <2>1. a = <<[zone |-> running.id, left |-> e - now]>>
    BY <1>3 DEF PlanOf
  <2>2. a # <<>> /\ a[1].left = e - now /\ Tail(a) = <<>>
        /\ [a EXCEPT ![1].left = @ - 1] = <<[zone |-> running.id, left |-> (e - now) - 1]>>
    BY <2>1
  <2>3. CASE e - now > 1
    <3>1. ~(e <= now + 1) /\ e - (now + 1) = (e - now) - 1
      BY <1>1, <2>3
    <3>2. b = <<[zone |-> running.id, left |-> (e - now) - 1]>>
      BY <3>1 DEF PlanOf
    <3> QED BY <2>2, <2>3, <3>2 DEF Ticked
  <2>4. CASE ~(e - now > 1)
    <3>1. e <= now + 1
      BY <1>1, <2>4
    <3>2. b = <<>>
      BY <3>1 DEF PlanOf
    <3> QED BY <2>2, <2>4, <3>2 DEF Ticked
  <2> QED BY <2>3, <2>4
<1> QED BY <1>2, <1>3

\* The mock's state stays well formed.
LEMMA MockInvariantStep == ASSUME MockApi!MockAssumption, MockInd, [MockApi!Next]_(MockApi!vars) PROVE MockInd'
PROOF
<1>1. /\ running.endsAt \in Nat /\ running = [id |-> running.id, endsAt |-> running.endsAt]
      /\ now \in Nat /\ unreachable \in BOOLEAN /\ (~unreachable => cached = <<>>)
  BY DEF MockInd
<1>2. \A r : r = running \/ r = MockApi!NotRunning \/ (\E z \in Zones, m \in Durations : r = [id |-> z, endsAt |-> now + m])
             => r.endsAt \in Nat /\ r = [id |-> r.id, endsAt |-> r.endsAt]
  <2>1. Durations \subseteq Nat
    BY DEF MockApi!MockAssumption
  <2>2. ASSUME NEW r, NEW z \in Zones, NEW m \in Durations, r = [id |-> z, endsAt |-> now + m]
        PROVE  r.endsAt \in Nat /\ r = [id |-> r.id, endsAt |-> r.endsAt]
    BY <1>1, <2>1, <2>2
  <2>3. MockApi!NotRunning.endsAt \in Nat
        /\ MockApi!NotRunning = [id |-> MockApi!NotRunning.id, endsAt |-> MockApi!NotRunning.endsAt]
    BY DEF MockApi!NotRunning
  <2> QED BY <1>1, <2>2, <2>3
<1>3. running' = running \/ running' = MockApi!NotRunning \/ (\E z \in Zones, m \in Durations : running' = [id |-> z, endsAt |-> now + m])
  BY DEF MockApi!Next, MockApi!GetStatus, MockApi!GetRainDelay, MockApi!StartZone, MockApi!StopAll, MockApi!SetRainDelay,
         MockApi!Toggle, MockApi!Tick, MockApi!vars, MockApi!Expired
<1>4. running'.endsAt \in Nat /\ running' = [id |-> running'.id, endsAt |-> running'.endsAt]
  BY <1>2, <1>3
<1>5. now' = now \/ now' = now + 1
  BY DEF MockApi!Next, MockApi!GetStatus, MockApi!GetRainDelay, MockApi!StartZone, MockApi!StopAll, MockApi!SetRainDelay,
         MockApi!Toggle, MockApi!Tick, MockApi!vars
<1>6. unreachable' \in BOOLEAN /\ (~unreachable' => cached' = <<>>)
  BY <1>1 DEF MockApi!Next, MockApi!GetStatus, MockApi!GetRainDelay, MockApi!StartZone, MockApi!StopAll, MockApi!SetRainDelay,
              MockApi!Toggle, MockApi!Tick, MockApi!vars
<1>7. now' \in Nat
  BY <1>1, <1>5
<1> QED BY <1>4, <1>6, <1>7 DEF MockInd

\* The mock's cache is taken when the controller is lost and forgotten when it is back.
LEMMA MockCaches ==
  ASSUME MockInd, ~Stub, ~Stub', Mock, Mock', MockApi!Next
  PROVE  Api!Cached
PROOF
<1>1. MockPlan = PlanOf(running, now) /\ unreachable \in BOOLEAN /\ (~unreachable => cached = <<>>)
  BY MockReads DEF MockInd
<1>2. Api!Reading = MockPlan
  <2>1. Api!Reading = IF MockPlan = <<>> THEN <<>> ELSE <<MockPlan[1]>>
    BY DEF Api!Reading, MockPlan
  <2> QED BY <1>1, <2>1 DEF PlanOf
<1>3. cached' = IF ~unreachable' THEN <<>> ELSE IF ~unreachable THEN MockPlan ELSE cached
  <2>1. CASE MockApi!Toggle
    BY <1>1, <2>1 DEF MockApi!Toggle, MockPlan
  <2>2. CASE UNCHANGED <<unreachable, cached>>
    BY <1>1, <2>2
  <2> QED BY <2>1, <2>2 DEF MockApi!Next, MockApi!GetStatus, MockApi!GetRainDelay, MockApi!StartZone, MockApi!StopAll,
                            MockApi!SetRainDelay, MockApi!Tick
<1> QED BY <1>2, <1>3 DEF Api!Cached

\* What the mock does, as the API's steps.
LEMMA MockIsApi ==
  ASSUME ~Stub, ~Stub', Mock, Mock', unreachable \in BOOLEAN
  PROVE  /\ \A z \in Zones, n \in Durations :
              /\ ~unreachable /\ UNCHANGED <<unreachable, rainDelayDays, answered>> /\ MockPlan' = <<[zone |-> z, left |-> n]>>
              => Api!Start
         /\ UNCHANGED <<unreachable, rainDelayDays, answered>> /\ MockPlan' = <<>> => Api!EndProgram
         /\ /\ ~unreachable /\ rainDelayDays' \in Days /\ UNCHANGED <<unreachable, answered>> /\ MockPlan' = MockPlan
            => Api!SetRainDelay
         /\ UNCHANGED <<unreachable, rainDelayDays, cached, answered>> /\ Ticked(MockPlan, MockPlan')
            => Api!Tick \/ UNCHANGED Api!vars
         /\ unreachable' \in BOOLEAN /\ UNCHANGED <<rainDelayDays, answered>> /\ MockPlan' = MockPlan => Api!Reachability
         /\ /\ UNCHANGED <<unreachable, rainDelayDays>> /\ MockPlan' = MockPlan
            /\ \/ answered' = Api!Answer("status", ~unreachable, IF unreachable THEN cached ELSE MockPlan, rainDelayDays)
               \/ answered' = IF unreachable THEN Api!Unavailable ELSE Api!Answer("delay", TRUE, <<>>, rainDelayDays)
            => Api!LiveRead \/ Api!CachedRead
PROOF
<1>1. ASSUME NEW z \in Zones, NEW n \in Durations, ~unreachable, UNCHANGED <<unreachable, rainDelayDays, answered>>,
             MockPlan' = <<[zone |-> z, left |-> n]>>
      PROVE  Api!Start
  BY <1>1 DEF Api!Start, Api!Step, MockPlan
<1>2. UNCHANGED <<unreachable, rainDelayDays, answered>> /\ MockPlan' = <<>> => Api!EndProgram
  BY DEF Api!EndProgram, MockPlan
<1>3. ~unreachable /\ rainDelayDays' \in Days /\ UNCHANGED <<unreachable, answered>> /\ MockPlan' = MockPlan => Api!SetRainDelay
  BY DEF Api!SetRainDelay, MockPlan
<1>4. UNCHANGED <<unreachable, rainDelayDays, cached, answered>> /\ Ticked(MockPlan, MockPlan')
      => Api!Tick \/ UNCHANGED Api!vars
  BY DEF Api!Tick, Api!vars, Ticked, MockPlan
<1>5. unreachable' \in BOOLEAN /\ UNCHANGED <<rainDelayDays, answered>> /\ MockPlan' = MockPlan => Api!Reachability
  BY DEF Api!Reachability, MockPlan
<1>6. ASSUME UNCHANGED <<unreachable, rainDelayDays>>, MockPlan' = MockPlan,
             \/ answered' = Api!Answer("status", ~unreachable, IF unreachable THEN cached ELSE MockPlan, rainDelayDays)
             \/ answered' = IF unreachable THEN Api!Unavailable ELSE Api!Answer("delay", TRUE, <<>>, rainDelayDays)
      PROVE  Api!LiveRead \/ Api!CachedRead
  <2>1. CASE ~unreachable
    <3>1. answered' \in {Api!Answer("status", TRUE, MockPlan, rainDelayDays), Api!Answer("delay", TRUE, <<>>, rainDelayDays)}
      BY <1>6, <2>1
    <3>2. Api!LiveRead
      BY <1>6, <2>1, <3>1 DEF Api!LiveRead, Api!Status, Api!RainDelay, MockPlan
    <3> QED BY <3>2
  <2>2. CASE unreachable
    <3>1. answered' \in {Api!Answer("status", FALSE, cached, rainDelayDays), Api!Unavailable}
      BY <1>6, <2>2
    <3>2. Api!CachedRead
      BY <1>6, <2>2, <3>1 DEF Api!CachedRead, Api!Status, MockPlan
    <3> QED BY <3>2
  <2> QED BY <2>1, <2>2
<1> QED BY <1>1, <1>2, <1>3, <1>4, <1>5, <1>6

\* Every step of the mock is one of the API's.
LEMMA MockImplements ==
  ASSUME MockApi!MockAssumption, MockInd, ~Stub, ~Stub', Mock, Mock', MockApi!Next
  PROVE  Api!Next \/ UNCHANGED Api!vars
PROOF
<1>1. running.endsAt \in Nat /\ now \in Nat /\ unreachable \in BOOLEAN /\ MockInd'
  BY MockInvariantStep DEF MockInd
<1>2. MockPlan = PlanOf(running, now) /\ PlanOf(MockApi!Expired, now) = PlanOf(running, now) /\ MockPlan' = PlanOf(running', now')
  BY <1>1, MockReads
<1> SUFFICES Api!Move \/ Api!CachedRead \/ UNCHANGED Api!vars
  BY MockCaches DEF Api!Next
<1>3. CASE MockApi!GetStatus
  <2>1. UNCHANGED <<unreachable, rainDelayDays, now>> /\ running' = IF unreachable THEN running ELSE MockApi!Expired
    BY <1>3 DEF MockApi!GetStatus
  <2>2. MockPlan' = MockPlan
    BY <1>2, <2>1
  <2>3. answered' = Api!Answer("status", ~unreachable, IF unreachable THEN cached ELSE MockPlan, rainDelayDays)
    BY <1>3, AnswersAgree DEF MockApi!GetStatus, MockApi!Served, MockPlan
  <2>4. Api!LiveRead \/ Api!CachedRead
    BY <1>1, <2>1, <2>2, <2>3, MockIsApi
  <2> QED BY <2>4 DEF Api!Move
<1>4. CASE MockApi!StartZone
  <2>1. PICK z \in Zones, m \in Durations : running' = [id |-> z, endsAt |-> now + m]
    BY <1>4 DEF MockApi!StartZone
  <2>2. ~unreachable /\ UNCHANGED <<unreachable, rainDelayDays, answered>> /\ now' = now
    BY <1>4 DEF MockApi!StartZone
  <2>3. m \in Nat
    BY DEF MockApi!MockAssumption
  <2>4. running'.id = z /\ running'.endsAt = now + m
    BY <2>1
  <2>5. CASE m = 0
    <3>1. running'.endsAt <= now'
      BY <1>1, <2>2, <2>4, <2>5
    <3>2. MockPlan' = <<>>
      BY <1>2, <3>1 DEF PlanOf
    <3>3. Api!EndProgram
      BY <1>1, <2>2, <3>2, MockIsApi
    <3> QED BY <3>3 DEF Api!Move
  <2>6. CASE m # 0
    <3>1. ~(running'.endsAt <= now') /\ running'.endsAt - now' = m
      BY <1>1, <2>2, <2>3, <2>4, <2>6
    <3>2. MockPlan' = <<[zone |-> z, left |-> m]>>
      BY <1>2, <2>4, <3>1 DEF PlanOf
    <3>3. Api!Start
      BY <1>1, <2>2, <3>2, MockIsApi
    <3> QED BY <3>3 DEF Api!Move
  <2> QED BY <2>5, <2>6
<1>5. CASE MockApi!StopAll
  <2>1. running' = MockApi!NotRunning /\ UNCHANGED <<unreachable, rainDelayDays, now, answered>>
    BY <1>5 DEF MockApi!StopAll
  <2>2. running'.endsAt <= now'
    <3>1. MockApi!NotRunning.endsAt = 0
      BY DEF MockApi!NotRunning
    <3> QED BY <1>1, <2>1, <3>1
  <2>3. MockPlan' = <<>>
    BY <1>2, <2>2 DEF PlanOf
  <2>4. Api!EndProgram
    BY <1>1, <2>1, <2>3, MockIsApi
  <2> QED BY <2>4 DEF Api!Move
<1>6. CASE MockApi!SetRainDelay
  <2>1. ~unreachable /\ rainDelayDays' \in Days /\ UNCHANGED <<running, unreachable, now, answered>>
    BY <1>6 DEF MockApi!SetRainDelay
  <2>2. MockPlan' = MockPlan
    BY <1>2, <2>1
  <2>3. Api!SetRainDelay
    BY <1>1, <2>1, <2>2, MockIsApi
  <2> QED BY <2>3 DEF Api!Move
<1>7. CASE MockApi!Toggle
  <2>1. unreachable' = ~unreachable /\ UNCHANGED <<rainDelayDays, now, answered>>
        /\ running' = IF unreachable THEN running ELSE MockApi!Expired
    BY <1>7 DEF MockApi!Toggle
  <2>2. MockPlan' = MockPlan
    BY <1>2, <2>1
  <2>3. unreachable' \in BOOLEAN
    BY <1>1, <2>1
  <2>4. Api!Reachability
    BY <1>1, <2>1, <2>2, <2>3, MockIsApi
  <2> QED BY <2>4 DEF Api!Move
<1>8. CASE MockApi!Tick
  <2>1. now' = now + 1 /\ UNCHANGED <<running, unreachable, cached, rainDelayDays, answered>>
    BY <1>8 DEF MockApi!Tick
  <2>2. Ticked(MockPlan, MockPlan')
    BY <1>2, <2>1, MockTicks
  <2>3. Api!Tick \/ UNCHANGED Api!vars
    BY <1>1, <2>1, <2>2, MockIsApi
  <2> QED BY <2>3 DEF Api!Move
<1>9. CASE MockApi!GetRainDelay
  <2>1. UNCHANGED <<running, unreachable, rainDelayDays, now>>
    BY <1>9 DEF MockApi!GetRainDelay
  <2>2. answered' = IF unreachable THEN Api!Unavailable ELSE Api!Answer("delay", TRUE, <<>>, rainDelayDays)
    BY <1>9, AnswersAgree DEF MockApi!GetRainDelay
  <2>3. MockPlan' = MockPlan
    BY <1>2, <2>1
  <2>4. Api!LiveRead \/ Api!CachedRead
    BY <1>1, <2>1, <2>2, <2>3, MockIsApi
  <2> QED BY <2>4 DEF Api!Move
<1> QED BY <1>3, <1>4, <1>5, <1>6, <1>7, <1>8, <1>9 DEF MockApi!Next

-----------------------------------------------------------------------------
(* What the runs check of them, for any instance: of the composition,      *)
(* whichever of its components runs.                                       *)

\* Where the zone gate runs, its steps are the composition's.
LEMMA GateGoes == Spec => []~(part = "zone gate") \/ ([](part = "zone gate") /\ ZoneGate!Spec)
PROOF
<1>1. part = "zone gate" /\ [Next]_vars => (part = "zone gate")' /\ [ZoneGate!Next]_(ZoneGate!vars)
  BY DEF Next, StayUnused, vars, ZoneGate!vars
<1>2. ~(part = "zone gate") /\ [Next]_vars => ~(part = "zone gate")'
  BY DEF Next, StayUnused, vars
<1>3. Init /\ part = "zone gate" => ZoneGate!Init
  BY DEF Init
<1> QED BY <1>1, <1>2, <1>3, PTL DEF Spec, ZoneGate!Spec

\* Where the weather gate runs, its steps are the composition's.
LEMMA SkyGoes == Spec => []~(part = "weather gate") \/ ([](part = "weather gate") /\ WeatherGate!Spec)
PROOF
<1>1. part = "weather gate" /\ [Next]_vars => (part = "weather gate")' /\ [WeatherGate!Next]_(WeatherGate!vars)
  BY DEF Next, StayUnused, vars, WeatherGate!vars
<1>2. ~(part = "weather gate") /\ [Next]_vars => ~(part = "weather gate")'
  BY DEF Next, StayUnused, vars
<1>3. Init /\ part = "weather gate" => WeatherGate!Init
  BY DEF Init
<1> QED BY <1>1, <1>2, <1>3, PTL DEF Spec, WeatherGate!Spec

\* Where the controller's service runs, its steps are the composition's.
LEMMA ControllerGoes == Spec => []~(part = "controller") \/ ([](part = "controller") /\ Controller!Spec)
PROOF
<1>1. part = "controller" /\ [Next]_vars => (part = "controller")' /\ [Controller!Next]_(Controller!vars)
  BY DEF Next, StayUnused, vars, Controller!vars
<1>2. ~(part = "controller") /\ [Next]_vars => ~(part = "controller")'
  BY DEF Next, StayUnused, vars
<1>3. Init /\ part = "controller" => Controller!Init
  BY DEF Init
<1> QED BY <1>1, <1>2, <1>3, PTL DEF Spec, Controller!Spec

\* No zone starts that has been disabled for longer than the snapshot lives and a
\* fetch may take (ZoneEnablement.is_enabled, zone_config.py), whichever request
\* fetched the snapshot, however many fetches have failed, for any zones, requests
\* and times.
THEOREM DisabledBitesHolds == Spec => []DisabledBites
PROOF
<1>1. ZoneGate!Spec => []ZoneGate!DisabledBites
  BY DisabledZonesStayOff, GateParts
<1>2. ~(part = "zone gate") \/ ZoneGate!DisabledBites => DisabledBites
  BY DEF DisabledBites
<1> QED BY <1>1, <1>2, GateGoes, PTL

\* What the forecast predicts for an occurrence (forecast.py) is what the run of that
\* occurrence decides (weather.py), when it comes to fetch the weather and the settings
\* have not changed, for any places, skies, limits and windows.
THEOREM PredictionComesTrueHolds == Spec => []PredictionComesTrue
PROOF
<1>1. WeatherGate!Spec => []WeatherGate!PredictionComesTrue
  BY PredictionsComeTrue, SkyParts
<1>2. ~(part = "weather gate") \/ WeatherGate!PredictionComesTrue => PredictionComesTrue
  BY DEF PredictionComesTrue
<1> QED BY <1>1, <1>2, SkyGoes, PTL

\* A zone that the service has started counts down as the controller does, from the
\* start to the end, through the lag and through other requests' polls
\* (RainBirdService._prune_stale_run, rainbird.py), for any zones, requests, durations,
\* lag shorter than the grace, and slack.
THEOREM CountdownIsTrueHolds == Spec => []CountdownIsTrue
PROOF
<1>1. Controller!Spec => []Controller!CountdownIsTrue
  BY CountsDown, ControllerParts
<1>2. ~(part = "controller") \/ Controller!CountdownIsTrue => CountdownIsTrue
  BY DEF CountdownIsTrue
<1> QED BY <1>1, <1>2, ControllerGoes, PTL

-----------------------------------------------------------------------------
(* Either of them, against the API.                                        *)

ApiInd == (Stub => StubInd) /\ (Mock => MockInd)

\* Both start as the API does.
LEMMA ApiStarts == Init => ApiInd /\ Api!Init
PROOF
<1> SUFFICES ASSUME Init PROVE ApiInd /\ Api!Init
  OBVIOUS
<1>1. ~(Stub /\ Mock) /\ StubExecutor!Unavailable = Api!Unavailable
  BY AnswersAgree DEF Stub, Mock
<1>2. ASSUME Stub PROVE ApiInd /\ Api!Init
  <2>1. StubExecutor!Init
    BY <1>2 DEF Init, Stub
  <2>2. StubInd
    <3>1. /\ endsAt = StubExecutor!AllOff /\ programRun = <<>> /\ startedAt = 0 /\ now = 0 /\ reachable = TRUE
      BY <2>1 DEF StubExecutor!Init, StubExecutor!NoRun
    <3>2. endsAt \in [Zones -> Int] /\ programRun \in Seq(StubExecutor!Steps) /\ startedAt \in Nat /\ now \in Nat
          /\ startedAt <= now /\ reachable \in BOOLEAN
      BY <3>1 DEF StubExecutor!AllOff
    <3>3. \A y \in Zones : endsAt[y] = -1
      BY <3>1 DEF StubExecutor!AllOff
    <3> QED BY <3>1, <3>2, <3>3 DEF StubInd, StubTypes, OneWaters
  <2>3. StubPlan = <<>>
    <3>1. StubRun = <<>> /\ endsAt = StubExecutor!AllOff /\ now \in Nat
      BY <2>1, NothingLeft DEF StubExecutor!Init, StubExecutor!NoRun, StubRun
    <3>2. StubPlan = WateringAt(<<>>, StubExecutor!AllOff, now)
      BY <3>1, StubReads DEF StubPlan
    <3> QED BY <3>1, <3>2, NoneActive DEF WateringAt
  <2>4. reachable = TRUE /\ rainDelay = 0 /\ answered = StubExecutor!Unavailable
    BY <2>1 DEF StubExecutor!Init
  <2>5. Len(StubPlan) <= 1
    BY <2>3
  <2> QED BY <1>1, <1>2, <2>2, <2>4, <2>5 DEF ApiInd, Api!Init, StubPlan
<1>3. ASSUME Mock PROVE ApiInd /\ Api!Init
  <2>1. MockApi!Init
    BY <1>3 DEF Init, Mock
  <2>2. MockInd
    BY <2>1 DEF MockApi!Init, MockInd
  <2>3. MockPlan = PlanOf(running, now)
    BY <2>2, MockReads
  <2>4. Len(MockPlan) <= 1
    BY <2>3 DEF PlanOf
  <2>5. ~unreachable /\ rainDelayDays = 0 /\ cached = <<>> /\ answered = MockApi!Unavailable
    BY <2>1 DEF MockApi!Init
  <2>6. MockApi!Unavailable = Api!Unavailable
    BY AnswersAgree
  <2> QED BY <1>1, <1>3, <2>2, <2>4, <2>5, <2>6 DEF ApiInd, Api!Init, MockPlan
<1>4. ASSUME ~Stub, ~Mock PROVE ApiInd /\ Api!Init
  <2>1. Len(<<>>) <= 1
    OBVIOUS
  <2> QED BY <1>1, <1>4, <2>1 DEF ApiInd, Api!Init
<1> QED BY <1>2, <1>3, <1>4

\* Where one of them runs, its steps are the composition's.
LEMMA ExecutorsGo ==
  ASSUME [Next]_vars
  PROVE  /\ Stub => ~Mock /\ ~Mock' /\ Stub' /\ [StubExecutor!Next]_(StubExecutor!vars)
         /\ Mock => ~Stub /\ ~Stub' /\ Mock' /\ [MockApi!Next]_(MockApi!vars)
         /\ ~Stub => ~Stub'
         /\ ~Mock => ~Mock'
PROOF
<1>1. part' = part
  BY DEF Next, StayUnused, vars
<1>2. part = "stub executor" => [StubExecutor!Next]_(StubExecutor!vars)
  BY DEF Next, vars, StubExecutor!vars
<1>3. part = "mock api" => [MockApi!Next]_(MockApi!vars)
  BY DEF Next, vars, MockApi!vars
<1> QED BY <1>1, <1>2, <1>3 DEF Stub, Mock

\* Whichever runs, every step is the API's, or none.
LEMMA ApiSteps == ASSUME ApiInd, [Next]_vars PROVE ApiInd' /\ [(Mock => Api!Next) /\ (Stub => Api!NextUncached)]_(Api!vars)
PROOF
<1>1. ASSUME Stub PROVE ApiInd' /\ [(Mock => Api!Next) /\ (Stub => Api!NextUncached)]_(Api!vars)
  <2>1. StubInd /\ ~Mock /\ ~Mock' /\ Stub' /\ [StubExecutor!Next]_(StubExecutor!vars)
    BY <1>1, ExecutorsGo DEF ApiInd
  <2>2. StubExecutor!StubAssumption
    BY StubParts
  <2>3. StubInd'
    BY <2>1, <2>2, StubInvariantStep
  <2> SUFFICES Api!NextUncached \/ UNCHANGED Api!vars
    BY <2>1, <2>3 DEF ApiInd
  <2>4. CASE StubExecutor!Next
    BY <1>1, <2>1, <2>2, <2>4, StubImplements
  <2>5. CASE UNCHANGED StubExecutor!vars
    <3>1. UNCHANGED <<endsAt, programRun, startedAt, reachable, rainDelay, now, answered>>
      BY <2>5 DEF StubExecutor!vars
    <3>2. StubExecutor!Ends' = StubExecutor!Ends
      BY <3>1 DEF StubExecutor!Ends
    <3>3. StubRun' = StubRun
      BY <3>1, <3>2 DEF StubRun
    <3>4. StubPlan' = StubPlan
      BY <3>1, <3>3, StubReads DEF StubPlan
    <3>5. reachable \in BOOLEAN
      BY <2>1 DEF StubInd, StubTypes
    <3> QED BY <1>1, <2>1, <3>1, <3>4, <3>5, StubIsApi
  <2> QED BY <2>1, <2>4, <2>5
<1>2. ASSUME Mock PROVE ApiInd' /\ [(Mock => Api!Next) /\ (Stub => Api!NextUncached)]_(Api!vars)
  <2>1. MockInd /\ ~Stub /\ ~Stub' /\ Mock' /\ [MockApi!Next]_(MockApi!vars)
    BY <1>2, ExecutorsGo DEF ApiInd
  <2>2. MockApi!MockAssumption
    BY StubParts
  <2>3. MockInd'
    BY <2>1, <2>2, MockInvariantStep
  <2> SUFFICES Api!Next \/ UNCHANGED Api!vars
    BY <2>1, <2>3 DEF ApiInd
  <2>4. CASE MockApi!Next
    BY <1>2, <2>1, <2>2, <2>4, MockImplements
  <2>5. CASE UNCHANGED MockApi!vars
    <3>1. UNCHANGED <<running, unreachable, cached, rainDelayDays, now, answered>>
      BY <2>5 DEF MockApi!vars
    <3>2. MockPlan' = MockPlan
      BY <2>1, <2>3, <3>1, MockReads
    <3> QED BY <1>2, <2>1, <3>1, <3>2 DEF Api!vars, MockPlan
  <2> QED BY <2>1, <2>4, <2>5
<1>3. ASSUME ~Stub, ~Mock PROVE ApiInd' /\ [(Mock => Api!Next) /\ (Stub => Api!NextUncached)]_(Api!vars)
  <2>1. ~Stub' /\ ~Mock'
    BY <1>3, ExecutorsGo
  <2> QED BY <1>3, <2>1 DEF ApiInd
<1> QED BY <1>1, <1>2, <1>3

\* The mock of the legacy app (mock.ts) does nothing that the API it stands in for does
\* not: one zone waters at a time, an unreachable executor takes no command and tells no
\* rain delay, and its status is that of the moment it was lost.  The stub of the
\* end-to-end tests (stub-executor.mjs), which works out what waters from the clock
\* whenever it is asked, does what the API does but for those two answers: a manual
\* start ends a program run, the steps of a run follow each other without a gap or an
\* overlap, and an unreachable status says that it is.  For any zones, durations and runs.
THEOREM ImplementsApiHolds == Spec => ImplementsApi
PROOF
<1>1. Init => ApiInd /\ Api!Init
  BY ApiStarts
<1>2. ApiInd /\ [Next]_vars => ApiInd' /\ [(Mock => Api!Next) /\ (Stub => Api!NextUncached)]_(Api!vars)
  BY ApiSteps
<1> QED BY <1>1, <1>2, PTL DEF Spec, ImplementsApi
==============================================================================
