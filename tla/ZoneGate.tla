------------------------------- MODULE ZoneGate -------------------------------
(***************************************************************************)
(* The executor's view of which zones are enabled (zone_config.py): a      *)
(* snapshot of the web app's table that is fetched again, by one request   *)
(* at a time, when it is older than its time to live.  A start needs a     *)
(* fresh one; a status takes what there is.                                *)
(***************************************************************************)
EXTENDS Naturals, FiniteSets

CONSTANTS Zones, None,
          Clients,   \* requests under way at once
          Ttl,       \* CACHE_TTL_SECONDS
          Timeout    \* of a fetch: the pool's and the query's DB_TIMEOUT_SECONDS
ZoneGateAssumption == None \notin Zones /\ {Ttl, Timeout} \subseteq Nat

VARIABLES enabled,   \* the table: the zones that are enabled
          offFor,    \* how long each zone has been disabled, capped
          snapshot,  \* the zones enabled in it; <<>>: never fetched
          age,       \* of the snapshot's stamp, capped
          clients,   \* each request: op, zone, progress, what its fetch has read and how long it takes
          holder     \* of _refresh_lock
vars == <<enabled, offFor, snapshot, age, clients, holder>>

Idle == [op |-> "none", zone |-> None, pc |-> "idle", read |-> <<>>, took |-> 0, off |-> 0]
Init ==
  /\ enabled \in SUBSET Zones /\ offFor = [z \in Zones |-> IF z \in enabled THEN 0 ELSE Ttl + Timeout + 1]
  /\ snapshot = <<>> /\ age = 0 /\ clients = [c \in Clients |-> Idle] /\ holder = None

-----------------------------------------------------------------------------
(* The web app, and time.                                                  *)

Toggle(z) ==
  /\ enabled' = IF z \in enabled THEN enabled \ {z} ELSE enabled \cup {z}
  /\ offFor' = [offFor EXCEPT ![z] = 0]
  /\ UNCHANGED <<snapshot, age, clients, holder>>
\* A fetch never takes longer than its timeouts.
Tick ==
  /\ \A c \in Clients : clients[c].pc = "fetching" => clients[c].took < Timeout
  /\ offFor' = [z \in Zones |-> IF z \in enabled \/ offFor[z] > Ttl + Timeout THEN offFor[z] ELSE offFor[z] + 1]
  /\ age' = IF age > Ttl THEN age ELSE age + 1
  /\ clients' = [c \in Clients |-> IF clients[c].pc = "fetching" THEN [clients[c] EXCEPT !.took = @ + 1] ELSE clients[c]]
  /\ UNCHANGED <<enabled, snapshot, holder>>

-----------------------------------------------------------------------------
(* ZoneEnablement.                                                         *)

Fresh == snapshot # <<>> /\ age <= Ttl
\* is_enabled over a fresh snapshot: a start goes on or is refused.  A status ends.
Answered(c, snap) ==
  LET q == clients[c]
  IN IF q.op = "start" /\ q.zone \in snap[1] THEN [q EXCEPT !.pc = "granted", !.read = <<>>, !.took = 0, !.off = offFor[q.zone]] ELSE Idle
Begin(c, op, z) ==
  /\ clients[c] = Idle
  /\ clients' = [clients EXCEPT ![c] = [Idle EXCEPT !.op = op, !.zone = z, !.pc = "checking"]]
  /\ UNCHANGED <<enabled, offFor, snapshot, age, holder>>
FoundFresh(c) ==
  /\ clients[c].pc \in {"checking", "waiting"} /\ (clients[c].pc = "waiting" => holder = None) /\ Fresh
  /\ clients' = [clients EXCEPT ![c] = Answered(c, snapshot)]
  /\ UNCHANGED <<enabled, offFor, snapshot, age, holder>>
FoundStale(c) ==
  /\ clients[c].pc = "checking" /\ ~Fresh
  /\ clients' = [clients EXCEPT ![c].pc = "waiting"]
  /\ UNCHANGED <<enabled, offFor, snapshot, age, holder>>
\* Another request may have fetched while this one waited for the lock.
Fetch(c) ==
  /\ clients[c].pc = "waiting" /\ holder = None /\ ~Fresh
  /\ holder' = c /\ clients' = [clients EXCEPT ![c].pc = "fetching"]
  /\ UNCHANGED <<enabled, offFor, snapshot, age>>
Select(c) ==
  /\ clients[c].pc = "fetching" /\ clients[c].read = <<>> /\ clients' = [clients EXCEPT ![c].read = <<enabled>>]
  /\ UNCHANGED <<enabled, offFor, snapshot, age, holder>>
\* The stamp is of the arrival, not of the reading.
Fetched(c) ==
  /\ clients[c].pc = "fetching" /\ clients[c].read # <<>>
  /\ snapshot' = clients[c].read /\ age' = 0 /\ holder' = None
  /\ clients' = [clients EXCEPT ![c] = Answered(c, clients[c].read)]
  /\ UNCHANGED <<enabled, offFor>>
\* Mutant: a fetch that failed is stamped like one that did not.
StampedAnyway(c) == 0
StampAfterFailure(c) == age
\* A start is refused with 503; a status falls back on the snapshot, of any age.
FetchFails(c) ==
  /\ clients[c].pc = "fetching"
  /\ holder' = None /\ age' = StampAfterFailure(c) /\ clients' = [clients EXCEPT ![c] = Idle]
  /\ UNCHANGED <<enabled, offFor, snapshot>>
\* on_manual_start and the call to the controller.
Water(c) ==
  /\ clients[c].pc = "granted" /\ clients' = [clients EXCEPT ![c] = Idle]
  /\ UNCHANGED <<enabled, offFor, snapshot, age, holder>>

Next ==
  \/ Tick \/ \E z \in Zones : Toggle(z)
  \/ \E c \in Clients : Begin(c, "status", None) \/ \E z \in Zones : Begin(c, "start", z)
  \/ \E c \in Clients : FoundFresh(c) \/ FoundStale(c) \/ Fetch(c) \/ Select(c) \/ Fetched(c) \/ FetchFails(c) \/ Water(c)
Spec == Init /\ [][Next]_vars

-----------------------------------------------------------------------------
\* No start is granted on old configuration: a zone that has been disabled for
\* longer than the snapshot lives and a fetch may take never starts, whoever fetched
\* the snapshot and however many fetches have failed.
DisabledBites == \A c \in Clients : clients[c].pc = "granted" => clients[c].off <= Ttl + Timeout
==============================================================================
